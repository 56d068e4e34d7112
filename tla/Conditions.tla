----------------------------- MODULE Conditions -----------------------------
(***************************************************************************)
(* What a control's criteria make of the rows of its procedure: conditions *)
(* (validateConditionSyntax, evaluateCondition), the status of a procedure *)
(* (applyProcedureRows) and of a control (ExecuteControl), all in          *)
(* pkg/controlset/executor.go.                                             *)
(*                                                                         *)
(* A condition is a disjunction of conjunctions of atoms.  What an atom    *)
(* compares is left out: a row is the set of the atoms that hold of it,    *)
(* "malformed" stands for any text the evaluator cannot read, and the two  *)
(* row_count atoms are those the packs use.  A label is a condition that   *)
(* is one word and matches every row.                                      *)
(***************************************************************************)
EXTENDS Integers, Sequences, FiniteSets, FiniteSetsExt

CONSTANTS
    Columns,         \* atoms that compare a column
    Equated          \* those of them with an =; the others have IN or CONTAINS

RowCounts  == {"row_count = 0", "row_count > 0"}
Atoms      == Columns \cup RowCounts \cup {"malformed"}
Labels     == {"review_required", "license_required", "informational"}
Statuses   == {"PASS", "FAIL", "REVIEW", "LICENSE", "INFO", "ERROR"}

\* A list of whatever it holds.
IsList(s) == s \in Seq({s[i] : i \in DOMAIN s})

\* [label] or [anyOf], the latter a sequence of sequences of atoms.
IsLabel(c)         == "label" \in DOMAIN c
Label(l)           == [label |-> l]
Condition(anyOf)   == [anyOf |-> anyOf]
Single(atom)       == Condition(<<<<atom>>>>)
AtomsOf(c)         == IF IsLabel(c) THEN {}
                      ELSE UNION {{c.anyOf[i][j] : j \in DOMAIN c.anyOf[i]} : i \in DOMAIN c.anyOf}
IsCriterion(c)     == IF IsLabel(c) THEN c.label \in Labels
                      ELSE IsList(c.anyOf) /\ \A i \in DOMAIN c.anyOf : IsList(c.anyOf[i])
CountsRows(c)      == AtomsOf(c) \cap RowCounts # {}

\* Mutant: only the first part of an OR is looked at.
ValidSyntaxFirst(c) ==
    IsLabel(c) \/ "malformed" \notin {c.anyOf[1][j] : j \in DOMAIN c.anyOf[1]}

\* validateConditionSyntax; it accepts a row_count atom anywhere.
ValidSyntax(c) == "malformed" \notin AtomsOf(c)

-----------------------------------------------------------------------------
(* evaluateCondition: "match", "no" or "error", left to right, and nothing *)
(* behind the part that decides is looked at.                              *)

FirstThat(seq, Test(_)) == Min({i \in DOMAIN seq : Test(seq[i])})
Some(seq, Test(_))      == \E i \in DOMAIN seq : Test(seq[i])

AtomResult(atom, row) ==
    IF atom = "malformed" THEN "error" ELSE IF atom \in row THEN "match" ELSE "no"

AllResult(atoms, row) ==
    LET Decides(a) == AtomResult(a, row) # "match" IN
    IF Some(atoms, Decides) THEN AtomResult(atoms[FirstThat(atoms, Decides)], row) ELSE "match"

AnyResult(parts, row) ==
    LET Decides(p) == AllResult(p, row) # "no" IN
    IF Some(parts, Decides) THEN AllResult(parts[FirstThat(parts, Decides)], row) ELSE "no"

Evaluate(c, row) == IF IsLabel(c) THEN "match" ELSE AnyResult(c.anyOf, row)

\* evaluateRowCountCondition knows no AND and no OR.  It takes the first operator
\* of its list (of which = and > stand for all) that is in the text: if that is
\* there once, behind a row_count that begins the text, it decides by the number
\* that follows, whatever comes after; otherwise the condition is not met.
OperatorOf(atom) ==
    CASE atom \in Equated \cup {"row_count = 0"} -> "="
      [] atom = "row_count > 0"                   -> ">"
      [] OTHER                                    -> "none"

Places(c, op) ==
    {p \in UNION {{i} \X DOMAIN c.anyOf[i] : i \in DOMAIN c.anyOf} :
        OperatorOf(c.anyOf[p[1]][p[2]]) = op}

RowCountMet(c, n) ==
    LET op == IF Places(c, "=") # {} THEN "=" ELSE ">" IN
    /\ Places(c, op) = {<<1, 1>>} /\ c.anyOf[1][1] \in RowCounts
    /\ IF op = "=" THEN n = 0 ELSE n > 0

-----------------------------------------------------------------------------
(* The status of a procedure.                                              *)

LabelStatus(c) ==
    IF ~IsLabel(c) THEN "FAIL"
    ELSE CASE c.label = "review_required"  -> "REVIEW"
           [] c.label = "license_required" -> "LICENSE"
           [] c.label = "informational"    -> "INFO"

\* One row_count criterion makes the others of the procedure idle.
RowCountStatus(criteria, n) ==
    IF \A i \in DOMAIN criteria : CountsRows(criteria[i]) => RowCountMet(criteria[i], n)
    THEN "PASS" ELSE "FAIL"

\* Every row against every criterion, row by row: the first that cannot be
\* evaluated ends it, otherwise the last match decides.
MatchStatus(criteria, rows) ==
    LET width    == Len(criteria)
        Pair(k)  == [row |-> rows[1 + ((k - 1) \div width)], c |-> criteria[1 + ((k - 1) % width)]]
        Of(k)    == Evaluate(Pair(k).c, Pair(k).row)
        pairs    == 1..(Len(rows) * width)
        matched  == {k \in pairs : Of(k) = "match"}
    IN IF \E k \in pairs : Of(k) = "error" THEN "ERROR"
       ELSE IF matched = {} THEN "PASS" ELSE LabelStatus(Pair(Max(matched)).c)

\* applyProcedureRows; without criteria the rows are only collected.
ProcedureStatus(criteria, rows) ==
    IF criteria = <<>> THEN "PASS"
    ELSE IF \E i \in DOMAIN criteria : CountsRows(criteria[i])
         THEN RowCountStatus(criteria, Len(rows))
         ELSE MatchStatus(criteria, rows)

-----------------------------------------------------------------------------
(* The status of a control, from that of its procedures one after another. *)

\* Mutant: only a control that passed so far can fail.
WorsenedFromPass(status, next) == IF status = "PASS" THEN next ELSE status

Worsened(status, next) ==
    IF next = "ERROR" THEN "ERROR"
    ELSE IF next = "FAIL" /\ status # "ERROR" THEN "FAIL"
    ELSE IF status = "PASS" THEN next
    ELSE status
=============================================================================
