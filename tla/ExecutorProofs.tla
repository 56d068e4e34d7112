--------------------------- MODULE ExecutorProofs ---------------------------
(***************************************************************************)
(* Control packs in execution, for any packs, entitlements, bounds and     *)
(* rows: only cleared packs are executed, the status of a control is that  *)
(* of its procedures, no verdict covers a part of the targets only, and    *)
(* what a validated pack asks of columns is evaluated as it is written.    *)
(*                                                                         *)
(* For the first three it does not matter what an outcome's status is, so  *)
(* lists of outcomes are sequences of whatever they hold (IsList).         *)
(***************************************************************************)
EXTENDS Executor, SequenceTheorems, WellFoundedInduction, TLAPS

LEMMA AppendIsList ==
    ASSUME NEW s, NEW x, IsList(s)
    PROVE  /\ IsList(Append(s, x)) /\ Len(s) \in Nat /\ DOMAIN s = 1..Len(s)
           /\ Len(Append(s, x)) = Len(s) + 1
           /\ DOMAIN Append(s, x) = 1..Len(s) + 1
           /\ \A i \in 1..Len(s) : Append(s, x)[i] = s[i]
           /\ Append(s, x)[Len(s) + 1] = x
<1> DEFINE A == {s[i] : i \in DOMAIN s}
           B == A \cup {x}
<1>1. s \in Seq(B) /\ x \in B
  BY SeqMonotonic, A \subseteq B DEF IsList
<1>2. /\ Append(s, x) \in Seq(B)
      /\ DOMAIN Append(s, x) = 1..Len(s) + 1 /\ DOMAIN s = 1..Len(s)
      /\ Len(s) \in Nat /\ Len(Append(s, x)) = Len(s) + 1
      /\ \A i \in 1..Len(s) : Append(s, x)[i] = s[i]
      /\ Append(s, x)[Len(s) + 1] = x
  <2> HIDE DEF B
  <2> QED BY <1>1
<1>3. IsList(Append(s, x))
  <2> DEFINE t == Append(s, x)
             C == {t[i] : i \in DOMAIN t}
  <2>1. t \in [1..Len(t) -> C]
    <3> HIDE DEF t
    <3>1. t \in Seq(B)
      BY <1>2 DEF t
    <3>2. DOMAIN t = 1..Len(t) /\ t = [i \in 1..Len(t) |-> t[i]]
      <4> HIDE DEF B, C
      <4> QED BY <3>1
    <3> QED BY <3>2
  <2>2. Len(t) \in Nat
    BY <1>2
  <2> HIDE DEF t, C
  <2>3. t \in Seq(C)
    BY <2>1, <2>2
  <2> QED BY <2>3 DEF IsList, t, C
<1> QED
  BY <1>2, <1>3

LEMMA EmptyIsList == IsList(<<>>) /\ Len(<<>>) = 0 /\ DOMAIN <<>> = {}
<1>1. <<>> \in Seq({<<>>[i] : i \in DOMAIN <<>>}) /\ Len(<<>>) = 0 /\ DOMAIN <<>> = {}
  BY EmptySeq
<1> QED
  BY <1>1 DEF IsList

LEMMA ListDomain ==
    ASSUME NEW s, IsList(s)
    PROVE  Len(s) \in Nat /\ DOMAIN s = 1..Len(s)
BY AppendIsList

-----------------------------------------------------------------------------
(* Numbers: the least and the greatest of a set.                           *)

LEMMA LeastOf ==
  ASSUME NEW S \in SUBSET Nat, S # {}
  PROVE  Min(S) \in S /\ \A x \in S : Min(S) <= x
<1> DEFINE R == {ss \in Nat \X Nat : ss[1] < ss[2]}
<1>1. IsWellFoundedOn(R, Nat)
  BY NatLessThanWellFounded, Zenon DEF OpToRel
<1> HIDE DEF R
<1>2. \E m \in S : \A x \in S : <<x, m>> \notin R
  BY <1>1, WFMin, Zenon
<1>3. PICK m \in S : \A x \in S : <<x, m>> \notin R
  BY <1>2
<1>4. \A x \in S : ~ (x < m)
  BY <1>3 DEF R
<1>5. \E min \in S : \A x \in S : min <= x
  BY <1>4
<1> QED
  BY <1>5, Zenon DEF Min

LEMMA GreatestOf ==
  ASSUME NEW n \in Nat, NEW S \in SUBSET (1..n), S # {}
  PROVE  Max(S) \in S
<1> DEFINE T == {n - x : x \in S}
<1>1. \A x \in S : x \in Nat /\ n - x \in Nat
  <2> SUFFICES ASSUME NEW x \in S PROVE x \in Nat /\ n - x \in Nat
    OBVIOUS
  <2>1. x \in 1..n
    OBVIOUS
  <2> QED
    BY <2>1
<1>2. T \in SUBSET Nat /\ T # {}
  BY <1>1
<1> HIDE DEF T
<1>3. PICK t \in T : \A y \in T : t <= y
  BY <1>2, LeastOf
<1>4. PICK m \in S : t = n - m
  BY DEF T
<1>5. ASSUME NEW x \in S PROVE m >= x
  <2>1. t <= n - x
    BY <1>3 DEF T
  <2> QED
    BY <2>1, <1>1, <1>4
<1>6. \E max \in S : \A x \in S : max >= x
  BY <1>5
<1> QED
  BY <1>6, Zenon DEF Max

-----------------------------------------------------------------------------
(* Criteria: whatever the rows are, the evaluator reads a condition the    *)
(* validation accepts as what it says.                                     *)

LEMMA AllHolds ==
    ASSUME NEW atoms, DOMAIN atoms \subseteq Nat, NEW row,
           \A j \in DOMAIN atoms : atoms[j] # "malformed"
    PROVE  AllResult(atoms, row) =
              IF \A j \in DOMAIN atoms : atoms[j] \in row THEN "match" ELSE "no"
<1> DEFINE S == {j \in DOMAIN atoms : AtomResult(atoms[j], row) # "match"}
<1>1. AllResult(atoms, row) = IF S # {} THEN AtomResult(atoms[Min(S)], row) ELSE "match"
  BY DEF AllResult, Some, FirstThat
<1>2. S = {j \in DOMAIN atoms : atoms[j] \notin row}
  BY DEF AtomResult
<1>3. CASE S = {}
  BY <1>1, <1>2, <1>3
<1>4. CASE S # {}
  <2>1. Min(S) \in S
    <3>1. S \in SUBSET Nat
      OBVIOUS
    <3> HIDE DEF S
    <3> QED BY <1>4, <3>1, LeastOf
  <2>2. AtomResult(atoms[Min(S)], row) = "no"
    BY <1>2, <2>1 DEF AtomResult
  <2> QED
    BY <1>1, <1>2, <1>4, <2>1, <2>2
<1> QED
  BY <1>3, <1>4

LEMMA AnyHolds ==
    ASSUME NEW parts, DOMAIN parts \subseteq Nat, NEW row,
           \A i \in DOMAIN parts : AllResult(parts[i], row) \in {"match", "no"}
    PROVE  AnyResult(parts, row) =
              IF \E i \in DOMAIN parts : AllResult(parts[i], row) = "match" THEN "match" ELSE "no"
<1> DEFINE S == {i \in DOMAIN parts : AllResult(parts[i], row) # "no"}
<1>1. AnyResult(parts, row) = IF S # {} THEN AllResult(parts[Min(S)], row) ELSE "no"
  BY DEF AnyResult, Some, FirstThat
<1>2. S = {i \in DOMAIN parts : AllResult(parts[i], row) = "match"}
  OBVIOUS
<1>3. CASE S = {}
  BY <1>1, <1>2, <1>3
<1>4. CASE S # {}
  <2>1. Min(S) \in S
    <3>1. S \in SUBSET Nat
      OBVIOUS
    <3> HIDE DEF S
    <3> QED BY <1>4, <3>1, LeastOf
  <2> QED
    BY <1>1, <1>2, <1>4, <2>1
<1> QED
  BY <1>3, <1>4

LEMMA EvaluateHolds ==
    ASSUME NEW c, IsCriterion(c), ValidSyntax(c), NEW row
    PROVE  Evaluate(c, row) = IF Holds(c, row) THEN "match" ELSE "no"
<1>1. CASE IsLabel(c)
  BY <1>1 DEF Evaluate, Holds
<1>2. CASE ~IsLabel(c)
  <2> DEFINE parts == c.anyOf
  <2>1. IsList(parts) /\ \A i \in DOMAIN parts : IsList(parts[i])
    BY <1>2 DEF IsCriterion
  <2>2. \A i \in DOMAIN parts : \A j \in DOMAIN parts[i] : parts[i][j] # "malformed"
    <3> SUFFICES ASSUME NEW i \in DOMAIN parts, NEW j \in DOMAIN parts[i]
                 PROVE  parts[i][j] \in AtomsOf(c)
      BY DEF ValidSyntax
    <3>1. parts[i][j] \in {parts[i][k] : k \in DOMAIN parts[i]}
      OBVIOUS
    <3> QED
      BY <1>2, <3>1 DEF AtomsOf
  <2>3. Evaluate(c, row) = AnyResult(parts, row)
    BY <1>2 DEF Evaluate
  <2>4. Holds(c, row) = \E i \in DOMAIN parts : \A j \in DOMAIN parts[i] : parts[i][j] \in row
    BY <1>2 DEF Holds
  <2> HIDE DEF parts
  <2>5. \A i \in DOMAIN parts :
           AllResult(parts[i], row) =
              IF \A j \in DOMAIN parts[i] : parts[i][j] \in row THEN "match" ELSE "no"
    <3> SUFFICES ASSUME NEW i \in DOMAIN parts
                 PROVE  AllResult(parts[i], row) =
                           IF \A j \in DOMAIN parts[i] : parts[i][j] \in row THEN "match" ELSE "no"
      OBVIOUS
    <3>1. DOMAIN parts[i] \subseteq Nat
      BY <2>1, ListDomain
    <3> QED
      BY <2>2, <3>1, AllHolds
  <2>6. DOMAIN parts \subseteq Nat
    BY <2>1, ListDomain
  <2>7. \A i \in DOMAIN parts : AllResult(parts[i], row) \in {"match", "no"}
    BY <2>5
  <2>8. AnyResult(parts, row) =
           IF \E i \in DOMAIN parts : AllResult(parts[i], row) = "match" THEN "match" ELSE "no"
    BY <2>6, <2>7, AnyHolds
  <2> QED
    BY <2>3, <2>4, <2>5, <2>8
<1> QED
  BY <1>1, <1>2

LEMMA Pairs ==
    ASSUME NEW w \in Nat \ {0}, NEW n \in Nat, NEW k \in 1..(n * w)
    PROVE  /\ 1 + ((k - 1) % w) \in 1..w
           /\ 1 + ((k - 1) \div w) \in 1..n
<1>1. k - 1 \in Nat /\ k - 1 < n * w
  OBVIOUS
<1>2. (k - 1) % w \in 0..(w - 1)
  BY <1>1
<1>3. (k - 1) \div w \in 0..(n - 1)
  BY <1>1
<1> QED
  BY <1>2, <1>3

AllCriteria(criteria) == IsList(criteria) /\ \A k \in DOMAIN criteria : IsCriterion(criteria[k])
AllValid(criteria)    == \A k \in DOMAIN criteria : ValidSyntax(criteria[k])

LEMMA MatchMisread ==
    ASSUME NEW criteria, AllCriteria(criteria), criteria # <<>>, AllValid(criteria),
           NEW rows, Len(rows) \in Nat
    PROVE  MatchStatus(criteria, rows) # "ERROR"
<1> DEFINE width   == Len(criteria)
           Row(k)  == rows[1 + ((k - 1) \div width)]
           Crit(k) == criteria[1 + ((k - 1) % width)]
           pairs   == 1..(Len(rows) * width)
           matched == {k \in pairs : Evaluate(Crit(k), Row(k)) = "match"}
<1>1. width \in Nat \ {0} /\ DOMAIN criteria = 1..width
  <2>1. width \in Nat /\ DOMAIN criteria = 1..width
    BY ListDomain DEF AllCriteria
  <2>2. width # 0
    BY DEF AllCriteria, IsList
  <2> QED
    BY <2>1, <2>2
<1>2. ASSUME NEW k \in pairs PROVE IsCriterion(Crit(k)) /\ ValidSyntax(Crit(k))
  <2>1. 1 + ((k - 1) % width) \in DOMAIN criteria
    BY <1>1, Pairs
  <2> QED
    BY <2>1 DEF AllCriteria, AllValid
<1>3. ASSUME NEW k \in pairs PROVE Evaluate(Crit(k), Row(k)) # "error"
  <2>1. IsCriterion(Crit(k)) /\ ValidSyntax(Crit(k))
    BY <1>2
  <2> HIDE DEF Crit, Row
  <2> QED
    BY <2>1, EvaluateHolds
<1>4. ASSUME matched # {} PROVE LabelStatus(Crit(Max(matched))) # "ERROR"
  <2>1. Len(rows) * width \in Nat /\ matched \in SUBSET (1..(Len(rows) * width))
    BY <1>1
  <2>2. Max(matched) \in matched
    <3> HIDE DEF matched
    <3> QED BY <1>4, <2>1, GreatestOf
  <2>3. IsCriterion(Crit(Max(matched)))
    BY <1>2, <2>2
  <2> DEFINE c == Crit(Max(matched))
  <2> HIDE DEF Crit, matched, c
  <2>4. IsCriterion(c) => LabelStatus(c) # "ERROR"
    BY DEF IsCriterion, LabelStatus, Labels
  <2> QED
    BY <2>3, <2>4 DEF c
<1>5. MatchStatus(criteria, rows) =
         IF \E k \in pairs : Evaluate(Crit(k), Row(k)) = "error" THEN "ERROR"
         ELSE IF matched = {} THEN "PASS" ELSE LabelStatus(Crit(Max(matched)))
  BY DEF MatchStatus
<1> HIDE DEF pairs, matched, Crit, Row
<1> QED
  BY <1>3, <1>4, <1>5

\* A procedure whose criteria are valid never ends in a criterion that cannot
\* be evaluated.
LEMMA ProcedureMisread ==
    ASSUME NEW criteria, AllCriteria(criteria), AllValid(criteria),
           NEW rows, Len(rows) \in Nat
    PROVE  ProcedureStatus(criteria, rows) # "ERROR"
<1>1. RowCountStatus(criteria, Len(rows)) # "ERROR"
  BY DEF RowCountStatus
<1> QED
  BY <1>1, MatchMisread DEF ProcedureStatus

-----------------------------------------------------------------------------
(* The status of a control.                                                *)

Has(ps, st) == \E j \in DOMAIN ps : ps[j].status = st

\* What the status of a control says about its procedures so far; the last part
\* names the first that is not PASS.
StatusOf(ps, st) ==
    \/ Has(ps, "ERROR") /\ st = "ERROR"
    \/ ~Has(ps, "ERROR") /\ Has(ps, "FAIL") /\ st = "FAIL"
    \/ (\A j \in DOMAIN ps : ps[j].status = "PASS") /\ st = "PASS"
    \/ /\ ~Has(ps, "ERROR") /\ ~Has(ps, "FAIL")
       /\ \E m \in DOMAIN ps :
             /\ ps[m].status # "PASS" /\ st = ps[m].status
             /\ \A j \in DOMAIN ps : j < m => ps[j].status = "PASS"

LEMMA StatusGrows ==
    ASSUME NEW ps, NEW st, NEW x, IsList(ps), StatusOf(ps, st)
    PROVE  StatusOf(Append(ps, x), Worsened(st, x.status))
<1> DEFINE qs == Append(ps, x)
           n  == Len(ps)
<1>1. /\ n \in Nat /\ DOMAIN ps = 1..n /\ DOMAIN qs = 1..n + 1
      /\ \A i \in 1..n : qs[i] = ps[i]
      /\ qs[n + 1] = x
  BY AppendIsList
<1> HIDE DEF qs, n
<1>2. \A v : Has(qs, v) <=> Has(ps, v) \/ x.status = v
  BY <1>1 DEF Has
<1>3. (\A j \in DOMAIN qs : qs[j].status = "PASS")
         <=> (\A j \in DOMAIN ps : ps[j].status = "PASS") /\ x.status = "PASS"
  BY <1>1
<1>4. ASSUME NEW m \in DOMAIN ps, \A j \in DOMAIN ps : j < m => ps[j].status = "PASS"
      PROVE  /\ m \in DOMAIN qs /\ qs[m] = ps[m]
             /\ \A j \in DOMAIN qs : j < m => qs[j].status = "PASS"
  BY <1>1, <1>4
<1>5. CASE Has(ps, "ERROR") /\ st = "ERROR"
  BY <1>2, <1>5 DEF StatusOf, Worsened, qs
<1>6. CASE ~Has(ps, "ERROR") /\ Has(ps, "FAIL") /\ st = "FAIL"
  BY <1>2, <1>6 DEF StatusOf, Worsened, qs
<1>7. CASE (\A j \in DOMAIN ps : ps[j].status = "PASS") /\ st = "PASS"
  <2>1. ~Has(ps, "ERROR") /\ ~Has(ps, "FAIL")
    BY <1>7 DEF Has
  <2>2. Worsened(st, x.status) = x.status
    BY <1>7 DEF Worsened
  <2>3. n + 1 \in DOMAIN qs /\ \A j \in DOMAIN qs : j < n + 1 => qs[j].status = "PASS"
    BY <1>1, <1>7
  <2> QED
    BY <1>1, <1>2, <1>3, <1>7, <2>1, <2>2, <2>3 DEF StatusOf, qs
<1>8. CASE /\ ~Has(ps, "ERROR") /\ ~Has(ps, "FAIL")
           /\ \E m \in DOMAIN ps :
                 /\ ps[m].status # "PASS" /\ st = ps[m].status
                 /\ \A j \in DOMAIN ps : j < m => ps[j].status = "PASS"
  <2>1. PICK m \in DOMAIN ps :
           /\ ps[m].status # "PASS" /\ st = ps[m].status
           /\ \A j \in DOMAIN ps : j < m => ps[j].status = "PASS"
    BY <1>8
  <2>2. st \notin {"PASS", "ERROR", "FAIL"}
    BY <1>8, <2>1 DEF Has
  <2>3. CASE x.status \in {"ERROR", "FAIL"}
    BY <1>2, <1>8, <2>2, <2>3 DEF StatusOf, Worsened, qs
  <2>4. CASE x.status \notin {"ERROR", "FAIL"}
    <3>1. Worsened(st, x.status) = st
      BY <2>2, <2>4 DEF Worsened
    <3>2. ~Has(qs, "ERROR") /\ ~Has(qs, "FAIL")
      BY <1>2, <1>8, <2>4
    <3> QED
      BY <1>4, <2>1, <3>1, <3>2 DEF StatusOf, qs
  <2> QED
    BY <2>3, <2>4
<1> QED
  BY <1>5, <1>6, <1>7, <1>8 DEF StatusOf

\* The verdict on a control with at least one procedure, as the property has it.
LEMMA StatusMeans ==
    ASSUME NEW ps, NEW st, IsList(ps), ps # <<>>, StatusOf(ps, st)
    PROVE  st = IF ps = <<>> \/ Has(ps, "ERROR") THEN "ERROR"
                ELSE IF Has(ps, "FAIL") THEN "FAIL"
                ELSE IF \A j \in DOMAIN ps : ps[j].status = "PASS" THEN "PASS"
                ELSE ps[Min({j \in DOMAIN ps : ps[j].status # "PASS"})].status
<1>1. CASE \A j \in DOMAIN ps : ps[j].status = "PASS"
  <2>1. ~Has(ps, "ERROR") /\ ~Has(ps, "FAIL")
    BY <1>1 DEF Has
  <2> QED
    BY <1>1, <2>1 DEF StatusOf
<1>2. CASE Has(ps, "ERROR") \/ Has(ps, "FAIL")
  <2>1. ~\A j \in DOMAIN ps : ps[j].status = "PASS"
    BY <1>2 DEF Has
  <2> QED
    BY <1>2, <2>1 DEF StatusOf
<1>3. CASE /\ ~\A j \in DOMAIN ps : ps[j].status = "PASS"
           /\ ~Has(ps, "ERROR") /\ ~Has(ps, "FAIL")
  <2>1. PICK m \in DOMAIN ps :
           /\ ps[m].status # "PASS" /\ st = ps[m].status
           /\ \A j \in DOMAIN ps : j < m => ps[j].status = "PASS"
    BY <1>3 DEF StatusOf
  <2> DEFINE S == {j \in DOMAIN ps : ps[j].status # "PASS"}
  <2>2. DOMAIN ps \subseteq Nat
    BY AppendIsList
  <2>3. m \in S /\ (\A j \in S : m <= j) /\ S \subseteq Nat
    BY <2>1, <2>2
  <2> HIDE DEF S
  <2>4. Min(S) = m
    BY <2>3 DEF Min
  <2> QED
    BY <1>3, <2>1, <2>4 DEF S
<1> QED
  BY <1>1, <1>2, <1>3


-----------------------------------------------------------------------------
(* What a step makes of outcomes and results: it forgets them, leaves them *)
(* alone, adds an outcome, or turns the outcomes into a result.            *)

Forgets == results' = <<>> /\ status' = "PASS" /\ done' = <<>>
Keeps   == UNCHANGED <<results, status, done>>

\* A verdict covers every target; an error need not.
Finishes(o) ==
    /\ done' = Append(done, o) /\ status' = Worsened(status, o.status)
    /\ results' = results
    /\ o.status # "ERROR" => o.unasked = 0

LEMMA JudgeFinishes ==
    ASSUME NEW rows, Judge(rows, 0)
    PROVE  \E o : Finishes(o)
<1> DEFINE st == ProcedureStatus(Procedure.criteria, rows)
           o  == Outcome(st, IF st = "ERROR" THEN "criteria" ELSE "none", 0)
<1>1. Complete(o)
  BY DEF Judge
<1>2. o.status = st /\ o.unasked = 0
  <2> HIDE DEF st
  <2> QED BY DEF Outcome
<1> HIDE DEF o
<1>3. Finishes(o)
  BY <1>1, <1>2 DEF Complete, Finishes
<1> QED
  BY <1>3

LEMMA AbortFinishes ==
    ASSUME Abort
    PROVE  \E o : Finishes(o)
<1> DEFINE o == Outcome("ERROR", "procedure", left)
<1>1. o.status = "ERROR" /\ Complete(o)
  BY DEF Abort, Outcome
<1> HIDE DEF o
<1>2. Finishes(o)
  BY <1>1 DEF Complete, Finishes
<1> QED
  BY <1>2

LEMMA TargetDoneFinishes ==
    ASSUME NEW rows, TargetDone(rows)
    PROVE  Keeps \/ \E o : Finishes(o)
<1>1. CASE left = 1
  <2>1. Judge(found \o rows, 0)
    BY <1>1 DEF TargetDone
  <2> QED
    BY <2>1, JudgeFinishes
<1>2. CASE left # 1
  BY <1>2 DEF TargetDone, Keeps
<1> QED
  BY <1>1, <1>2

LEMMA StepKinds ==
    ASSUME [Next]_vars
    PROVE  Forgets \/ Keeps \/ FinishControl \/ \E o : Finishes(o)
<1>1. CASE StartRun \/ Crash
  BY <1>1 DEF StartRun, Crash, Forgets
<1>2. CASE Fetch \/ FinishSet \/ UNCHANGED vars
  BY <1>2 DEF Fetch, FinishSet, vars, exec, Keeps
<1>3. CASE RunQuery
  BY <1>3, AbortFinishes, JudgeFinishes DEF RunQuery
<1>4. CASE RunSourceScan
  BY <1>4, AbortFinishes, JudgeFinishes DEF RunSourceScan
<1>5. CASE PrepareValidation
  <2>1. CASE Abort
    BY <2>1, AbortFinishes
  <2>2. CASE \E n : Prepared(n)
    BY <2>2, JudgeFinishes DEF Prepared, Keeps
  <2> QED
    BY <1>5, <2>1, <2>2 DEF PrepareValidation
<1>6. CASE Refused \/ BudgetSpent \/ RequestFails
  BY <1>6, AbortFinishes DEF Refused, BudgetSpent, RequestFails
<1>7. CASE Answered
  BY <1>7, TargetDoneFinishes DEF Answered, PollAgain, Keeps
<1> QED
  BY <1>1, <1>2, <1>3, <1>4, <1>5, <1>6, <1>7
     DEF Next, Work, ExecuteProcedure, ActiveValidation

-----------------------------------------------------------------------------
(* The way of a pack into execution.                                       *)

InUse == {"cache", "check", "execute", "request"}

\* A pack has the fields of one, and lists of lists of procedures.
Shaped(s) ==
    /\ DOMAIN s = {"tier", "signature", "limits", "altered", "garbled", "controls"}
    /\ IsList(s.controls) /\ \A i \in DOMAIN s.controls : IsList(s.controls[i])

FetchInv ==
    /\ local = Unreadable \/ Shaped(local)
    /\ cache = Unreadable \/ Shaped(cache)
    /\ pc \in InUse => Shaped(set) /\ SignatureAccepted(set, strict)
    /\ Running => EntitlementAllows(set, held # None, held) /\ Compatible(set)

LEMMA FunctionIsList ==
    ASSUME NEW n \in Nat, NEW f, f = [i \in 1..n |-> f[i]]
    PROVE  IsList(f)
<1> DEFINE A == {f[i] : i \in DOMAIN f}
<1>1. DOMAIN f = 1..n
  OBVIOUS
<1>2. f \in [1..n -> A]
  BY <1>1
<1> HIDE DEF A
<1>3. f \in Seq(A)
  BY <1>2
<1> QED
  BY <1>3 DEF IsList, A

LEMMA ConvertedShaped ==
    ASSUME NEW p, Shaped(p)
    PROVE  Shaped(Converted(p))
<1> DEFINE c == p.controls
           w == WithoutCriteria(c)
<1>1. /\ DOMAIN Converted(p) = DOMAIN p
      /\ Converted(p).controls = IF p.garbled THEN w ELSE c
  BY DEF Shaped, Converted
<1>2. /\ IsList(c) /\ \A i \in DOMAIN c : IsList(c[i])
      /\ DOMAIN p = {"tier", "signature", "limits", "altered", "garbled", "controls"}
  BY DEF Shaped
<1> HIDE DEF c
<1>3. Len(c) \in Nat /\ DOMAIN c = 1..Len(c)
  BY <1>2, ListDomain
<1>4. /\ DOMAIN w = 1..Len(c) /\ w = [i \in 1..Len(c) |-> w[i]]
      /\ \A i \in 1..Len(c) :
            w[i] = [j \in DOMAIN c[i] |-> [c[i][j] EXCEPT !.criteria = <<>>]]
  BY <1>3 DEF WithoutCriteria
<1> HIDE DEF w
<1>5. IsList(w)
  BY <1>3, <1>4, FunctionIsList
<1>6. ASSUME NEW i \in DOMAIN w
      PROVE  IsList(w[i])
  <2>1. Len(c[i]) \in Nat /\ DOMAIN c[i] = 1..Len(c[i])
    BY <1>2, <1>3, <1>4, <1>6, ListDomain
  <2>2. w[i] = [j \in 1..Len(c[i]) |-> w[i][j]]
    <3> DEFINE E(j) == [c[i][j] EXCEPT !.criteria = <<>>]
    <3>1. w[i] = [j \in 1..Len(c[i]) |-> E(j)]
      BY <1>4, <2>1
    <3> HIDE DEF E
    <3> QED BY <3>1
  <2> QED
    BY <2>1, <2>2, FunctionIsList
<1> QED
  BY <1>1, <1>2, <1>5, <1>6 DEF Shaped

LEMMA CutShaped ==
    ASSUME NEW s, Shaped(s)
    PROVE  Cut(s) = Unreadable \/ Shaped(Cut(s))
<1> DEFINE c == s.controls
           d == SubSeq(c, 1, Len(c) - 1)
<1>1. CASE Len(c) < 2
  BY <1>1 DEF Cut
<1>2. CASE ~(Len(c) < 2)
  <2>1. Cut(s) = [s EXCEPT !.altered = TRUE, !.controls = d]
    BY <1>2 DEF Cut
  <2>2. DOMAIN Cut(s) = DOMAIN s /\ Cut(s).controls = d
    <3> HIDE DEF d
    <3> QED BY <2>1 DEF Shaped
  <2>3. /\ IsList(c) /\ \A i \in DOMAIN c : IsList(c[i])
        /\ DOMAIN s = {"tier", "signature", "limits", "altered", "garbled", "controls"}
    BY DEF Shaped
  <2> HIDE DEF c
  <2>4. Len(c) \in Nat /\ DOMAIN c = 1..Len(c)
    BY <2>3, ListDomain
  <2>5. /\ d = [i \in 1..(Len(c) - 1) |-> d[i]]
        /\ DOMAIN d = 1..(Len(c) - 1) /\ \A i \in DOMAIN d : d[i] = c[i] /\ i \in DOMAIN c
    <3> DEFINE A == {c[i] : i \in DOMAIN c}
    <3>1. c \in Seq(A)
      BY <2>3 DEF IsList
    <3> HIDE DEF A
    <3> QED BY <1>2, <2>4, <3>1
  <2> HIDE DEF d
  <2>6. IsList(d)
    BY <1>2, <2>4, <2>5, FunctionIsList
  <2> QED
    BY <2>2, <2>3, <2>5, <2>6 DEF Shaped
<1> QED
  BY <1>1, <1>2

LEMMA PacksAreShaped == \A p \in Packs : Shaped(p)
BY PackAssumption DEF IsPack, Shaped

LEMMA FetchStep ==
    ASSUME FetchInv, [Next]_vars
    PROVE  FetchInv'
<1> USE DEF FetchInv, InUse, Running
<1>1. CASE StartRun
  BY <1>1 DEF StartRun, StartFetch, Goto
<1>2. CASE FetchLocal
  <2>1. CASE Loads(local) /\ SignatureAccepted(local, strict)
    <3>1. local # Unreadable
      BY <2>1 DEF Loads
    <3> QED
      BY <1>2, <2>1, <3>1 DEF FetchLocal, InHand, SignatureAccepted
  <2>2. CASE ~(Loads(local) /\ SignatureAccepted(local, strict))
    BY <1>2, <2>2 DEF FetchLocal, GivenUp
  <2> QED
    BY <2>1, <2>2
<1>3. CASE Download
  <2>1. CASE \E p \in Packs :
                SignatureAccepted(Converted(p), strict) /\ InHand(Converted(p), "cache", FALSE)
    <3>1. PICK p \in Packs :
             SignatureAccepted(Converted(p), strict) /\ InHand(Converted(p), "cache", FALSE)
      BY <2>1
    <3>2. Shaped(Converted(p))
      BY PacksAreShaped, ConvertedShaped
    <3> QED
      BY <1>3, <3>1, <3>2 DEF Download, InHand, SignatureAccepted
  <2>2. CASE GivenUp
    BY <1>3, <2>2 DEF Download, GivenUp
  <2> QED
    BY <1>3, <2>1, <2>2 DEF Download
<1>4. CASE FallBackOnCache
  <2>1. CASE Loads(cache) /\ SignatureAccepted(cache, strict)
    <3>1. cache # Unreadable
      BY <2>1 DEF Loads
    <3> QED
      BY <1>4, <2>1, <3>1 DEF FallBackOnCache, InHand, SignatureAccepted
  <2>2. CASE ~(Loads(cache) /\ SignatureAccepted(cache, strict))
    BY <1>4, <2>2 DEF FallBackOnCache, GivenUp
  <2> QED
    BY <2>1, <2>2
<1>5. CASE SaveToCache
  <2>1. Shaped(set) /\ cache' \in {set, cache, Unreadable, Cut(set)}
    BY <1>5 DEF SaveToCache, Goto
  <2>2. cache' = Unreadable \/ Shaped(cache')
    BY <2>1, CutShaped
  <2> QED
    BY <1>5, <2>2 DEF SaveToCache, Goto, SignatureAccepted
<1>6. CASE CheckPack
  BY <1>6 DEF CheckPack, InHand, GivenUp, SignatureAccepted
<1>7. CASE Crash
  <2>1. pc' = "off" /\ local' = local
    BY <1>7 DEF Crash, CrashFetching, GivenUp
  <2>2. cache' \in {cache, Unreadable} \/ (pc = "cache" /\ cache' = Cut(set))
    BY <1>7 DEF Crash, CrashFetching
  <2>3. cache' = Unreadable \/ Shaped(cache')
    BY <2>2, CutShaped
  <2> QED
    BY <2>1, <2>3
<1>8. CASE FinishSet
  BY <1>8 DEF FinishSet, GivenUp
<1>9. CASE \/ UNCHANGED fetchVars
           \/ /\ Running /\ pc' \in {"execute", "request"}
              /\ UNCHANGED <<local, cache, strict, held, set>>
  BY <1>9 DEF fetchVars, SignatureAccepted
<1>10. CASE ExecuteProcedure \/ ActiveValidation
  BY <1>9, <1>10 DEF ExecuteProcedure, RunQuery, RunSourceScan, PrepareValidation, Prepared,
     ActiveValidation, Refused, BudgetSpent, RequestFails, Answered, TargetDone, PollAgain,
     MayAsk, AtProcedure, Abort, Judge, Complete
<1> QED
  BY <1>1, <1>2, <1>3, <1>4, <1>5, <1>6, <1>7, <1>8, <1>9, <1>10
     DEF Next, Work, Fetch, FetchControlSet, FinishControl, vars

-----------------------------------------------------------------------------
(* Budget, outcomes and results.                                           *)

Budget == sent \in 0..MaxRequests

LEMMA BudgetStep ==
    ASSUME Budget, [Next]_vars
    PROVE  Budget'
<1>0. MaxRequests \in Nat
  BY ExecutorAssumption
<1> USE <1>0 DEF Budget
<1>1. CASE StartRun
  BY <1>1 DEF StartRun
<1>2. CASE RequestFails \/ Answered
  BY <1>2 DEF RequestFails, Answered
<1>3. CASE Fetch \/ ExecuteProcedure \/ Refused \/ BudgetSpent \/ FinishControl \/ FinishSet
              \/ Crash \/ UNCHANGED vars
  BY <1>3 DEF Fetch, ExecuteProcedure, RunQuery, RunSourceScan, PrepareValidation, Refused,
     BudgetSpent, FinishControl, FinishSet, Crash, vars, exec
<1> QED
  BY <1>1, <1>2, <1>3 DEF Next, Work, ActiveValidation

Lists ==
    /\ IsList(done) /\ IsList(results)
    /\ \A i \in DOMAIN results : IsList(results[i].procedures)

Asked(ps) == \A j \in DOMAIN ps : ps[j].status # "ERROR" => ps[j].unasked = 0

\* A result that is done: an error if nothing was executed, else what StatusOf
\* says of its procedures.
Sound(r) ==
    /\ IF r.procedures = <<>> THEN r.status = "ERROR" ELSE StatusOf(r.procedures, r.status)
    /\ Asked(r.procedures)

OutcomeInv ==
    /\ Lists
    /\ StatusOf(done, status) /\ Asked(done)
    /\ \A i \in DOMAIN results : Sound(results[i])

LEMMA OutcomesForgotten ==
    ASSUME Forgets
    PROVE  OutcomeInv'
BY EmptyIsList DEF Forgets, OutcomeInv, Lists, StatusOf, Asked, Has

LEMMA OutcomeAdded ==
    ASSUME OutcomeInv, NEW o, Finishes(o)
    PROVE  OutcomeInv'
<1>1. IsList(done) /\ done' = Append(done, o) /\ status' = Worsened(status, o.status)
  BY DEF OutcomeInv, Lists, Finishes
<1>2. IsList(done') /\ StatusOf(done', status')
  BY <1>1, AppendIsList, StatusGrows DEF OutcomeInv
<1>3. Asked(done')
  <2>1. /\ Len(done) \in Nat /\ DOMAIN done = 1..Len(done) /\ DOMAIN done' = 1..Len(done) + 1
        /\ \A i \in 1..Len(done) : done'[i] = done[i]
        /\ done'[Len(done) + 1] = o
    BY <1>1, AppendIsList
  <2>2. o.status # "ERROR" => o.unasked = 0
    BY DEF Finishes
  <2>3. ASSUME NEW j \in DOMAIN done'
        PROVE  done'[j] = o \/ (j \in DOMAIN done /\ done'[j] = done[j])
    BY <2>1, <2>3
  <2> QED
    BY <2>2, <2>3 DEF OutcomeInv, Asked
<1>4. results' = results
  BY DEF Finishes
<1> QED
  BY <1>2, <1>3, <1>4 DEF OutcomeInv, Lists

LEMMA ResultAdded ==
    ASSUME OutcomeInv, FetchInv, FinishControl
    PROVE  OutcomeInv'
<1> DEFINE r == [status |-> IF Control = <<>> THEN "ERROR" ELSE status, procedures |-> done]
<1>1. /\ results' = Append(results, r) /\ status' = "PASS" /\ done' = <<>>
      /\ pc = "execute" /\ Len(results) < Len(set.controls) /\ Len(done) = Len(Control)
  BY DEF FinishControl
<1>2. /\ IsList(results) /\ IsList(done)
      /\ \A i \in DOMAIN results : IsList(results[i].procedures)
  BY DEF OutcomeInv, Lists
<1>3. IsList(Control)
  <2>1. IsList(set.controls) /\ \A i \in DOMAIN set.controls : IsList(set.controls[i])
    BY <1>1 DEF FetchInv, InUse, Shaped
  <2>2. Len(results) + 1 \in DOMAIN set.controls
    BY <1>1, <1>2, <2>1, ListDomain
  <2> QED
    BY <2>1, <2>2 DEF Control
<1>4. ASSUME NEW ps, IsList(ps), Len(ps) = 0
      PROVE  ps = <<>>
  BY <1>4 DEF IsList
<1>5. Control = <<>> <=> done = <<>>
  BY <1>1, <1>2, <1>3, <1>4, EmptyIsList
<1>6. Sound(r) /\ r.procedures = done
  BY <1>5 DEF Sound, OutcomeInv
<1> HIDE DEF r
<1>7. /\ IsList(results') /\ Len(results) \in Nat /\ DOMAIN results = 1..Len(results)
      /\ DOMAIN results' = 1..Len(results) + 1
      /\ \A i \in 1..Len(results) : results'[i] = results[i]
      /\ results'[Len(results) + 1] = r
  BY <1>1, <1>2, AppendIsList
<1>8. ASSUME NEW i \in DOMAIN results'
      PROVE  results'[i] = r \/ (i \in DOMAIN results /\ results'[i] = results[i])
  BY <1>7, <1>8
<1>9. \A i \in DOMAIN results' : Sound(results'[i]) /\ IsList(results'[i].procedures)
  BY <1>2, <1>6, <1>8 DEF OutcomeInv
<1>10. IsList(done') /\ StatusOf(done', status') /\ Asked(done')
  BY <1>1, EmptyIsList DEF StatusOf, Asked, Has
<1> QED
  BY <1>7, <1>9, <1>10 DEF OutcomeInv, Lists

LEMMA OutcomeStep ==
    ASSUME OutcomeInv, FetchInv, [Next]_vars
    PROVE  OutcomeInv'
<1>1. CASE Keeps
  BY <1>1 DEF Keeps, OutcomeInv, Lists
<1> QED
  BY <1>1, StepKinds, OutcomesForgotten, OutcomeAdded, ResultAdded

-----------------------------------------------------------------------------
(* What was read is what was validated: no outcome of a pack that was read *)
(* from a file is an error of a criterion.                                 *)

Typed(s) == \A i \in DOMAIN s.controls : \A j \in DOMAIN s.controls[i] :
                IsProcedure(s.controls[i][j])

Valid(s) == \A i \in DOMAIN s.controls : \A j \in DOMAIN s.controls[i] :
                AllValid(s.controls[i][j].criteria)

\* The criteria of a pack can be looked at, and were when it was read.
PackInv ==
    /\ pc \in InUse \cup {"off", "fetch"}
    /\ local # Unreadable => Typed(local)
    /\ cache # Unreadable => Typed(cache)
    /\ pc \in InUse => Typed(set) /\ (validated => Valid(set))
    /\ pc \in {"off", "fetch"} => ~validated

AtWork == Len(results) < Len(set.controls) /\ Len(done) < Len(Control)

\* A set comes to be executed with nothing done yet.
WorkInv ==
    /\ pc \in {"fetch", "cache", "check"} => results = <<>> /\ done = <<>>
    /\ pc = "request" => AtWork
    /\ found \in Seq(Rows)

Unspoilt(ps) == \A j \in DOMAIN ps : ps[j].error # "criteria"

ReadInv ==
    validated => /\ Unspoilt(done)
                 /\ \A i \in DOMAIN results : Unspoilt(results[i].procedures)

LEMMA PacksAreTyped == \A p \in Packs : Typed(p)
BY PackAssumption DEF IsPack, Typed

LEMMA ConvertedTyped ==
    ASSUME NEW p, Shaped(p), Typed(p)
    PROVE  Typed(Converted(p))
<1> DEFINE c == p.controls
           w == WithoutCriteria(c)
<1>1. Converted(p).controls = IF p.garbled THEN w ELSE c
  BY DEF Shaped, Converted
<1>2. ASSUME NEW i \in DOMAIN w, NEW j \in DOMAIN w[i]
      PROVE  IsProcedure(w[i][j])
  <2>1. i \in DOMAIN c /\ w[i] = [k \in DOMAIN c[i] |-> [c[i][k] EXCEPT !.criteria = <<>>]]
    BY DEF WithoutCriteria
  <2>2. j \in DOMAIN c[i] /\ w[i][j] = [c[i][j] EXCEPT !.criteria = <<>>]
    BY <2>1
  <2>3. IsProcedure(c[i][j])
    BY <2>1, <2>2 DEF Typed
  <2>4. "criteria" \in DOMAIN w[i][j] /\ w[i][j].criteria = <<>>
    BY <2>2, <2>3 DEF IsProcedure
  <2> QED
    BY <2>4, EmptyIsList DEF IsProcedure
<1> HIDE DEF w
<1> QED
  BY <1>1, <1>2 DEF Typed

LEMMA CutTyped ==
    ASSUME NEW s, Shaped(s), Typed(s), Cut(s) # Unreadable
    PROVE  Typed(Cut(s))
<1> DEFINE c == s.controls
           d == SubSeq(c, 1, Len(c) - 1)
<1>1. ~(Len(c) < 2) /\ Cut(s) = [s EXCEPT !.altered = TRUE, !.controls = d]
  BY DEF Cut
<1>2. Cut(s).controls = d
  <2> HIDE DEF d
  <2> QED BY <1>1 DEF Shaped
<1>3. IsList(c)
  BY DEF Shaped
<1>4. \A i \in DOMAIN c : \A j \in DOMAIN c[i] : IsProcedure(c[i][j])
  BY DEF Typed
<1> HIDE DEF c
<1>5. Len(c) \in Nat /\ DOMAIN c = 1..Len(c)
  BY <1>3, ListDomain
<1>6. \A i \in DOMAIN d : i \in DOMAIN c /\ d[i] = c[i]
  <2> DEFINE A == {c[i] : i \in DOMAIN c}
  <2>1. c \in Seq(A)
    BY <1>3 DEF IsList
  <2> HIDE DEF A
  <2> QED BY <1>1, <1>5, <2>1
<1> HIDE DEF d
<1> QED
  BY <1>2, <1>4, <1>6 DEF Typed

LEMMA PackStep ==
    ASSUME PackInv, FetchInv, [Next]_vars
    PROVE  PackInv'
<1> USE DEF PackInv, InUse
<1>1. CASE StartRun
  BY <1>1 DEF StartRun, StartFetch, Goto
<1>2. CASE FetchLocal
  <2>1. CASE Loads(local) /\ SignatureAccepted(local, strict)
    <3>1. local # Unreadable /\ Valid(local)
      BY <2>1 DEF Loads, Valid, AllValid
    <3>2. InHand(local, "check", TRUE) /\ UNCHANGED <<local, cache>>
      BY <1>2, <2>1 DEF FetchLocal
    <3> QED
      BY <3>1, <3>2 DEF InHand, Typed, Valid
  <2>2. CASE ~(Loads(local) /\ SignatureAccepted(local, strict))
    BY <1>2, <2>2 DEF FetchLocal, GivenUp, Typed
  <2> QED
    BY <2>1, <2>2
<1>3. CASE Download
  <2>1. CASE \E p \in Packs : InHand(Converted(p), "cache", FALSE)
    <3>1. PICK p \in Packs : InHand(Converted(p), "cache", FALSE)
      BY <2>1
    <3>2. Typed(Converted(p))
      BY PacksAreShaped, PacksAreTyped, ConvertedTyped
    <3> QED
      BY <1>3, <3>1, <3>2 DEF Download, InHand, Typed
  <2>2. CASE GivenUp
    BY <1>3, <2>2 DEF Download, GivenUp, Typed
  <2> QED
    BY <1>3, <2>1, <2>2 DEF Download
<1>4. CASE FallBackOnCache
  <2>1. CASE Loads(cache) /\ SignatureAccepted(cache, strict)
    <3>1. cache # Unreadable /\ Valid(cache)
      BY <2>1 DEF Loads, Valid, AllValid
    <3>2. InHand(cache, "check", TRUE) /\ UNCHANGED <<local, cache>>
      BY <1>4, <2>1 DEF FallBackOnCache
    <3> QED
      BY <3>1, <3>2 DEF InHand, Typed, Valid
  <2>2. CASE ~(Loads(cache) /\ SignatureAccepted(cache, strict))
    BY <1>4, <2>2 DEF FallBackOnCache, GivenUp, Typed
  <2> QED
    BY <2>1, <2>2
<1>5. CASE SaveToCache
  <2>1. /\ Shaped(set) /\ Typed(set) /\ cache' \in {set, cache, Unreadable, Cut(set)}
        /\ pc' = "check" /\ pc = "cache" /\ UNCHANGED <<local, set, validated>>
    BY <1>5 DEF SaveToCache, Goto, FetchInv
  <2>2. cache' # Unreadable => Typed(cache')
    BY <2>1, CutTyped
  <2> QED
    BY <2>1, <2>2 DEF Typed, Valid
<1>6. CASE CheckPack
  BY <1>6 DEF CheckPack, InHand, GivenUp, Typed, Valid
<1>7. CASE Crash
  <2>1. pc' = "off" /\ local' = local /\ ~validated'
    BY <1>7 DEF Crash, CrashFetching, GivenUp
  <2>2. cache' \in {cache, Unreadable} \/ (pc = "cache" /\ cache' = Cut(set))
    BY <1>7 DEF Crash, CrashFetching
  <2>3. cache' # Unreadable => Typed(cache')
    BY <2>2, CutTyped DEF FetchInv
  <2> QED
    BY <2>1, <2>3 DEF Typed
<1>8. CASE FinishSet
  BY <1>8 DEF FinishSet, GivenUp, Typed
<1>9. CASE \/ UNCHANGED fetchVars
           \/ /\ pc \in InUse /\ pc' \in {"execute", "request"}
              /\ UNCHANGED <<local, cache, set, validated>>
  BY <1>9 DEF fetchVars, Typed, Valid
<1>10. CASE ExecuteProcedure \/ ActiveValidation
  BY <1>9, <1>10 DEF ExecuteProcedure, RunQuery, RunSourceScan, PrepareValidation, Prepared,
     ActiveValidation, Refused, BudgetSpent, RequestFails, Answered, TargetDone, PollAgain,
     MayAsk, AtProcedure, Abort, Judge, Complete
<1> QED
  BY <1>1, <1>2, <1>3, <1>4, <1>5, <1>6, <1>7, <1>8, <1>9, <1>10
     DEF Next, Work, Fetch, FetchControlSet, FinishControl, vars

LEMMA SomeRows ==
    /\ RowLists \subseteq Seq(Rows)
    /\ \A row \in Rows : <<row>> \in Seq(Rows)
    /\ <<>> \in Seq(Rows)
    /\ \A rows \in Seq(Rows) : Len(rows) \in Nat
    /\ \A s, t \in Seq(Rows) : s \o t \in Seq(Rows)
<1>1. RowLists \subseteq Seq(Rows)
  <2> SUFFICES ASSUME NEW m \in 0..MaxRows, NEW rows \in [1..m -> Rows] PROVE rows \in Seq(Rows)
    BY DEF RowLists, BoundedSeq, SeqOf
  <2>1. m \in Nat
    BY ExecutorAssumption
  <2> HIDE DEF Rows
  <2> QED BY <2>1
<1> HIDE DEF Rows
<1> QED
  BY <1>1

LEMMA WorkStep ==
    ASSUME WorkInv, [Next]_vars
    PROVE  WorkInv'
<1> USE DEF WorkInv
<1>1. CASE StartRun \/ Crash
  BY <1>1, SomeRows DEF StartRun, StartFetch, Goto, Crash, CrashFetching, GivenUp, target
<1>2. CASE Fetch
  BY <1>2 DEF Fetch, FetchControlSet, FetchLocal, Download, FallBackOnCache, SaveToCache,
     CheckPack, InHand, GivenUp, Goto, exec, target
<1>3. CASE FinishControl \/ FinishSet
  BY <1>3 DEF FinishControl, FinishSet, GivenUp, fetchVars, exec, target
<1>4. CASE \E outcome : Complete(outcome)
  BY <1>4, SomeRows DEF Complete
<1>5. CASE ExecuteProcedure
  <2>1. CASE \E n : Prepared(n)
    <3>1. (\E rows : Judge(rows, 0)) \/ (AtWork' /\ pc' = "request" /\ found' = found)
      BY <1>5, <2>1 DEF Prepared, ExecuteProcedure, RunQuery, RunSourceScan, PrepareValidation,
         AtProcedure, AtWork, Control
    <3> QED
      BY <1>4, <3>1 DEF Judge
  <2>2. CASE Abort \/ \E rows : Judge(rows, 0)
    BY <1>4, <2>2 DEF Abort, Judge
  <2> QED
    BY <1>5, <2>1, <2>2 DEF ExecuteProcedure, RunQuery, RunSourceScan, PrepareValidation
<1>6. CASE Refused \/ BudgetSpent \/ RequestFails
  BY <1>4, <1>6 DEF Refused, BudgetSpent, RequestFails, Abort
<1>7. CASE Answered
  <2>1. ASSUME NEW rows \in Seq(Rows), TargetDone(rows) PROVE WorkInv'
    <3>1. CASE left = 1
      BY <1>4, <2>1, <3>1 DEF TargetDone, Judge
    <3>2. CASE left # 1
      <4>1. found' \in Seq(Rows)
        BY <2>1, <3>2, SomeRows DEF TargetDone
      <4> QED
        BY <1>7, <2>1, <3>2, <4>1 DEF TargetDone, Answered, MayAsk, fetchVars, AtWork, Control
    <3> QED
      BY <3>1, <3>2
  <2>2. CASE UNCHANGED <<fetchVars, results, done, found>>
    BY <2>2 DEF fetchVars, AtWork, Control
  <2> QED
    BY <1>7, <2>1, <2>2, SomeRows DEF Answered, PollAgain
<1>8. CASE UNCHANGED vars
  BY <1>8 DEF vars, fetchVars, exec, target, AtWork, Control
<1> QED
  BY <1>1, <1>2, <1>3, <1>5, <1>6, <1>7, <1>8 DEF Next, Work, ActiveValidation

LEMMA OutcomeUnspoilt ==
    ASSUME ReadInv, OutcomeInv, NEW o, validated => o.error # "criteria", Complete(o)
    PROVE  ReadInv'
<1>1. /\ done' = Append(done, o) /\ results' = results /\ validated' = validated
      /\ IsList(done)
  BY DEF Complete, OutcomeInv, Lists
<1>2. ASSUME NEW j \in DOMAIN done'
      PROVE  done'[j] = o \/ (j \in DOMAIN done /\ done'[j] = done[j])
  <2>1. /\ Len(done) \in Nat /\ DOMAIN done = 1..Len(done) /\ DOMAIN done' = 1..Len(done) + 1
        /\ \A i \in 1..Len(done) : done'[i] = done[i]
        /\ done'[Len(done) + 1] = o
    BY <1>1, AppendIsList
  <2> QED
    BY <1>2, <2>1
<1> QED
  BY <1>1, <1>2 DEF ReadInv, Unspoilt

LEMMA AbortUnspoilt ==
    ASSUME ReadInv, OutcomeInv, Abort
    PROVE  ReadInv'
<1> DEFINE o == Outcome("ERROR", "procedure", left)
<1>1. o.error = "procedure" /\ Complete(o)
  BY DEF Abort, Outcome
<1> HIDE DEF o
<1> QED
  BY <1>1, OutcomeUnspoilt

LEMMA JudgeUnspoilt ==
    ASSUME ReadInv, OutcomeInv, FetchInv, PackInv, Running, AtWork,
           NEW rows, Len(rows) \in Nat, Judge(rows, 0)
    PROVE  ReadInv'
<1> DEFINE st == ProcedureStatus(Procedure.criteria, rows)
           o  == Outcome(st, IF st = "ERROR" THEN "criteria" ELSE "none", 0)
<1>1. Complete(o) /\ (st # "ERROR" => o.error = "none")
  <2>1. Complete(o)
    BY DEF Judge
  <2>2. st # "ERROR" => o.error = "none"
    <3> HIDE DEF st
    <3> QED BY DEF Outcome
  <2> QED
    BY <2>1, <2>2
<1>2. ASSUME validated PROVE st # "ERROR"
  <2>1. Shaped(set) /\ Typed(set) /\ Valid(set)
    BY <1>2 DEF FetchInv, PackInv, InUse, Running
  <2>2. Len(results) + 1 \in DOMAIN set.controls
    BY <2>1, ListDomain DEF AtWork, OutcomeInv, Lists, Shaped
  <2>3. IsList(Control)
    BY <2>1, <2>2 DEF Control, Shaped
  <2>4. Len(done) + 1 \in DOMAIN Control
    BY <2>3, ListDomain DEF AtWork, OutcomeInv, Lists
  <2>5. IsProcedure(Procedure) /\ AllValid(Procedure.criteria)
    BY <2>1, <2>2, <2>4 DEF Typed, Valid, Procedure, Control
  <2>6. AllCriteria(Procedure.criteria)
    BY <2>5 DEF AllCriteria, IsProcedure
  <2> QED
    BY <2>5, <2>6, ProcedureMisread
<1> HIDE DEF o, st
<1> QED
  BY <1>1, <1>2, OutcomeUnspoilt

LEMMA ReadStep ==
    ASSUME ReadInv, OutcomeInv, FetchInv, PackInv, WorkInv, [Next]_vars
    PROVE  ReadInv'
<1>1. CASE Forgets
  BY <1>1, EmptyIsList DEF Forgets, ReadInv, Unspoilt
<1>2. ASSUME Keeps, validated' => validated \/ (results = <<>> /\ done = <<>>)
      PROVE  ReadInv'
  BY <1>2, EmptyIsList DEF Keeps, ReadInv, Unspoilt
<1>3. CASE StartRun \/ Crash
  BY <1>1, <1>3 DEF StartRun, Crash, Forgets
<1>4. CASE Fetch
  BY <1>2, <1>4 DEF Fetch, FetchControlSet, FetchLocal, Download, FallBackOnCache, SaveToCache,
     CheckPack, InHand, GivenUp, Goto, exec, Keeps, WorkInv
<1>5. CASE FinishSet \/ UNCHANGED vars
  BY <1>2, <1>5 DEF FinishSet, GivenUp, vars, fetchVars, exec, Keeps
<1>6. CASE RunQuery
  <2>1. Running /\ AtWork
    BY <1>6 DEF RunQuery, AtProcedure, Running, AtWork
  <2> QED
    BY <1>6, <2>1, AbortUnspoilt, JudgeUnspoilt, SomeRows DEF RunQuery
<1>7. CASE RunSourceScan
  <2>1. Running /\ AtWork
    BY <1>7 DEF RunSourceScan, AtProcedure, Running, AtWork
  <2>2. ASSUME NEW rows \in RowLists
        PROVE  Len(SubSeq(rows, 1, Min({MaxMatches, Len(rows)}))) \in Nat
    <3>1. rows \in Seq(Rows) /\ Len(rows) \in Nat /\ MaxMatches \in Nat
      BY SomeRows, ExecutorAssumption
    <3>2. Min({MaxMatches, Len(rows)}) \in Nat /\ Min({MaxMatches, Len(rows)}) <= Len(rows)
      BY <3>1, LeastOf
    <3> HIDE DEF Rows
    <3> QED BY <3>1, <3>2
  <2> QED
    BY <1>7, <2>1, <2>2, AbortUnspoilt, JudgeUnspoilt, SomeRows DEF RunSourceScan
<1>8. CASE PrepareValidation
  <2>1. Running /\ AtWork
    BY <1>8 DEF PrepareValidation, AtProcedure, Running, AtWork
  <2>2. CASE Abort
    BY <2>2, AbortUnspoilt
  <2>3. CASE \E n : Prepared(n)
    BY <1>2, <2>1, <2>3, JudgeUnspoilt, SomeRows DEF Prepared, Keeps
  <2> QED
    BY <1>8, <2>2, <2>3 DEF PrepareValidation
<1>9. CASE Refused \/ BudgetSpent \/ RequestFails
  BY <1>9, AbortUnspoilt DEF Refused, BudgetSpent, RequestFails
<1>10. CASE Answered
  <2>1. Running /\ AtWork
    BY <1>10 DEF Answered, MayAsk, Running, WorkInv
  <2>2. ASSUME NEW rows \in Seq(Rows), TargetDone(rows) PROVE ReadInv'
    <3>1. CASE left = 1
      <4>1. Judge(found \o rows, 0) /\ Len(found \o rows) \in Nat
        BY <2>2, <3>1, SomeRows DEF TargetDone, WorkInv
      <4> QED
        BY <2>1, <4>1, JudgeUnspoilt
    <3>2. CASE left # 1
      BY <1>2, <2>2, <3>2 DEF TargetDone, Keeps, fetchVars
    <3> QED
      BY <3>1, <3>2
  <2>3. CASE UNCHANGED <<fetchVars, results, status, done>>
    BY <1>2, <2>3 DEF fetchVars, Keeps
  <2> QED
    BY <1>10, <2>2, <2>3, SomeRows DEF Answered, PollAgain
<1>11. CASE FinishControl
  <2> DEFINE r == [status |-> IF Control = <<>> THEN "ERROR" ELSE status, procedures |-> done]
  <2>1. /\ results' = Append(results, r) /\ done' = <<>> /\ validated' = validated
        /\ r.procedures = done /\ IsList(results)
    BY <1>11 DEF FinishControl, fetchVars, OutcomeInv, Lists
  <2> HIDE DEF r
  <2>2. ASSUME NEW i \in DOMAIN results'
        PROVE  results'[i] = r \/ (i \in DOMAIN results /\ results'[i] = results[i])
    <3>1. /\ Len(results) \in Nat /\ DOMAIN results = 1..Len(results)
          /\ DOMAIN results' = 1..Len(results) + 1
          /\ \A k \in 1..Len(results) : results'[k] = results[k]
          /\ results'[Len(results) + 1] = r
      BY <2>1, AppendIsList
    <3> QED
      BY <2>2, <3>1
  <2> QED
    BY <2>1, <2>2, EmptyIsList DEF ReadInv, Unspoilt
<1> QED
  BY <1>3, <1>4, <1>5, <1>6, <1>7, <1>8, <1>9, <1>10, <1>11
     DEF Next, Work, ExecuteProcedure, ActiveValidation

-----------------------------------------------------------------------------
(* The theorems.                                                           *)

Inv == FetchInv /\ Budget /\ OutcomeInv /\ PackInv /\ WorkInv /\ ReadInv

LEMMA InvInit == Init => Inv
<1> SUFFICES ASSUME Init PROVE Inv
  OBVIOUS
<1>1. FetchInv
  BY PacksAreShaped DEF Init, FetchInit, FetchInv, InUse, Running
<1>2. Budget
  BY ExecutorAssumption DEF Init, Budget
<1>3. OutcomeInv
  BY EmptyIsList DEF Init, OutcomeInv, Lists, StatusOf, Asked, Has
<1>4. PackInv
  BY PacksAreTyped DEF Init, FetchInit, PackInv, InUse
<1>5. WorkInv /\ ReadInv
  BY SomeRows DEF Init, FetchInit, WorkInv, ReadInv
<1> QED
  BY <1>1, <1>2, <1>3, <1>4, <1>5 DEF Inv

\* Inv holds in every state of every behaviour.
THEOREM Invariance == Spec => []Inv
<1>1. Inv /\ [Next]_vars => Inv'
  BY FetchStep, BudgetStep, OutcomeStep, PackStep, WorkStep, ReadStep DEF Inv
<1> QED
  BY InvInit, <1>1, PTL DEF Spec

\* With require_signatures what runs is what was signed, and it is free or
\* covered by the entitlement of this run, also out of a cache that an earlier
\* run with looser rules wrote (fetcher.go:124-144, 375-410).
THEOREM OnlyCleared == Spec => []OnlyClearedPacksRun
<1>1. FetchInv => OnlyClearedPacksRun
  BY DEF FetchInv, InUse, Running, OnlyClearedPacksRun, SignatureAccepted, EntitlementAllows,
     IsValidTier, IsFree, AllowsTier, AllowsPack, TierLevel, Compatible
<1> QED
  BY Invariance, <1>1, PTL DEF Inv

\* The status of a control is that of its procedures (executor.go:239-255).
THEOREM StatusFollows == Spec => []StatusFollowsProcedures
<1>1. OutcomeInv => StatusFollowsProcedures
  <2> SUFFICES ASSUME OutcomeInv, NEW i \in DOMAIN results
               PROVE  LET ps == results[i].procedures
                      IN results[i].status =
                            IF ps = <<>> \/ Has(ps, "ERROR") THEN "ERROR"
                            ELSE IF Has(ps, "FAIL") THEN "FAIL"
                            ELSE IF \A j \in DOMAIN ps : ps[j].status = "PASS" THEN "PASS"
                            ELSE ps[Min({j \in DOMAIN ps : ps[j].status # "PASS"})].status
    BY DEF StatusFollowsProcedures, Has
  <2>1. IsList(results[i].procedures) /\ Sound(results[i])
    BY DEF OutcomeInv, Lists
  <2> QED
    BY <2>1, StatusMeans DEF Sound
<1> QED
  BY Invariance, <1>1, PTL DEF Inv

\* Whatever the criteria and the rows of a pack that was read from a file, its
\* conditions on columns are evaluated as what they say, and no outcome is an
\* error of a criterion (executor.go:1760-1956); the conditions on row counts the
\* property leaves out are those a part of which counts rows (2196-2232).
THEOREM ValidatedIsReadable == Spec => []ValidatedNeverMisread
<1>1. ASSUME PackInv, ReadInv PROVE ValidatedNeverMisread
  <2> SUFFICES ASSUME validated
               PROVE  /\ \A p \in Procedures : p.error # "criteria"
                      /\ \A i \in DOMAIN set.controls : \A j \in DOMAIN set.controls[i] :
                         \A k \in DOMAIN set.controls[i][j].criteria : \A row \in Rows :
                            LET c == set.controls[i][j].criteria[k] IN
                            Evaluate(c, row) = IF Holds(c, row) THEN "match" ELSE "no"
    BY DEF ValidatedNeverMisread
  <2>1. \A p \in Procedures : p.error # "criteria"
    BY <1>1 DEF ReadInv, Unspoilt, Procedures
  <2>2. Typed(set) /\ Valid(set)
    BY <1>1 DEF PackInv
  <2>3. ASSUME NEW i \in DOMAIN set.controls, NEW j \in DOMAIN set.controls[i],
               NEW k \in DOMAIN set.controls[i][j].criteria, NEW row \in Rows
        PROVE  LET c == set.controls[i][j].criteria[k] IN
               Evaluate(c, row) = IF Holds(c, row) THEN "match" ELSE "no"
    <3> DEFINE c == set.controls[i][j].criteria[k]
    <3>1. IsCriterion(c) /\ ValidSyntax(c)
      BY <2>2 DEF Typed, Valid, AllValid, IsProcedure
    <3> HIDE DEF c
    <3>2. Evaluate(c, row) = IF Holds(c, row) THEN "match" ELSE "no"
      BY <3>1, EvaluateHolds
    <3> QED
      BY <3>2 DEF c
  <2> QED
    BY <2>1, <2>3
<1> QED
  BY Invariance, <1>1, PTL DEF Inv

\* The budget of requests is kept, and who exceeds it gets no verdict
\* (executor.go:650-671, 1224-1233).
THEOREM VerdictsAreComplete == Spec => []VerdictCoversEveryTarget
<1>1. Budget /\ OutcomeInv => VerdictCoversEveryTarget
  <2> SUFFICES ASSUME Budget, OutcomeInv PROVE VerdictCoversEveryTarget
    OBVIOUS
  <2>1. sent <= MaxRequests
    BY ExecutorAssumption DEF Budget
  <2>2. Asked(done) /\ \A i \in DOMAIN results : Asked(results[i].procedures)
    BY DEF OutcomeInv, Sound
  <2> QED
    BY <2>1, <2>2 DEF VerdictCoversEveryTarget, Procedures, Asked
<1> QED
  BY Invariance, <1>1, PTL DEF Inv
=============================================================================
