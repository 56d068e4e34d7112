--------------------------- MODULE LogMiningProofs ---------------------------
(***************************************************************************)
(* The cursors of log mining, for any number of processes, sources, lines, *)
(* changes of the log files and faults: a saved cursor passes no line that *)
(* is in no result, and the cursor file is whole unless two runs saved at  *)
(* once.                                                                   *)
(***************************************************************************)
EXTENDS LogMining, TLAPS

CursorType == [file : Nat, offset : Nat]
Saved      == [Sources -> CursorType]
FileType   == [number : Nat \ {0}, first : Nat, length : Nat]
OnDisk     == {"rename", "post"}      \* where a run has its cursors on disk

TypeInv ==
    /\ file \in [Sources -> FileType]
    /\ backend \in Saved /\ states \in [Procs -> Saved]
    /\ json \in Saved \cup {Absent, Broken} /\ tmp \in Saved \cup {Absent, Broken}
    /\ pc \in [Procs -> {"idle", "read", "create", "write"} \cup OnDisk]
    /\ source \in [Procs -> Sources]
    /\ fd \in [Procs -> {"none", "tmp", "json", "gone"}]
    /\ hand \in [Procs -> SUBSET (Sources \X Nat)]

\* While no two runs have saved at once, at most one writes the temporary file,
\* and it renames it only when its text is in it.
FileInv ==
    overlapped \/
       /\ json # Broken
       /\ \A p \in Procs :
             /\ fd[p] = IF pc[p] \in {"write", "rename"} THEN "tmp" ELSE "none"
             /\ pc[p] = "write" => tmp = Broken
             /\ pc[p] = "rename" => tmp # Broken
             /\ \A q \in Procs : fd[p] # "none" /\ fd[q] # "none" => p = q

\* Passed, of a file and a cursor.
PassedOf(f, c, s) ==
    IF c.file = f.number /\ c.offset <= f.length
    THEN {<<s, f.first + i>> : i \in 0..(c.offset - 1)} ELSE {}

\* The cursor is of this file or an earlier one, and has passed lines of S only.
Fits(f, c, s, S) == c \in CursorType /\ c.file <= f.number /\ PassedOf(f, c, s) \subseteq S

\* Lines that no end of a run can lose any more: settled ones, and those of runs
\* that have their cursors on disk.
Safe == settled \cup UNION {hand[p] : p \in {q \in Procs : pc[q] \in OnDisk}}

\* What a cursor on disk or at the backend has passed is safe; for what the one
\* of a run has passed that run may itself be responsible.
CoverInv ==
    \A s \in Sources :
       /\ Fits(file[s], backend[s], s, Safe)
       /\ json \notin {Absent, Broken} => Fits(file[s], json[s], s, Safe)
       /\ tmp \notin {Absent, Broken} => Fits(file[s], tmp[s], s, Safe)
       /\ \A p \in Procs : Fits(file[s], states[p][s], s, Safe \cup hand[p])

LEMMA SourcesAre == SourceCount \in Nat /\ SourceCount >= 1 /\ Sources = 1..SourceCount
BY MiningAssumption DEF Sources

LEMMA SavedIsReadable == Absent \notin Saved /\ Broken \notin Saved
BY MiningAssumption DEF Saved, CursorType, Sources

LEMMA EmptyIsSaved == Empty \in Saved /\ \A s \in Sources : Empty[s] = Start
BY DEF Empty, Saved, CursorType, Start

-----------------------------------------------------------------------------
(* Types.                                                                  *)

LEMMA EndRunTypes ==
    ASSUME TypeInv, NEW p \in Procs, EndRun(p)
    PROVE  /\ pc' \in [Procs -> {"idle", "read", "create", "write"} \cup OnDisk]
           /\ hand' \in [Procs -> SUBSET (Sources \X Nat)]
           /\ states' \in [Procs -> Saved] /\ source' \in [Procs -> Sources]
           /\ fd' \in [Procs -> {"none", "tmp", "json", "gone"}]
BY EmptyIsSaved, SourcesAre DEF TypeInv, EndRun, Goto

LEMMA NewCursorType ==
    ASSUME TypeInv, NEW s \in Sources
    PROVE  NewCursor(s) \in CursorType
BY DEF TypeInv, NewCursor, CursorType, FileType

LEMMA LinesType ==
    ASSUME TypeInv, NEW s \in Sources, NEW a \in Nat, NEW b \in Nat
    PROVE  Lines(s, a, b) \subseteq Sources \X Nat
BY DEF TypeInv, Lines, FileType

LEMMA ResumedType ==
    ASSUME NEW s, NEW c \in CursorType
    PROVE  Resumed(c, s) \in Nat
BY DEF Resumed, CursorType

LEMMA CursorOfType ==
    ASSUME TypeInv, NEW p \in Procs, NEW s \in Sources
    PROVE  Cursor(p, s) \in CursorType
BY DEF TypeInv, Cursor, Saved

LEMMA AbandonTypes ==
    ASSUME TypeInv, NEW p \in Procs, Abandon(p)
    PROVE  TypeInv'
BY EndRunTypes DEF TypeInv, Abandon

LEMMA LogTypes ==
    ASSUME TypeInv, NEW s \in Sources, Append(s) \/ Rotate(s) \/ Truncate(s)
    PROVE  TypeInv'
<1>1. CASE Append(s)
  <2>1. file' \in [Sources -> FileType]
    BY <1>1 DEF Append, TypeInv, FileType
  <2> QED
    BY <1>1, <2>1 DEF Append, TypeInv, disk, run, result
<1>2. ASSUME NEW n \in Nat \ {0}, Change(s, n)
      PROVE  TypeInv'
  <2>1. file' \in [Sources -> FileType]
    BY <1>2 DEF Change, Written, TypeInv, FileType
  <2> QED
    BY <1>2, <2>1 DEF Change, TypeInv, disk, run, result
<1>3. file[s].number \in Nat \ {0} /\ file[s].number + 1 \in Nat \ {0}
  BY DEF TypeInv, FileType
<1> QED
  BY <1>1, <1>2, <1>3 DEF Rotate, Truncate

LEMMA NextSourceTypes ==
    ASSUME TypeInv, NEW p \in Procs, NextSource(p)
    PROVE  /\ pc' \in [Procs -> {"idle", "read", "create", "write"} \cup OnDisk]
           /\ source' \in [Procs -> Sources]
<1>1. source[p] \in 1..SourceCount
  BY SourcesAre DEF TypeInv
<1>2. CASE source[p] < SourceCount
  <2>1. source' = [source EXCEPT ![p] = @ + 1] /\ pc' = pc
    BY <1>2 DEF NextSource
  <2>2. source[p] + 1 \in Sources
    BY <1>1, <1>2, SourcesAre
  <2> HIDE DEF Sources
  <2> QED
    BY <2>1, <2>2 DEF TypeInv
<1>3. CASE ~(source[p] < SourceCount)
  BY <1>3 DEF TypeInv, NextSource, Goto
<1> QED
  BY <1>2, <1>3

LEMMA ReadTypes ==
    ASSUME TypeInv, NEW p \in Procs, Read(p)
    PROVE  TypeInv'
<1> DEFINE s == source[p]
<1>1. s \in Sources
  BY DEF TypeInv
<1>2. Parsed(Cursor(p, s), s) \subseteq Sources \X Nat
  <2>1. Resumed(Cursor(p, s), s) \in Nat
    BY <1>1, CursorOfType, ResumedType
  <2>2. file[s].length \in Nat
    BY <1>1 DEF TypeInv, FileType
  <2> HIDE DEF s
  <2> QED
    BY <1>1, <2>1, <2>2, LinesType DEF Parsed
<1>3. NewCursor(s) \in CursorType
  BY <1>1, NewCursorType
<1>4. /\ hand' = [hand EXCEPT ![p] = @ \cup Parsed(Cursor(p, s), s)]
      /\ states' = [states EXCEPT ![p][s] = NewCursor(s)]
      /\ NextSource(p) /\ UNCHANGED <<file, json, tmp, fd, backend>>
  BY DEF Read, disk
<1> HIDE DEF s
<1>5. hand' \in [Procs -> SUBSET (Sources \X Nat)]
  BY <1>2, <1>4 DEF TypeInv
<1>6. states' \in [Procs -> Saved]
  BY <1>1, <1>3, <1>4 DEF TypeInv, Saved
<1> QED
  BY <1>4, <1>5, <1>6, NextSourceTypes DEF TypeInv

LEMMA SaveTypes ==
    ASSUME TypeInv, NEW p \in Procs, Create(p) \/ Write(p) \/ Rename(p)
    PROVE  TypeInv'
<1>1. CASE Create(p)
  BY <1>1 DEF Create, Goto, TypeInv, result
<1>2. CASE Write(p)
  <2>1. json' \in Saved \cup {Absent, Broken} /\ tmp' \in Saved \cup {Absent, Broken}
    <3>1. \A old : Text(old, states[p]) \subseteq Saved \cup {Broken}
      BY DEF Text, TypeInv
    <3>2. json' \in {json} \cup Text(json, states[p]) /\ tmp' \in {tmp} \cup Text(tmp, states[p])
      BY <1>2, Zenon DEF Write
    <3> QED
      BY <3>1, <3>2 DEF TypeInv
  <2> QED
    BY <1>2, <2>1 DEF Write, Goto, TypeInv, result, OnDisk
<1>3. CASE Rename(p)
  BY <1>3 DEF Rename, Goto, TypeInv, result, OnDisk
<1> QED
  BY <1>1, <1>2, <1>3

LEMMA TypeStep ==
    ASSUME TypeInv, [Next]_vars
    PROVE  TypeInv'
<1>1. CASE UNCHANGED vars
  BY <1>1 DEF TypeInv, vars, disk, run, result
<1>2. ASSUME NEW p \in Procs, Load(p)
      PROVE  TypeInv'
  BY <1>2, EmptyIsSaved DEF Load, Goto, TypeInv, disk, result
<1>3. ASSUME NEW p \in Procs, SkipSource(p)
      PROVE  TypeInv'
  BY <1>3, NextSourceTypes DEF SkipSource, TypeInv, disk, result
<1>4. ASSUME NEW p \in Procs, ReadFails(p) \/ RenameFails(p) \/ SaveFails(p) \/ Crash(p)
      PROVE  TypeInv'
  BY <1>4, AbandonTypes DEF ReadFails, RenameFails, SaveFails, Crash
<1>5. ASSUME NEW p \in Procs, Post(p)
      PROVE  TypeInv'
  <2>1. backend' \in Saved
    <3>1. states[p] \in Saved /\ backend \in Saved
      BY DEF TypeInv
    <3>2. backend' = backend \/ backend' = [backend EXCEPT ![reported[p]] = states[p][reported[p]]]
      BY <1>5 DEF Post, Accept
    <3> QED
      BY <3>1, <3>2 DEF Saved
  <2> QED
    BY <1>5, <2>1, EndRunTypes DEF Post, TypeInv
<1> QED
  BY <1>1, <1>2, <1>3, <1>4, <1>5, LogTypes, ReadTypes, SaveTypes DEF Next, Step, LoadFails

-----------------------------------------------------------------------------
(* The cursor file.                                                        *)

LEMMA EndRunFile ==
    ASSUME TypeInv, FileInv, NEW p \in Procs, EndRun(p),
           UNCHANGED <<json, tmp, overlapped>>
    PROVE  FileInv'
BY DEF TypeInv, FileInv, EndRun, Goto

LEMMA CreateFile ==
    ASSUME TypeInv, FileInv, NEW p \in Procs, Create(p)
    PROVE  FileInv'
<1>1. CASE overlapped \/ \E q \in Procs \ {p} : fd[q] # "none"
  BY <1>1 DEF Create, Overlaps, FileInv
<1>2. CASE ~overlapped /\ \A q \in Procs \ {p} : fd[q] = "none"
  <2>1. /\ json' = json /\ json # Broken /\ tmp' = Broken
        /\ pc' = [pc EXCEPT ![p] = "write"] /\ fd' = [fd EXCEPT ![p] = "tmp"]
    BY <1>2 DEF Create, Goto, FileInv
  <2>2. \A q \in Procs \ {p} : pc[q] \notin {"write", "rename"}
    BY <1>2 DEF FileInv
  <2> QED
    BY <1>2, <2>1, <2>2 DEF FileInv, TypeInv
<1> QED
  BY <1>1, <1>2

LEMMA WriteFile ==
    ASSUME TypeInv, FileInv, NEW p \in Procs, Write(p)
    PROVE  FileInv'
<1>1. CASE overlapped
  BY <1>1 DEF Write, FileInv
<1>2. CASE ~overlapped
  <2>1. fd[p] = "tmp" /\ json # Broken
    BY <1>2 DEF Write, FileInv
  <2>2. \A q \in Procs \ {p} : fd[q] = "none"
    BY <1>2, <2>1 DEF FileInv
  <2>3. /\ json' = json /\ tmp' \in Text(tmp, states[p]) /\ fd' = fd
        /\ overlapped' = overlapped /\ pc' = [pc EXCEPT ![p] = "rename"]
        /\ pc[p] = "write"
    BY <2>1, Zenon DEF Write, Goto
  <2>4. tmp' = states[p] /\ states[p] # Broken
    <3>1. tmp = Broken
      BY <1>2, <2>3 DEF FileInv
    <3> QED
      BY <2>3, <3>1, SavedIsReadable DEF Text, TypeInv
  <2>5. \A q \in Procs \ {p} : pc[q] \notin {"write", "rename"}
    BY <1>2, <2>2 DEF FileInv
  <2> QED
    BY <1>2, <2>1, <2>2, <2>3, <2>4, <2>5 DEF FileInv, TypeInv
<1> QED
  BY <1>1, <1>2

LEMMA RenameFile ==
    ASSUME TypeInv, FileInv, NEW p \in Procs, Rename(p)
    PROVE  FileInv'
<1>1. CASE overlapped
  BY <1>1 DEF Rename, FileInv
<1>2. CASE ~overlapped
  <2>1. pc[p] = "rename" /\ fd[p] = "tmp" /\ tmp # Broken
    BY <1>2 DEF Rename, FileInv
  <2>2. \A q \in Procs \ {p} : fd[q] = "none" /\ pc[q] \notin {"write", "rename"}
    BY <1>2, <2>1 DEF FileInv
  <2>3. /\ json' = tmp /\ overlapped' = overlapped /\ pc' = [pc EXCEPT ![p] = "post"]
        /\ fd' = [q \in Procs |->
              IF q = p THEN "none"
              ELSE IF fd[q] = "tmp" THEN "json" ELSE IF fd[q] = "json" THEN "gone" ELSE fd[q]]
    BY DEF Rename, Goto
  <2>4. \A q \in Procs : fd'[q] = "none"
    BY <2>2, <2>3
  <2>5. \A q \in Procs : pc'[q] \notin {"write", "rename"}
    BY <2>2, <2>3 DEF TypeInv
  <2> QED
    BY <2>1, <2>3, <2>4, <2>5 DEF FileInv
<1> QED
  BY <1>1, <1>2

\* Reading is not saving: no run is at a system call before or after.
LEMMA ReadFile ==
    ASSUME TypeInv, FileInv, NEW p \in Procs, Load(p) \/ Read(p) \/ SkipSource(p)
    PROVE  FileInv'
<1>1. /\ UNCHANGED <<json, tmp, fd, overlapped>>
      /\ pc[p] \in {"idle", "read"}
      /\ pc' = pc \/ \E l \in {"read", "create"} : pc' = [pc EXCEPT ![p] = l]
  BY DEF Load, Read, SkipSource, NextSource, Goto, disk
<1>2. /\ pc'[p] \notin {"write", "rename"}
      /\ \A q \in Procs \ {p} : pc'[q] = pc[q]
  BY <1>1 DEF TypeInv
<1> QED
  BY <1>1, <1>2 DEF FileInv

LEMMA FileStep ==
    ASSUME TypeInv, FileInv, [Next]_vars
    PROVE  FileInv'
<1>1. CASE UNCHANGED vars \/ \E s \in Sources : Append(s) \/ Rotate(s) \/ Truncate(s)
  BY <1>1 DEF Append, Rotate, Truncate, Change, FileInv, vars, disk, run
<1>2. ASSUME NEW p \in Procs,
             Post(p) \/ ReadFails(p) \/ RenameFails(p) \/ SaveFails(p) \/ Crash(p)
      PROVE  FileInv'
  BY <1>2, EndRunFile DEF Post, ReadFails, RenameFails, SaveFails, Crash, Abandon
<1> QED
  BY <1>1, <1>2, ReadFile, CreateFile, WriteFile, RenameFile DEF Next, Step, LoadFails

-----------------------------------------------------------------------------
(* What the cursors have passed.                                           *)

LEMMA FitsMore ==
    ASSUME NEW f, NEW c, NEW s, NEW S, NEW T, Fits(f, c, s, S), S \subseteq T
    PROVE  Fits(f, c, s, T)
BY DEF Fits

\* The start of a file has passed nothing.
LEMMA StartFits ==
    ASSUME NEW f \in FileType, NEW s, NEW S
    PROVE  Fits(f, Start, s, S)
BY DEF Fits, PassedOf, Start, CursorType, FileType

\* A file that grows: only a cursor at its very new end has passed more.
LEMMA FitsGrown ==
    ASSUME NEW f \in FileType, NEW g \in FileType, NEW c, NEW s, NEW S, Fits(f, c, s, S),
           g.number = f.number, g.first = f.first, g.length = f.length + 1,
           c = [file |-> f.number, offset |-> f.length + 1] =>
              {<<s, f.first + i>> : i \in 0..f.length} \subseteq S
    PROVE  Fits(g, c, s, S)
<1>1. CASE c.file = f.number /\ c.offset = f.length + 1
  <2>1. c = [file |-> f.number, offset |-> f.length + 1]
    BY <1>1 DEF Fits, CursorType
  <2> QED
    BY <1>1, <2>1 DEF Fits, PassedOf, CursorType, FileType
<1>2. CASE ~(c.file = f.number /\ c.offset = f.length + 1)
  <2>1. c.file = g.number /\ c.offset <= g.length => c.file = f.number /\ c.offset <= f.length
    BY <1>2 DEF Fits, CursorType, FileType
  <2> QED
    BY <2>1 DEF Fits, PassedOf, CursorType, FileType
<1> QED
  BY <1>1, <1>2

\* A file that is replaced or emptied: no cursor has passed anything in it.
LEMMA FitsChanged ==
    ASSUME NEW f \in FileType, NEW g \in FileType, NEW c, NEW s, NEW S, Fits(f, c, s, S),
           g.number \in {f.number, f.number + 1}, g.length = 0
    PROVE  Fits(g, c, s, S)
BY DEF Fits, PassedOf, CursorType, FileType

\* Reading from where a cursor is to the end leaves nothing out.
LEMMA ReadFits ==
    ASSUME TypeInv, NEW s \in Sources, NEW c, NEW S, Fits(file[s], c, s, S)
    PROVE  Fits(file[s], NewCursor(s), s, S \cup Parsed(c, s))
<1> DEFINE f == file[s]
<1>1. f \in FileType /\ c \in CursorType
  BY DEF TypeInv, Fits
<1>2. NewCursor(s) = [file |-> f.number, offset |-> f.length]
  BY DEF NewCursor
<1>3. Parsed(c, s) = {<<s, f.first + i>> : i \in Resumed(c, s)..(f.length - 1)}
  BY DEF Parsed, Lines
<1>4. \/ Resumed(c, s) = 0
      \/ c.file = f.number /\ c.offset <= f.length /\ Resumed(c, s) = c.offset
  BY <1>1 DEF Resumed, CursorType, FileType
<1>5. PassedOf(f, c, s) \subseteq S
  BY DEF Fits
<1> HIDE DEF f
<1>6. PassedOf(f, NewCursor(s), s) = {<<s, f.first + i>> : i \in 0..(f.length - 1)}
  BY <1>1, <1>2 DEF PassedOf, FileType
<1>7. ASSUME NEW i \in 0..(f.length - 1)
      PROVE  <<s, f.first + i>> \in S \cup Parsed(c, s)
  <2>1. CASE i \in Resumed(c, s)..(f.length - 1)
    BY <1>3, <2>1
  <2>2. CASE i \notin Resumed(c, s)..(f.length - 1)
    <3>1. c.file = f.number /\ c.offset <= f.length /\ i \in 0..(c.offset - 1)
      BY <1>1, <1>4, <2>2 DEF CursorType, FileType
    <3> QED
      BY <1>5, <3>1 DEF PassedOf
  <2> QED
    BY <2>1, <2>2
<1>8. NewCursor(s) \in CursorType /\ NewCursor(s).file <= f.number
  BY <1>1, <1>2 DEF CursorType, FileType
<1> QED
  BY <1>6, <1>7, <1>8 DEF Fits, f

\* The step of a process: others keep what they have; what is safe stays safe;
\* each cursor is one that fits.
Alone(p) ==
    /\ file' = file /\ settled \subseteq settled'
    /\ \A q \in Procs \ {p} : pc'[q] = pc[q] /\ hand'[q] = hand[q] /\ states'[q] = states[q]
    /\ pc[p] \in OnDisk =>
          \/ hand[p] \subseteq settled'
          \/ pc'[p] \in OnDisk /\ hand[p] \subseteq hand'[p]

LEMMA SafeStays ==
    ASSUME NEW p \in Procs, Alone(p)
    PROVE  Safe \subseteq Safe'
<1> SUFFICES ASSUME NEW x \in Safe PROVE x \in Safe'
  OBVIOUS
<1>1. CASE x \in settled
  BY <1>1 DEF Alone, Safe
<1>2. CASE x \notin settled
  <2>1. PICK q \in Procs : pc[q] \in OnDisk /\ x \in hand[q]
    BY <1>2 DEF Safe
  <2>2. \/ x \in settled'
        \/ pc'[q] \in OnDisk /\ x \in hand'[q]
    BY <2>1 DEF Alone
  <2> QED
    BY <2>2 DEF Safe
<1> QED
  BY <1>1, <1>2

LEMMA CoverFrom ==
    ASSUME CoverInv, NEW p \in Procs, Alone(p),
           \A s \in Sources :
              /\ Fits(file[s], backend'[s], s, Safe')
              /\ json' \notin {Absent, Broken} => Fits(file[s], json'[s], s, Safe')
              /\ tmp' \notin {Absent, Broken} => Fits(file[s], tmp'[s], s, Safe')
              /\ Fits(file[s], states'[p][s], s, Safe' \cup hand'[p])
    PROVE  CoverInv'
<1>1. ASSUME NEW s \in Sources, NEW q \in Procs
      PROVE  Fits(file[s], states'[q][s], s, Safe' \cup hand'[q])
  <2>1. CASE q = p
    BY <2>1
  <2>2. CASE q # p
    <3>1. states'[q] = states[q] /\ hand'[q] = hand[q]
      BY <2>2 DEF Alone
    <3>2. Safe \cup hand[q] \subseteq Safe' \cup hand'[q]
      BY <3>1, SafeStays
    <3>3. Fits(file[s], states[q][s], s, Safe \cup hand[q])
      BY DEF CoverInv
    <3> QED
      BY <3>1, <3>2, <3>3, FitsMore
  <2> QED
    BY <2>1, <2>2
<1>2. file' = file
  BY DEF Alone
<1> QED
  BY <1>1, <1>2 DEF CoverInv

\* In particular when it leaves the cursor files and the backend alone.
LEMMA CoverKept ==
    ASSUME CoverInv, NEW p \in Procs, Alone(p), backend' = backend,
           json' \in {json, Absent, Broken}, tmp' \in {tmp, Absent, Broken},
           \A s \in Sources : Fits(file[s], states'[p][s], s, Safe' \cup hand'[p])
    PROVE  CoverInv'
<1>1. ASSUME NEW s \in Sources
      PROVE  /\ Fits(file[s], backend'[s], s, Safe')
             /\ json' \notin {Absent, Broken} => Fits(file[s], json'[s], s, Safe')
             /\ tmp' \notin {Absent, Broken} => Fits(file[s], tmp'[s], s, Safe')
  <2>1. /\ Fits(file[s], backend[s], s, Safe)
        /\ json \notin {Absent, Broken} => Fits(file[s], json[s], s, Safe)
        /\ tmp \notin {Absent, Broken} => Fits(file[s], tmp[s], s, Safe)
    BY DEF CoverInv
  <2> QED
    BY <2>1, SafeStays, FitsMore
<1> QED
  BY <1>1, CoverFrom

\* What the log does to its files.
LEMMA LogCover ==
    ASSUME TypeInv, CoverInv, NEW t \in Sources, Append(t) \/ Rotate(t) \/ Truncate(t)
    PROVE  CoverInv'
<1>1. /\ UNCHANGED <<backend, json, tmp, pc, states, hand>> /\ settled \subseteq settled'
      /\ \A s \in Sources : s # t => file'[s] = file[s]
  BY DEF Append, Rotate, Truncate, Change, disk, run, result, TypeInv
<1>2. Safe \subseteq Safe'
  BY <1>1 DEF Safe
<1>3. file[t] \in FileType
  BY DEF TypeInv
<1>4. ASSUME NEW c \in Cursors(t), NEW S, NEW T, Fits(file[t], c, t, S), S \subseteq T,
             settled' \subseteq T
      PROVE  Fits(file'[t], c, t, T)
  <2>1. Fits(file[t], c, t, T)
    BY <1>4, FitsMore
  <2>2. CASE Append(t)
    <3>1. file'[t] = [file[t] EXCEPT !.length = @ + 1]
      BY <2>2 DEF Append, TypeInv
    <3>2. /\ file'[t] \in FileType /\ file'[t].number = file[t].number
          /\ file'[t].first = file[t].first /\ file'[t].length = file[t].length + 1
      BY <1>3, <3>1 DEF FileType
    <3>3. ASSUME c = [file |-> file[t].number, offset |-> file[t].length + 1]
          PROVE  {<<t, file[t].first + i>> : i \in 0..file[t].length} \subseteq T
      <4>1. Lines(t, 0, file[t].length + 1) \subseteq settled'
        BY <2>2, <3>3 DEF Append
      <4>2. (file[t].length + 1) - 1 = file[t].length
        BY <1>3 DEF FileType
      <4> QED
        BY <1>4, <4>1, <4>2 DEF Lines
    <3> QED
      BY <1>3, <2>1, <3>2, <3>3, FitsGrown
  <2>3. CASE Rotate(t) \/ Truncate(t)
    <3>1. PICK n \in {file[t].number, file[t].number + 1} : Change(t, n)
      BY <2>3 DEF Rotate, Truncate
    <3>2. file'[t] = [number |-> n, first |-> Written(t), length |-> 0]
      BY <3>1 DEF Change, TypeInv
    <3>3. /\ file'[t] \in FileType /\ file'[t].number \in {file[t].number, file[t].number + 1}
          /\ file'[t].length = 0
      BY <1>3, <3>1, <3>2 DEF FileType, Written
    <3> QED
      BY <1>3, <2>1, <3>3, FitsChanged
  <2> QED
    BY <2>2, <2>3
<1>5. ASSUME NEW s \in Sources, NEW c \in Cursors(s), NEW S, NEW T, Fits(file[s], c, s, S),
             S \subseteq T, settled' \subseteq T
      PROVE  Fits(file'[s], c, s, T)
  BY <1>1, <1>4, <1>5, FitsMore
<1>6. settled' \subseteq Safe' /\ \A p \in Procs : settled' \subseteq Safe' \cup hand[p]
  BY DEF Safe
<1>7. \A s \in Sources :
         /\ backend[s] \in Cursors(s)
         /\ json \notin {Absent, Broken} => json[s] \in Cursors(s)
         /\ tmp \notin {Absent, Broken} => tmp[s] \in Cursors(s)
         /\ \A p \in Procs : states[p][s] \in Cursors(s)
  BY DEF Cursors
<1>8. ASSUME NEW s \in Sources
      PROVE  /\ Fits(file'[s], backend[s], s, Safe')
             /\ json \notin {Absent, Broken} => Fits(file'[s], json[s], s, Safe')
             /\ tmp \notin {Absent, Broken} => Fits(file'[s], tmp[s], s, Safe')
  BY <1>2, <1>5, <1>6, <1>7 DEF CoverInv
<1>9. ASSUME NEW s \in Sources, NEW p \in Procs
      PROVE  Fits(file'[s], states[p][s], s, Safe' \cup hand[p])
  <2>1. Safe \cup hand[p] \subseteq Safe' \cup hand[p]
    BY <1>2
  <2> QED
    BY <1>5, <1>6, <1>7, <2>1 DEF CoverInv
<1> QED
  BY <1>1, <1>8, <1>9 DEF CoverInv

\* A run that ends loses nothing that a cursor on disk has passed.
LEMMA EndAlone ==
    ASSUME TypeInv, NEW p \in Procs, EndRun(p), file' = file, settled \subseteq settled',
           pc[p] \in OnDisk => hand[p] \subseteq settled'
    PROVE  /\ Alone(p)
           /\ \A S : \A s \in Sources : Fits(file[s], states'[p][s], s, S)
<1>1. Alone(p)
  BY DEF Alone, EndRun, Goto, TypeInv
<1>2. states'[p] = Empty
  BY DEF EndRun, TypeInv
<1> QED
  BY <1>1, <1>2, EmptyIsSaved, StartFits DEF TypeInv

LEMMA AbandonCover ==
    ASSUME TypeInv, CoverInv, NEW p \in Procs, Abandon(p)
    PROVE  CoverInv'
<1>1. /\ EndRun(p) /\ UNCHANGED <<file, json, tmp, backend>> /\ settled \subseteq settled'
      /\ pc[p] \in OnDisk => hand[p] \subseteq settled'
  BY DEF Abandon, OnDisk
<1> QED
  BY <1>1, EndAlone, CoverKept

LEMMA PostCover ==
    ASSUME TypeInv, CoverInv, NEW p \in Procs, Post(p)
    PROVE  CoverInv'
<1>1. /\ EndRun(p) /\ UNCHANGED <<file, json, tmp>> /\ settled' = settled \cup hand[p]
      /\ pc[p] = "post"
  BY DEF Post
<1>2. Alone(p) /\ \A S : \A s \in Sources : Fits(file[s], states'[p][s], s, S)
  BY <1>1, EndAlone
<1>3. Safe \cup hand[p] \subseteq Safe'
  BY <1>1, <1>2, SafeStays DEF Safe
<1>4. ASSUME NEW s \in Sources
      PROVE  Fits(file[s], backend'[s], s, Safe')
  <2>1. backend'[s] \in {backend[s], states[p][s]}
    BY DEF Post, Accept, TypeInv, Saved
  <2>2. Fits(file[s], backend[s], s, Safe) /\ Fits(file[s], states[p][s], s, Safe \cup hand[p])
    BY DEF CoverInv
  <2> QED
    BY <1>3, <2>1, <2>2, FitsMore
<1>5. ASSUME NEW s \in Sources
      PROVE  /\ json' \notin {Absent, Broken} => Fits(file[s], json'[s], s, Safe')
             /\ tmp' \notin {Absent, Broken} => Fits(file[s], tmp'[s], s, Safe')
  BY <1>1, <1>3, FitsMore DEF CoverInv
<1> QED
  BY <1>2, <1>4, <1>5, CoverFrom

LEMMA LoadCover ==
    ASSUME TypeInv, CoverInv, NEW p \in Procs, Load(p)
    PROVE  CoverInv'
<1>1. /\ pc[p] = "idle" /\ json # Broken /\ pc' = [pc EXCEPT ![p] = "read"]
      /\ states' = [states EXCEPT ![p] = IF json = Absent THEN Empty ELSE json]
      /\ UNCHANGED <<file, json, tmp, backend, hand, settled>>
  BY DEF Load, Goto, disk, result
<1>2. Alone(p)
  BY <1>1 DEF Alone, OnDisk, TypeInv
<1>3. states'[p] = IF json = Absent THEN Empty ELSE json
  BY <1>1 DEF TypeInv
<1>4. ASSUME NEW s \in Sources
      PROVE  Fits(file[s], states'[p][s], s, Safe' \cup hand'[p])
  <2>1. CASE json = Absent
    BY <1>3, <2>1, EmptyIsSaved, StartFits DEF TypeInv
  <2>2. CASE json # Absent
    <3>1. Fits(file[s], json[s], s, Safe)
      BY <1>1, <2>2 DEF CoverInv
    <3>2. Safe \subseteq Safe' \cup hand'[p]
      BY <1>2, SafeStays
    <3> QED
      BY <1>3, <2>2, <3>1, <3>2, FitsMore
  <2> QED
    BY <2>1, <2>2
<1> QED
  BY <1>1, <1>2, <1>4, CoverKept

\* A run that reads has nothing on disk, and its hands fill.
LEMMA ReadAlone ==
    ASSUME TypeInv, NEW p \in Procs, pc[p] = "read", NextSource(p),
           UNCHANGED <<file, settled>>,
           \A q \in Procs \ {p} : hand'[q] = hand[q] /\ states'[q] = states[q]
    PROVE  Alone(p)
BY DEF Alone, NextSource, Goto, TypeInv, OnDisk

LEMMA SkipCover ==
    ASSUME TypeInv, CoverInv, NEW p \in Procs, SkipSource(p)
    PROVE  CoverInv'
<1>1. /\ pc[p] = "read" /\ NextSource(p)
      /\ UNCHANGED <<file, json, tmp, backend, states, hand, settled>>
  BY DEF SkipSource, disk, result
<1>2. Alone(p)
  BY <1>1, ReadAlone
<1>3. \A s \in Sources : Fits(file[s], states'[p][s], s, Safe' \cup hand'[p])
  <2>1. Safe \cup hand[p] \subseteq Safe' \cup hand'[p]
    BY <1>1, <1>2, SafeStays
  <2> QED
    BY <1>1, <2>1, FitsMore DEF CoverInv
<1> QED
  BY <1>1, <1>2, <1>3, CoverKept

LEMMA ReadCover ==
    ASSUME TypeInv, CoverInv, NEW p \in Procs, Read(p)
    PROVE  CoverInv'
<1> DEFINE t == source[p]
           more == Parsed(Cursor(p, t), t)
<1>1. /\ pc[p] = "read" /\ NextSource(p)
      /\ hand' = [hand EXCEPT ![p] = @ \cup more]
      /\ states' = [states EXCEPT ![p][t] = NewCursor(t)]
      /\ UNCHANGED <<file, json, tmp, backend, settled>>
  BY DEF Read, disk
<1>2. t \in Sources
  BY DEF TypeInv
<1>3. Fits(file[t], Cursor(p, t), t, Safe \cup hand[p])
  <2>1. /\ Fits(file[t], backend[t], t, Safe)
        /\ Fits(file[t], states[p][t], t, Safe \cup hand[p])
    BY <1>2 DEF CoverInv
  <2>2. Safe \subseteq Safe \cup hand[p]
    OBVIOUS
  <2> QED
    BY <2>1, <2>2, FitsMore DEF Cursor
<1>4. Fits(file[t], NewCursor(t), t, (Safe \cup hand[p]) \cup more)
  BY <1>2, <1>3, ReadFits
<1> HIDE DEF t, more
<1>5. /\ hand'[p] = hand[p] \cup more
      /\ states'[p][t] = NewCursor(t)
      /\ \A s \in Sources \ {t} : states'[p][s] = states[p][s]
      /\ \A q \in Procs \ {p} : hand'[q] = hand[q] /\ states'[q] = states[q]
  BY <1>1, <1>2 DEF TypeInv, Saved
<1>6. Alone(p)
  BY <1>1, <1>5, ReadAlone
<1>7. Safe \cup hand[p] \subseteq Safe' \cup hand'[p] /\ more \subseteq hand'[p]
  BY <1>5, <1>6, SafeStays
<1>8. ASSUME NEW s \in Sources
      PROVE  Fits(file[s], states'[p][s], s, Safe' \cup hand'[p])
  <2>1. CASE s = t
    <3>1. (Safe \cup hand[p]) \cup more \subseteq Safe' \cup hand'[p]
      BY <1>7
    <3> QED
      BY <1>4, <1>5, <2>1, <3>1, FitsMore
  <2>2. CASE s # t
    <3>1. Fits(file[s], states[p][s], s, Safe \cup hand[p])
      BY DEF CoverInv
    <3> QED
      BY <1>5, <1>7, <2>2, <3>1, FitsMore
  <2> QED
    BY <2>1, <2>2
<1> QED
  BY <1>1, <1>6, <1>8, CoverKept

\* The system calls of a save leave a run its cursors and its lines.
LEMMA SaveAlone ==
    ASSUME TypeInv, CoverInv, NEW p \in Procs,
           UNCHANGED <<file, settled, hand, states>>,
           \E l \in {"write"} \cup OnDisk : pc' = [pc EXCEPT ![p] = l]
              /\ (pc[p] \in OnDisk => l \in OnDisk)
    PROVE  /\ Alone(p)
           /\ \A s \in Sources : Fits(file[s], states'[p][s], s, Safe' \cup hand'[p])
<1>1. Alone(p)
  BY DEF Alone, TypeInv
<1>2. Safe \cup hand[p] \subseteq Safe' \cup hand'[p]
  BY <1>1, SafeStays
<1> QED
  BY <1>1, <1>2, FitsMore DEF CoverInv

LEMMA CreateCover ==
    ASSUME TypeInv, CoverInv, NEW p \in Procs, Create(p)
    PROVE  CoverInv'
<1>1. /\ UNCHANGED <<file, settled, hand, states, json, backend>> /\ tmp' = Broken
      /\ pc[p] = "create" /\ pc' = [pc EXCEPT ![p] = "write"]
  BY DEF Create, Goto, result
<1>2. /\ Alone(p)
      /\ \A s \in Sources : Fits(file[s], states'[p][s], s, Safe' \cup hand'[p])
  BY <1>1, SaveAlone DEF OnDisk
<1> QED
  BY <1>1, <1>2, CoverKept

\* From the moment a run's text is in a file, its lines are safe.
LEMMA WriteCover ==
    ASSUME TypeInv, CoverInv, NEW p \in Procs, Write(p)
    PROVE  CoverInv'
<1>1. /\ UNCHANGED <<file, settled, hand, states, backend>>
      /\ pc[p] = "write" /\ pc' = [pc EXCEPT ![p] = "rename"]
  BY DEF Write, Goto, result
<1>2. /\ Alone(p)
      /\ \A s \in Sources : Fits(file[s], states'[p][s], s, Safe' \cup hand'[p])
  BY <1>1, SaveAlone DEF OnDisk
<1>3. Safe \cup hand[p] \subseteq Safe'
  <2>1. pc'[p] \in OnDisk /\ hand'[p] = hand[p]
    BY <1>1 DEF TypeInv, OnDisk
  <2>2. hand'[p] \subseteq Safe'
    BY <2>1 DEF Safe
  <2> QED
    BY <1>2, <2>1, <2>2, SafeStays
<1>4. json' \in {json, states[p], Broken} /\ tmp' \in {tmp, states[p], Broken}
  <2>1. \A old : Text(old, states[p]) \subseteq {states[p], Broken}
    BY DEF Text
  <2>2. json' \in {json} \cup Text(json, states[p]) /\ tmp' \in {tmp} \cup Text(tmp, states[p])
    BY Zenon DEF Write
  <2> QED
    BY <2>1, <2>2
<1>5. ASSUME NEW s \in Sources
      PROVE  /\ Fits(file[s], backend'[s], s, Safe')
             /\ json' \notin {Absent, Broken} => Fits(file[s], json'[s], s, Safe')
             /\ tmp' \notin {Absent, Broken} => Fits(file[s], tmp'[s], s, Safe')
  <2>1. Fits(file[s], states[p][s], s, Safe \cup hand[p])
    BY DEF CoverInv
  <2>2. Fits(file[s], states[p][s], s, Safe')
    BY <1>3, <2>1, FitsMore
  <2>3. /\ Fits(file[s], backend[s], s, Safe')
        /\ json \notin {Absent, Broken} => Fits(file[s], json[s], s, Safe')
        /\ tmp \notin {Absent, Broken} => Fits(file[s], tmp[s], s, Safe')
    BY <1>3, FitsMore DEF CoverInv
  <2> QED
    BY <1>1, <1>4, <2>2, <2>3
<1> QED
  BY <1>2, <1>5, CoverFrom

LEMMA RenameCover ==
    ASSUME TypeInv, CoverInv, NEW p \in Procs, Rename(p)
    PROVE  CoverInv'
<1>1. /\ UNCHANGED <<file, settled, hand, states, backend>> /\ json' = tmp /\ tmp' = Absent
      /\ pc[p] = "rename" /\ pc' = [pc EXCEPT ![p] = "post"]
  BY DEF Rename, Goto, result
<1>2. /\ Alone(p)
      /\ \A s \in Sources : Fits(file[s], states'[p][s], s, Safe' \cup hand'[p])
  BY <1>1, SaveAlone DEF OnDisk
<1>3. ASSUME NEW s \in Sources
      PROVE  /\ Fits(file[s], backend'[s], s, Safe')
             /\ json' \notin {Absent, Broken} => Fits(file[s], json'[s], s, Safe')
             /\ tmp' \notin {Absent, Broken} => Fits(file[s], tmp'[s], s, Safe')
  BY <1>1, <1>2, SafeStays, FitsMore DEF CoverInv
<1> QED
  BY <1>2, <1>3, CoverFrom

LEMMA CoverStep ==
    ASSUME TypeInv, CoverInv, [Next]_vars
    PROVE  CoverInv'
<1>1. CASE UNCHANGED vars
  BY <1>1 DEF CoverInv, Safe, vars, disk, run, result
<1>2. ASSUME NEW p \in Procs, ReadFails(p) \/ RenameFails(p) \/ SaveFails(p) \/ Crash(p)
      PROVE  CoverInv'
  BY <1>2, AbandonCover DEF ReadFails, RenameFails, SaveFails, Crash
<1> QED
  BY <1>1, <1>2, LogCover, LoadCover, ReadCover, SkipCover, CreateCover, WriteCover,
     RenameCover, PostCover DEF Next, Step, LoadFails

-----------------------------------------------------------------------------
(* The theorems.                                                           *)

Inv == TypeInv /\ FileInv /\ CoverInv

LEMMA InvInit ==
    ASSUME Init
    PROVE  Inv
<1>1. \A s \in Sources : file[s] \in FileType
  BY DEF Init, FileType
<1>2. TypeInv
  BY EmptyIsSaved, SourcesAre DEF Init, TypeInv, FileType
<1>3. FileInv
  BY MiningAssumption DEF Init, FileInv
<1>4. CoverInv
  BY <1>1, EmptyIsSaved, StartFits DEF Init, CoverInv
<1> QED
  BY <1>2, <1>3, <1>4 DEF Inv

\* The invariant behind both theorems, of every step: cursors of the file that
\* is there or of an earlier one, whose lines nobody can lose any more once a
\* cursor on disk has passed them (cmd/agent/main.go:605-687,
\* pkg/logs/cursor_store.go:53-83).
THEOREM Invariance == Spec => []Inv
<1>1. Inv /\ [Next]_vars => Inv'
  BY TypeStep, FileStep, CoverStep DEF Inv
<1> QED
  BY <1>1, InvInit, PTL DEF Spec

\* The cursor file is whole, wherever a run dies, unless two runs saved at once
\* (pkg/logs/cursor_store.go:52-83).
THEOREM FileIsWhole == Spec => []WholeUnlessOverlapped
<1>1. Inv => WholeUnlessOverlapped
  BY DEF Inv, FileInv, WholeUnlessOverlapped
<1> QED
  BY <1>1, Invariance, PTL

\* What a saved cursor has passed is in a result that was delivered, is in the
\* hands of a run, or was lost with a run that died after its save
\* (cmd/agent/main.go:669-687).
THEOREM NothingIsPassedOver == Spec => []PassedLinesAreReported
<1>1. ASSUME Inv
      PROVE  PassedLinesAreReported
  <2>1. Safe \subseteq settled \cup UNION {hand[p] : p \in Procs}
    BY DEF Safe
  <2>2. \A c : \A s \in Sources : Passed(s, c) = PassedOf(file[s], c, s)
    BY DEF Passed, PassedOf, Lines
  <2>3. ASSUME NEW s \in Sources,
               NEW c \in {backend[s]} \cup {j[s] : j \in {json} \ {Absent, Broken}}
        PROVE  PassedOf(file[s], c, s) \subseteq Safe
    BY <1>1 DEF Inv, CoverInv, Fits
  <2> QED
    BY <2>1, <2>2, <2>3 DEF PassedLinesAreReported
<1> QED
  BY <1>1, Invariance, PTL
=============================================================================
