--------------------------- MODULE EvidenceProofs ---------------------------
(***************************************************************************)
(* Theorems about Evidence: for any agents, captures, trails, limits and   *)
(* faults, one token at most is good, and the watermark of the backend     *)
(* covers only what it has.                                                *)
(***************************************************************************)
EXTENDS Evidence, SequenceTheorems, TLAPS

-----------------------------------------------------------------------------
(* Types and tokens.                                                       *)

\* The parts of TypeOK.
WorldOK ==
    /\ study \in Studies /\ down \in BOOLEAN
    /\ now \in 1..MaxTime /\ Len(trail) \in 0..MaxRecords
    /\ trail \in Seq([sec : Nat, frac : Nat, key : Nat])
    /\ \A i \in DOMAIN trail : \E s \in 1..now, p \in study.places : trail[i] = Record(s, p)
FaultsOK == faults \in 0..MaxFaults
BackendOK ==
    /\ holder \in Agents \cup {Nobody} /\ watermark \in Marks /\ stored \subseteq DOMAIN trail
    /\ late \subseteq DOMAIN trail /\ outside \subseteq DOMAIN trail
RunOK ==
    /\ pc \in [Agents -> {"idle", "capture", "query"}]
    /\ lease \in [Agents -> [held : BOOLEAN, mark : Marks]]
    /\ valid \in [Agents -> BOOLEAN]
    /\ rows \in [Agents -> SUBSET DOMAIN trail] /\ mark \in [Agents -> Marks]
CountOK ==
    /\ count \in [Agents -> 0..study.times]
    \* another capture is due where one is under way
    /\ \A a \in Agents : pc[a] = "query" => count[a] < study.times
QueueOK == queued \in [Agents -> SUBSET Results]
OneToken ==
    /\ \A a \in Agents : valid[a] \/ (\E q \in queued[a] : q.valid) => holder = a
    /\ \A a \in Agents : \A q \in queued[a] :
          q.valid => ~valid[a] /\ \A r \in queued[a] : r.valid => r = q

Inv == WorldOK /\ FaultsOK /\ BackendOK /\ RunOK /\ CountOK /\ QueueOK /\ OneToken

LEMMA TypeParts == Inv => TypeOK
BY DEF Inv, TypeOK, WorldOK, FaultsOK, BackendOK, RunOK, CountOK, QueueOK, OneToken

\* The bounds are numbers, and so is what a study says of its records.
LEMMA Bounds ==
  /\ Limit \in Nat \ {0} /\ Window \in Nat /\ MaxTime \in Nat \ {0}
  /\ MaxRecords \in Nat /\ MaxFaults \in Nat
  /\ Nobody \notin Agents
BY EvidenceAssumption

LEMMA StudyTypes ==
  ASSUME NEW s \in Studies
  PROVE  s.times \in Nat \ {0} /\ s.places \in SUBSET (Nat \X Nat)
<1>1. s \in Study
  BY EvidenceAssumption
<1> QED
  BY <1>1 DEF Study

LEMMA NoMarkIsMark == NoMark \in Marks /\ NoLease \in [held : BOOLEAN, mark : Marks]
BY Bounds DEF NoMark, Marks, NoLease

\* A record's mark, and its fields.
LEMMA RecordTypes ==
  ASSUME WorldOK, NEW i \in DOMAIN trail
  PROVE  /\ trail[i] \in [sec : Nat, frac : Nat, key : Nat]
         /\ trail[i].sec \in 1..now /\ MarkOf(trail[i]) \in Marks
<1>1. PICK s \in 1..now, p \in study.places : trail[i] = Record(s, p)
  BY DEF WorldOK
<1>2. p \in Nat \X Nat /\ now \in Nat /\ now <= MaxTime /\ MaxTime \in Nat
  BY StudyTypes, Bounds DEF WorldOK
<1>3. p[2] \in Nat
  BY <1>2
<1> DEFINE R == [sec : Nat, frac : Nat, key : Nat]
<1>4. trail[i] \in R
  <2>1. trail \in Seq(R)
    BY DEF WorldOK
  <2> HIDE DEF R
  <2> QED
    BY <2>1
<1>5. trail[i].sec = s /\ trail[i].key = p[2]
  BY <1>1 DEF Record
<1> QED
  BY <1>2, <1>3, <1>4, <1>5 DEF MarkOf, Marks

LEMMA InitInv == Init => Inv
<1> SUFFICES ASSUME Init PROVE Inv
  OBVIOUS
<1> USE Bounds DEF Init
<1>1. WorldOK
  <2>1. trail \in Seq([sec : Nat, frac : Nat, key : Nat]) /\ DOMAIN trail = {} /\ Len(trail) = 0
    BY DEF Init
  <2>2. now \in 1..MaxTime /\ Len(trail) \in 0..MaxRecords
    BY <2>1
  <2> QED
    BY <2>1, <2>2, Zenon DEF WorldOK
<1>2. study.times \in Nat \ {0}
  BY StudyTypes
<1>3. BackendOK /\ RunOK
  BY NoMarkIsMark DEF BackendOK, RunOK
<1>4. FaultsOK /\ CountOK /\ QueueOK /\ OneToken
  BY <1>2 DEF FaultsOK, CountOK, QueueOK, OneToken
<1> QED
  BY <1>1, <1>3, <1>4 DEF Inv

LEMMA FaultCounts == FaultsOK /\ Fault => FaultsOK'
BY Bounds DEF FaultsOK, Fault

\* The steps that leave the trail alone.
LEMMA WorldKept ==
  ASSUME WorldOK, UNCHANGED <<study, now, trail>>, down' \in {down, TRUE, FALSE}
  PROVE  WorldOK'
BY DEF WorldOK

\* What a query may return, and what it may report.
LEMMA GotTypes ==
  ASSUME Inv, NEW a \in Agents, NEW got \in Oldest(Limit, Selected(a))
  PROVE  got \in SUBSET DOMAIN trail /\ Watermarks(a, got) \subseteq Marks
<1>1. Selected(a) \subseteq DOMAIN trail
  BY DEF Selected, Default, Visible
<1>2. got \in SUBSET DOMAIN trail
  BY <1>1 DEF Oldest
<1>3. lease[a].mark \in Marks
  BY DEF Inv, RunOK
<1>4. \A i \in Last(got) : MarkOf(trail[i]) \in Marks
  BY <1>2, RecordTypes DEF Last, Inv
<1> QED
  BY <1>2, <1>3, <1>4 DEF Watermarks

\* The tokens that go with a lease.
LEMMA RevokedTypes ==
  ASSUME QueueOK, RevokedQueued, UNCHANGED trail
  PROVE  /\ QueueOK' /\ \A a \in Agents : \A q \in queued'[a] : ~q.valid
         /\ \A a \in Agents : \A q \in queued'[a] :
               \E r \in queued[a] : q.mark = r.mark /\ q.rows = r.rows
<1>1. ASSUME NEW a \in Agents, NEW q \in queued[a]
      PROVE  /\ [q EXCEPT !.valid = FALSE] \in Results /\ ~[q EXCEPT !.valid = FALSE].valid
             /\ [q EXCEPT !.valid = FALSE].mark = q.mark
             /\ [q EXCEPT !.valid = FALSE].rows = q.rows
  <2>1. q \in Results
    BY DEF QueueOK
  <2> QED
    BY <2>1 DEF Results
<1>2. \A a \in Agents : queued'[a] = {[q EXCEPT !.valid = FALSE] : q \in queued[a]}
  BY DEF RevokedQueued
<1>3. \A a \in Agents : queued'[a] \subseteq Results
  BY <1>1, <1>2
<1>4. queued' = [a \in Agents |-> queued'[a]]
  BY DEF RevokedQueued
<1>5. Results' = Results
  BY DEF Results, Marks
<1>6. QueueOK'
  BY <1>3, <1>4, <1>5 DEF QueueOK
<1>7. ASSUME NEW a \in Agents, NEW q \in queued'[a]
      PROVE  ~q.valid /\ \E r \in queued[a] : q.mark = r.mark /\ q.rows = r.rows
  <2>1. PICK r \in queued[a] : q = [r EXCEPT !.valid = FALSE]
    BY <1>2
  <2> QED
    BY <1>1, <2>1
<1> QED
  BY <1>6, <1>7

LEMMA NextInv == Inv /\ [Next]_vars => Inv'
<1> SUFFICES ASSUME Inv, [Next]_vars PROVE Inv'
  OBVIOUS
<1>0. study.times \in Nat
  BY StudyTypes DEF Inv, WorldOK
<1> USE Bounds DEF Inv, env, backend, run, history, vars
<1>1. ASSUME NEW s \in 1..MaxTime, NEW p \in study.places, Commit(Record(s, p)) PROVE Inv'
  <2>1. /\ Record(s, p) \in [sec : Nat, frac : Nat, key : Nat] /\ s \in 1..now
        /\ trail' = Append(trail, Record(s, p)) /\ Len(trail) < MaxRecords
        /\ UNCHANGED <<study, now, down>>
    <3>1. s \in Nat /\ p \in Nat \X Nat /\ s \in {now, now - 1} \ {0} /\ now \in 1..MaxTime
      BY <1>1, StudyTypes DEF Commit, WorldOK, Record
    <3> QED
      BY <1>1, <3>1 DEF Commit, Record
  <2>2. trail \in Seq([sec : Nat, frac : Nat, key : Nat]) /\ Len(trail) \in 0..MaxRecords
    BY DEF WorldOK
  <2>3. /\ trail' \in Seq([sec : Nat, frac : Nat, key : Nat])
        /\ Len(trail') = Len(trail) + 1 /\ DOMAIN trail' = DOMAIN trail \cup {Len(trail) + 1}
        /\ trail'[Len(trail) + 1] = Record(s, p)
        /\ \A i \in DOMAIN trail : trail'[i] = trail[i]
    <3> DEFINE R == [sec : Nat, frac : Nat, key : Nat]   r == Record(s, p)
    <3>1. r \in R /\ trail \in Seq(R) /\ trail' = Append(trail, r)
      BY <2>1, <2>2
    <3> HIDE DEF R, r
    <3>2. /\ trail' \in Seq(R) /\ Len(trail') = Len(trail) + 1
          /\ DOMAIN trail' = DOMAIN trail \cup {Len(trail) + 1}
          /\ trail'[Len(trail) + 1] = r /\ \A i \in DOMAIN trail : trail'[i] = trail[i]
      BY <3>1
    <3> QED
      BY <3>2 DEF R, r
  <2>4. ASSUME NEW i \in DOMAIN trail'
        PROVE  \E t \in 1..now, o \in study.places : trail'[i] = Record(t, o)
    <3>1. CASE i \in DOMAIN trail
      BY <2>3, <3>1 DEF WorldOK
    <3>2. CASE i = Len(trail) + 1
      BY <2>1, <2>3, <3>2
    <3> QED
      BY <2>3, <3>1, <3>2
  <2>5. Len(trail') \in 0..MaxRecords
    BY <2>1, <2>2, <2>3
  <2>6. WorldOK'
    BY <2>1, <2>3, <2>4, <2>5, Zenon DEF WorldOK, Record
  <2>7. FaultsOK'
    BY <1>1, FaultCounts DEF Commit, FaultsOK
  <2>8. BackendOK'
    BY <1>1, <2>3 DEF Commit, BackendOK, backend
  <2>9. RunOK'
    BY <1>1, <2>3 DEF Commit, RunOK, run
  <2>10. CountOK'
    BY <1>1, <1>0 DEF Commit, CountOK, RunOK
  <2>11. Results \subseteq Results'
    BY <2>3 DEF Results, Marks
  <2>12. QueueOK'
    BY <1>1, <2>11 DEF Commit, QueueOK
  <2>13. OneToken'
    BY <1>1 DEF Commit, OneToken, RunOK, QueueOK
  <2> QED
    BY <2>6, <2>7, <2>8, <2>9, <2>10, <2>12, <2>13
<1>2. CASE TimePasses
  <2>1. WorldOK'
    <3>1. now \in Nat /\ now' = now + 1 /\ now' \in 1..MaxTime
      BY <1>2 DEF TimePasses, WorldOK
    <3>2. 1..now \subseteq 1..now'
      BY <3>1
    <3> QED
      BY <1>2, <3>1, <3>2 DEF TimePasses, WorldOK
  <2>2. FaultsOK'
    BY <1>2, FaultCounts DEF TimePasses, FaultsOK
  <2>3. BackendOK'
    BY <1>2 DEF TimePasses, BackendOK
  <2>4. RunOK'
    BY <1>2 DEF TimePasses, RunOK
  <2>5. CountOK'
    BY <1>2, <1>0 DEF TimePasses, CountOK, RunOK
  <2>6. QueueOK'
    BY <1>2 DEF TimePasses, QueueOK, Results, Marks
  <2>7. OneToken'
    BY <1>2 DEF TimePasses, OneToken, RunOK, QueueOK
  <2> QED
    BY <2>1, <2>2, <2>3, <2>4, <2>5, <2>6, <2>7
<1>3. CASE LeaseExpires \/ RunOutlastsLease
  <2>1. WorldOK'
    BY <1>3, WorldKept DEF LeaseExpires, RunOutlastsLease, LeaseLost, Revoked, env
  <2>2. FaultsOK'
    BY <1>3, FaultCounts DEF LeaseExpires, RunOutlastsLease, LeaseLost, Revoked, FaultsOK
  <2>3. BackendOK'
    BY <1>3 DEF LeaseExpires, RunOutlastsLease, LeaseLost, Revoked, BackendOK
  <2>4. RunOK'
    BY <1>3 DEF LeaseExpires, RunOutlastsLease, LeaseLost, Revoked, RunOK
  <2>5. CountOK'
    BY <1>3, <1>0 DEF LeaseExpires, RunOutlastsLease, LeaseLost, Revoked, CountOK, RunOK
  <2>6. QueueOK'
    BY <1>3, RevokedTypes DEF LeaseExpires, RunOutlastsLease, LeaseLost, env
  <2>7. OneToken'
    BY <1>3, RevokedTypes DEF LeaseExpires, RunOutlastsLease, LeaseLost, Revoked, env, OneToken
  <2> QED
    BY <2>1, <2>2, <2>3, <2>4, <2>5, <2>6, <2>7
<1>4. CASE GoesDown \/ ComesBack
  <2>1. WorldOK'
    BY <1>4, WorldKept DEF GoesDown, ComesBack, env
  <2>2. FaultsOK'
    BY <1>4, FaultCounts DEF GoesDown, ComesBack, FaultsOK
  <2>3. BackendOK'
    BY <1>4 DEF GoesDown, ComesBack, BackendOK
  <2>4. RunOK'
    BY <1>4 DEF GoesDown, ComesBack, RunOK
  <2>5. CountOK'
    BY <1>4, <1>0 DEF GoesDown, ComesBack, CountOK, RunOK
  <2>6. QueueOK'
    BY <1>4 DEF GoesDown, ComesBack, QueueOK, Results, Marks
  <2>7. OneToken'
    BY <1>4 DEF GoesDown, ComesBack, OneToken, RunOK, QueueOK
  <2> QED
    BY <2>1, <2>2, <2>3, <2>4, <2>5, <2>6, <2>7
<1>5. ASSUME NEW a \in Agents, UploadQueued(a) PROVE Inv'
  <2>1. WorldOK'
    BY <1>5, WorldKept DEF UploadQueued, env
  <2>2. FaultsOK'
    BY <1>5, FaultCounts DEF UploadQueued, FaultsOK
  <2>3. PICK q \in queued[a] :
           /\ Accept(q)
           /\ queued' \in {[queued EXCEPT ![a] = @ \ {q}],
                          [queued EXCEPT ![a] = (@ \ {q}) \cup {[q EXCEPT !.valid = FALSE]}]}
    BY <1>5 DEF UploadQueued
  <2>4. q \in Results
    BY DEF QueueOK
  <2>5. BackendOK'
    BY <1>5, <2>3, <2>4 DEF UploadQueued, Accept, BackendOK, env, history, Results
  <2>6. RunOK'
    BY <1>5 DEF UploadQueued, RunOK
  <2>7. CountOK'
    BY <1>5, <1>0 DEF UploadQueued, CountOK, RunOK
  <2>8. [q EXCEPT !.valid = FALSE] \in Results /\ ~[q EXCEPT !.valid = FALSE].valid
    BY <2>4 DEF Results
  <2>9. Results' = Results
    BY <1>5 DEF UploadQueued, env, Results, Marks
  <2>10. QueueOK'
    BY <2>3, <2>9, <2>8 DEF QueueOK
  <2>11. /\ queued'[a] \subseteq (queued[a] \ {q}) \cup {[q EXCEPT !.valid = FALSE]}
         /\ \A b \in Agents \ {a} : queued'[b] = queued[b]
         /\ \A b \in Agents : valid'[b] = valid[b]
    BY <1>5, <2>3 DEF UploadQueued, QueueOK
  <2>12. q.valid \/ holder' = holder
    BY <2>3 DEF Accept
  <2>13. \A r \in queued'[a] : r.valid => r \in queued[a] /\ r # q
    BY <2>8, <2>11
  <2>14. ASSUME NEW b \in Agents, NEW r \in queued'[b], r.valid
         PROVE  ~q.valid /\ r \in queued[b]
    BY <2>11, <2>13, <2>14 DEF OneToken
  <2>15. ASSUME NEW b \in Agents, valid[b], q.valid PROVE FALSE
    <3>1. holder = a /\ ~valid[a]
      BY <2>3, <2>15, Zenon DEF OneToken
    <3>2. holder = b
      BY <2>15, Zenon DEF OneToken
    <3> QED
      BY <2>15, <3>1, <3>2
  <2>16. ASSUME NEW b \in Agents, valid'[b] \/ \E r \in queued'[b] : r.valid PROVE holder' = b
    <3>1. valid[b] \/ \E r \in queued[b] : r.valid
      BY <2>11, <2>14, <2>16, Zenon
    <3>2. ~q.valid
      BY <2>11, <2>14, <2>15, <2>16, Zenon
    <3> QED
      BY <2>12, <3>1, <3>2, Zenon DEF OneToken
  <2>17. ASSUME NEW b \in Agents, NEW x \in queued'[b], x.valid
         PROVE  ~valid'[b] /\ \A r \in queued'[b] : r.valid => r = x
    BY <2>11, <2>14, <2>17, Zenon DEF OneToken
  <2>18. OneToken'
    BY <2>16, <2>17, Zenon DEF OneToken
  <2> QED
    BY <2>1, <2>2, <2>5, <2>6, <2>7, <2>10, <2>18
<1>6. ASSUME NEW a \in Agents, Begin(a) \/ CaptureDirectly(a) \/ UseLease(a) PROVE Inv'
  <2>1. WorldOK'
    BY <1>6, WorldKept DEF Begin, CaptureDirectly, UseLease, Capturing, Goto, env
  <2>2. FaultsOK'
    BY <1>6, FaultCounts DEF Begin, CaptureDirectly, UseLease, Capturing, Goto, FaultsOK
  <2>3. BackendOK'
    BY <1>6 DEF Begin, CaptureDirectly, UseLease, Capturing, Goto, BackendOK
  <2>4. RunOK'
    BY <1>6 DEF Begin, CaptureDirectly, UseLease, Capturing, Goto, RunOK
  <2>5. CountOK'
    BY <1>6, <1>0 DEF Begin, CaptureDirectly, UseLease, Capturing, Goto, CountOK, RunOK
  <2>6. QueueOK'
    BY <1>6 DEF Begin, CaptureDirectly, UseLease, Capturing, Goto, QueueOK, Results, Marks
  <2>7. OneToken'
    BY <1>6 DEF Begin, CaptureDirectly, UseLease, Capturing, Goto, OneToken, RunOK, QueueOK
  <2> QED
    BY <2>1, <2>2, <2>3, <2>4, <2>5, <2>6, <2>7
<1>7. ASSUME NEW a \in Agents, AcquireLease(a) PROVE Inv'
  <2>1. WorldOK'
    BY <1>7, WorldKept DEF AcquireLease, AsksForLease, Capturing, Granted, Goto, env
  <2>2. FaultsOK'
    BY <1>7, FaultCounts DEF AcquireLease, AsksForLease, Capturing, Granted, Goto, FaultsOK
  <2>3. BackendOK'
    BY <1>7 DEF AcquireLease, AsksForLease, Capturing, Granted, Goto, BackendOK
  <2>4. RunOK'
    <3>1. valid' \in [Agents -> BOOLEAN]
      BY <1>7, Zenon DEF AcquireLease
    <3>2. lease' \in [Agents -> [held : BOOLEAN, mark : Marks]]
      BY <1>7 DEF AcquireLease, RunOK, BackendOK
    <3> QED
      BY <1>7, <3>1, <3>2 DEF AcquireLease, Goto, RunOK, env, Marks
  <2>5. CountOK'
    BY <1>7, <1>0 DEF AcquireLease, AsksForLease, Capturing, Granted, Goto, CountOK, RunOK
  <2>6. QueueOK'
    BY <1>7, RevokedTypes DEF AcquireLease, Granted, env
  <2>7. OneToken'
    BY <1>7, RevokedTypes DEF AcquireLease, Granted, env, OneToken
  <2> QED
    BY <2>1, <2>2, <2>3, <2>4, <2>5, <2>6, <2>7
<1>8. ASSUME NEW a \in Agents, Skip(a) \/ QueryFails(a) PROVE Inv'
  <2>1. WorldOK'
    BY <1>8, WorldKept DEF Skip, QueryFails, AsksForLease, Capturing, Captured, env
  <2>2. FaultsOK'
    BY <1>8, FaultCounts DEF Skip, QueryFails, AsksForLease, Capturing, Captured, FaultsOK
  <2>3. BackendOK'
    BY <1>8 DEF Skip, QueryFails, AsksForLease, Capturing, Captured, BackendOK
  <2>4. RunOK'
    BY <1>8 DEF Skip, QueryFails, AsksForLease, Capturing, Captured, RunOK
  <2>5. CountOK'
    <3>1. CASE Skip(a)
      BY <1>0, <3>1 DEF Skip, AsksForLease, Capturing, Captured, CountOK, RunOK
    <3>2. CASE QueryFails(a)
      BY <1>0, <3>2 DEF QueryFails, Captured, CountOK, RunOK
    <3> QED
      BY <1>8, <3>1, <3>2
  <2>6. QueueOK'
    BY <1>8 DEF Skip, QueryFails, AsksForLease, Capturing, Captured, QueueOK, Results, Marks
  <2>7. OneToken'
    BY <1>8 DEF Skip, QueryFails, AsksForLease, Capturing, Captured, OneToken, RunOK, QueueOK
  <2> QED
    BY <2>1, <2>2, <2>3, <2>4, <2>5, <2>6, <2>7
<1>9. ASSUME NEW a \in Agents, LeaseUnavailable(a) PROVE Inv'
  <2>1. WorldOK'
    BY <1>9, WorldKept DEF LeaseUnavailable, AsksForLease, Capturing, Granted, Revoked, Goto, env
  <2>2. FaultsOK'
    BY <1>9, FaultCounts DEF LeaseUnavailable, AsksForLease, Capturing, Granted, Revoked, Goto, FaultsOK
  <2>3. BackendOK'
    BY <1>9 DEF LeaseUnavailable, AsksForLease, Capturing, Granted, Revoked, Goto, BackendOK
  <2>4. RunOK'
    BY <1>9 DEF LeaseUnavailable, AsksForLease, Capturing, Granted, Revoked, Goto, RunOK
  <2>5. CountOK'
    BY <1>9, <1>0 DEF LeaseUnavailable, AsksForLease, Capturing, Granted, Revoked, Goto, CountOK, RunOK
  <2>6. UNCHANGED <<holder, valid, queued>>
          \/ (holder' = a /\ Revoked(valid) /\ RevokedQueued)
    BY <1>9 DEF LeaseUnavailable, Granted
  <2>7. UNCHANGED trail
    BY <1>9 DEF LeaseUnavailable, env
  <2>8. QueueOK'
    BY <2>6, <2>7, RevokedTypes DEF QueueOK, Results, Marks
  <2>9. OneToken'
    BY <2>6, <2>7, RevokedTypes DEF Revoked, OneToken
  <2> QED
    BY <2>1, <2>2, <2>3, <2>4, <2>5, <2>8, <2>9
<1>10. ASSUME NEW a \in Agents, Query(a) PROVE Inv'
  <2>1. PICK got \in Oldest(Limit, Selected(a)) :
           /\ rows' = [rows EXCEPT ![a] = @ \cup got]
           /\ \/ \E m \in Watermarks(a, got) : mark' = [mark EXCEPT ![a] = m]
              \/ UNCHANGED mark
    BY <1>10 DEF Query
  <2>2. got \in SUBSET DOMAIN trail /\ Watermarks(a, got) \subseteq Marks
    BY GotTypes
  <2>3. WorldOK'
    BY <1>10, WorldKept DEF Query, env
  <2>4. FaultsOK'
    BY <1>10, FaultCounts DEF Query, Captured, FaultsOK
  <2>5. BackendOK'
    BY <1>10 DEF Query, backend, env, BackendOK, Visible
  <2>6. RunOK'
    BY <1>10, <2>1, <2>2 DEF Query, Captured, env, RunOK, Marks
  <2>7. CountOK'
    BY <1>10, <1>0 DEF Query, Captured, CountOK, RunOK
  <2>8. QueueOK'
    BY <1>10 DEF Query, Captured, QueueOK, Results, Marks
  <2>9. OneToken'
    BY <1>10 DEF Query, Captured, OneToken, RunOK, QueueOK
  <2> QED
    BY <2>3, <2>4, <2>5, <2>6, <2>7, <2>8, <2>9
<1>11. ASSUME NEW a \in Agents, Post(a) PROVE Inv'
  <2>1. WorldOK'
    BY <1>11, WorldKept DEF Post, RunEnds, env
  <2>2. FaultsOK'
    BY <1>11, FaultCounts DEF Post, RunEnds, FaultsOK
  <2>3. Result(a) \in Results /\ [Result(a) EXCEPT !.valid = FALSE] \in Results
        /\ ~[Result(a) EXCEPT !.valid = FALSE].valid /\ Result(a).valid = valid[a]
    BY DEF Result, Results, RunOK
  <2>4. BackendOK'
    BY <1>11, <2>3 DEF Post, Accept, BackendOK, Results, env, history
  <2>5. RunOK'
    BY <1>11, NoMarkIsMark DEF Post, RunEnds, RunOK, env, Marks
  <2>6. CountOK'
    BY <1>11, <1>0 DEF Post, RunEnds, CountOK, RunOK
  <2>7. \/ UNCHANGED queued
        \/ Queue(a, Result(a)) /\ UNCHANGED backend
        \/ Queue(a, [Result(a) EXCEPT !.valid = FALSE])
    BY <1>11 DEF Post
  <2>8. Results' = Results
    BY <1>11 DEF Post, env, Results, Marks
  <2>9. PICK result \in Results :
           queued' \in {queued, [queued EXCEPT ![a] = @ \cup {result}]}
    BY <2>3, <2>7, Zenon DEF Queue
  <2>10. QueueOK'
    BY <2>8, <2>9 DEF QueueOK
  <2>11. ~valid'[a] /\ \A b \in Agents \ {a} : valid'[b] = valid[b]
    BY <1>11 DEF Post, RunEnds, RunOK
  <2>12. ~valid[a] => holder' = holder
    BY <1>11, <2>3 DEF Post, Accept, backend
  <2>13. ASSUME valid[a]
         PROVE  \A b \in Agents : (b # a => ~valid[b]) /\ \A q \in queued[b] : ~q.valid
    BY <2>13, Zenon DEF OneToken
  <2>14. \A b \in Agents \ {a} : queued'[b] = queued[b]
    BY <2>7 DEF Queue, QueueOK
  <2>15. \A q \in queued'[a] :
            q.valid => q \in queued[a] \/ (q = Result(a) /\ valid[a] /\ holder' = holder)
    BY <2>3, <2>7 DEF Queue, QueueOK, backend
  <2>16. ASSUME NEW b \in Agents, b # a, valid'[b] \/ \E q \in queued'[b] : q.valid
         PROVE  holder' = b
    <3>1. valid[b] \/ \E q \in queued[b] : q.valid
      BY <2>11, <2>14, <2>16, Zenon
    <3>2. ~valid[a]
      BY <2>13, <2>16, <3>1, Zenon
    <3> QED
      BY <2>12, <3>1, <3>2, Zenon DEF OneToken
  <2>17. ASSUME NEW q \in queued'[a], q.valid PROVE holder' = a
    <3>1. CASE q \in queued[a]
      BY <2>12, <2>13, <2>17, <3>1, Zenon DEF OneToken
    <3>2. CASE valid[a] /\ holder' = holder
      BY <3>2, Zenon DEF OneToken
    <3> QED
      BY <2>15, <2>17, <3>1, <3>2
  <2>18. ASSUME NEW b \in Agents, NEW q \in queued'[b], q.valid
         PROVE  ~valid'[b] /\ \A r \in queued'[b] : r.valid => r = q
    <3>1. CASE b # a
      BY <2>11, <2>14, <2>18, <3>1, Zenon DEF OneToken
    <3>2. CASE b = a
      <4>1. ASSUME NEW r \in queued'[a], r.valid PROVE r = q
        BY <2>13, <2>15, <2>18, <3>2, <4>1, Zenon DEF OneToken
      <4> QED
        BY <2>11, <3>2, <4>1
    <3> QED
      BY <3>1, <3>2
  <2>19. \A b \in Agents : valid'[b] \/ (\E q \in queued'[b] : q.valid) => holder' = b
    BY <2>11, <2>16, <2>17, Zenon
  <2>20. OneToken'
    BY <2>18, <2>19 DEF OneToken
  <2> QED
    BY <2>1, <2>2, <2>4, <2>5, <2>6, <2>10, <2>20
<1>12. ASSUME NEW a \in Agents, Crash(a) PROVE Inv'
  <2>1. WorldOK'
    BY <1>12, WorldKept DEF Crash, RunEnds, env
  <2>2. FaultsOK'
    BY <1>12, FaultCounts DEF Crash, RunEnds, FaultsOK
  <2>3. BackendOK'
    BY <1>12 DEF Crash, RunEnds, BackendOK
  <2>4. RunOK'
    BY <1>12, NoMarkIsMark DEF Crash, RunEnds, RunOK, env, Marks
  <2>5. CountOK'
    BY <1>12, <1>0 DEF Crash, RunEnds, CountOK, RunOK
  <2>6. QueueOK'
    BY <1>12 DEF Crash, RunEnds, QueueOK, Results, Marks
  <2>7. OneToken'
    BY <1>12 DEF Crash, RunEnds, OneToken, RunOK, QueueOK
  <2> QED
    BY <2>1, <2>2, <2>3, <2>4, <2>5, <2>6, <2>7
<1>13. CASE UNCHANGED vars
  <2>1. WorldOK'
    BY <1>13, WorldKept DEF vars, env
  <2>2. FaultsOK'
    BY <1>13, FaultCounts DEF vars, FaultsOK
  <2>3. BackendOK'
    BY <1>13 DEF vars, BackendOK
  <2>4. RunOK'
    BY <1>13 DEF vars, RunOK
  <2>5. CountOK'
    BY <1>13, <1>0 DEF vars, CountOK, RunOK
  <2>6. QueueOK'
    BY <1>13 DEF vars, QueueOK, Results, Marks
  <2>7. OneToken'
    BY <1>13 DEF vars, OneToken, RunOK, QueueOK
  <2> QED
    BY <2>1, <2>2, <2>3, <2>4, <2>5, <2>6, <2>7

<1> QED
  BY <1>1, <1>2, <1>3, <1>4, <1>5, <1>6, <1>7, <1>8, <1>9, <1>10, <1>11, <1>12, <1>13, Zenon
     DEF Next, Step

LEMMA SpecInv == Spec => []Inv
BY InitInv, NextInv, PTL DEF Spec

\* Every variable keeps its type, and one token at most is good, the one the
\* lease's holder has or a result of its waits with
\* (pkg/controlset/executor.go:2349-2425).
THEOREM TypeCorrect == Spec => []TypeOK
<1>1. Inv => TypeOK
  BY TypeParts
<1> QED
  BY <1>1, SpecInv, PTL

-----------------------------------------------------------------------------
(* The watermark.                                                          *)

\* The records a watermark has behind it are stored or among those that go with
\* it, or no query has to look at them again.
Covered(m, got) ==
    \A i \in DOMAIN trail : ~After(trail[i], m) => i \in Reached(stored \cup got) \cup late \cup outside

\* What the backend has, and every result on its way, covers its watermark; so
\* does the backend the watermark of a lease.
CoverInv ==
    /\ Covered(watermark, {})
    /\ \A a \in Agents :
          /\ Covered(lease[a].mark, {})
          /\ Covered(mark[a], rows[a])
          /\ \A q \in queued[a] : Covered(q.mark, q.rows)

\* A result that has not read anything covers no record.
LEMMA NoMarkCovers == ASSUME Inv, NEW got PROVE Covered(NoMark, got)
<1>1. \A i \in DOMAIN trail : trail[i].sec > 0 /\ trail[i].sec \in Nat
  BY RecordTypes, Bounds DEF Inv, WorldOK
<1> QED
  BY <1>1 DEF Covered, After, NoMark

\* What is covered stays so when more is stored, excepted or brought along.
LEMMA StaysCovered ==
  ASSUME NEW m, NEW got, NEW more, Covered(m, got), got \subseteq more \cup stored',
         UNCHANGED <<study, trail>>, stored \subseteq stored',
         late \subseteq late', outside \subseteq outside'
  PROVE  Covered(m, more)'
BY DEF Covered, Reached, Visible, After, capture

LEMMA InitCover == Init => CoverInv
<1> SUFFICES ASSUME Init PROVE CoverInv
  OBVIOUS
<1>1. DOMAIN trail = {}
  BY DEF Init
<1> QED
  BY <1>1 DEF Init, CoverInv, Covered

\* The steps that touch no watermark and no result.
LEMMA CoverKept ==
  ASSUME CoverInv, UNCHANGED <<study, trail, watermark, stored, history, lease, rows, mark, queued>>
  PROVE  CoverInv'
BY DEF CoverInv, Covered, Reached, Visible, After, capture, history

\* The tokens change, the results do not.
LEMMA RevokedCover ==
  ASSUME Inv, CoverInv, RevokedQueued,
         UNCHANGED <<study, trail, watermark, stored, history, rows, mark>>,
         \A a \in Agents : lease'[a].mark \in {lease[a].mark, watermark}
  PROVE  CoverInv'
<1>1. \A a \in Agents : \A q \in queued'[a] :
         \E r \in queued[a] : q.mark = r.mark /\ q.rows = r.rows
  BY RevokedTypes DEF Inv
<1>2. ASSUME NEW m, NEW got, Covered(m, got) PROVE Covered(m, got)'
  BY <1>2, StaysCovered DEF history
<1>3. \A a \in Agents : Covered(lease[a].mark, {}) /\ Covered(watermark, {})
  BY DEF CoverInv
<1>4. Covered(watermark, {})'
  BY <1>2, <1>3 DEF Covered, Reached, Visible, After, capture, history, CoverInv
<1>5. ASSUME NEW a \in Agents
      PROVE  /\ Covered(lease[a].mark, {})' /\ Covered(mark[a], rows[a])'
             /\ \A q \in queued'[a] : Covered(q.mark, q.rows)'
  BY <1>1, <1>3, <1>5 DEF Covered, Reached, Visible, After, capture, history, CoverInv
<1> QED
  BY <1>4, <1>5 DEF CoverInv

\* A record that comes behind a watermark somebody reports is late.
LEMMA CommitCover ==
  ASSUME Inv, CoverInv, NEW r, Commit(r)
  PROVE  CoverInv'
<1> DEFINE new == Len(trail) + 1
<1>1. /\ DOMAIN trail' = DOMAIN trail \cup {new} /\ trail'[new] = r
      /\ \A i \in DOMAIN trail : trail'[i] = trail[i]
      /\ UNCHANGED <<study, watermark, stored, outside, lease, rows, mark, queued>>
  <2>1. trail' = Append(trail, r) /\ trail \in Seq([sec : Nat, frac : Nat, key : Nat])
    BY DEF Commit, Inv, WorldOK
  <2>2. UNCHANGED <<study, watermark, stored, outside, lease, rows, mark, queued>>
    BY DEF Commit, backend, run
  <2> DEFINE R == [sec : Nat, frac : Nat, key : Nat]
  <2>3. trail \in Seq(R)
    BY <2>1
  <2> HIDE DEF R
  <2>4. Len(trail) \in Nat /\ DOMAIN trail = 1 .. Len(trail)
    BY <2>3
  <2> QED
    BY <2>1, <2>2, <2>4
<1>2. late \subseteq late' /\ \A m \in Reported : ~After(r, m) => new \in late'
  BY DEF Commit
<1> HIDE DEF new
<1>3. ASSUME NEW m \in Reported, NEW got \in SUBSET DOMAIN trail, Covered(m, got)
      PROVE  \A i \in DOMAIN trail' : ~After(trail'[i], m) =>
                i \in Reached(stored \cup got)' \cup late' \cup outside
  <2>0. capture' = capture
    BY <1>1 DEF capture
  <2>1. ASSUME NEW i \in DOMAIN trail, ~After(trail[i], m)
        PROVE  i \in (stored \cup got) \cup late' \cup outside
               \/ (capture.keyed /\ \E j \in (stored \cup got) : trail[i] = trail[j])
    BY <1>2, <1>3, <2>1 DEF Covered, Reached
  <2>2. ASSUME NEW i \in DOMAIN trail, ~After(trail[i], m)
        PROVE  i \in Reached(stored \cup got)' \cup late' \cup outside
    <3>1. \A j \in DOMAIN trail : trail'[j] = trail[j] /\ j \in DOMAIN trail'
      BY <1>1
    <3>2. stored \cup got = (stored \cup got)'
      BY <1>1
    <3>3. CASE i \in (stored \cup got) \cup late' \cup outside
      BY <3>2, <3>3 DEF Reached
    <3>4. ASSUME capture.keyed, NEW j \in stored \cup got, trail[i] = trail[j]
          PROVE  i \in Reached(stored \cup got)'
      <4>1. j \in DOMAIN trail
        BY <3>4 DEF Inv, BackendOK
      <4> QED
        BY <1>1, <2>0, <3>1, <3>2, <3>4, <4>1 DEF Reached, Visible
    <3> QED
      BY <2>1, <2>2, <3>3, <3>4
  <2> QED
    BY <1>1, <1>2, <2>2
<1>5. /\ watermark \in Reported
      /\ \A a \in Agents : /\ lease[a].mark \in Reported /\ mark[a] \in Reported
                          /\ \A q \in queued[a] : q.mark \in Reported
  BY DEF Reported
<1>6. Covered(watermark, {})'
  BY <1>1, <1>3, <1>5 DEF CoverInv, Covered, After, capture
<1>7. ASSUME NEW a \in Agents
      PROVE  /\ Covered(lease[a].mark, {})' /\ Covered(mark[a], rows[a])'
             /\ \A q \in queued[a] : Covered(q.mark, q.rows)'
  <2>1. rows[a] \in SUBSET DOMAIN trail /\ \A q \in queued[a] : q.rows \in SUBSET DOMAIN trail
    BY DEF Inv, RunOK, QueueOK, Results
  <2> QED
    BY <1>1, <1>3, <1>5, <2>1 DEF CoverInv, Covered, After, capture
<1> QED
  BY <1>1, <1>6, <1>7 DEF CoverInv

\* What a result brings is stored before its watermark is taken.
LEMMA AcceptCover ==
  ASSUME Inv, CoverInv, UNCHANGED <<study, trail, history>>, NEW result,
         Covered(result.mark, result.rows), Accept(result)
  PROVE  /\ Covered(watermark, {})' /\ stored \subseteq stored'
         /\ \A m, got : Covered(m, got) => Covered(m, got)'
<1>1. stored \subseteq stored' /\ result.rows \subseteq stored' /\ watermark' \in {watermark, result.mark}
  BY DEF Accept
<1>2. \A m, got : Covered(m, got) => Covered(m, got)'
  BY <1>1, StaysCovered DEF history
<1>3. \A m, got : Covered(m, got) /\ got \subseteq stored' => Covered(m, {})'
  BY <1>1, StaysCovered DEF history
<1>4. Covered(watermark, {}) /\ {} \subseteq stored'
  BY DEF CoverInv
<1>5. \A m \in {watermark, result.mark} : Covered(m, {})'
  BY <1>1, <1>3, <1>4
<1>6. Covered(watermark, {})'
  BY <1>1, <1>5 DEF Covered, After, capture
<1> QED
  BY <1>1, <1>2, <1>6

\* The oldest of the records after a watermark leave none behind that their last
\* one is not before, except with its stamp and keys.
LEMMA OldestCover ==
  ASSUME Inv, NEW a \in Agents, NEW got \in Oldest(Limit, Selected(a)), NEW k \in Last(got),
         NEW i \in Selected(a), ~After(trail[i], MarkOf(trail[k]))
  PROVE  i \in got \/ (capture.keyed /\ trail[i] = trail[k])
<1>1. k \in got /\ k \in DOMAIN trail /\ i \in DOMAIN trail
  BY GotTypes DEF Last, Selected, Default, Visible
<1>2. /\ trail[i] \in [sec : Nat, frac : Nat, key : Nat]
      /\ trail[k] \in [sec : Nat, frac : Nat, key : Nat]
  BY <1>1, RecordTypes DEF Inv
<1>3. SUFFICES ASSUME i \notin got PROVE capture.keyed /\ trail[i] = trail[k]
  OBVIOUS
<1>4. ~Before(i, k)
  BY <1>1, <1>3 DEF Oldest
<1>5. /\ ~ (trail[i].sec < trail[k].sec)
      /\ trail[i].sec = trail[k].sec => /\ ~ (trail[i].frac < trail[k].frac)
                                        /\ trail[i].frac = trail[k].frac
                                              => ~ (trail[i].key < trail[k].key)
  BY <1>4 DEF Before
<1>6. /\ ~ (trail[i].sec > trail[k].sec)
      /\ trail[i].sec = trail[k].sec
            => capture.keyed /\ ~ (trail[i].frac > 0) /\ ~ (trail[i].key > trail[k].key)
  BY DEF After, MarkOf
<1>7. /\ capture.keyed /\ trail[i].sec = trail[k].sec /\ trail[i].frac = trail[k].frac
      /\ trail[i].key = trail[k].key
  BY <1>2, <1>5, <1>6
<1> QED
  BY <1>2, <1>7

\* What a query reports covers the rows it returned.
LEMMA QueryCover ==
  ASSUME Inv, CoverInv, NEW a \in Agents, Query(a)
  PROVE  CoverInv'
<1>1. PICK got \in Oldest(Limit, Selected(a)) :
         /\ rows' = [rows EXCEPT ![a] = @ \cup got]
         /\ \/ lease[a].held /\ \E m \in Watermarks(a, got) : mark' = [mark EXCEPT ![a] = m]
            \/ UNCHANGED mark
  BY DEF Query
<1>2. /\ UNCHANGED <<study, trail, watermark, stored, late, lease, queued>>
      /\ outside \subseteq outside'
      /\ capture.template /\ lease[a].held /\ ~Readable(lease[a].mark)
            => Visible \ Default \subseteq outside'
  BY DEF Query, env, backend
<1>3. /\ rows'[a] = rows[a] \cup got
      /\ \A b \in Agents \ {a} : rows'[b] = rows[b] /\ mark'[b] = mark[b]
  BY <1>1 DEF Inv, RunOK
<1>4. \A m, base, more : Covered(m, base) /\ base \subseteq more => Covered(m, more)'
  BY <1>2, StaysCovered
<1>5. ASSUME lease[a].held, NEW m \in Watermarks(a, got), NEW i \in DOMAIN trail,
             ~After(trail[i], m)
      PROVE  i \in Reached(stored \cup rows'[a]) \cup late \cup outside'
  <2>1. CASE got = {} \/ ~capture.template
    <3>1. m = lease[a].mark
      BY <1>5, <2>1 DEF Watermarks
    <3>2. i \in Reached(stored \cup {}) \cup late \cup outside
      BY <1>5, <3>1 DEF CoverInv, Covered
    <3> QED
      BY <1>2, <3>2 DEF Reached
  <2>2. CASE got # {} /\ capture.template
    <3>1. PICK k \in Last(got) : m = MarkOf(trail[k])
      BY <1>5, <2>2 DEF Watermarks
    <3>2. k \in got /\ got \subseteq rows'[a]
      BY <1>3, <3>1 DEF Last
    <3>3. CASE i \in Selected(a)
      BY <1>5, <3>1, <3>2, <3>3, OldestCover DEF Reached, Visible
    <3>4. CASE i \notin Selected(a) /\ Readable(lease[a].mark)
      <4>1. ~After(trail[i], lease[a].mark)
        BY <2>2, <3>4 DEF Selected, Visible
      <4>2. i \in Reached(stored \cup {}) \cup late \cup outside
        BY <4>1 DEF CoverInv, Covered
      <4> QED
        BY <1>2, <4>2 DEF Reached
    <3>5. CASE i \notin Selected(a) /\ ~Readable(lease[a].mark)
      BY <1>2, <1>5, <2>2, <3>5 DEF Selected, Visible
    <3> QED
      BY <3>3, <3>4, <3>5
  <2> QED
    BY <2>1, <2>2
<1>6. ASSUME NEW i \in DOMAIN trail, ~After(trail[i], mark'[a])
      PROVE  i \in Reached(stored \cup rows'[a]) \cup late \cup outside'
  <2>1. CASE UNCHANGED mark
    <3>1. i \in Reached(stored \cup rows[a]) \cup late \cup outside
      BY <1>6, <2>1 DEF CoverInv, Covered
    <3> QED
      BY <1>2, <1>3, <3>1 DEF Reached
  <2>2. CASE lease[a].held /\ \E m \in Watermarks(a, got) : mark' = [mark EXCEPT ![a] = m]
    <3>1. PICK m \in Watermarks(a, got) : mark'[a] = m
      BY <2>2 DEF Inv, RunOK
    <3> QED
      BY <1>5, <1>6, <2>2, <3>1
  <2> QED
    BY <1>1, <2>1, <2>2
<1>7. Covered(mark[a], rows[a])'
  BY <1>2, <1>6 DEF Covered, Reached, Visible, After, capture
<1>8. \A b \in Agents \ {a} : Covered(mark[b], rows[b])'
  BY <1>2, <1>3 DEF CoverInv, Covered, Reached, Visible, After, capture
<1>9. /\ Covered(watermark, {})'
      /\ \A b \in Agents : /\ Covered(lease[b].mark, {})'
                          /\ \A q \in queued'[b] : Covered(q.mark, q.rows)'
  BY <1>2 DEF CoverInv, Covered, Reached, Visible, After, capture
<1> QED
  BY <1>7, <1>8, <1>9 DEF CoverInv

\* A run that ends forgets its lease and its result.
LEMMA RunEndsCover ==
  ASSUME Inv, CoverInv, Inv', NEW a \in Agents, RunEnds(a), UNCHANGED <<study, trail, history>>,
         stored \subseteq stored', Covered(watermark, {})',
         \A b \in Agents : \A q \in queued'[b] :
            q \in queued[b] \/ (q.mark = mark[a] /\ q.rows = rows[a])
  PROVE  CoverInv'
<1>1. /\ lease'[a].mark = NoMark /\ mark'[a] = NoMark
      /\ \A b \in Agents \ {a} : /\ lease'[b] = lease[b]
                                 /\ mark'[b] = mark[b] /\ rows'[b] = rows[b]
  BY DEF RunEnds, NoLease, Inv, RunOK
<1>2. \A m, got : Covered(m, got) => Covered(m, got)'
  BY StaysCovered DEF history
<1>3. \A got : Covered(NoMark, got)'
  BY <1>2, NoMarkCovers
<1>4. Covered(lease[a].mark, {})' /\ Covered(mark[a], rows[a])'
  BY <1>1, <1>3 DEF Covered
<1>5. \A b \in Agents \ {a} : Covered(lease[b].mark, {})' /\ Covered(mark[b], rows[b])'
  BY <1>1, <1>2 DEF CoverInv, Covered
<1>6. ASSUME NEW b \in Agents, NEW q \in queued'[b] PROVE Covered(q.mark, q.rows)'
  BY <1>2, <1>6 DEF CoverInv, Covered
<1> QED
  BY <1>4, <1>5, <1>6 DEF CoverInv

LEMMA NextCover == Inv /\ Inv' /\ CoverInv /\ [Next]_vars => CoverInv'
<1> SUFFICES ASSUME Inv, Inv', CoverInv, [Next]_vars PROVE CoverInv'
  OBVIOUS
<1>1. ASSUME NEW r, Commit(r) PROVE CoverInv'
  BY <1>1, CommitCover
<1>2. CASE TimePasses \/ GoesDown \/ ComesBack
  BY <1>2, CoverKept DEF TimePasses, GoesDown, ComesBack, backend, run
<1>3. CASE LeaseExpires \/ RunOutlastsLease
  BY <1>3, RevokedCover DEF LeaseExpires, RunOutlastsLease, LeaseLost, env
<1>4. ASSUME NEW a \in Agents,
             Begin(a) \/ CaptureDirectly(a) \/ UseLease(a) \/ Skip(a) \/ QueryFails(a)
      PROVE  CoverInv'
  BY <1>4, CoverKept DEF Begin, CaptureDirectly, UseLease, Skip, QueryFails, env, backend
<1>5. ASSUME NEW a \in Agents, AcquireLease(a) PROVE CoverInv'
  <2>1. \A b \in Agents : lease'[b].mark \in {lease[b].mark, watermark}
    BY <1>5 DEF AcquireLease, Inv, RunOK
  <2> QED
    BY <1>5, <2>1, RevokedCover DEF AcquireLease, Granted, env
<1>6. ASSUME NEW a \in Agents, LeaseUnavailable(a) PROVE CoverInv'
  <2>1. UNCHANGED <<study, trail, watermark, stored, history, lease, rows, mark>>
    BY <1>6 DEF LeaseUnavailable, env
  <2>2. UNCHANGED queued \/ RevokedQueued
    BY <1>6 DEF LeaseUnavailable, Granted
  <2> QED
    BY <2>1, <2>2, CoverKept, RevokedCover
<1>7. ASSUME NEW a \in Agents, UploadQueued(a) PROVE CoverInv'
  <2>1. PICK q \in queued[a] :
           /\ Accept(q)
           /\ queued' \in {[queued EXCEPT ![a] = @ \ {q}],
                          [queued EXCEPT ![a] = (@ \ {q}) \cup {[q EXCEPT !.valid = FALSE]}]}
    BY <1>7 DEF UploadQueued
  <2>2. [q EXCEPT !.valid = FALSE].mark = q.mark /\ [q EXCEPT !.valid = FALSE].rows = q.rows
    BY DEF Inv, QueueOK, Results
  <2>3. \A b \in Agents : \A r \in queued'[b] :
           \E s \in queued[b] : r.mark = s.mark /\ r.rows = s.rows
    BY <2>1, <2>2 DEF Inv, QueueOK
  <2>4. UNCHANGED <<study, trail, history, lease, rows, mark>>
    BY <1>7 DEF UploadQueued, env
  <2>5. Covered(watermark, {})' /\ \A m, got : Covered(m, got) => Covered(m, got)'
    BY <2>1, <2>4, AcceptCover DEF CoverInv
  <2>6. \A b \in Agents : Covered(lease[b].mark, {})' /\ Covered(mark[b], rows[b])'
    BY <2>4, <2>5 DEF CoverInv, Covered
  <2>7. ASSUME NEW b \in Agents, NEW r \in queued'[b] PROVE Covered(r.mark, r.rows)'
    <3>1. PICK s \in queued[b] : r.mark = s.mark /\ r.rows = s.rows
      BY <2>3, <2>7
    <3>2. Covered(s.mark, s.rows)'
      BY <2>5 DEF CoverInv
    <3> QED
      BY <3>1, <3>2
  <2> QED
    BY <2>5, <2>6, <2>7 DEF CoverInv
<1>8. ASSUME NEW a \in Agents, Query(a) PROVE CoverInv'
  BY <1>8, QueryCover
<1>9. ASSUME NEW a \in Agents, Post(a) PROVE CoverInv'
  <2>1. RunEnds(a) /\ UNCHANGED <<study, trail, history>>
    BY <1>9 DEF Post, env
  <2>2. Result(a).mark = mark[a] /\ Result(a).rows = rows[a]
        /\ [Result(a) EXCEPT !.valid = FALSE].mark = mark[a]
        /\ [Result(a) EXCEPT !.valid = FALSE].rows = rows[a]
    BY DEF Result
  <2>3. \/ UNCHANGED queued \/ Queue(a, Result(a))
        \/ Queue(a, [Result(a) EXCEPT !.valid = FALSE])
    BY <1>9 DEF Post
  <2>4. PICK result \in {Result(a), [Result(a) EXCEPT !.valid = FALSE]} :
           queued' \in {queued, [queued EXCEPT ![a] = @ \cup {result}]}
    BY <2>3, Zenon DEF Queue
  <2>5. \A b \in Agents : \A q \in queued'[b] :
           q \in queued[b] \/ (q.mark = mark[a] /\ q.rows = rows[a])
    BY <2>2, <2>4 DEF Inv, QueueOK
  <2>6. Covered(watermark, {})' /\ stored \subseteq stored'
    <3>1. CASE Accept(Result(a))
      <4>1. Covered(Result(a).mark, Result(a).rows)
        BY <2>2 DEF CoverInv
      <4> QED
        BY <2>1, <3>1, <4>1, AcceptCover
    <3>2. CASE UNCHANGED backend
      BY <2>1, <3>2, StaysCovered DEF CoverInv, backend, history, Covered, After, Reached,
                                      Visible, capture
    <3> QED
      BY <1>9, <3>1, <3>2 DEF Post
  <2> QED
    BY <2>1, <2>5, <2>6, RunEndsCover
<1>10. ASSUME NEW a \in Agents, Crash(a) PROVE CoverInv'
  <2>1. RunEnds(a) /\ UNCHANGED <<study, trail, history, watermark, stored, late, outside, queued>>
    BY <1>10 DEF Crash, env, backend, history
  <2>2. Covered(watermark, {})'
    BY <2>1 DEF CoverInv, Covered, After, Reached, Visible, capture
  <2> QED
    BY <2>1, <2>2, RunEndsCover
<1>11. CASE UNCHANGED vars
  BY <1>11, CoverKept DEF vars, env, backend, run
<1> QED
  BY <1>1, <1>2, <1>3, <1>4, <1>5, <1>6, <1>7, <1>8, <1>9, <1>10, <1>11, Zenon DEF Next, Step

\* The backend's watermark passes no record that was not stored, or does not
\* agree with a stored one in stamp and keys, except late ones and those outside
\* the default window at a query that could not resume
\* (pkg/controlset/executor.go:2303-2312, 2473-2605).
THEOREM WatermarkIsCovered == Spec => []WatermarkCoversOnlyStored
<1>1. CoverInv => WatermarkCoversOnlyStored
  <2>1. stored \cup {} = stored
    OBVIOUS
  <2> QED
    BY <2>1 DEF CoverInv, Covered, WatermarkCoversOnlyStored, Visible
<1> QED
  BY <1>1, InitCover, NextCover, SpecInv, PTL DEF Spec
=============================================================================
