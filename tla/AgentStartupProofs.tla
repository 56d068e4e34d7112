------------------------- MODULE AgentStartupProofs -------------------------
(***************************************************************************)
(* Runs of the agent one after another, for any number of systems,         *)
(* credentials, registrations and faults and any configurations: the files *)
(* stay a pair, an entitlement in use is the agent's own, and no system is *)
(* reported twice in a run.                                                *)
(***************************************************************************)
EXTENDS AgentStartup, FiniteSetTheorems, SequenceTheorems, TLAPS

TypeFiles ==
    /\ modeFile \in {"none", "online", "offline", "stale"}
    /\ tokenFile \in Numbers \cup {None} /\ idFile \in Numbers \cup {None}
    /\ entCache \in Entitlements \cup {None}

TypePending == pending \in Seq(BOOLEAN) /\ Len(pending) <= PendingMaxFiles

TypeWho ==
    /\ token \in Numbers \cup {None} /\ id \in Names \cup {None}
    /\ ent \in Entitlements \cup {None}

TypeSearch ==
    /\ todo \in Seq(1..Systems) /\ left \in 1..Credentials
    /\ fresh \subseteq 1..Systems /\ reported \in [1..Systems -> Nat]

TypeFlags ==
    /\ online \in BOOLEAN /\ databases \in BOOLEAN /\ up \in BOOLEAN
    /\ interrupted \in BOOLEAN

TypeCounters ==
    /\ uploads \in 0..UploadMaxFilesPerRun
    /\ registrations \in Numbers /\ now \in 0..MaxTime /\ faults \in 0..MaxFaults

LEMMA TypeParts ==
    TypeOK <=> /\ config \in Configs /\ pc \in Pc
               /\ TypeFiles /\ TypePending /\ TypeWho /\ TypeSearch /\ TypeFlags
               /\ TypeCounters
BY Zenon DEF TypeOK, TypeFiles, TypePending, TypeWho, TypeSearch, TypeFlags, TypeCounters

LEMMA Bounds ==
    /\ PendingMaxFiles \in Nat /\ UploadMaxFilesPerRun \in Nat /\ Systems \in Nat
    /\ MaxRegistrations \in Nat /\ MaxTime \in Nat /\ MaxFaults \in Nat
    /\ Credentials \in Nat /\ Credentials >= 1
BY StartupAssumption

-----------------------------------------------------------------------------
(* The inductive invariant, beyond types.                                  *)

\* Until the agent is identified, its token is the configured one, or the stored
\* one if that could be read.
TokenOfRun ==
    pc \in {"mode", "upload", "identity"} =>
        IF config.token # None THEN token = config.token ELSE token \in {tokenFile, None}

\* An agent is online without a token only because its mode file says so.
OnlineByFile ==
    pc \in {"upload", "identity"} /\ online /\ token = None => modeFile = "online"

\* What the two saves of a registration rest on: nothing was on disk before the
\* first, and the first has worked when the second is made.
Saving ==
    /\ pc = "saveToken" => config.token = None /\ tokenFile = None
    /\ pc = "saveID" => tokenFile = token

\* An agent with a configured token never registers.
Configured ==
    config.token # None => {tokenFile, idFile} \subseteq {0, None} /\ token \in {0, None}

NoEntitlementYet ==
    pc \in {"off", "mode", "upload", "identity", "saveToken", "saveID", "entitlement"}
        => ent = None

\* Nothing is reported before the discovery, and then each system is to be
\* reported once.
ToReport ==
    /\ pc \notin {"discover", "databases", "audit"} =>
          todo = <<>> /\ reported = [s \in 1..Systems |-> 0]
    /\ \A i \in 1..Len(todo) :
          /\ reported[todo[i]] = 0
          /\ \A j \in 1..Len(todo) : todo[i] = todo[j] => i = j

FileInv == TokenOfRun /\ OnlineByFile /\ Saving /\ Configured /\ IdentityFollowsToken
EntInv  == NoEntitlementYet /\ EntitlementIsMine
SearchInv == ToReport /\ OneReportPerSystem

Inv == TypeOK /\ FileInv /\ EntInv /\ SearchInv

-----------------------------------------------------------------------------
(* Sequences.                                                              *)

LEMMA TailOf ==
    ASSUME NEW S, NEW s \in Seq(S), s # <<>>
    PROVE  /\ Len(s) \in Nat /\ Len(s) >= 1 /\ Head(s) = s[1]
           /\ Tail(s) \in Seq(S) /\ Len(Tail(s)) = Len(s) - 1
           /\ \A i \in 1..Len(Tail(s)) : Tail(s)[i] = s[i + 1]
BY SMT

LEMMA AppendTo ==
    ASSUME NEW S, NEW s \in Seq(S), NEW x \in S
    PROVE  Append(s, x) \in Seq(S) /\ Len(Append(s, x)) = Len(s) + 1
BY SMT

\* A list of a finite set names each member once.
LEMMA ListedOnce ==
    ASSUME NEW S, IsFiniteSet(S), NEW list \in SetToSeqs(S)
    PROVE  /\ list \in Seq(S)
           /\ \A i, j \in 1..Len(list) : list[i] = list[j] => i = j
<1> DEFINE n == Cardinality(S)
<1>1. n \in Nat
  BY FS_CardinalityType
<1>2. /\ list \in [1..n -> S]
      /\ \A i, j \in 1..n : i # j => list[i] # list[j]
  BY DEF SetToSeqs
<1> HIDE DEF n
<1>3. list \in Seq(S) /\ Len(list) = n
  BY <1>1, <1>2
<1> QED
  BY <1>2, <1>3

-----------------------------------------------------------------------------
(* Types.                                                                  *)

\* Every step leads to a place of the program.
LEMMA PcStep ==
    ASSUME pc \in Pc, [Next]_vars
    PROVE  pc' \in Pc
<1> USE DEF vars, files, run, who, search, world, Pc
<1>1. CASE Start
  BY <1>1 DEF Start, Goto
<1>2. CASE DetectMode
  BY <1>2 DEF DetectMode, UseCachedMode, BackendFound, FallBack, NothingToRun,
         Chosen, SaveMode, Failed, Goto, Fault, Ends, Undecided, ShouldRetry
<1>3. CASE UploadPending
  BY <1>3 DEF UploadPending, UploadOne, UploadLost, UploadStops, Welcome, Goto,
         Fault
<1>4. CASE Identity
  BY <1>4 DEF Identity, IdentifyOffline, PersistToken, AlreadyRegistered, Register, RegisterFails,
         SaveToken, SaveAgentID, Identified, Known, Failed, Goto, Fault, Ends
<1>5. CASE LoadEntitlement
  BY <1>5 DEF LoadEntitlement, LoadLocal, LoadFromCache, LoadFromServer, LoadNone,
         SaveToCache, Holding, Cached, Bound, Live, Failed, Goto, Fault, Ends
<1>6. CASE Discovery
  BY <1>6 DEF Discovery, SkipDiscovery, FetchSystemsToDiscover, CredentialFails,
         DiscoverSystem, AfterFailedReport, NextSystem, DiscoveryDone, Goto,
         Fault
<1>7. CASE SyncDatabases
  BY <1>7 DEF SyncDatabases, Goto, Ends
<1>8. CASE WriteResults
  BY <1>8 DEF WriteResults, PostOK, QueueResult, QueueFull, Goto, Fault, Ends
<1>9. CASE Crash
  BY <1>9 DEF Crash, Ends, Fault
<1>10. CASE BackendFails \/ BackendReturns
  BY <1>10 DEF BackendFails, BackendReturns, Fault
<1>11. CASE RetryDue \/ TimePasses \/ UNCHANGED vars
  BY <1>11 DEF RetryDue, TimePasses
<1> QED
  BY <1>1, <1>2, <1>3, <1>4, <1>5, <1>6, <1>7, <1>8, <1>9, <1>10, <1>11, Zenon DEF Next, Work

\* The files hold what the code writes to them.
LEMMA FilesStep ==
    ASSUME TypeFiles, TypeWho, [Next]_vars
    PROVE  TypeFiles'
<1> USE DEF vars, files, run, who, search, world, TypeFiles, TypeWho
<1>1. CASE Start
  BY <1>1 DEF Start, Goto
<1>2. CASE DetectMode
  BY <1>2 DEF DetectMode, UseCachedMode, BackendFound, FallBack, NothingToRun,
         Chosen, SaveMode, Failed, Goto, Fault, Ends, Undecided, ShouldRetry
<1>3. CASE UploadPending
  BY <1>3 DEF UploadPending, UploadOne, UploadLost, UploadStops, Welcome, Goto,
         Fault
<1>4. CASE Identity
  BY <1>4 DEF Identity, IdentifyOffline, PersistToken, AlreadyRegistered, Register, RegisterFails,
         SaveToken, SaveAgentID, Identified, Known, Failed, Goto, Fault, Ends
<1>5. CASE LoadEntitlement
  BY <1>5 DEF LoadEntitlement, LoadLocal, LoadFromCache, LoadFromServer, LoadNone,
         SaveToCache, Holding, Cached, Bound, Live, Failed, Goto, Fault, Ends
<1>6. CASE Discovery
  BY <1>6 DEF Discovery, SkipDiscovery, FetchSystemsToDiscover, CredentialFails,
         DiscoverSystem, AfterFailedReport, NextSystem, DiscoveryDone, Goto,
         Fault
<1>7. CASE SyncDatabases
  BY <1>7 DEF SyncDatabases, Goto, Ends
<1>8. CASE WriteResults
  BY <1>8 DEF WriteResults, PostOK, QueueResult, QueueFull, Goto, Fault, Ends
<1>9. CASE Crash
  BY <1>9 DEF Crash, Ends, Fault
<1>10. CASE BackendFails \/ BackendReturns
  BY <1>10 DEF BackendFails, BackendReturns, Fault
<1>11. CASE RetryDue \/ TimePasses \/ UNCHANGED vars
  BY <1>11 DEF RetryDue, TimePasses
<1> QED
  BY <1>1, <1>2, <1>3, <1>4, <1>5, <1>6, <1>7, <1>8, <1>9, <1>10, <1>11, Zenon DEF Next, Work

\* The flags.
LEMMA FlagsStep ==
    ASSUME config \in Configs, TypeFlags, [Next]_vars
    PROVE  TypeFlags'
<1> USE DEF vars, files, run, who, search, world, TypeFlags
<1>1. CASE Start
  <2>1. config.databases \in BOOLEAN
    BY DEF Configs
  <2> QED
    BY <1>1, <2>1, Zenon DEF Start, Goto
<1>2. CASE DetectMode
  BY <1>2, Zenon DEF DetectMode, UseCachedMode, BackendFound, FallBack, NothingToRun,
         Chosen, SaveMode, Failed, Goto, Fault, Ends, Undecided, ShouldRetry
<1>3. CASE UploadPending
  BY <1>3, Zenon DEF UploadPending, UploadOne, UploadLost, UploadStops, Welcome, Goto,
         Fault
<1>4. CASE Identity
  BY <1>4, Zenon DEF Identity, IdentifyOffline, PersistToken, AlreadyRegistered, Register, RegisterFails,
         SaveToken, SaveAgentID, Identified, Known, Failed, Goto, Fault, Ends
<1>5. CASE LoadEntitlement
  BY <1>5, Zenon DEF LoadEntitlement, LoadLocal, LoadFromCache, LoadFromServer, LoadNone,
         SaveToCache, Holding, Cached, Bound, Live, Failed, Goto, Fault, Ends
<1>6. CASE Discovery
  BY <1>6, Zenon DEF Discovery, SkipDiscovery, FetchSystemsToDiscover, CredentialFails,
         DiscoverSystem, AfterFailedReport, NextSystem, DiscoveryDone, Goto,
         Fault
<1>7. CASE SyncDatabases
  BY <1>7, Zenon DEF SyncDatabases, Goto, Ends
<1>8. CASE WriteResults
  BY <1>8, Zenon DEF WriteResults, PostOK, QueueResult, QueueFull, Goto, Fault, Ends
<1>9. CASE Crash
  BY <1>9, Zenon DEF Crash, Ends, Fault
<1>10. CASE BackendFails \/ BackendReturns
  BY <1>10, Zenon DEF BackendFails, BackendReturns, Fault
<1>11. CASE RetryDue \/ TimePasses \/ UNCHANGED vars
  BY <1>11, Zenon DEF RetryDue, TimePasses
<1> QED
  BY <1>1, <1>2, <1>3, <1>4, <1>5, <1>6, <1>7, <1>8, <1>9, <1>10, <1>11, Zenon DEF Next, Work

\* Numbers stay within their bounds.
LEMMA CountersStep ==
    ASSUME TypeCounters, [Next]_vars
    PROVE  TypeCounters'
<1> USE Bounds DEF vars, files, run, who, search, world, TypeCounters, Numbers
<1>1. CASE Start
  BY <1>1 DEF Start, Goto, Fault
<1>2. CASE DetectMode
  BY <1>2 DEF DetectMode, UseCachedMode, BackendFound, FallBack, NothingToRun,
         Chosen, SaveMode, Failed, Goto, Fault, Ends, Undecided, ShouldRetry
<1>3. CASE UploadPending
  <2>1. CASE UploadOne
    BY <2>1 DEF UploadOne
  <2>2. CASE UploadLost \/ UploadStops
    BY <2>2 DEF UploadLost, UploadStops, Goto, Fault
  <2> QED
    BY <1>3, <2>1, <2>2 DEF UploadPending
<1>4. CASE Identity
  BY <1>4 DEF Identity, IdentifyOffline, PersistToken, AlreadyRegistered, Register, RegisterFails,
         SaveToken, SaveAgentID, Identified, Known, Failed, Goto, Fault, Ends
<1>5. CASE LoadEntitlement
  BY <1>5 DEF LoadEntitlement, LoadLocal, LoadFromCache, LoadFromServer, LoadNone,
         SaveToCache, Holding, Cached, Bound, Live, Failed, Goto, Fault, Ends
<1>6. CASE Discovery
  BY <1>6 DEF Discovery, SkipDiscovery, FetchSystemsToDiscover, CredentialFails,
         DiscoverSystem, AfterFailedReport, NextSystem, DiscoveryDone, Goto,
         Fault
<1>7. CASE SyncDatabases
  BY <1>7 DEF SyncDatabases, Goto, Ends
<1>8. CASE WriteResults
  BY <1>8 DEF WriteResults, PostOK, QueueResult, QueueFull, Goto, Fault, Ends
<1>9. CASE Crash
  BY <1>9 DEF Crash, Ends, Fault
<1>10. CASE BackendFails \/ BackendReturns
  BY <1>10 DEF BackendFails, BackendReturns, Fault
<1>11. CASE RetryDue \/ TimePasses \/ UNCHANGED vars
  BY <1>11 DEF RetryDue, TimePasses
<1> QED
  BY <1>1, <1>2, <1>3, <1>4, <1>5, <1>6, <1>7, <1>8, <1>9, <1>10, <1>11, Zenon DEF Next, Work

\* Token, ID and entitlement.
LEMMA WhoStep ==
    ASSUME TypeFiles, TypeWho, TypeCounters, config \in Configs, [Next]_vars
    PROVE  TypeWho'
<1> USE Bounds DEF vars, files, run, who, search, world, TypeFiles, TypeWho,
        TypeCounters, Names, Numbers
<1>1. CASE Start
  BY <1>1 DEF Start, Goto, Configs
<1>2. CASE DetectMode
  BY <1>2 DEF DetectMode, UseCachedMode, BackendFound, FallBack, NothingToRun,
         Chosen, SaveMode, Failed, Goto, Fault, Ends, Undecided, ShouldRetry
<1>3. CASE UploadPending
  BY <1>3 DEF UploadPending, UploadOne, UploadLost, UploadStops, Welcome, Goto,
         Fault
<1>4. CASE Identity
  BY <1>4 DEF Identity, Configs, IdentifyOffline, PersistToken, AlreadyRegistered, Register, RegisterFails,
         SaveToken, SaveAgentID, Identified, Known, Failed, Goto, Fault, Ends
<1>5. CASE LoadEntitlement
  <2>1. CASE LoadLocal
    <3>1. config.entitlement \in Entitlements \cup {None, Broken}
      BY DEF Configs
    <3> QED
      BY <2>1, <3>1 DEF LoadLocal, Holding, Ends
  <2>2. CASE LoadFromServer
    <3>1. PICK e \in [agent : {token}, until : 0..MaxTime] : Holding(e)
      BY <2>2 DEF LoadFromServer
    <3>2. token \in Numbers
      BY <2>2 DEF LoadFromServer
    <3>3. e \in Entitlements
      BY <3>2 DEF Entitlements
    <3> QED
      BY <3>1, <3>3 DEF Holding
  <2>3. CASE LoadFromCache \/ LoadNone \/ SaveToCache
    BY <2>3 DEF LoadFromCache, LoadNone, SaveToCache, Holding
  <2> QED
    BY <1>5, <2>1, <2>2, <2>3 DEF LoadEntitlement
<1>6. CASE Discovery
  BY <1>6 DEF Discovery, SkipDiscovery, FetchSystemsToDiscover, CredentialFails,
         DiscoverSystem, AfterFailedReport, NextSystem, DiscoveryDone, Goto,
         Fault
<1>7. CASE SyncDatabases
  BY <1>7 DEF SyncDatabases, Goto, Ends
<1>8. CASE WriteResults
  BY <1>8 DEF WriteResults, PostOK, QueueResult, QueueFull, Goto, Fault, Ends
<1>9. CASE Crash
  BY <1>9 DEF Crash, Ends, Fault
<1>10. CASE BackendFails \/ BackendReturns
  BY <1>10 DEF BackendFails, BackendReturns, Fault
<1>11. CASE RetryDue \/ TimePasses \/ UNCHANGED vars
  BY <1>11 DEF RetryDue, TimePasses
<1> QED
  BY <1>1, <1>2, <1>3, <1>4, <1>5, <1>6, <1>7, <1>8, <1>9, <1>10, <1>11, Zenon DEF Next, Work

\* The pending directory holds at most PendingMaxFiles results.
LEMMA PendingStep ==
    ASSUME TypePending, [Next]_vars
    PROVE  TypePending'
<1> USE Bounds DEF vars, files, run, who, search, world, TypePending
<1>1. CASE Start
  BY <1>1 DEF Start, Goto
<1>2. CASE DetectMode
  BY <1>2 DEF DetectMode, UseCachedMode, BackendFound, FallBack, NothingToRun,
         Chosen, SaveMode, Failed, Goto, Fault, Ends, Undecided, ShouldRetry
<1>3. CASE UploadPending
  <2>1. CASE UploadOne
    <3>1. pending # <<>> /\ pending' = Tail(pending)
      BY <2>1 DEF UploadOne, Welcome
    <3>2. /\ Tail(pending) \in Seq(BOOLEAN) /\ Len(pending) \in Nat
          /\ Len(Tail(pending)) < Len(pending)
      BY <3>1, TailOf
    <3> QED
      BY <3>1, <3>2
  <2>2. CASE UploadLost \/ UploadStops
    BY <2>2 DEF UploadLost, UploadStops
  <2> QED
    BY <1>3, <2>1, <2>2 DEF UploadPending
<1>4. CASE Identity
  BY <1>4 DEF Identity, IdentifyOffline, PersistToken, AlreadyRegistered, Register, RegisterFails,
         SaveToken, SaveAgentID, Identified, Known, Failed, Goto, Fault, Ends
<1>5. CASE LoadEntitlement
  BY <1>5 DEF LoadEntitlement, LoadLocal, LoadFromCache, LoadFromServer, LoadNone,
         SaveToCache, Holding, Cached, Bound, Live, Failed, Goto, Fault, Ends
<1>6. CASE Discovery
  BY <1>6 DEF Discovery, SkipDiscovery, FetchSystemsToDiscover, CredentialFails,
         DiscoverSystem, AfterFailedReport, NextSystem, DiscoveryDone, Goto,
         Fault
<1>7. CASE SyncDatabases
  BY <1>7 DEF SyncDatabases, Goto, Ends
<1>8. CASE WriteResults
  <2>1. CASE QueueResult
    <3>1. PICK welcome \in BOOLEAN : pending' = Append(pending, welcome)
      BY <2>1, Zenon DEF QueueResult
    <3>2. /\ Append(pending, welcome) \in Seq(BOOLEAN) /\ Len(pending) \in Nat
          /\ Len(Append(pending, welcome)) = Len(pending) + 1
      BY AppendTo, LenProperties
    <3>3. Len(pending) < PendingMaxFiles
      BY <2>1 DEF QueueResult
    <3> QED
      BY <3>1, <3>2, <3>3
  <2>2. CASE PostOK \/ QueueFull
    BY <2>2 DEF PostOK, QueueFull
  <2> QED
    BY <1>8, <2>1, <2>2 DEF WriteResults
<1>9. CASE Crash
  BY <1>9 DEF Crash, Ends, Fault
<1>10. CASE BackendFails \/ BackendReturns
  BY <1>10 DEF BackendFails, BackendReturns, Fault
<1>11. CASE RetryDue \/ TimePasses \/ UNCHANGED vars
  BY <1>11 DEF RetryDue, TimePasses
<1> QED
  BY <1>1, <1>2, <1>3, <1>4, <1>5, <1>6, <1>7, <1>8, <1>9, <1>10, <1>11, Zenon DEF Next, Work

-----------------------------------------------------------------------------
(* Discovery: every listed system is reported at most once.                *)

\* Of the other steps, an end forgets the search and no step else touches it;
\* nothing leads back from the discovery or what follows it.
LEMMA SearchLeftAlone ==
    ASSUME [Next]_vars, ~FetchSystemsToDiscover, ~CredentialFails, ~DiscoverSystem
    PROVE  \/ Ends
           \/ /\ UNCHANGED search
              /\ \/ pc' \in {"discover", "databases", "audit"}
                 \/ pc \notin {"discover", "databases", "audit"}
<1> USE DEF vars, files, run, search
<1>1. CASE Start
  BY <1>1 DEF Start, Goto
<1>2. CASE DetectMode
  BY <1>2 DEF DetectMode, UseCachedMode, BackendFound, FallBack, NothingToRun,
         Chosen, Goto
<1>3. CASE UploadPending
  BY <1>3 DEF UploadPending, UploadOne, UploadLost, UploadStops, Goto,
         Fault
<1>4. CASE Identity
  BY <1>4 DEF Identity, IdentifyOffline, PersistToken, AlreadyRegistered, Register, RegisterFails,
         SaveToken, SaveAgentID, Identified, Goto
<1>5. CASE LoadEntitlement
  BY <1>5 DEF LoadEntitlement, LoadLocal, LoadFromCache, LoadFromServer, LoadNone,
         SaveToCache, Holding, Goto
<1>6. CASE Discovery
  BY <1>6 DEF Discovery, SkipDiscovery, FetchSystemsToDiscover, CredentialFails,
         DiscoverSystem, DiscoveryDone, Goto,
         Fault
<1>7. CASE SyncDatabases
  BY <1>7 DEF SyncDatabases, Goto
<1>8. CASE WriteResults
  BY <1>8 DEF WriteResults, PostOK, QueueResult, QueueFull, Goto
<1>9. CASE Crash
  BY <1>9 DEF Crash
<1>10. CASE BackendFails \/ BackendReturns
  BY <1>10 DEF BackendFails, BackendReturns
<1>11. CASE RetryDue \/ TimePasses \/ UNCHANGED vars
  BY <1>11, Zenon DEF RetryDue, TimePasses
<1> QED
  BY <1>1, <1>2, <1>3, <1>4, <1>5, <1>6, <1>7, <1>8, <1>9, <1>10, <1>11, Zenon DEF Next, Work

LEMMA SearchKept ==
    ASSUME TypeSearch, SearchInv, [Next]_vars,
           ~FetchSystemsToDiscover, ~CredentialFails, ~DiscoverSystem
    PROVE  TypeSearch' /\ SearchInv'
<1>1. CASE Ends
  <2>1. /\ todo' = <<>> /\ left' = Credentials /\ fresh' = fresh
        /\ reported' = [s \in 1..Systems |-> 0]
    BY <1>1 DEF Ends
  <2>2. todo' \in Seq(1..Systems) /\ Len(todo') = 0
    BY <2>1
  <2>3. reported' \in [1..Systems -> Nat] /\ \A s \in 1..Systems : reported'[s] = 0
    BY <2>1
  <2>4. left' \in 1..Credentials /\ fresh' \subseteq 1..Systems
    BY <2>1, Bounds DEF TypeSearch
  <2> QED
    BY <2>1, <2>2, <2>3, <2>4 DEF TypeSearch, SearchInv, ToReport, OneReportPerSystem
<1>2. CASE /\ UNCHANGED search
           /\ \/ pc' \in {"discover", "databases", "audit"}
              \/ pc \notin {"discover", "databases", "audit"}
  BY <1>2 DEF search, TypeSearch, SearchInv, ToReport, OneReportPerSystem
<1> QED
  BY <1>1, <1>2, SearchLeftAlone

LEMMA SearchListed ==
    ASSUME TypeSearch, SearchInv, FetchSystemsToDiscover
    PROVE  TypeSearch' /\ SearchInv'
<1>1. /\ todo' \in SetToSeqs(fresh) /\ left' = Credentials
      /\ pc = "discovery" /\ pc' = "discover"
      /\ reported' = reported /\ fresh' = fresh
  BY DEF FetchSystemsToDiscover, Goto
<1>2. IsFiniteSet(fresh)
  <2>1. IsFiniteSet(1..Systems)
    BY FS_Interval, Bounds
  <2> QED
    BY <2>1, FS_Subset DEF TypeSearch
<1>3. /\ todo' \in Seq(fresh)
      /\ \A i, j \in 1..Len(todo') : todo'[i] = todo'[j] => i = j
  BY <1>1, <1>2, ListedOnce
<1>4. todo' \in Seq(1..Systems)
  BY <1>3, SeqMonotonic DEF TypeSearch
<1>5. \A i \in 1..Len(todo') : todo'[i] \in 1..Systems
  BY <1>4, ElementOfSeq
<1>6. left' \in 1..Credentials
  BY <1>1, Bounds
<1>7. \A s \in 1..Systems : reported[s] = 0
  BY <1>1 DEF SearchInv, ToReport
<1> QED
  BY <1>1, <1>3, <1>4, <1>5, <1>6, <1>7 DEF TypeSearch, SearchInv, ToReport, OneReportPerSystem

\* The rest of the list is a list of systems not yet reported.
LEMMA SearchAdvances ==
    ASSUME TypeSearch, SearchInv, todo # <<>>
    PROVE  /\ Head(todo) \in 1..Systems /\ reported[Head(todo)] = 0
           /\ Tail(todo) \in Seq(1..Systems)
           /\ \A i \in 1..Len(Tail(todo)) :
                 /\ Tail(todo)[i] \in 1..Systems \ {Head(todo)}
                 /\ reported[Tail(todo)[i]] = 0
                 /\ \A j \in 1..Len(Tail(todo)) : Tail(todo)[i] = Tail(todo)[j] => i = j
<1>1. todo \in Seq(1..Systems)
  BY DEF TypeSearch
<1>2. /\ Len(todo) \in Nat /\ Len(todo) >= 1 /\ Head(todo) = todo[1]
      /\ Tail(todo) \in Seq(1..Systems) /\ Len(Tail(todo)) = Len(todo) - 1
      /\ \A i \in 1..Len(Tail(todo)) : Tail(todo)[i] = todo[i + 1]
  BY <1>1, TailOf
<1>3. \A i \in 1..Len(todo) : todo[i] \in 1..Systems
  BY <1>1, ElementOfSeq
<1>4. \A i \in 1..Len(todo) :
         reported[todo[i]] = 0 /\ \A j \in 1..Len(todo) : todo[i] = todo[j] => i = j
  BY DEF SearchInv, ToReport
<1>5. \A i \in 1..Len(Tail(todo)) : i + 1 \in 1..Len(todo) /\ i + 1 # 1
  BY <1>2
<1> QED
  <2>1. 1 \in 1..Len(todo)
    BY <1>2
  <2>2. ASSUME NEW i \in 1..Len(Tail(todo)), NEW j \in 1..Len(Tail(todo)),
               Tail(todo)[i] = Tail(todo)[j]
        PROVE  i = j
    <3>1. i + 1 = j + 1
      BY <1>2, <1>4, <1>5, <2>2
    <3> QED
      BY <3>1
  <2> QED
    BY <1>2, <1>3, <1>4, <1>5, <2>1, <2>2

LEMMA SearchCredentialFails ==
    ASSUME TypeSearch, SearchInv, CredentialFails
    PROVE  TypeSearch' /\ SearchInv'
<1>1. /\ pc = "discover" /\ pc' = pc /\ reported' = reported /\ fresh' = fresh
      /\ todo # <<>>
  BY DEF CredentialFails
<1>2. CASE left > 1
  <2>1. left' = left - 1 /\ todo' = todo
    BY <1>2 DEF CredentialFails
  <2>2. left' \in 1..Credentials
    BY <1>2, <2>1, Bounds DEF TypeSearch
  <2> QED
    BY <1>1, <2>1, <2>2 DEF TypeSearch, SearchInv, ToReport, OneReportPerSystem
<1>3. CASE ~(left > 1)
  <2>1. todo' = Tail(todo) /\ left' = Credentials
    BY <1>3 DEF CredentialFails, NextSystem
  <2>2. left' \in 1..Credentials
    BY <2>1, Bounds
  <2> QED
    BY <1>1, <2>1, <2>2, SearchAdvances DEF TypeSearch, SearchInv, ToReport, OneReportPerSystem
<1> QED
  BY <1>2, <1>3

LEMMA SearchReports ==
    ASSUME TypeSearch, SearchInv, DiscoverSystem
    PROVE  TypeSearch' /\ SearchInv'
<1> DEFINE s == Head(todo)
<1>1. /\ pc = "discover" /\ pc' = pc /\ todo # <<>>
      /\ reported' = [reported EXCEPT ![s] = @ + 1]
      /\ todo' = Tail(todo) /\ left' = Credentials
  BY DEF DiscoverSystem, AfterFailedReport, NextSystem
<1>2. fresh' \subseteq 1..Systems /\ left' \in 1..Credentials
  <2>1. fresh' \in {fresh, fresh \ {s}}
    <3> HIDE DEF s
    <3> QED BY DEF DiscoverSystem, s
  <2> QED
    BY <1>1, <2>1, Bounds DEF TypeSearch
<1>3. /\ s \in 1..Systems /\ reported[s] = 0
      /\ Tail(todo) \in Seq(1..Systems)
      /\ \A i \in 1..Len(Tail(todo)) :
            /\ Tail(todo)[i] \in 1..Systems \ {s}
            /\ reported[Tail(todo)[i]] = 0
            /\ \A j \in 1..Len(Tail(todo)) : Tail(todo)[i] = Tail(todo)[j] => i = j
  BY <1>1, SearchAdvances
<1> HIDE DEF s
<1>4. /\ reported' \in [1..Systems -> Nat] /\ reported'[s] = 1
      /\ \A t \in 1..Systems \ {s} : reported'[t] = reported[t]
  BY <1>1, <1>3 DEF TypeSearch
<1>5. \A t \in 1..Systems : reported'[t] <= 1
  BY <1>4 DEF SearchInv, OneReportPerSystem
<1>6. \A i \in 1..Len(Tail(todo)) : reported'[Tail(todo)[i]] = 0
  BY <1>3, <1>4
<1> QED
  BY <1>1, <1>2, <1>3, <1>4, <1>5, <1>6 DEF TypeSearch, SearchInv, ToReport, OneReportPerSystem

LEMMA SearchStep ==
    ASSUME TypeSearch, SearchInv, [Next]_vars
    PROVE  TypeSearch' /\ SearchInv'
BY SearchKept, SearchListed, SearchCredentialFails, SearchReports

-----------------------------------------------------------------------------
(* The token, the ID and the mode.                                         *)

LEMMA ConfiguredToken == config \in Configs => config.token \in {0, None} /\ None # 0
BY StartupAssumption DEF Configs

\* Before the identification only Start sets the token, and no step the token
\* file.
LEMMA TokenStep ==
    ASSUME config \in Configs, TokenOfRun, [Next]_vars
    PROVE  TokenOfRun'
<1> USE DEF vars, files, run, who, search, world, TokenOfRun
<1>1. CASE Start
  BY <1>1 DEF Start, Goto
<1>2. CASE DetectMode
  BY <1>2 DEF DetectMode, UseCachedMode, BackendFound, FallBack, NothingToRun,
         Chosen, SaveMode, Failed, Goto, Fault, Ends, Undecided, ShouldRetry
<1>3. CASE UploadPending
  BY <1>3 DEF UploadPending, UploadOne, UploadLost, UploadStops, Welcome, Goto,
         Fault
<1>4. CASE Identity
  BY <1>4 DEF Identity, IdentifyOffline, PersistToken, AlreadyRegistered, Register, RegisterFails,
         SaveToken, SaveAgentID, Identified, Known, Failed, Goto, Fault, Ends
<1>5. CASE LoadEntitlement
  BY <1>5 DEF LoadEntitlement, LoadLocal, LoadFromCache, LoadFromServer, LoadNone,
         SaveToCache, Holding, Cached, Bound, Live, Failed, Goto, Fault, Ends
<1>6. CASE Discovery
  BY <1>6 DEF Discovery, SkipDiscovery, FetchSystemsToDiscover, CredentialFails,
         DiscoverSystem, AfterFailedReport, NextSystem, DiscoveryDone, Goto,
         Fault
<1>7. CASE SyncDatabases
  BY <1>7 DEF SyncDatabases, Goto, Ends
<1>8. CASE WriteResults
  BY <1>8 DEF WriteResults, PostOK, QueueResult, QueueFull, Goto, Fault, Ends
<1>9. CASE Crash
  BY <1>9 DEF Crash, Ends, Fault
<1>10. CASE BackendFails \/ BackendReturns
  BY <1>10 DEF BackendFails, BackendReturns, Fault
<1>11. CASE RetryDue \/ TimePasses \/ UNCHANGED vars
  BY <1>11 DEF RetryDue, TimePasses
<1> QED
  BY <1>1, <1>2, <1>3, <1>4, <1>5, <1>6, <1>7, <1>8, <1>9, <1>10, <1>11, Zenon DEF Next, Work

\* Whoever becomes online by finding the backend has a token.
LEMMA OnlineStep ==
    ASSUME TypeFiles, OnlineByFile, [Next]_vars
    PROVE  OnlineByFile'
<1> USE DEF vars, files, run, who, search, world, OnlineByFile
<1>1. CASE Start
  BY <1>1 DEF Start, Goto
<1>2. CASE DetectMode
  BY <1>2 DEF DetectMode, UseCachedMode, BackendFound, FallBack, NothingToRun,
         Chosen, SaveMode, Failed, Goto, Fault, Ends, Undecided, ShouldRetry
<1>3. CASE UploadPending
  BY <1>3 DEF UploadPending, UploadOne, UploadLost, UploadStops, Welcome, Goto,
         Fault
<1>4. CASE Identity
  BY <1>4 DEF Identity, IdentifyOffline, PersistToken, AlreadyRegistered, Register, RegisterFails,
         SaveToken, SaveAgentID, Identified, Known, Failed, Goto, Fault, Ends
<1>5. CASE LoadEntitlement
  BY <1>5 DEF LoadEntitlement, LoadLocal, LoadFromCache, LoadFromServer, LoadNone,
         SaveToCache, Holding, Cached, Bound, Live, Failed, Goto, Fault, Ends
<1>6. CASE Discovery
  BY <1>6 DEF Discovery, SkipDiscovery, FetchSystemsToDiscover, CredentialFails,
         DiscoverSystem, AfterFailedReport, NextSystem, DiscoveryDone, Goto,
         Fault
<1>7. CASE SyncDatabases
  BY <1>7 DEF SyncDatabases, Goto, Ends
<1>8. CASE WriteResults
  BY <1>8 DEF WriteResults, PostOK, QueueResult, QueueFull, Goto, Fault, Ends
<1>9. CASE Crash
  BY <1>9 DEF Crash, Ends, Fault
<1>10. CASE BackendFails \/ BackendReturns
  BY <1>10 DEF BackendFails, BackendReturns, Fault
<1>11. CASE RetryDue \/ TimePasses \/ UNCHANGED vars
  BY <1>11 DEF RetryDue, TimePasses
<1> QED
  BY <1>1, <1>2, <1>3, <1>4, <1>5, <1>6, <1>7, <1>8, <1>9, <1>10, <1>11, Zenon DEF Next, Work

\* Nothing but the registration is between its two saves.
LEMMA SavingStep ==
    ASSUME TokenOfRun, Saving, [Next]_vars
    PROVE  Saving'
<1> USE DEF vars, files, run, who, search, world, TokenOfRun, Saving
<1>1. CASE Start
  BY <1>1 DEF Start, Goto
<1>2. CASE DetectMode
  BY <1>2 DEF DetectMode, UseCachedMode, BackendFound, FallBack, NothingToRun,
         Chosen, SaveMode, Failed, Goto, Fault, Ends, Undecided, ShouldRetry
<1>3. CASE UploadPending
  BY <1>3 DEF UploadPending, UploadOne, UploadLost, UploadStops, Welcome, Goto,
         Fault
<1>4. CASE Identity
  BY <1>4 DEF Identity, IdentifyOffline, PersistToken, AlreadyRegistered, Register, RegisterFails,
         SaveToken, SaveAgentID, Identified, Known, Failed, Goto, Fault, Ends
<1>5. CASE LoadEntitlement
  BY <1>5 DEF LoadEntitlement, LoadLocal, LoadFromCache, LoadFromServer, LoadNone,
         SaveToCache, Holding, Cached, Bound, Live, Failed, Goto, Fault, Ends
<1>6. CASE Discovery
  BY <1>6 DEF Discovery, SkipDiscovery, FetchSystemsToDiscover, CredentialFails,
         DiscoverSystem, AfterFailedReport, NextSystem, DiscoveryDone, Goto,
         Fault
<1>7. CASE SyncDatabases
  BY <1>7 DEF SyncDatabases, Goto, Ends
<1>8. CASE WriteResults
  BY <1>8 DEF WriteResults, PostOK, QueueResult, QueueFull, Goto, Fault, Ends
<1>9. CASE Crash
  BY <1>9 DEF Crash, Ends, Fault
<1>10. CASE BackendFails \/ BackendReturns
  BY <1>10 DEF BackendFails, BackendReturns, Fault
<1>11. CASE RetryDue \/ TimePasses \/ UNCHANGED vars
  BY <1>11 DEF RetryDue, TimePasses
<1> QED
  BY <1>1, <1>2, <1>3, <1>4, <1>5, <1>6, <1>7, <1>8, <1>9, <1>10, <1>11, Zenon DEF Next, Work

\* No step brings a number other than 0 to an agent configured with a token.
LEMMA ConfiguredStep ==
    ASSUME TypeFiles, TokenOfRun, Saving, Configured, config \in Configs, [Next]_vars
    PROVE  Configured'
<1> USE ConfiguredToken DEF vars, files, run, who, search, world, TypeFiles, TokenOfRun, Saving,
        Configured
<1>1. CASE Start
  BY <1>1 DEF Start, Goto
<1>2. CASE DetectMode
  BY <1>2 DEF DetectMode, UseCachedMode, BackendFound, FallBack, NothingToRun,
         Chosen, SaveMode, Failed, Goto, Fault, Ends, Undecided, ShouldRetry
<1>3. CASE UploadPending
  BY <1>3 DEF UploadPending, UploadOne, UploadLost, UploadStops, Welcome, Goto,
         Fault
<1>4. CASE Identity
  BY <1>4 DEF Identity, IdentifyOffline, PersistToken, AlreadyRegistered, Register, RegisterFails,
         SaveToken, SaveAgentID, Identified, Known, Failed, Goto, Fault, Ends
<1>5. CASE LoadEntitlement
  BY <1>5 DEF LoadEntitlement, LoadLocal, LoadFromCache, LoadFromServer, LoadNone,
         SaveToCache, Holding, Cached, Bound, Live, Failed, Goto, Fault, Ends
<1>6. CASE Discovery
  BY <1>6 DEF Discovery, SkipDiscovery, FetchSystemsToDiscover, CredentialFails,
         DiscoverSystem, AfterFailedReport, NextSystem, DiscoveryDone, Goto,
         Fault
<1>7. CASE SyncDatabases
  BY <1>7 DEF SyncDatabases, Goto, Ends
<1>8. CASE WriteResults
  BY <1>8 DEF WriteResults, PostOK, QueueResult, QueueFull, Goto, Fault, Ends
<1>9. CASE Crash
  BY <1>9 DEF Crash, Ends, Fault
<1>10. CASE BackendFails \/ BackendReturns
  BY <1>10 DEF BackendFails, BackendReturns, Fault
<1>11. CASE RetryDue \/ TimePasses \/ UNCHANGED vars
  BY <1>11 DEF RetryDue, TimePasses
<1> QED
  BY <1>1, <1>2, <1>3, <1>4, <1>5, <1>6, <1>7, <1>8, <1>9, <1>10, <1>11, Zenon DEF Next, Work

\* The pair of files changes only in a registration.
LEMMA IdentityStep ==
    ASSUME TypeFiles, TypeFlags, TokenOfRun, Saving, Configured, IdentityFollowsToken,
           config \in Configs, [Next]_vars
    PROVE  IdentityFollowsToken'
<1> USE ConfiguredToken DEF vars, files, run, who, search, world, TokenOfRun, Saving, Configured,
        IdentityFollowsToken
<1>1. CASE Start
  BY <1>1 DEF Start, Goto
<1>2. CASE DetectMode
  BY <1>2 DEF DetectMode, UseCachedMode, BackendFound, FallBack, NothingToRun,
         Chosen, SaveMode, Failed, Goto, Fault, Ends, Undecided, ShouldRetry
<1>3. CASE UploadPending
  BY <1>3 DEF UploadPending, UploadOne, UploadLost, UploadStops, Welcome, Goto,
         Fault
<1>4. CASE Identity
  BY <1>4 DEF Identity, IdentifyOffline, PersistToken, AlreadyRegistered, Register, RegisterFails,
         SaveToken, SaveAgentID, Identified, Known, Failed, Goto, Fault, Ends
<1>5. CASE LoadEntitlement
  BY <1>5 DEF LoadEntitlement, LoadLocal, LoadFromCache, LoadFromServer, LoadNone,
         SaveToCache, Holding, Cached, Bound, Live, Failed, Goto, Fault, Ends
<1>6. CASE Discovery
  BY <1>6 DEF Discovery, SkipDiscovery, FetchSystemsToDiscover, CredentialFails,
         DiscoverSystem, AfterFailedReport, NextSystem, DiscoveryDone, Goto,
         Fault
<1>7. CASE SyncDatabases
  BY <1>7 DEF SyncDatabases, Goto, Ends
<1>8. CASE WriteResults
  BY <1>8 DEF WriteResults, PostOK, QueueResult, QueueFull, Goto, Fault, Ends
<1>9. CASE Crash
  BY <1>9 DEF Crash, Ends, Fault
<1>10. CASE BackendFails \/ BackendReturns
  BY <1>10 DEF BackendFails, BackendReturns, Fault
<1>11. CASE RetryDue \/ TimePasses \/ UNCHANGED vars
  BY <1>11 DEF RetryDue, TimePasses
<1> QED
  BY <1>1, <1>2, <1>3, <1>4, <1>5, <1>6, <1>7, <1>8, <1>9, <1>10, <1>11, Zenon DEF Next, Work

\* An entitlement is loaded once, for the ID that the run has by then.
LEMMA EntStep ==
    ASSUME NoEntitlementYet, EntitlementIsMine, [Next]_vars
    PROVE  NoEntitlementYet' /\ EntitlementIsMine'
<1> USE DEF vars, files, run, who, search, world, NoEntitlementYet,
        EntitlementIsMine
<1>1. CASE Start
  BY <1>1 DEF Start, Goto
<1>2. CASE DetectMode
  BY <1>2 DEF DetectMode, UseCachedMode, BackendFound, FallBack, NothingToRun,
         Chosen, SaveMode, Failed, Goto, Fault, Ends, Undecided, ShouldRetry
<1>3. CASE UploadPending
  BY <1>3 DEF UploadPending, UploadOne, UploadLost, UploadStops, Welcome, Goto,
         Fault
<1>4. CASE Identity
  BY <1>4 DEF Identity, IdentifyOffline, PersistToken, AlreadyRegistered, Register, RegisterFails,
         SaveToken, SaveAgentID, Identified, Known, Failed, Goto, Fault, Ends
<1>5. CASE LoadEntitlement
  BY <1>5 DEF LoadEntitlement, LoadLocal, LoadFromCache, LoadFromServer, LoadNone,
         SaveToCache, Holding, Cached, Bound, Live, Failed, Goto, Fault, Ends
<1>6. CASE Discovery
  BY <1>6 DEF Discovery, SkipDiscovery, FetchSystemsToDiscover, CredentialFails,
         DiscoverSystem, AfterFailedReport, NextSystem, DiscoveryDone, Goto,
         Fault
<1>7. CASE SyncDatabases
  BY <1>7 DEF SyncDatabases, Goto, Ends
<1>8. CASE WriteResults
  BY <1>8 DEF WriteResults, PostOK, QueueResult, QueueFull, Goto, Fault, Ends
<1>9. CASE Crash
  BY <1>9 DEF Crash, Ends, Fault
<1>10. CASE BackendFails \/ BackendReturns
  BY <1>10 DEF BackendFails, BackendReturns, Fault
<1>11. CASE RetryDue \/ TimePasses \/ UNCHANGED vars
  BY <1>11 DEF RetryDue, TimePasses
<1> QED
  BY <1>1, <1>2, <1>3, <1>4, <1>5, <1>6, <1>7, <1>8, <1>9, <1>10, <1>11, Zenon DEF Next, Work

-----------------------------------------------------------------------------
(* The theorems.                                                           *)

LEMMA InvInit == Init => Inv
<1> SUFFICES ASSUME Init PROVE Inv
  OBVIOUS
<1>1. config \in Configs /\ config.token \in {0, None}
  BY ConfigurationAssumption DEF Init, Configs
<1>2. TypeFiles /\ TypeWho /\ pc \in Pc
  BY Bounds DEF Init, TypeFiles, TypeWho, Numbers, Pc
<1>3. TypePending
  BY Bounds DEF Init, TypePending
<1>4. TypeFlags
  BY Zenon DEF Init, TypeFlags
<1>5. TypeCounters
  BY Bounds DEF Init, TypeCounters, Numbers
<1>6. /\ todo \in Seq(1..Systems) /\ Len(todo) = 0 /\ left \in 1..Credentials
      /\ fresh \subseteq 1..Systems /\ reported \in [1..Systems -> Nat]
      /\ \A s \in 1..Systems : reported[s] = 0
  BY Bounds DEF Init
<1>7. TypeSearch /\ SearchInv
  BY <1>6 DEF Init, TypeSearch, SearchInv, ToReport, OneReportPerSystem
<1>8. FileInv
  BY <1>1, ConfiguredToken DEF Init, FileInv, TokenOfRun, OnlineByFile, Saving, Configured,
     IdentityFollowsToken
<1>9. EntInv
  BY DEF Init, EntInv, NoEntitlementYet, EntitlementIsMine
<1> QED
  BY <1>1, <1>2, <1>3, <1>4, <1>5, <1>7, <1>8, <1>9, TypeParts DEF Inv

LEMMA ConfigStep == [Next]_vars => config' = config
<1> SUFFICES ASSUME [Next]_vars PROVE config' = config
  OBVIOUS
<1> USE DEF vars, world
<1>1. CASE Start
  BY <1>1 DEF Start
<1>2. CASE DetectMode
  BY <1>2 DEF DetectMode, UseCachedMode, BackendFound, FallBack, NothingToRun,
         Chosen
<1>3. CASE UploadPending
  BY <1>3 DEF UploadPending, UploadOne, UploadLost, UploadStops
<1>4. CASE Identity
  BY <1>4 DEF Identity, IdentifyOffline, PersistToken, AlreadyRegistered, Register, RegisterFails,
         SaveToken, SaveAgentID, Identified
<1>5. CASE LoadEntitlement
  BY <1>5 DEF LoadEntitlement, LoadLocal, LoadFromCache, LoadFromServer, LoadNone,
         SaveToCache, Holding
<1>6. CASE Discovery
  BY <1>6 DEF Discovery, SkipDiscovery, FetchSystemsToDiscover, CredentialFails,
         DiscoverSystem, DiscoveryDone
<1>7. CASE SyncDatabases
  BY <1>7 DEF SyncDatabases
<1>8. CASE WriteResults
  BY <1>8 DEF WriteResults, PostOK, QueueResult, QueueFull
<1>9. CASE Crash
  BY <1>9 DEF Crash
<1>10. CASE BackendFails \/ BackendReturns
  BY <1>10 DEF BackendFails, BackendReturns
<1>11. CASE RetryDue \/ TimePasses \/ UNCHANGED vars
  BY <1>11 DEF RetryDue, TimePasses
<1> QED
  BY <1>1, <1>2, <1>3, <1>4, <1>5, <1>6, <1>7, <1>8, <1>9, <1>10, <1>11, Zenon DEF Next, Work

LEMMA InvStep == Inv /\ [Next]_vars => Inv'
<1> SUFFICES ASSUME Inv, [Next]_vars PROVE Inv'
  OBVIOUS
<1>1. /\ config \in Configs /\ pc \in Pc /\ TypeFiles /\ TypePending /\ TypeWho
      /\ TypeSearch /\ TypeFlags /\ TypeCounters
  BY TypeParts DEF Inv
<1>2. (config \in Configs)'
  BY <1>1, ConfigStep
<1>3. pc' \in Pc /\ TypeFiles' /\ TypePending' /\ TypeWho' /\ TypeFlags' /\ TypeCounters'
  BY <1>1, PcStep, FilesStep, PendingStep, WhoStep, FlagsStep, CountersStep
<1>4. TypeSearch' /\ SearchInv'
  BY <1>1, SearchStep DEF Inv
<1>5. TypeOK'
  <2>1. (/\ config \in Configs /\ pc \in Pc
         /\ TypeFiles /\ TypePending /\ TypeWho /\ TypeSearch /\ TypeFlags
         /\ TypeCounters)'
    BY <1>2, <1>3, <1>4
  <2> QED
    BY <2>1, TypeParts, PTL
<1>6. FileInv'
  BY <1>1, TokenStep, OnlineStep, SavingStep, ConfiguredStep, IdentityStep DEF Inv, FileInv
<1>7. EntInv'
  BY EntStep DEF Inv, EntInv
<1> QED
  BY <1>4, <1>5, <1>6, <1>7 DEF Inv

\* Inv holds in every state of every behaviour.
THEOREM Invariance == Spec => []Inv
BY InvInit, InvStep, PTL DEF Spec

\* Types of the variables: among others, the pending directory never holds more
\* than PendingMaxFiles results (ensureQueueCapacity, output.go:315-331).
THEOREM TypeCorrect == Spec => []TypeOK
<1>1. Inv => TypeOK
  BY DEF Inv
<1> QED
  BY Invariance, <1>1, PTL

\* Token and ID on disk are of one registration unless a run ended between its
\* two saves (registration.go:161-172).
THEOREM IdentityIsOne == Spec => []IdentityFollowsToken
<1>1. Inv => IdentityFollowsToken
  BY DEF Inv, FileInv
<1> QED
  BY Invariance, <1>1, PTL

\* An entitlement in use was issued for the agent ID in use (loader.go:75-128).
THEOREM EntitlementIsOwn == Spec => []EntitlementIsMine
<1>1. Inv => EntitlementIsMine
  BY DEF Inv, EntInv
<1> QED
  BY Invariance, <1>1, PTL

\* No run reports a system twice (discovery.go:122-180).
THEOREM ReportedOnce == Spec => []OneReportPerSystem
<1>1. Inv => OneReportPerSystem
  BY DEF Inv, SearchInv
<1> QED
  BY Invariance, <1>1, PTL

\* Only an agent that was online and has lost its token registers, whatever reads
\* and writes of its files fail (main.go:103-107, 161-212; registration.go:134-160).
THEOREM RegistersAfterLoss == Spec => RegistersOnlyAfterALoss
<1>1. Inv /\ Inv' /\ [Next]_vars =>
         [registrations' # registrations
             => config.token = None /\ tokenFile = None /\ modeFile = "online"]_vars
  <2> SUFFICES ASSUME Inv, [Next]_vars, registrations' # registrations
               PROVE  config.token = None /\ tokenFile = None /\ modeFile = "online"
    BY Zenon
  <2>1. Register
    <3> USE DEF vars, world
    <3>1. CASE Start
      BY <3>1 DEF Start
    <3>2. CASE DetectMode
      BY <3>2 DEF DetectMode, UseCachedMode, BackendFound, FallBack, NothingToRun,
             Chosen
    <3>3. CASE UploadPending
      BY <3>3 DEF UploadPending, UploadOne, UploadLost, UploadStops
    <3>4. CASE Identity
      BY <3>4 DEF Identity, IdentifyOffline, PersistToken, AlreadyRegistered, RegisterFails,
             SaveToken, SaveAgentID, Identified
    <3>5. CASE LoadEntitlement
      BY <3>5 DEF LoadEntitlement, LoadLocal, LoadFromCache, LoadFromServer, LoadNone,
             SaveToCache, Holding
    <3>6. CASE Discovery
      BY <3>6 DEF Discovery, SkipDiscovery, FetchSystemsToDiscover, CredentialFails,
             DiscoverSystem, DiscoveryDone
    <3>7. CASE SyncDatabases
      BY <3>7 DEF SyncDatabases
    <3>8. CASE WriteResults
      BY <3>8 DEF WriteResults, PostOK, QueueResult, QueueFull
    <3>9. CASE Crash
      BY <3>9 DEF Crash
    <3>10. CASE BackendFails \/ BackendReturns
      BY <3>10 DEF BackendFails, BackendReturns
    <3>11. CASE RetryDue \/ TimePasses \/ UNCHANGED vars
      BY <3>11 DEF RetryDue, TimePasses
    <3> QED
      BY <3>1, <3>2, <3>3, <3>4, <3>5, <3>6, <3>7, <3>8, <3>9, <3>10, <3>11, Zenon
         DEF Next, Work
  <2>2. pc = "identity" /\ online /\ token = None /\ tokenFile = None
    BY <2>1 DEF Register, Goto
  <2> QED
    BY <2>2 DEF Inv, FileInv, TokenOfRun, OnlineByFile
<1> QED
  BY <1>1, Invariance, PTL DEF Spec, RegistersOnlyAfterALoss
=============================================================================
