---------------------------- MODULE AgentStartup ----------------------------
(***************************************************************************)
(* What a run of the agent does around the audit: choose the mode, upload  *)
(* what is pending, find out who the agent is, load its entitlement, sync  *)
(* discover new systems, sync its databases, and hand in the result (main  *)
(* of cmd/agent/main.go, pkg/agent, pkg/registration, pkg/entitlement,     *)
(* pkg/discovery, pkg/output).                                             *)
(*                                                                         *)
(* Runs follow each other; a run may end at any point, and what it left in *)
(* its files decides about the next one.  control_sets.source is "http":   *)
(* a "local" agent is offline for ever and has none of this.  Agent and    *)
(* token number n come from the n-th registration, number 0 from the one   *)
(* the agent was installed with.                                           *)
(***************************************************************************)
EXTENDS Naturals, Sequences, SequencesExt

CONSTANTS
    PendingMaxFiles, UploadMaxFilesPerRun,
    Systems, Credentials,    \* systems the backend may want discovered, credentials of each
    MaxRegistrations, MaxTime, MaxFaults,   \* bounds
    Configurations,  \* the operators' choices under study, from Configs below
    Name,            \* the agent's own name, its ID when it has no other
    None, Broken     \* no token, ID or entitlement; an entitlement file that is bad

ASSUME StartupAssumption ==
    /\ {PendingMaxFiles, UploadMaxFilesPerRun, Systems, MaxRegistrations, MaxTime,
        MaxFaults} \subseteq Nat
    /\ Credentials \in Nat \ {0}     \* a system without any is not discovered
    /\ None \notin Nat \cup {Name}
    /\ {None, Broken} \cap [agent : Nat \cup {Name}, until : Nat] = {}

VARIABLES
    config,      \* the operator's configuration, the same in every run
    modeFile,    \* .agent_mode: "stale" is offline with NextRetry passed
    tokenFile, idFile,     \* agent.token and agent.token.id
    entCache,    \* the cached entitlement
    pending,     \* the pending directory, oldest first: will the backend take it?
    pc,
    online,      \* agentMode
    token, id,   \* cfg.Agent.Token, cfg.Agent.AgentID
    ent,         \* agentEntitlement; None is free mode
    uploads,     \* files UploadPending may still try
    todo, left,  \* systems to discover; credentials the first of them has left
    databases,   \* is there a database to audit?
    up,          \* does the backend answer?
    registrations, now,
    fresh,       \* systems the backend lists with status New
    reported,    \* history: how often this run reported each system
    interrupted, \* history: a registration ended between its two saves
    faults

files    == <<modeFile, tokenFile, idFile, entCache, pending>>
who      == <<online, token, id, ent>>
search   == <<todo, left, reported, fresh>>
run      == <<who, databases, uploads, search>>
world    == <<config, up, registrations, now>>
vars     == <<files, pc, run, world, interrupted, faults>>

Numbers      == 0..MaxRegistrations
Names        == Numbers \cup {Name}
Entitlements == [agent : Names, until : 0..MaxTime]
Pc == {"off", "mode", "upload", "identity", "saveToken", "saveID", "entitlement",
       "cacheEnt", "discovery", "discover", "databases", "audit"}

\* token: the configured one; agentID: likewise; packs: does local_path exist;
\* entitlement: entitlement.local_path is unset, unreadable, or holds one;
\* databases: does the file list any.
Configs == [token : {0, None}, agentID : {0, None}, packs : BOOLEAN,
            entitlement : Entitlements \cup {None, Broken}, databases : BOOLEAN]

ASSUME ConfigurationAssumption == Configurations \subseteq Configs

TypeOK ==
    /\ config \in Configs
    /\ modeFile \in {"none", "online", "offline", "stale"}
    /\ tokenFile \in Numbers \cup {None} /\ idFile \in Numbers \cup {None}
    /\ entCache \in Entitlements \cup {None}
    /\ pending \in Seq(BOOLEAN) /\ Len(pending) <= PendingMaxFiles
    /\ pc \in Pc
    /\ online \in BOOLEAN
    /\ token \in Numbers \cup {None} /\ id \in Names \cup {None}
    /\ ent \in Entitlements \cup {None} /\ databases \in BOOLEAN
    /\ uploads \in 0..UploadMaxFilesPerRun
    /\ up \in BOOLEAN /\ registrations \in Numbers /\ now \in 0..MaxTime
    /\ todo \in Seq(1..Systems) /\ left \in 1..Credentials
    /\ fresh \subseteq 1..Systems /\ reported \in [1..Systems -> Nat]
    /\ interrupted \in BOOLEAN /\ faults \in 0..MaxFaults

Init ==
    /\ config \in Configurations
    /\ modeFile = "none"
    /\ tokenFile \in {0, None} /\ idFile \in {tokenFile, None}
    /\ entCache = None /\ pending = <<>>
    /\ pc = "off"
    /\ online = FALSE /\ token = None /\ id = None /\ ent = None
    /\ databases = FALSE /\ uploads = 0
    /\ todo = <<>> /\ left = Credentials
    /\ fresh \in SUBSET (1..Systems) /\ reported = [s \in 1..Systems |-> 0]
    /\ up \in BOOLEAN /\ registrations = 0 /\ now = 0
    /\ interrupted = FALSE /\ faults = 0

Goto(from, to) == pc = from /\ pc' = to
Fault   == faults < MaxFaults /\ faults' = faults + 1

\* The process ends, by log.Fatalf or otherwise, and forgets the run.
Ends ==
    /\ pc' = "off"
    /\ online' = FALSE /\ token' = None /\ id' = None /\ ent' = None
    /\ databases' = FALSE /\ uploads' = 0
    /\ todo' = <<>> /\ left' = Credentials /\ reported' = [s \in 1..Systems |-> 0]
    /\ UNCHANGED fresh

\* os.WriteFile truncates first.  A write that fails leaves the old content or
\* none; what is then in the file cannot be read as anything.
Failed(old, none) == {old, none}

Live(e)    == now <= e.until
Bound(e)   == e.agent = id        \* parseAndVerify, for the agent ID in use
Known(configured, stored) ==      \* priority: config > persisted > name
    IF configured # None THEN configured ELSE IF stored # None THEN stored ELSE Name

-----------------------------------------------------------------------------
(* main, first part: the token, then the mode.                             *)

\* LoadToken, where no token is configured; its error is ignored.
Start ==
    /\ Goto("off", "mode")
    /\ \/ token' = (IF config.token # None THEN config.token ELSE tokenFile) /\ UNCHANGED faults
       \/ config.token = None /\ tokenFile # None /\ token' = None /\ Fault
    /\ databases' = config.databases
    /\ UNCHANGED <<files, online, id, ent, uploads, search, world, interrupted>>

\* Where a run goes from its mode: uploadPendingResults is for online ones.
Chosen(isOnline) ==
    /\ online' = isOnline
    /\ Goto("mode", IF isOnline THEN "upload" ELSE "identity")
    /\ uploads' = IF isOnline THEN UploadMaxFilesPerRun ELSE 0
    /\ UNCHANGED <<tokenFile, idFile, entCache, pending, token, id, ent, databases,
                   search, world, interrupted>>

\* ShouldRetry: only an offline mode is ever checked again.
ShouldRetry == modeFile = "stale"

UseCachedMode ==
    /\ modeFile # "none" /\ ~ShouldRetry
    /\ Chosen(modeFile = "online")
    /\ UNCHANGED <<modeFile, faults>>

\* mode.Save(), whose error nobody looks at.
SaveMode(mode) ==
    \/ modeFile' = mode /\ UNCHANGED faults
    \/ Fault /\ modeFile' \in Failed(modeFile, "none")

Undecided == modeFile = "none" \/ ShouldRetry

BackendFound ==
    /\ Undecided /\ token # None /\ up
    /\ Chosen(TRUE) /\ SaveMode("online")

\* No token, or no answer: offline if there are local control sets.
FallBack ==
    /\ Undecided /\ (token = None \/ ~up) /\ config.packs
    /\ Chosen(FALSE) /\ SaveMode("offline")

NothingToRun ==
    /\ pc = "mode" /\ Undecided /\ (token = None \/ ~up) /\ ~config.packs
    /\ Ends
    /\ UNCHANGED <<files, world, interrupted, faults>>

DetectMode == UseCachedMode \/ BackendFound \/ FallBack \/ NothingToRun

-----------------------------------------------------------------------------
(* UploadPending: oldest first, until one is not taken.                    *)

Welcome == pending # <<>> /\ Head(pending)

\* Mutant: the uploaded file is not removed.
UploadKeeping ==
    /\ pc = "upload" /\ up /\ uploads > 0 /\ Welcome
    /\ uploads' = uploads - 1
    /\ UNCHANGED <<files, pc, who, databases, search, world, interrupted, faults>>

UploadOne ==
    /\ pc = "upload" /\ up /\ uploads > 0 /\ Welcome
    /\ pending' = Tail(pending) /\ uploads' = uploads - 1
    /\ UNCHANGED <<modeFile, tokenFile, idFile, entCache, pc, who, databases, search,
                   world, interrupted, faults>>

\* The answer, or the removal of the file, is lost: the file stays.
UploadLost ==
    /\ up /\ uploads > 0 /\ Welcome
    /\ Goto("upload", "identity") /\ Fault
    /\ UNCHANGED <<files, run, world, interrupted>>

UploadStops ==
    /\ uploads = 0 \/ ~up \/ ~Welcome
    /\ Goto("upload", "identity")
    /\ UNCHANGED <<files, run, world, interrupted, faults>>

UploadPending == UploadOne \/ UploadLost \/ UploadStops

-----------------------------------------------------------------------------
(* Who the agent is.                                                       *)

Identified(t, storedID) ==
    /\ token' = t
    /\ id' = Known(config.agentID, storedID)
    /\ Goto("identity", "entitlement")
    /\ UNCHANGED <<modeFile, idFile, entCache, pending, online, ent, databases,
                   uploads, search, world, interrupted>>

\* Offline: whatever token the file has, for later; an empty one takes away the
\* configured token.  What cannot be read is not there.
IdentifyOffline ==
    /\ ~online
    /\ \/ tokenFile # None /\ Identified(tokenFile, idFile) /\ UNCHANGED faults
       \/ tokenFile = None /\ (\E t \in {token, None} : Identified(t, idFile)) /\ UNCHANGED faults
       \/ Fault /\ \E i \in {idFile, None} : Identified(token, i)
    /\ UNCHANGED tokenFile

\* Online with a token: the file is rewritten in every run, and an ID that
\* cannot be read is not there.
PersistToken ==
    /\ online /\ token # None
    /\ \/ Identified(token, idFile) /\ tokenFile' = token /\ UNCHANGED faults
       \/ Fault /\ Identified(token, idFile) /\ tokenFile' \in Failed(tokenFile, None)
       \/ Fault /\ Identified(token, None) /\ tokenFile' = token

\* EnsureRegistered reads both files again: the token may be there after all.
AlreadyRegistered ==
    /\ online /\ token = None /\ tokenFile # None
    /\ Identified(tokenFile, idFile)
    /\ UNCHANGED <<tokenFile, faults>>

\* Mutant: the token file is not read again.
RegisterWithoutReading ==
    /\ online /\ token = None /\ up
    /\ registrations < MaxRegistrations
    /\ registrations' = registrations + 1
    /\ Goto("identity", "saveToken") /\ token' = registrations + 1
    /\ UNCHANGED <<files, online, id, ent, databases, uploads, search, config, up, now,
                   interrupted, faults>>

\* No token: the backend makes a new agent.
Register ==
    /\ online /\ token = None /\ tokenFile = None
    /\ up /\ registrations < MaxRegistrations
    /\ registrations' = registrations + 1
    /\ \/ Goto("identity", "saveToken") /\ token' = registrations + 1
          /\ UNCHANGED <<online, id, ent, databases, uploads, search, faults>>
       \/ pc = "identity" /\ Ends /\ Fault       \* the answer is lost
    /\ UNCHANGED <<files, config, up, now, interrupted>>

\* No answer, or one of the two files cannot be read: log.Fatalf.
RegisterFails ==
    /\ pc = "identity" /\ online /\ token = None
    /\ \/ tokenFile = None /\ ~up /\ UNCHANGED faults
       \/ Fault
    /\ Ends
    /\ UNCHANGED <<files, world, interrupted>>

SaveToken ==
    /\ \/ /\ Goto("saveToken", "saveID") /\ tokenFile' = token
          /\ UNCHANGED <<run, faults>>
       \/ /\ pc = "saveToken" /\ Ends /\ Fault
          /\ tokenFile' \in Failed(tokenFile, None)
    /\ UNCHANGED <<modeFile, idFile, entCache, pending, world, interrupted>>

\* Mutant: an ID that is there already is kept.
SaveFirstAgentID ==
    /\ Goto("saveID", "entitlement")
    /\ idFile' = IF idFile = None THEN token ELSE idFile
    /\ id' = Known(config.agentID, token)
    /\ UNCHANGED <<modeFile, tokenFile, entCache, pending, online, token, ent, databases,
                   uploads, search, world, interrupted, faults>>

SaveAgentID ==
    /\ \/ /\ Goto("saveID", "entitlement") /\ idFile' = token
          /\ id' = Known(config.agentID, token)
          /\ UNCHANGED <<online, token, ent, databases, uploads, search, interrupted, faults>>
       \/ /\ pc = "saveID" /\ Ends /\ Fault
          /\ idFile' \in Failed(idFile, None) /\ interrupted' = TRUE
    /\ UNCHANGED <<modeFile, tokenFile, entCache, pending, world>>

Identity == IdentifyOffline \/ PersistToken \/ AlreadyRegistered \/ Register
               \/ RegisterFails \/ SaveToken \/ SaveAgentID

-----------------------------------------------------------------------------
(* Loader.Load: the local file alone, else the cache, else the server.     *)

Holding(e) ==
    /\ ent' = e
    /\ UNCHANGED <<files, online, token, id, databases, uploads, search, world,
                   interrupted>>

LoadLocal ==
    /\ pc = "entitlement" /\ config.entitlement # None
    /\ IF config.entitlement # Broken /\ Bound(config.entitlement)
          THEN pc' = "discovery" /\ Holding(config.entitlement)
          ELSE Ends /\ UNCHANGED <<files, world, interrupted>>
    /\ UNCHANGED faults

\* Mutant: the cache is not checked for whose entitlement it holds.
CachedForAnyone == entCache # None /\ Live(entCache)

Cached == entCache # None /\ Bound(entCache) /\ Live(entCache)

LoadFromCache ==
    /\ config.entitlement = None /\ Cached
    /\ Goto("entitlement", "discovery") /\ Holding(entCache)
    /\ UNCHANGED faults

\* The server's entitlement is for the agent the token belongs to.
LoadFromServer ==
    /\ config.entitlement = None /\ ~Cached
    /\ online /\ token # None /\ up
    /\ \E e \in [agent : {token}, until : 0..MaxTime] :
          /\ Bound(e)
          /\ Goto("entitlement", "cacheEnt") /\ Holding(e)
    /\ UNCHANGED faults

\* No server, no entitlement (404), or one for somebody else.
LoadNone ==
    /\ config.entitlement = None /\ ~Cached
    /\ Goto("entitlement", "discovery") /\ Holding(None)
    /\ UNCHANGED faults

SaveToCache ==
    /\ Goto("cacheEnt", "discovery")
    /\ \/ entCache' = ent /\ UNCHANGED faults
       \/ Fault /\ entCache' \in Failed(entCache, None)
    /\ UNCHANGED <<modeFile, tokenFile, idFile, pending, run, world, interrupted>>

LoadEntitlement == LoadLocal \/ LoadFromCache \/ LoadFromServer \/ LoadNone \/ SaveToCache

-----------------------------------------------------------------------------
(* performDiscovery: the new systems, each with its credentials in order.  *)

\* Offline, no answer, nothing to discover: the audit goes on all the same.
SkipDiscovery ==
    /\ ~online \/ ~up \/ fresh = {}
    /\ Goto("discovery", "databases")
    /\ UNCHANGED <<files, run, world, interrupted, faults>>

FetchSystemsToDiscover ==
    /\ online /\ up /\ fresh # {}
    /\ Goto("discovery", "discover")
    /\ todo' \in SetToSeqs(fresh)      \* in the order the backend lists them
    /\ left' = Credentials
    /\ UNCHANGED <<files, who, databases, uploads, reported, fresh, world, interrupted, faults>>

NextSystem == todo' = Tail(todo) /\ left' = Credentials

\* It cannot be connected to, inspected, or given a discovery pack.
CredentialFails ==
    /\ pc = "discover" /\ todo # <<>>
    /\ IF left > 1 THEN left' = left - 1 /\ UNCHANGED todo ELSE NextSystem
    /\ UNCHANGED <<files, pc, who, databases, uploads, reported, fresh, world, interrupted,
                   faults>>

\* Mutant: the next credential is tried.
TryNextCredential ==
    IF left > 1 THEN left' = left - 1 /\ UNCHANGED todo ELSE NextSystem

\* sendDiscoveryResults fails, at the backend or on the way back: DiscoverSystem
\* returns, it does not try the next credential.
AfterFailedReport == NextSystem

\* The first credential that works is the one whose attributes are sent.
DiscoverSystem ==
    /\ pc = "discover" /\ todo # <<>>
    /\ reported' = [reported EXCEPT ![Head(todo)] = @ + 1]
    /\ \/ up /\ fresh' = fresh \ {Head(todo)} /\ NextSystem /\ UNCHANGED faults
       \/ up /\ fresh' = fresh \ {Head(todo)} /\ AfterFailedReport /\ Fault
       \/ ~up /\ AfterFailedReport /\ UNCHANGED <<fresh, faults>>
    /\ UNCHANGED <<files, pc, who, databases, uploads, world, interrupted>>

DiscoveryDone ==
    /\ todo = <<>> /\ Goto("discover", "databases")
    /\ UNCHANGED <<files, run, world, interrupted, faults>>

Discovery == SkipDiscovery \/ FetchSystemsToDiscover \/ CredentialFails \/ DiscoverSystem
                \/ DiscoveryDone

-----------------------------------------------------------------------------
(* syncOnlineDatabases, the audit, and the result.                         *)

\* The backend's list replaces the configured one, and may be empty.
SyncDatabases ==
    /\ \E some \in BOOLEAN :
          /\ (online /\ up) \/ some = databases
          /\ \/ /\ online /\ ~some /\ pc = "databases" /\ Ends
             \/ /\ some \/ ~online
                /\ Goto("databases", "audit") /\ databases' = some
                /\ UNCHANGED <<who, uploads, search>>
    /\ UNCHANGED <<files, world, interrupted, faults>>

\* writeToHTTP: the backend takes the result, or it is queued.
PostOK ==
    /\ pc = "audit" /\ online /\ up
    /\ Ends
    /\ UNCHANGED <<files, world, interrupted, faults>>

\* Mutant: the capacity is not looked at.
QueueUnchecked ==
    /\ pc = "audit"
    /\ \E welcome \in BOOLEAN :
          /\ pending' = Append(pending, welcome)
          /\ IF welcome /\ ~(online /\ up) THEN UNCHANGED faults ELSE Fault
    /\ Ends
    /\ UNCHANGED <<modeFile, tokenFile, idFile, entCache, world, interrupted>>

\* Offline, no answer, a lost one, or one that is not 200 and may never be.
QueueResult ==
    /\ pc = "audit" /\ Len(pending) < PendingMaxFiles
    /\ \E welcome \in BOOLEAN :
          /\ pending' = Append(pending, welcome)
          /\ IF welcome /\ ~(online /\ up) THEN UNCHANGED faults ELSE Fault
    /\ Ends
    /\ UNCHANGED <<modeFile, tokenFile, idFile, entCache, world, interrupted>>

\* ensureQueueCapacity: log.Fatalf, and the result is gone.
QueueFull ==
    /\ pc = "audit" /\ Len(pending) >= PendingMaxFiles
    /\ Ends
    /\ IF online /\ up THEN Fault ELSE UNCHANGED faults
    /\ UNCHANGED <<files, world, interrupted>>

WriteResults == PostOK \/ QueueResult \/ QueueFull

-----------------------------------------------------------------------------
(* What the code does not decide.                                          *)

\* A crash; one inside a write is the write that fails.
Crash ==
    /\ pc # "off" /\ Ends /\ Fault
    /\ interrupted' = (interrupted \/ pc = "saveID")
    /\ UNCHANGED <<files, world>>

BackendFails ==
    /\ up /\ up' = FALSE /\ Fault
    /\ UNCHANGED <<files, pc, run, config, registrations, now, interrupted>>

BackendReturns ==
    /\ ~up /\ up' = TRUE
    /\ UNCHANGED <<files, pc, run, config, registrations, now, interrupted, faults>>

\* NextRetry, 24 hours after the check.
RetryDue ==
    /\ modeFile = "offline" /\ modeFile' = "stale"
    /\ UNCHANGED <<tokenFile, idFile, entCache, pending, pc, run, world, interrupted, faults>>

TimePasses ==
    /\ now < MaxTime /\ now' = now + 1
    /\ UNCHANGED <<files, pc, run, config, up, registrations, interrupted, faults>>

Work == DetectMode \/ UploadPending \/ Identity \/ LoadEntitlement \/ Discovery
           \/ SyncDatabases \/ WriteResults

Next == Start \/ Work \/ Crash \/ BackendFails \/ BackendReturns \/ RetryDue \/ TimePasses

Spec == Init /\ [][Next]_vars

\* The agent is started again and again (cron, systemd timer), a run goes on as
\* long as it can, an outage ends, and 24 hours pass.
Fairness == WF_vars(Start) /\ WF_vars(Work) /\ WF_vars(BackendReturns) /\ WF_vars(RetryDue)
FairSpec == Spec /\ Fairness

-----------------------------------------------------------------------------
(* What should be true.                                                    *)

\* The token and the ID on disk are of one registration, unless a run ended
\* between registration.go:162 and 167; nothing repairs them after that.
IdentityFollowsToken ==
    tokenFile # None /\ idFile # None /\ tokenFile # idFile
        => pc = "saveID" \/ interrupted

\* Whatever the cache still holds from an earlier identity, and whichever
\* source it came from (loader.go:75-128), an entitlement that is in use is
\* for the agent ID of this run.
EntitlementIsMine == ent # None => ent.agent = id

\* DiscoverSystem stops at the first credential that worked, also when the
\* backend could not be told (discovery.go:166-172).
OneReportPerSystem == \A s \in 1..Systems : reported[s] <= 1

\* A registration never makes a second agent: neither a read of the token that
\* failed when the run began, nor an ID that is missing, nor a write that failed
\* leads to one while the agent has a token, configured or stored.  It takes an
\* agent that once was online and whose token was lost since (main.go:103-107,
\* 157-201; registration.go:134-160).
RegistersOnlyAfterALoss ==
    [][registrations' # registrations
          => config.token = None /\ tokenFile = None /\ modeFile = "online"]_vars

\* With a token an agent gets online, however often its mode file is damaged,
\* and then its pending results arrive, up to the first one refused
\* (pkg/output/output.go:229-281).
EventuallyUploaded ==
    config.token # None /\ pending # <<>> ~> ~Welcome
=============================================================================
