------------------------ MODULE DesktopSettingsProofs ------------------------
(***************************************************************************)
(* Theorems about DesktopSettings, for all options, keys and bounds.       *)
(*                                                                         *)
(*   RetryArmed: a desktop that is not connected tries again.  Only        *)
(*     actions of the connection disturb it: one that begins an attempt,   *)
(*     one that ends a connection or an attempt, the three steps of the    *)
(*     handshake, and the end of the window.                               *)
(*   WritersAlone: one operation at a time changes the configuration.      *)
(*   SavedIsApplied: what the page calls saved is what the daemon runs on  *)
(*     (both by SettingsInv, which adds what is under way to the fields).  *)
(***************************************************************************)
EXTENDS DesktopSettings, TLAPS

ConnType ==
  conn \in [phase : {"disconnected", "connecting", "connected", "retrying", "disposed"},
            link : {"none", "open", "ready"}, timer : BOOLEAN]

\* The invariant is inductive once the fields are known to be there.
ConnInv == ConnType /\ RetryIsArmed

-------------------------------------------------------------------------------
\* The handshake, step by step: DaemonRpcClient and markConnected.
LEMMA HandshakeKeeps ==
  ASSUME ConnInv, SocketOpens \/ Initialized \/ StatusArrives
  PROVE  ConnInv'
<1>1. CASE SocketOpens
  BY <1>1 DEF SocketOpens, ConnInv, ConnType, RetryIsArmed
<1>2. CASE Initialized
  <2>1. conn.phase # "connected" /\ conn' = [conn EXCEPT !.link = "ready"]
    BY <1>2 DEF Initialized, ConnInv, RetryIsArmed
  <2> QED BY <2>1 DEF ConnInv, ConnType, RetryIsArmed
<1>3. CASE StatusArrives
  BY <1>3 DEF StatusArrives, ConnInv, ConnType, RetryIsArmed
<1> QED BY <1>1, <1>2, <1>3

\* Whatever begins or ends a connection leaves one record or the other: markConnecting and
\* retry clear the timer, handleDisconnect and markFailed arm it.
LEMMA AttemptKeeps ==
  ASSUME Connect \/ handleDisconnect \/ conn' = Disposed
  PROVE  ConnInv'
<1>1. CASE Connect
  BY <1>1 DEF Connect, ConnInv, ConnType, RetryIsArmed
<1>2. CASE handleDisconnect
  BY <1>2 DEF handleDisconnect, ConnInv, ConnType, RetryIsArmed
<1>3. CASE conn' = Disposed
  <2>1. conn' = [phase |-> "disposed", link |-> "none", timer |-> FALSE]
    BY <1>3 DEF Disposed, Offline
  <2> QED BY <2>1 DEF ConnInv, ConnType, RetryIsArmed
<1> QED BY <1>1, <1>2, <1>3

\* What the user, the daemon and the answers to requests do leaves the connection alone.
LEMMA OthersKeep ==
  ASSUME DaemonApplies \/ DaemonStops \/ DaemonStarts \/ Returns \/ (User /\ ~Retry)
  PROVE  conn' = conn
<1>1. CASE DaemonApplies \/ DaemonStops \/ DaemonStarts
  BY <1>1 DEF DaemonApplies, DaemonStops, DaemonStarts
<1>2. CASE Returns
  BY <1>2 DEF Returns, AutoSaveTimer, LoadReturns, TestReturns, CredentialsSaved,
              SaveValidated, SaveReturns, SaveRefreshed, CreateFlushed, CreateValidated,
              CreateReturns, CreateRefreshed
<1>3. CASE User /\ ~Retry
  BY <1>3 DEF User, Edit, updateCredential, commitCredential, testProvider, createProvider,
              deleteActiveProvider, selectPage, CloseRequested, runPrimaryAction
<1> QED BY <1>1, <1>2, <1>3

LEMMA ConnStep ==
  ASSUME ConnInv, [Next]_vars
  PROVE  ConnInv'
<1>1. CASE Start \/ RetryTimer \/ Retry
  BY <1>1, AttemptKeeps DEF Start, RetryTimer, Retry
<1>2. CASE SocketOpens \/ Initialized \/ StatusArrives
  BY <1>2, HandshakeKeeps
<1>3. CASE ConnectFails \/ ConnectionLost
  BY <1>3, AttemptKeeps DEF ConnectFails, ConnectionLost
<1>4. CASE Destroyed
  BY <1>4, AttemptKeeps DEF Destroyed
<1>5. CASE conn' = conn
  BY <1>5 DEF ConnInv, ConnType, RetryIsArmed
<1>6. CASE ServiceReturns
  BY <1>5, <1>6, AttemptKeeps DEF ServiceReturns
<1>7. CASE DaemonApplies \/ DaemonStops \/ DaemonStarts \/ Returns \/ (User /\ ~Retry)
  BY <1>5, <1>7, OthersKeep
<1>8. CASE UNCHANGED vars
  BY <1>5, <1>8 DEF vars
<1> QED BY <1>1, <1>2, <1>3, <1>4, <1>6, <1>7, <1>8 DEF Next, Connecting

-------------------------------------------------------------------------------
\* RetryIsArmed: whenever the connection is down a timer runs that tries again, and none
\* runs beside a connection or an attempt (DaemonState.#scheduleRetry and #clearRetry).
THEOREM RetryArmed == Spec => []RetryIsArmed
<1>1. Init => ConnInv
  BY DEF Init, Offline, ConnInv, ConnType, RetryIsArmed
<1>2. ConnInv /\ [Next]_vars => ConnInv'
  BY ConnStep
<1>3. ConnInv => RetryIsArmed
  BY DEF ConnInv
<1> QED BY <1>1, <1>2, <1>3, PTL DEF Spec

-------------------------------------------------------------------------------
(***************************************************************************)
(* Who writes, and what "saved" stands on.  One account of ConfigState and *)
(* of the daemon's queue gives both: which requests may be under way       *)
(* together (Exclusive), and where in the queue the update that is still   *)
(* waited for stands (Ordered): nothing is behind it, so once it is        *)
(* applied the queue is empty and the daemon has what it was asked for.    *)
(***************************************************************************)
Configurations == [option : Options, providers : Nat]
Stored == Configurations \cup {None}

CfgType(c) ==
  /\ DOMAIN c = DOMAIN Unloaded
  /\ c.config \in Stored /\ c.draft \in Stored
  /\ c.save \in [step : {"none", "credentials", "validate", "update", "applied", "refused",
                         "refresh"},
                 candidate : Stored, snapshot : Stored, key : Keys \cup {None}]
  /\ c.create \in [step : {"none", "flush", "validate", "update", "applied", "refused",
                           "refresh"},
                   candidate : Stored]
  /\ c.typed \in Keys \cup {None}

Updates == [config : Configurations, by : {"save", "create", "nobody"}]

ServerType(d) == d \in [up : BOOLEAN, config : Stored, queue : Seq(Updates)]

\* A save and the creation of a provider wait for each other: the flush that precedes a
\* creation, the timer it has cleared, and the dialog in front of the page see to it.
Exclusive(c, link) ==
  /\ c.save.step # "none" => link = "ready" /\ c.draft # None /\ c.save.candidate # None
  /\ c.create.step \notin {"none", "flush"} =>
       link = "ready" /\ c.save.step = "none" /\ c.create.candidate # None
  /\ c.create.step # "none" => ~c.timer /\ c.draft # None
  /\ c.phase = "saved" => /\ c.save.step \in {"none", "refresh"}
                          /\ c.create.step \in {"none", "flush", "refresh"}
                          /\ c.draft = c.config

\* Somebody waits for the answer to update u.
Waits(c, u) ==
  \/ u.by = "save" /\ c.save.step = "update" /\ u.config = c.save.candidate
  \/ u.by = "create" /\ c.create.step = "update" /\ u.config = c.create.candidate

Ordered(c, d) ==
  /\ \A i \in DOMAIN d.queue :
       d.queue[i].by # "nobody" => i = Len(d.queue) /\ Waits(c, d.queue[i])
  /\ c.save.step = "applied" => d.queue = <<>> /\ d.config = c.save.candidate
  /\ c.create.step = "applied" => d.queue = <<>> /\ d.config = c.create.candidate
  /\ c.phase = "saved" => d.queue = <<>> /\ d.config = c.config

\* There is a connection only while one is made or used.
Linked == conn.phase \in {"disconnected", "retrying", "disposed"} => conn.link = "none"

Good(c, link, d) == CfgType(c) /\ ServerType(d) /\ Exclusive(c, link) /\ Ordered(c, d)

SettingsInv == ConnInv /\ Linked /\ Good(cfg, conn.link, server)

\* From c to d the page changes, and no request.
Calm(c, d) ==
  /\ CfgType(d)
  /\ d.save = c.save /\ d.create = c.create
  /\ c.draft # None => d.draft # None
  /\ d.timer => c.timer \/ c.create.step = "none"
  /\ d.phase = "saved" => c.phase = "saved" /\ d.draft = c.draft /\ d.config = c.config

\* Nobody waits for an update.
Unawaited(d) == \A i \in DOMAIN d.queue : d.queue[i].by = "nobody"

-------------------------------------------------------------------------------
LEMMA CalmKeeps ==
  ASSUME NEW c, NEW d, NEW link, NEW sv, Good(c, link, sv), Calm(c, d)
  PROVE  Good(d, link, sv)
BY DEF Good, Calm, Exclusive, Ordered, Waits

\* What the loop of the automatic saving leaves.
LEMMA SaveLoopFields ==
  ASSUME NEW c, CfgType(c)
  PROVE  LET d == SaveLoop(c) IN
         /\ CfgType(d) /\ d.timer = c.timer /\ d.create = c.create
         /\ d.config = c.config /\ d.draft = c.draft
         /\ \/ d.save.step = "none" /\ d.phase \in {c.phase, "error"}
            \/ /\ d.save.step \in {"credentials", "validate"} /\ d.phase = "saving"
               /\ conn.link = "ready" /\ c.draft # None /\ d.save.candidate # None
<1> DEFINE asked == [c EXCEPT !.saveRequested = FALSE, !.save = NoSave]
           key == IF c.ready THEN c.typed ELSE None
           begun == [ step |-> IF key = None THEN "validate" ELSE "credentials",
                      candidate |-> Normal(c.draft), snapshot |-> c.draft, key |-> key ]
           saving == [asked EXCEPT !.phase = "saving", !.save = begun]
<1>1. /\ DOMAIN asked = DOMAIN c /\ asked.timer = c.timer /\ asked.create = c.create
      /\ asked.config = c.config /\ asked.draft = c.draft /\ asked.save = NoSave
      /\ asked.typed = c.typed /\ asked.phase = c.phase
  BY DEF CfgType, Unloaded
<1>2. NoSave.step = "none"
      /\ NoSave \in [step : {"none", "credentials", "validate", "update", "applied", "refused",
                             "refresh"},
                     candidate : Stored, snapshot : Stored, key : Keys \cup {None}]
  BY DEF NoSave, Stored
<1> HIDE DEF asked
<1>3. CfgType(asked)
  BY <1>1, <1>2 DEF CfgType
<1>4. CASE SaveLoop(c) = asked
  BY <1>1, <1>2, <1>3, <1>4
<1>5. CASE SaveLoop(c) = applyOperationError(asked)
  <2>1. LET d == applyOperationError(asked) IN
        /\ DOMAIN d = DOMAIN asked /\ d.timer = asked.timer /\ d.create = asked.create
        /\ d.config = asked.config /\ d.draft = asked.draft /\ d.save = asked.save
        /\ d.typed = asked.typed /\ d.phase = "error"
    BY <1>3 DEF applyOperationError, CfgType, Unloaded
  <2>2. CfgType(applyOperationError(asked))
    BY <1>3, <2>1 DEF CfgType
  <2> QED BY <1>1, <1>2, <1>5, <2>1, <2>2
<1>6. CASE SaveLoop(c) = saving /\ isDirty(c) /\ conn.link = "ready"
  <2>1. c.draft \in Configurations
    BY <1>6 DEF CfgType, Stored, isDirty
  <2>2. Normal(c.draft) \in Configurations
    BY <2>1, Normalising DEF Normal, Configurations
  <2>3. Normal(c.draft) # None /\ c.draft # None
    BY <2>1, <2>2, NoneIsNothing DEF Configurations
  <2>4. key \in Keys \cup {None}
    BY DEF CfgType
  <2> HIDE DEF key
  <2>5. begun \in [step : {"none", "credentials", "validate", "update", "applied", "refused",
                           "refresh"},
                   candidate : Stored, snapshot : Stored, key : Keys \cup {None}]
    BY <2>1, <2>2, <2>4 DEF Stored
  <2>6. begun.step \in {"credentials", "validate"} /\ begun.candidate # None
    BY <2>3
  <2> HIDE DEF begun
  <2>7. /\ DOMAIN saving = DOMAIN asked /\ saving.timer = asked.timer
        /\ saving.create = asked.create /\ saving.config = asked.config
        /\ saving.draft = asked.draft /\ saving.save = begun /\ saving.typed = asked.typed
        /\ saving.phase = "saving"
    BY <1>3 DEF CfgType, Unloaded
  <2> HIDE DEF saving
  <2>8. CfgType(saving)
    BY <1>3, <2>5, <2>7 DEF CfgType
  <2> QED BY <1>1, <1>6, <2>3, <2>6, <2>7, <2>8
<1>7. \/ SaveLoop(c) = asked \/ SaveLoop(c) = applyOperationError(asked)
      \/ SaveLoop(c) = saving /\ isDirty(c) /\ conn.link = "ready"
  <2>1. CASE ~c.saveRequested \/ ~isDirty(c)
    BY <2>1 DEF SaveLoop, asked
  <2>2. CASE c.saveRequested /\ isDirty(c) /\ (c.draft.option \in Invalid \/ conn.link # "ready")
    BY <2>2 DEF SaveLoop, asked
  <2>3. CASE c.saveRequested /\ isDirty(c) /\ ~(c.draft.option \in Invalid \/ conn.link # "ready")
    BY <2>3 DEF SaveLoop, asked
  <2> QED BY <2>1, <2>2, <2>3
<1> QED BY <1>4, <1>5, <1>6, <1>7

\* The loop goes on when no save is under way, or the one that was has come to its end.
LEMMA SaveLoopKeeps ==
  ASSUME NEW c, NEW sv, Good(c, conn.link, sv), c.create.step \in {"none", "flush"},
         c.save.step # "update"
  PROVE  Good(SaveLoop(c), conn.link, sv)
<1> DEFINE d == SaveLoop(c)
<1>1. /\ CfgType(d) /\ d.timer = c.timer /\ d.create = c.create
      /\ d.config = c.config /\ d.draft = c.draft
      /\ \/ d.save.step = "none" /\ d.phase \in {c.phase, "error"}
         \/ /\ d.save.step \in {"credentials", "validate"} /\ d.phase = "saving"
            /\ conn.link = "ready" /\ c.draft # None /\ d.save.candidate # None
  BY SaveLoopFields DEF Good
<1> HIDE DEF d
<1>2. Exclusive(d, conn.link)
  BY <1>1 DEF Good, Exclusive
<1>3. Ordered(d, sv)
  BY <1>1 DEF Good, Ordered, Waits
<1> QED BY <1>1, <1>2, <1>3 DEF Good, d

LEMMA FlushKeeps ==
  ASSUME NEW c, NEW sv, Good(c, conn.link, sv), c.create.step \in {"none", "flush"}
  PROVE  Good(flushAutoSave(c), conn.link, sv)
<1> DEFINE asked == [c EXCEPT !.timer = FALSE, !.savePending = FALSE,
                              !.saveRequested = @ \/ (c.savePending /\ isDirty(c))]
<1>1. /\ DOMAIN asked = DOMAIN c /\ asked.timer = FALSE /\ asked.create = c.create
      /\ asked.config = c.config /\ asked.draft = c.draft /\ asked.save = c.save
      /\ asked.typed = c.typed /\ asked.phase = c.phase
  <2>1. PICK g : g = (c.saveRequested \/ (c.savePending /\ isDirty(c)))
    OBVIOUS
  <2>2. asked = [c EXCEPT !.timer = FALSE, !.savePending = FALSE, !.saveRequested = g]
    BY <2>1
  <2> HIDE DEF asked
  <2> QED BY <2>2 DEF Good, CfgType, Unloaded
<1>2. flushAutoSave(c) = IF c.save.step # "none" THEN asked ELSE SaveLoop(asked)
  BY DEF flushAutoSave
<1> HIDE DEF asked
<1>3. Calm(c, asked)
  BY <1>1 DEF Good, CfgType, Calm
<1>4. Good(asked, conn.link, sv)
  BY <1>3, CalmKeeps
<1> QED BY <1>1, <1>2, <1>4, SaveLoopKeeps

LEMMA FlushPendingKeeps ==
  ASSUME NEW c, NEW sv, Good(c, conn.link, sv), c.create.step \in {"none", "flush"}
  PROVE  Good(flushPendingChanges(c), conn.link, sv)
<1> DEFINE d == [c EXCEPT !.ready = @ \/ c.typed # None, !.savePending = @ \/ c.typed # None]
<1>1. /\ DOMAIN d = DOMAIN c /\ d.timer = c.timer /\ d.create = c.create
      /\ d.config = c.config /\ d.draft = c.draft /\ d.save = c.save
      /\ d.typed = c.typed /\ d.phase = c.phase
  <2>1. PICK g, h : g = (c.ready \/ c.typed # None) /\ h = (c.savePending \/ c.typed # None)
    OBVIOUS
  <2>2. d = [c EXCEPT !.ready = g, !.savePending = h]
    BY <2>1
  <2> HIDE DEF d
  <2> QED BY <2>2 DEF Good, CfgType, Unloaded
<1> HIDE DEF d
<1>2. Calm(c, d)
  BY <1>1 DEF Good, CfgType, Calm
<1>3. Good(d, conn.link, sv)
  BY <1>2, CalmKeeps
<1> QED BY <1>1, <1>3, FlushKeeps DEF flushPendingChanges, d

-------------------------------------------------------------------------------
(***************************************************************************)
(* The page: what the user does, and the answers that only it waits for.   *)
(***************************************************************************)
LEMMA EditsAreCalm ==
  ASSUME SettingsInv, \/ \E option \in Options : Edit(option)
                      \/ \E key \in Keys : updateCredential(key)
                      \/ commitCredential \/ deleteActiveProvider
  PROVE  SettingsInv'
<1>1. Good(cfg, conn.link, server) /\ CfgType(cfg) /\ Exclusive(cfg, conn.link)
  BY DEF SettingsInv, Good
<1>2. cfg.create.step = "none" /\ cfg.draft \in Configurations
  BY <1>1 DEF Edit, updateCredential, commitCredential, deleteActiveProvider, Editing, CfgType,
     Stored
<1>3. conn' = conn /\ server' = server
  BY DEF Edit, updateCredential, commitCredential, deleteActiveProvider
<1>4. ASSUME NEW c, DOMAIN c = DOMAIN cfg, c.save = cfg.save, c.create = cfg.create,
             c.config = cfg.config, c.draft \in Configurations, c.typed \in Keys \cup {None},
             c.phase = cfg.phase,
             cfg' = clearOperationResult(c) \/ cfg' = scheduleAutoSave(c)
      PROVE  Calm(cfg, cfg')
  <2> DEFINE cleared == clearOperationResult(c)
  <2>1. /\ DOMAIN cleared = DOMAIN c /\ cleared.save = c.save /\ cleared.create = c.create
        /\ cleared.config = c.config /\ cleared.draft = c.draft /\ cleared.typed = c.typed
        /\ cleared.phase # "saved"
    BY <1>1, <1>4 DEF clearOperationResult, CfgType, Unloaded
  <2> HIDE DEF cleared
  <2>2. cfg' = cleared \/ cfg' = [cleared EXCEPT !.timer = TRUE, !.savePending = TRUE]
    BY <1>4 DEF scheduleAutoSave, cleared
  <2>3. LET d == [cleared EXCEPT !.timer = TRUE, !.savePending = TRUE] IN
        /\ DOMAIN d = DOMAIN c /\ d.save = c.save /\ d.create = c.create
        /\ d.config = c.config /\ d.draft = c.draft /\ d.typed = c.typed /\ d.phase # "saved"
    BY <1>1, <1>4, <2>1 DEF CfgType, Unloaded
  <2>4. /\ DOMAIN cfg' = DOMAIN c /\ cfg'.save = c.save /\ cfg'.create = c.create
        /\ cfg'.config = c.config /\ cfg'.draft = c.draft /\ cfg'.typed = c.typed
        /\ cfg'.phase # "saved"
    BY <2>1, <2>2, <2>3
  <2>5. c.draft # None
    BY <1>4, NoneIsNothing DEF Configurations
  <2> QED BY <1>1, <1>2, <1>4, <2>4, <2>5 DEF Calm, CfgType, Stored
<1>5. Calm(cfg, cfg')
  <2>1. CASE \E option \in Options : Edit(option)
    <3>1. PICK option \in Options : cfg' = scheduleAutoSave([cfg EXCEPT !.draft.option = option])
      BY <2>1 DEF Edit
    <3> DEFINE c == [cfg EXCEPT !.draft.option = option]
    <3>2. /\ DOMAIN c = DOMAIN cfg /\ c.save = cfg.save /\ c.create = cfg.create
          /\ c.config = cfg.config /\ c.draft \in Configurations /\ c.typed = cfg.typed
          /\ c.phase = cfg.phase
      BY <1>1, <1>2 DEF CfgType, Unloaded, Configurations
    <3> HIDE DEF c
    <3> QED BY <1>1, <1>4, <3>1, <3>2 DEF c, CfgType
  <2>2. CASE \E key \in Keys : updateCredential(key)
    <3>1. PICK key \in Keys : cfg' = clearOperationResult([cfg EXCEPT !.typed = key])
      BY <2>2 DEF updateCredential
    <3> DEFINE c == [cfg EXCEPT !.typed = key]
    <3>2. /\ DOMAIN c = DOMAIN cfg /\ c.save = cfg.save /\ c.create = cfg.create
          /\ c.config = cfg.config /\ c.draft = cfg.draft /\ c.typed = key
          /\ c.phase = cfg.phase
      BY <1>1 DEF CfgType, Unloaded
    <3> HIDE DEF c
    <3> QED BY <1>2, <1>4, <3>1, <3>2 DEF c
  <2>3. CASE commitCredential
    <3> DEFINE c == [cfg EXCEPT !.ready = TRUE]
    <3>1. cfg' = scheduleAutoSave(c)
      BY <2>3 DEF commitCredential
    <3>2. /\ DOMAIN c = DOMAIN cfg /\ c.save = cfg.save /\ c.create = cfg.create
          /\ c.config = cfg.config /\ c.draft = cfg.draft /\ c.typed = cfg.typed
          /\ c.phase = cfg.phase
      BY <1>1 DEF CfgType, Unloaded
    <3> HIDE DEF c
    <3> QED BY <1>1, <1>2, <1>4, <3>1, <3>2 DEF CfgType
  <2>4. CASE deleteActiveProvider
    <3>1. PICK typed \in {cfg.typed, None} :
            cfg' = scheduleAutoSave([cfg EXCEPT !.draft.providers = @ - 1, !.typed = typed,
                                                !.ready = @ /\ typed # None])
      BY <2>4 DEF deleteActiveProvider
    <3>2. PICK g : g = (cfg.ready /\ typed # None)
      OBVIOUS
    <3> DEFINE c == [cfg EXCEPT !.draft.providers = @ - 1, !.typed = typed, !.ready = g]
    <3>3. cfg' = scheduleAutoSave(c)
      BY <3>1, <3>2
    <3>4. cfg.draft.providers > 1
      BY <2>4 DEF deleteActiveProvider
    <3>5. /\ DOMAIN c = DOMAIN cfg /\ c.save = cfg.save /\ c.create = cfg.create
          /\ c.config = cfg.config /\ c.draft \in Configurations /\ c.typed = typed
          /\ c.phase = cfg.phase
      BY <1>1, <1>2, <3>4 DEF CfgType, Unloaded, Configurations
    <3> HIDE DEF c
    <3> QED BY <1>1, <1>4, <3>3, <3>5 DEF CfgType
  <2> QED BY <2>1, <2>2, <2>3, <2>4
<1> QED BY <1>1, <1>3, <1>5, CalmKeeps DEF SettingsInv, ConnInv, ConnType, RetryIsArmed, Linked

\* What is shown of a request that no update belongs to.
LEMMA PageIsCalm ==
  ASSUME SettingsInv, testProvider \/ TestReturns \/ LoadReturns
  PROVE  SettingsInv'
<1>1. /\ Good(cfg, conn.link, server) /\ CfgType(cfg) /\ ServerType(server)
      /\ Exclusive(cfg, conn.link)
  BY DEF SettingsInv, Good
<1>2. conn' = conn /\ server' = server
  BY DEF testProvider, TestReturns, LoadReturns
<1>3. CASE testProvider
  <2>1. cfg' = [cfg EXCEPT !.phase = "testing", !.testing = TRUE]
    BY <1>3 DEF testProvider
  <2>2. Calm(cfg, cfg')
    BY <1>1, <2>1 DEF Calm, CfgType, Unloaded
  <2> QED BY <1>1, <1>2, <2>2, CalmKeeps DEF SettingsInv, ConnInv, ConnType, RetryIsArmed, Linked
<1>4. CASE TestReturns
  <2> DEFINE c == [cfg EXCEPT !.testing = FALSE]
  <2>1. cfg' = [c EXCEPT !.phase = "idle"] \/ cfg' = [c EXCEPT !.phase = "error"]
    BY <1>4 DEF TestReturns, Tested, applyProviderTestResult, applyOperationError
  <2>2. Calm(cfg, cfg')
    BY <1>1, <2>1 DEF Calm, CfgType, Unloaded
  <2> QED BY <1>1, <1>2, <2>2, CalmKeeps DEF SettingsInv, ConnInv, ConnType, RetryIsArmed, Linked
<1>5. CASE LoadReturns
  <2> DEFINE failed == [cfg EXCEPT !.loading = FALSE]
             stored == server.config
             draft == IF stored = None THEN Config(Initial, 1) ELSE stored
             loaded == [cfg EXCEPT !.config = stored, !.draft = draft,
                                   !.typed = None, !.ready = FALSE, !.phase = "idle",
                                   !.loaded = TRUE, !.loading = FALSE]
  <2>1. cfg' = loaded \/ cfg' = [failed EXCEPT !.phase = "error"]
    BY <1>5 DEF LoadReturns, applyLoadedConfig, applyOperationError
  <2>2. stored \in Stored /\ draft \in Configurations
    BY <1>1, Normalising DEF ServerType, Stored, Configurations, Config
  <2>3. draft # None
    BY <2>2, NoneIsNothing DEF Configurations
  <2> HIDE DEF stored, draft
  <2>4. /\ DOMAIN loaded = DOMAIN cfg /\ loaded.save = cfg.save /\ loaded.create = cfg.create
        /\ loaded.config = stored /\ loaded.draft = draft /\ loaded.typed = None
        /\ loaded.phase = "idle" /\ loaded.timer = cfg.timer
    BY <1>1 DEF CfgType, Unloaded
  <2> HIDE DEF loaded
  <2>5. Calm(cfg, loaded)
    BY <1>1, <2>2, <2>3, <2>4 DEF Calm, CfgType, Stored
  <2>6. Calm(cfg, [failed EXCEPT !.phase = "error"])
    BY <1>1 DEF Calm, CfgType, Unloaded
  <2>7. Calm(cfg, cfg')
    BY <2>1, <2>5, <2>6
  <2> QED BY <1>1, <1>2, <2>7, CalmKeeps DEF SettingsInv, ConnInv, ConnType, RetryIsArmed, Linked
<1> QED BY <1>3, <1>4, <1>5

\* Everything that is saved because the user goes on to something else, or waits.
LEMMA FlushesKeep ==
  ASSUME SettingsInv, selectPage \/ CloseRequested \/ AutoSaveTimer \/ createProvider
  PROVE  SettingsInv'
<1>1. /\ Good(cfg, conn.link, server) /\ CfgType(cfg) /\ Exclusive(cfg, conn.link)
  BY DEF SettingsInv, Good
<1>2. conn' = conn /\ server' = server
  BY DEF selectPage, CloseRequested, AutoSaveTimer, createProvider
<1>3. Good(cfg', conn.link, server)
  <2>1. CASE selectPage \/ CloseRequested
    BY <1>1, <2>1, FlushPendingKeeps DEF selectPage, CloseRequested
  <2>2. CASE AutoSaveTimer
    <3>1. cfg.create.step = "none"
      BY <1>1, <2>2 DEF AutoSaveTimer, Exclusive
    <3> QED BY <1>1, <2>2, <3>1, FlushKeeps DEF AutoSaveTimer
  <2>3. CASE createProvider
    <3> DEFINE c == [cfg EXCEPT !.create.step = "flush"]
               pending == [c EXCEPT !.ready = @ \/ c.typed # None,
                                    !.savePending = @ \/ c.typed # None]
               asked == [pending EXCEPT !.timer = FALSE, !.savePending = FALSE,
                           !.saveRequested = @ \/ (pending.savePending /\ isDirty(pending))]
    <3>1. cfg' = IF asked.save.step # "none" THEN asked ELSE SaveLoop(asked)
      <4>1. flushPendingChanges(c) = flushAutoSave(pending)
        BY DEF flushPendingChanges
      <4>2. flushAutoSave(pending) = IF pending.save.step # "none" THEN asked ELSE SaveLoop(asked)
        BY DEF flushAutoSave
      <4>3. pending.save = asked.save
        <5>1. pending.save = cfg.save /\ DOMAIN pending = DOMAIN cfg
          <6>1. PICK g, h : g = (c.ready \/ c.typed # None) /\ h = (c.savePending \/ c.typed # None)
            OBVIOUS
          <6>2. pending = [c EXCEPT !.ready = g, !.savePending = h]
            BY <6>1
          <6> HIDE DEF pending
          <6> QED BY <1>1, <6>2 DEF CfgType, Unloaded
        <5>2. PICK g : g = (pending.saveRequested \/ (pending.savePending /\ isDirty(pending)))
          OBVIOUS
        <5>3. asked = [pending EXCEPT !.timer = FALSE, !.savePending = FALSE, !.saveRequested = g]
          BY <5>2
        <5> HIDE DEF pending, asked
        <5> QED BY <1>1, <5>1, <5>3 DEF CfgType, Unloaded
      <4>4. cfg' = flushPendingChanges(c)
        BY <2>3 DEF createProvider
      <4> HIDE DEF c, pending, asked
      <4> QED BY <4>1, <4>2, <4>3, <4>4
    <3>2. /\ DOMAIN asked = DOMAIN cfg /\ ~asked.timer /\ asked.config = cfg.config
          /\ asked.draft = cfg.draft /\ asked.save = cfg.save /\ asked.typed = cfg.typed
          /\ asked.phase = cfg.phase /\ asked.create = [cfg.create EXCEPT !.step = "flush"]
      <4>1. PICK g, h : g = (c.ready \/ c.typed # None) /\ h = (c.savePending \/ c.typed # None)
        OBVIOUS
      <4>2. pending = [c EXCEPT !.ready = g, !.savePending = h]
        BY <4>1
      <4>3. PICK k : k = (pending.saveRequested \/ (pending.savePending /\ isDirty(pending)))
        OBVIOUS
      <4>4. asked = [pending EXCEPT !.timer = FALSE, !.savePending = FALSE, !.saveRequested = k]
        BY <4>3
      <4> HIDE DEF pending, asked
      <4> QED BY <1>1, <4>2, <4>4 DEF CfgType, Unloaded
    <3> HIDE DEF c, pending, asked
    <3>3. cfg.create.step = "none" /\ cfg.draft # None
      BY <2>3 DEF createProvider, Editing
    <3>4. Good(asked, conn.link, server)
      <4>1. CfgType(asked)
        BY <1>1, <3>2 DEF CfgType
      <4>2. asked.create.step = "flush"
        BY <1>1, <3>2 DEF CfgType
      <4>3. Exclusive(asked, conn.link)
        BY <1>1, <3>2, <3>3, <4>2 DEF Exclusive
      <4>4. Ordered(asked, server)
        BY <1>1, <3>2, <3>3, <4>2 DEF Good, Ordered, Waits
      <4> QED BY <1>1, <4>1, <4>3, <4>4 DEF Good
    <3>5. asked.create.step = "flush"
      BY <1>1, <3>2 DEF CfgType
    <3> QED BY <3>1, <3>4, <3>5, SaveLoopKeeps
  <2> QED BY <2>1, <2>2, <2>3
<1> QED BY <1>2, <1>3 DEF SettingsInv, ConnInv, ConnType, RetryIsArmed, Linked

-------------------------------------------------------------------------------
(***************************************************************************)
(* The connection: whatever ends it, or begins another attempt, rejects    *)
(* what was waited for.                                                    *)
(***************************************************************************)
LEMMA DisconnectedFields ==
  ASSUME NEW c, CfgType(c), c.create.step # "none" => c.draft # None
  PROVE  LET d == Disconnected(c) IN
         /\ CfgType(d) /\ ~d.timer /\ d.save.step = "none" /\ d.phase # "saved"
         /\ d.create.step \in {"none", "flush"}
         /\ d.create.step # "none" => d.draft # None
<1> DEFINE failed == c.save.step \in {"credentials", "validate", "update", "applied", "refused"}
                     \/ c.create.step \in {"validate", "update", "applied", "refused"}
                     \/ c.testing
           phase == IF failed THEN "error" ELSE "idle"
           create == IF c.create.step = "flush" THEN c.create ELSE NoCreate
           d == [c EXCEPT !.loaded = FALSE, !.loading = FALSE, !.testing = FALSE,
                          !.timer = FALSE, !.savePending = FALSE, !.saveRequested = FALSE,
                          !.ready = FALSE, !.save = NoSave, !.create = create,
                          !.phase = phase]
<1>1. Disconnected(c) = d
  BY DEF Disconnected
<1>2. phase \in {"idle", "error"}
  OBVIOUS
<1>3. /\ create \in [step : {"none", "flush", "validate", "update", "applied", "refused",
                             "refresh"}, candidate : Stored]
      /\ create.step \in {"none", "flush"}
      /\ create.step # "none" => c.create.step # "none"
  BY DEF CfgType, NoCreate, Stored
<1> HIDE DEF phase, create
<1>4. /\ DOMAIN d = DOMAIN c /\ ~d.timer /\ d.save = NoSave /\ d.create = create
      /\ d.phase = phase /\ d.draft = c.draft /\ d.config = c.config /\ d.typed = c.typed
  BY DEF CfgType, Unloaded
<1> HIDE DEF d
<1>5. CfgType(d) /\ d.save.step = "none"
  BY <1>3, <1>4 DEF CfgType, NoSave, Stored
<1> QED BY <1>1, <1>2, <1>3, <1>4, <1>5

LEMMA DisconnectedGood ==
  ASSUME NEW c, CfgType(c), c.create.step # "none" => c.draft # None,
         NEW sv, ServerType(sv), Unawaited(sv), NEW link
  PROVE  Good(Disconnected(c), link, sv)
BY DisconnectedFields DEF Good, Exclusive, Ordered, Unawaited

LEMMA AbandonedUnawaited ==
  ASSUME ServerType(server)
  PROVE  ServerType(Abandoned) /\ Unawaited(Abandoned)
<1> DEFINE queue == [i \in DOMAIN server.queue |-> [server.queue[i] EXCEPT !.by = "nobody"]]
<1>1. \A i \in DOMAIN server.queue : queue[i] \in Updates /\ queue[i].by = "nobody"
  <2>1. \A i \in DOMAIN server.queue : server.queue[i] \in Updates
    BY DEF ServerType
  <2> QED BY <2>1 DEF Updates
<1>2. DOMAIN server.queue = 1 .. Len(server.queue) /\ Len(server.queue) \in Nat
  BY DEF ServerType
<1>3. queue \in Seq(Updates) /\ DOMAIN queue = DOMAIN server.queue
  <2>1. queue \in [1 .. Len(server.queue) -> Updates] /\ DOMAIN queue = DOMAIN server.queue
    BY <1>1, <1>2
  <2> HIDE DEF queue
  <2> QED BY <1>2, <2>1
<1> HIDE DEF queue
<1>4. Abandoned = [server EXCEPT !.queue = queue]
  BY DEF Abandoned, queue
<1>5. ServerType(Abandoned) /\ Abandoned.queue = queue
  BY <1>3, <1>4 DEF ServerType
<1> QED BY <1>1, <1>3, <1>5 DEF Unawaited

\* Without a connection nobody waits.
LEMMA LinklessUnawaited ==
  ASSUME SettingsInv, conn.link # "ready"
  PROVE  Unawaited(server)
BY DEF SettingsInv, Good, Exclusive, Ordered, Waits, Unawaited

LEMMA AttemptsKeep ==
  ASSUME SettingsInv, Connect, conn.link = "none", server' = server
  PROVE  SettingsInv'
<1>1. CfgType(cfg) /\ ServerType(server) /\ (cfg.create.step # "none" => cfg.draft # None)
  BY DEF SettingsInv, Good, Exclusive
<1>2. Good(Disconnected(cfg), "none", server)
  BY <1>1, LinklessUnawaited, DisconnectedGood
<1>3. conn' = [phase |-> "connecting", link |-> "none", timer |-> FALSE]
      /\ cfg' = Disconnected(cfg)
  BY DEF Connect
<1>4. Good(cfg', "none", server')
  BY <1>2, <1>3
<1> QED BY <1>3, <1>4, AttemptKeeps DEF SettingsInv, Linked

LEMMA BreaksKeep ==
  ASSUME SettingsInv, handleDisconnect
  PROVE  SettingsInv'
<1>1. CfgType(cfg) /\ ServerType(server) /\ (cfg.create.step # "none" => cfg.draft # None)
  BY DEF SettingsInv, Good, Exclusive
<1>2. Good(Disconnected(cfg), "none", Abandoned)
  BY <1>1, AbandonedUnawaited, DisconnectedGood
<1>3. conn' = [phase |-> "retrying", link |-> "none", timer |-> TRUE]
      /\ cfg' = Disconnected(cfg) /\ server' = Abandoned
  BY DEF handleDisconnect
<1>4. Good(cfg', "none", server')
  BY <1>2, <1>3
<1> QED BY <1>3, <1>4, AttemptKeeps DEF SettingsInv, Linked

LEMMA DestroyedKeeps ==
  ASSUME SettingsInv, Destroyed
  PROVE  SettingsInv'
<1>1. CfgType(cfg) /\ ServerType(server) /\ (cfg.create.step # "none" => cfg.draft # None)
  BY DEF SettingsInv, Good, Exclusive
<1> DEFINE c == Disconnected(cfg)
           d == [c EXCEPT !.create = NoCreate]
<1>2. /\ CfgType(c) /\ ~c.timer /\ c.save.step = "none" /\ c.phase # "saved"
  BY <1>1, DisconnectedFields
<1> HIDE DEF c
<1>3. /\ CfgType(d) /\ ~d.timer /\ d.save.step = "none" /\ d.phase # "saved"
      /\ d.create.step = "none"
  BY <1>2 DEF CfgType, Unloaded, NoCreate, Stored
<1> HIDE DEF d
<1>4. Good(d, "none", Abandoned)
  BY <1>1, <1>3, AbandonedUnawaited DEF Good, Exclusive, Ordered, Unawaited
<1>5. conn' = Disposed /\ cfg' = d /\ server' = Abandoned
  BY DEF Destroyed, dispose, c, d
<1>6. conn' = [phase |-> "disposed", link |-> "none", timer |-> FALSE]
  BY <1>5 DEF Disposed, Offline
<1>7. Good(cfg', "none", server')
  BY <1>4, <1>5
<1> QED BY <1>5, <1>6, <1>7, AttemptKeeps DEF SettingsInv, Linked

LEMMA HandshakeGood ==
  ASSUME SettingsInv, SocketOpens \/ Initialized \/ StatusArrives
  PROVE  SettingsInv'
<1>1. ConnInv' /\ ConnInv /\ server' = server
  BY HandshakeKeeps DEF SettingsInv, SocketOpens, Initialized, StatusArrives
<1>2. /\ Good(cfg, conn.link, server) /\ CfgType(cfg) /\ Linked
  BY DEF SettingsInv, Good
<1>3. CASE SocketOpens \/ Initialized
  <2>1. /\ cfg' = cfg /\ conn.link # "ready"
        /\ conn' = [conn EXCEPT !.link = "open"] \/ conn' = [conn EXCEPT !.link = "ready"]
        /\ conn.phase = "connecting" \/ conn.link = "open"
    BY <1>3 DEF SocketOpens, Initialized
  <2>2. Good(cfg, conn'.link, server)
    BY <1>2, <2>1 DEF Good, Exclusive
  <2>3. Linked'
    BY <1>1, <1>2, <2>1 DEF Linked, ConnInv, ConnType
  <2> QED BY <1>1, <2>1, <2>2, <2>3 DEF SettingsInv
<1>4. CASE StatusArrives
  <2>1. /\ conn' = [conn EXCEPT !.phase = "connected"]
        /\ cfg' = cfg \/ cfg' = [cfg EXCEPT !.loading = TRUE, !.phase = "loading"]
    BY <1>4 DEF StatusArrives, load
  <2>2. conn'.link = conn.link /\ conn'.phase = "connected"
    BY <1>1, <2>1 DEF ConnInv, ConnType
  <2>3. Calm(cfg, [cfg EXCEPT !.loading = TRUE, !.phase = "loading"])
    BY <1>2 DEF Calm, CfgType, Unloaded
  <2>4. Good(cfg', conn.link, server)
    BY <1>2, <2>1, <2>3, CalmKeeps
  <2> QED BY <1>1, <2>2, <2>4 DEF SettingsInv, Linked
<1> QED BY <1>3, <1>4

-------------------------------------------------------------------------------
(***************************************************************************)
(* The daemon.                                                             *)
(***************************************************************************)
LEMMA DaemonAppliesKeeps ==
  ASSUME SettingsInv, DaemonApplies
  PROVE  SettingsInv'
<1> DEFINE next == Head(server.queue)
           rest == Tail(server.queue)
<1>1. /\ Good(cfg, conn.link, server) /\ CfgType(cfg) /\ ServerType(server)
      /\ Exclusive(cfg, conn.link) /\ Ordered(cfg, server)
  BY DEF SettingsInv, Good
<1>2. conn' = conn /\ server.queue # <<>>
  BY DEF DaemonApplies
<1>3. /\ next \in Updates /\ next = server.queue[1] /\ 1 \in DOMAIN server.queue
      /\ rest \in Seq(Updates) /\ Len(rest) = Len(server.queue) - 1
      /\ \A i \in DOMAIN rest : rest[i] = server.queue[i + 1] /\ i + 1 \in DOMAIN server.queue
      /\ DOMAIN rest = 1 .. Len(rest) /\ Len(server.queue) \in Nat
  BY <1>1, <1>2 DEF ServerType
<1>4. PICK answer \in {"applied", "refused"} :
        /\ cfg' = Answered(cfg, next.by, answer)
        /\ server'.queue = rest /\ ServerType(server')
        /\ answer = "applied" => server'.config = next.config
  <2>1. CASE server' = [server EXCEPT !.queue = Tail(@), !.config = next.config]
             /\ cfg' = Answered(cfg, next.by, "applied")
    BY <1>1, <1>3, <2>1 DEF ServerType, Updates, Stored
  <2>2. CASE server' = [server EXCEPT !.queue = Tail(@)] /\ cfg' = Answered(cfg, next.by, "refused")
    BY <1>1, <1>3, <2>2 DEF ServerType
  <2> QED BY <2>1, <2>2 DEF DaemonApplies
<1> HIDE DEF next, rest
<1>5. \A i \in DOMAIN rest : rest[i].by # "nobody" =>
        /\ i = Len(rest) /\ Waits(cfg, rest[i])
        /\ next.by = "nobody"
  <2> SUFFICES ASSUME NEW i \in DOMAIN rest, rest[i].by # "nobody"
               PROVE  i = Len(rest) /\ Waits(cfg, rest[i]) /\ next.by = "nobody"
    OBVIOUS
  <2>1. i + 1 = Len(server.queue) /\ Waits(cfg, server.queue[i + 1]) /\ i >= 1
    BY <1>1, <1>3 DEF Ordered
  <2>2. next.by = "nobody"
    BY <1>1, <1>3, <2>1 DEF Ordered
  <2> QED BY <1>3, <2>1, <2>2
<1>6. cfg.phase # "saved" /\ cfg.save.step # "applied" /\ cfg.create.step # "applied"
  BY <1>1, <1>2 DEF Ordered
<1>7. CASE next.by = "nobody"
  <2>1. cfg' = cfg
    BY <1>4, <1>7 DEF Answered
  <2>2. Good(cfg, conn.link, server')
    BY <1>1, <1>4, <1>5, <1>6 DEF Good, Ordered
  <2> QED BY <1>2, <2>1, <2>2 DEF SettingsInv, ConnInv, ConnType, RetryIsArmed, Linked
<1>8. CASE next.by # "nobody"
  <2>1. Waits(cfg, next) /\ rest = <<>>
    <3>1. Waits(cfg, next) /\ Len(server.queue) = 1
      BY <1>1, <1>3, <1>8 DEF Ordered
    <3> QED BY <1>3, <3>1
  <2>2. CASE next.by = "save"
    <3>1. cfg' = [cfg EXCEPT !.save.step = answer]
      BY <1>4, <2>2 DEF Answered
    <3>2. /\ DOMAIN cfg' = DOMAIN cfg /\ cfg'.create = cfg.create /\ cfg'.draft = cfg.draft
          /\ cfg'.config = cfg.config /\ cfg'.phase = cfg.phase /\ cfg'.timer = cfg.timer
          /\ cfg'.typed = cfg.typed /\ cfg'.save = [cfg.save EXCEPT !.step = answer]
      BY <1>1, <3>1 DEF CfgType, Unloaded
    <3>3. cfg.save.step = "update" /\ next.config = cfg.save.candidate
      BY <2>1, <2>2 DEF Waits
    <3>4. /\ cfg'.save.step = answer /\ cfg'.save.candidate = cfg.save.candidate
          /\ CfgType(cfg')
      BY <1>1, <3>2 DEF CfgType
    <3>5. Exclusive(cfg', conn.link)
      BY <1>1, <1>6, <3>2, <3>3, <3>4 DEF Exclusive
    <3>6. Ordered(cfg', server')
      BY <1>4, <1>5, <1>6, <2>1, <2>2, <3>2, <3>3, <3>4 DEF Ordered
    <3> QED BY <1>2, <1>4, <3>4, <3>5, <3>6
            DEF SettingsInv, Good, ConnInv, ConnType, RetryIsArmed, Linked
  <2>3. CASE next.by = "create"
    <3>1. cfg' = [cfg EXCEPT !.create.step = answer]
      BY <1>4, <2>3 DEF Answered
    <3>2. /\ DOMAIN cfg' = DOMAIN cfg /\ cfg'.save = cfg.save /\ cfg'.draft = cfg.draft
          /\ cfg'.config = cfg.config /\ cfg'.phase = cfg.phase /\ cfg'.timer = cfg.timer
          /\ cfg'.typed = cfg.typed /\ cfg'.create = [cfg.create EXCEPT !.step = answer]
      BY <1>1, <3>1 DEF CfgType, Unloaded
    <3>3. cfg.create.step = "update" /\ next.config = cfg.create.candidate
      BY <2>1, <2>3 DEF Waits
    <3>4. /\ cfg'.create.step = answer /\ cfg'.create.candidate = cfg.create.candidate
          /\ CfgType(cfg')
      BY <1>1, <3>2 DEF CfgType
    <3>5. Exclusive(cfg', conn.link)
      BY <1>1, <1>6, <3>2, <3>3, <3>4 DEF Exclusive
    <3>6. Ordered(cfg', server')
      BY <1>4, <1>5, <1>6, <2>1, <2>3, <3>2, <3>3, <3>4 DEF Ordered
    <3> QED BY <1>2, <1>4, <3>4, <3>5, <3>6
            DEF SettingsInv, Good, ConnInv, ConnType, RetryIsArmed, Linked
  <2> QED BY <1>3, <1>8, <2>2, <2>3 DEF Updates
<1> QED BY <1>7, <1>8

\* A daemon that stops forgets what it has accepted, and keeps what it has applied.
LEMMA DaemonGoesKeeps ==
  ASSUME SettingsInv, DaemonStopped \/ DaemonStarts, cfg' = cfg, conn' = conn
  PROVE  SettingsInv'
<1>1. Good(cfg, conn.link, server) /\ ServerType(server)
  BY DEF SettingsInv, Good
<1>2. server' = [server EXCEPT !.up = FALSE, !.queue = <<>>] \/ server' = [server EXCEPT !.up = TRUE]
  BY DEF DaemonStopped, DaemonStarts
<1>3. server'.config = server.config /\ server'.queue \in {server.queue, <<>>} /\ ServerType(server')
  <2>1. <<>> \in Seq(Updates)
    OBVIOUS
  <2> QED BY <1>1, <1>2, <2>1 DEF ServerType
<1>4. Good(cfg, conn.link, server')
  BY <1>1, <1>3 DEF Good, Ordered
<1> QED BY <1>4 DEF SettingsInv, ConnInv, ConnType, RetryIsArmed, Linked

-------------------------------------------------------------------------------
(***************************************************************************)
(* persistCurrentDraft and createProvider, request by request.             *)
(***************************************************************************)
\* An error is shown, and the page stays as it is.
LEMMA ErrorIsCalm ==
  ASSUME NEW c, CfgType(c)
  PROVE  Calm(c, applyOperationError(c)) /\ applyOperationError(c).phase = "error"
BY DEF applyOperationError, Calm, CfgType, Unloaded

LEMMA SaveStepFields ==
  ASSUME NEW c, CfgType(c),
         NEW step \in {"none", "credentials", "validate", "update", "applied", "refused", "refresh"}
  PROVE  LET d == [c EXCEPT !.save.step = step] IN
         /\ CfgType(d) /\ d.save.step = step /\ d.save.candidate = c.save.candidate
         /\ d.create = c.create /\ d.draft = c.draft /\ d.config = c.config
         /\ d.phase = c.phase /\ d.timer = c.timer
<1> DEFINE d == [c EXCEPT !.save.step = step]
<1>1. /\ DOMAIN d = DOMAIN c /\ d.create = c.create /\ d.draft = c.draft
      /\ d.config = c.config /\ d.phase = c.phase /\ d.timer = c.timer
      /\ d.typed = c.typed /\ d.save = [c.save EXCEPT !.step = step]
  BY DEF CfgType, Unloaded
<1> HIDE DEF d
<1>2. CfgType(d) /\ d.save.step = step /\ d.save.candidate = c.save.candidate
  BY <1>1 DEF CfgType
<1> QED BY <1>1, <1>2 DEF d

LEMMA CreateStepFields ==
  ASSUME NEW c, CfgType(c),
         NEW step \in {"none", "flush", "validate", "update", "applied", "refused", "refresh"}
  PROVE  LET d == [c EXCEPT !.create.step = step] IN
         /\ CfgType(d) /\ d.create.step = step /\ d.create.candidate = c.create.candidate
         /\ d.save = c.save /\ d.draft = c.draft /\ d.config = c.config
         /\ d.phase = c.phase /\ d.timer = c.timer
<1> DEFINE d == [c EXCEPT !.create.step = step]
<1>1. /\ DOMAIN d = DOMAIN c /\ d.save = c.save /\ d.draft = c.draft
      /\ d.config = c.config /\ d.phase = c.phase /\ d.timer = c.timer
      /\ d.typed = c.typed /\ d.create = [c.create EXCEPT !.step = step]
  BY DEF CfgType, Unloaded
<1> HIDE DEF d
<1>2. CfgType(d) /\ d.create.step = step /\ d.create.candidate = c.create.candidate
  BY <1>1 DEF CfgType
<1> QED BY <1>1, <1>2 DEF d

\* An accepted update is the last of the queue, and the one somebody waits for.
LEMMA AcceptedOrdered ==
  ASSUME ServerType(server), Unawaited(server), NEW u \in Updates, NEW c, Waits(c, u),
         c.save.step # "applied", c.create.step # "applied", c.phase # "saved",
         NEW sv, sv = [server EXCEPT !.queue = Append(@, u)]
  PROVE  ServerType(sv) /\ Ordered(c, sv)
<1> DEFINE q == server.queue
<1>1. q \in Seq(Updates) /\ sv.queue = Append(q, u) /\ ServerType(sv)
  <2>1. q \in Seq(Updates)
    BY DEF ServerType
  <2>2. Append(q, u) \in Seq(Updates)
    BY <2>1
  <2> QED BY <2>1, <2>2 DEF ServerType
<1>2. /\ Len(sv.queue) = Len(q) + 1 /\ sv.queue[Len(q) + 1] = u
      /\ \A i \in DOMAIN sv.queue : i = Len(q) + 1 \/ (i \in DOMAIN q /\ sv.queue[i] = q[i])
  BY <1>1
<1> QED BY <1>1, <1>2 DEF Ordered, Unawaited

LEMMA SaveStepsKeep ==
  ASSUME SettingsInv, CredentialsSaved \/ SaveValidated \/ SaveReturns \/ SaveRefreshed
  PROVE  SettingsInv'
<1>1. /\ Good(cfg, conn.link, server) /\ CfgType(cfg) /\ ServerType(server)
      /\ Exclusive(cfg, conn.link) /\ Ordered(cfg, server)
  BY DEF SettingsInv, Good
<1>2. conn' = conn /\ cfg.save.step # "none"
  BY DEF CredentialsSaved, SaveValidated, SaveReturns, SaveRefreshed
<1>3. cfg.create.step \in {"none", "flush"}
  BY <1>1, <1>2 DEF Exclusive
<1>4. SUFFICES Good(cfg', conn.link, server')
  BY <1>2 DEF SettingsInv, ConnInv, ConnType, RetryIsArmed, Linked
<1>5. ASSUME cfg.save.step # "update"
      PROVE  Good(SaveLoop(applyOperationError(cfg)), conn.link, server)
  <2> DEFINE c == applyOperationError(cfg)
  <2>1. Good(c, conn.link, server) /\ c.save = cfg.save /\ c.create = cfg.create
    BY <1>1, ErrorIsCalm, CalmKeeps DEF Calm
  <2> HIDE DEF c
  <2>2. Good(SaveLoop(c), conn.link, server)
    BY <1>3, <1>5, <2>1, SaveLoopKeeps
  <2> QED BY <2>2 DEF c
<1>6. CASE CredentialsSaved
  <2>1. cfg.save.step = "credentials" /\ server' = server
    BY <1>6 DEF CredentialsSaved
  <2>2. CASE cfg' = [cfg EXCEPT !.save.step = "validate"]
    <3>1. /\ CfgType(cfg') /\ cfg'.save.step = "validate"
          /\ cfg'.save.candidate = cfg.save.candidate
          /\ cfg'.create = cfg.create /\ cfg'.draft = cfg.draft /\ cfg'.config = cfg.config
          /\ cfg'.phase = cfg.phase /\ cfg'.timer = cfg.timer
      BY <1>1, <2>2, SaveStepFields
    <3> QED BY <1>1, <2>1, <3>1 DEF Good, Exclusive, Ordered, Waits
  <2> QED BY <1>5, <1>6, <2>1, <2>2 DEF CredentialsSaved
<1>7. CASE SaveValidated
  <2>1. cfg.save.step = "validate"
    BY <1>7 DEF SaveValidated
  <2>2. CASE /\ cfg' = [cfg EXCEPT !.save.step = "update"]
             /\ server' = [server EXCEPT !.queue = Append(@, Update(cfg.save.candidate, "save"))]
    <3>1. /\ CfgType(cfg') /\ cfg'.save.step = "update"
          /\ cfg'.save.candidate = cfg.save.candidate
          /\ cfg'.create = cfg.create /\ cfg'.draft = cfg.draft /\ cfg'.config = cfg.config
          /\ cfg'.phase = cfg.phase /\ cfg'.timer = cfg.timer
      BY <1>1, <2>2, SaveStepFields
    <3>2. PICK u : u = Update(cfg.save.candidate, "save")
      OBVIOUS
    <3>3. cfg.save.candidate \in Configurations
      BY <1>1, <2>1 DEF CfgType, Stored, Exclusive
    <3>4. u \in Updates /\ Waits(cfg', u)
      BY <3>1, <3>2, <3>3 DEF Update, Updates, Waits
    <3>5. Unawaited(server) /\ cfg.phase # "saved"
      BY <1>1, <1>3, <2>1 DEF Ordered, Waits, Unawaited, Exclusive
    <3>6. ServerType(server') /\ Ordered(cfg', server')
      <4>1. server' = [server EXCEPT !.queue = Append(@, u)]
        BY <2>2, <3>2
      <4>2. cfg'.save.step # "applied" /\ cfg'.create.step # "applied" /\ cfg'.phase # "saved"
        BY <1>3, <3>1, <3>5
      <4> QED BY <1>1, <3>4, <3>5, <4>1, <4>2, AcceptedOrdered
    <3>7. Exclusive(cfg', conn.link)
      BY <1>1, <2>1, <3>1, <3>5 DEF Exclusive
    <3> QED BY <3>1, <3>6, <3>7 DEF Good
  <2> QED BY <1>5, <1>7, <2>1, <2>2 DEF SaveValidated
<1>8. CASE SaveReturns
  <2>1. CASE /\ cfg.save.step = "applied"
             /\ cfg' = [applyAutoSaved(cfg, cfg.save.candidate, cfg.save.snapshot, cfg.save.key)
                          EXCEPT !.save.step = "refresh"]
    <3> DEFINE candidate == cfg.save.candidate
               draft == IF cfg.draft = cfg.save.snapshot THEN candidate ELSE cfg.draft
               typed == IF cfg.typed = cfg.save.key THEN None ELSE cfg.typed
               saved == [cfg EXCEPT !.config = candidate, !.draft = draft,
                                    !.ready = @ /\ cfg.save.key = None,
                                    !.typed = typed, !.loaded = TRUE]
               phase == IF isDirty(saved) THEN "idle" ELSE "saved"
               c == [saved EXCEPT !.phase = phase]
    <3>1. cfg' = [c EXCEPT !.save.step = "refresh"]
      BY <2>1 DEF applyAutoSaved
    <3>2. /\ candidate \in Stored /\ candidate # None /\ draft \in Stored /\ draft # None
          /\ typed \in Keys \cup {None}
      BY <1>1, <2>1 DEF CfgType, Exclusive
    <3> HIDE DEF candidate, draft, typed
    <3>3. PICK g : g = (cfg.ready /\ cfg.save.key = None)
      OBVIOUS
    <3>4. saved = [cfg EXCEPT !.config = candidate, !.draft = draft, !.ready = g,
                              !.typed = typed, !.loaded = TRUE]
      BY <3>3
    <3> HIDE DEF saved
    <3>5. /\ DOMAIN saved = DOMAIN cfg /\ saved.config = candidate /\ saved.draft = draft
          /\ saved.typed = typed /\ saved.save = cfg.save /\ saved.create = cfg.create
          /\ saved.timer = cfg.timer
      BY <1>1, <3>4 DEF CfgType, Unloaded
    <3>6. phase = "saved" => draft = candidate
      BY <3>2, <3>5 DEF isDirty
    <3>7. phase \in {"idle", "saved"}
      OBVIOUS
    <3> HIDE DEF phase
    <3>8. /\ DOMAIN c = DOMAIN cfg /\ c.config = candidate /\ c.draft = draft
          /\ c.typed = typed /\ c.save = cfg.save /\ c.create = cfg.create
          /\ c.timer = cfg.timer /\ c.phase = phase
      BY <1>1, <3>5 DEF CfgType, Unloaded
    <3> HIDE DEF c
    <3>9. CfgType(c)
      BY <1>1, <3>2, <3>8 DEF CfgType
    <3>10. /\ CfgType(cfg') /\ cfg'.save.step = "refresh"
           /\ cfg'.save.candidate = c.save.candidate
           /\ cfg'.create = c.create /\ cfg'.draft = c.draft /\ cfg'.config = c.config
           /\ cfg'.phase = c.phase /\ cfg'.timer = c.timer
      BY <3>1, <3>9, SaveStepFields
    <3>11. Exclusive(cfg', conn.link)
      BY <1>1, <1>3, <2>1, <3>2, <3>6, <3>8, <3>10 DEF Exclusive
    <3>12. server.queue = <<>> /\ server.config = candidate
      BY <1>1, <2>1 DEF Ordered, candidate
    <3>13. Ordered(cfg', server)
      BY <1>3, <3>8, <3>10, <3>12 DEF Ordered
    <3>14. server' = server
      BY <1>8 DEF SaveReturns
    <3> QED BY <1>1, <3>10, <3>11, <3>13, <3>14 DEF Good
  <2> QED BY <1>5, <1>8, <2>1 DEF SaveReturns
<1>9. CASE SaveRefreshed
  BY <1>1, <1>3, <1>9, SaveLoopKeeps DEF SaveRefreshed
<1> QED BY <1>6, <1>7, <1>8, <1>9

LEMMA CreateStepsKeep ==
  ASSUME SettingsInv, CreateFlushed \/ CreateValidated \/ CreateReturns \/ CreateRefreshed
  PROVE  SettingsInv'
<1>1. /\ Good(cfg, conn.link, server) /\ CfgType(cfg) /\ ServerType(server)
      /\ Exclusive(cfg, conn.link) /\ Ordered(cfg, server)
  BY DEF SettingsInv, Good
<1>2. conn' = conn /\ cfg.create.step # "none"
  BY DEF CreateFlushed, CreateValidated, CreateReturns, CreateRefreshed
<1>3. cfg.save.step = "none" /\ cfg.draft \in Configurations /\ ~cfg.timer
  BY <1>1, <1>2 DEF Exclusive, CfgType, Stored, CreateFlushed, CreateValidated, CreateReturns,
     CreateRefreshed
<1>4. SUFFICES Good(cfg', conn.link, server')
  BY <1>2 DEF SettingsInv, ConnInv, ConnType, RetryIsArmed, Linked
<1> DEFINE ended == [cfg EXCEPT !.create = NoCreate]
<1>5. /\ DOMAIN ended = DOMAIN cfg /\ ended.config = cfg.config /\ ended.draft = cfg.draft
      /\ ended.typed = cfg.typed /\ ended.save = cfg.save /\ ended.timer = cfg.timer
      /\ ended.phase = cfg.phase /\ ended.create = NoCreate
  BY <1>1 DEF CfgType, Unloaded
<1> HIDE DEF ended
<1>6. CfgType(ended) /\ ended.create.step = "none"
  BY <1>1, <1>5 DEF CfgType, NoCreate, Stored
<1>7. ASSUME cfg.create.step # "update"
      PROVE  /\ Good(ended, conn.link, server)
             /\ Good(applyOperationError(ended), conn.link, server)
  <2>1. Exclusive(ended, conn.link)
    BY <1>1, <1>3, <1>5, <1>6 DEF Exclusive
  <2>2. Ordered(ended, server)
    BY <1>1, <1>3, <1>5, <1>6, <1>7 DEF Ordered, Waits
  <2> QED BY <1>1, <1>6, <2>1, <2>2, ErrorIsCalm, CalmKeeps DEF Good
<1>8. CASE CreateFlushed
  <2> DEFINE candidate == [cfg.draft EXCEPT !.providers = 2]
             create == [step |-> "validate", candidate |-> candidate]
             begun == [cfg EXCEPT !.phase = "saving", !.create = create]
  <2>1. /\ cfg.create.step = "flush" /\ server' = server
        /\ \/ cfg' = ended \/ cfg' = applyOperationError(ended)
           \/ cfg' = begun /\ conn.link = "ready"
    <3>1. CASE cfg.phase = "error"
      BY <1>8, <3>1 DEF CreateFlushed, ended
    <3>2. CASE cfg.phase # "error" /\ (candidate.option \in Invalid \/ conn.link # "ready")
      BY <1>8, <3>2 DEF CreateFlushed, ended
    <3>3. CASE cfg.phase # "error" /\ ~(candidate.option \in Invalid \/ conn.link # "ready")
      BY <1>8, <3>3 DEF CreateFlushed, ended
    <3> QED BY <1>8, <3>1, <3>2, <3>3 DEF CreateFlushed
  <2>2. candidate \in Configurations /\ candidate # None
    BY <1>3, NoneIsNothing DEF Configurations
  <2> HIDE DEF candidate
  <2>3. ASSUME conn.link = "ready"
        PROVE  Good(begun, conn.link, server)
    <3>1. /\ DOMAIN begun = DOMAIN cfg /\ begun.config = cfg.config
          /\ begun.draft = cfg.draft /\ begun.typed = cfg.typed /\ begun.save = cfg.save
          /\ begun.timer = cfg.timer /\ begun.phase = "saving" /\ begun.create = create
      BY <1>1 DEF CfgType, Unloaded
    <3> HIDE DEF begun
    <3>2. CfgType(begun) /\ begun.create.step = "validate" /\ begun.create.candidate # None
      BY <1>1, <2>2, <3>1 DEF CfgType, Stored
    <3>3. Exclusive(begun, conn.link)
      BY <1>1, <1>2, <1>3, <2>3, <3>1, <3>2 DEF Exclusive
    <3>4. Ordered(begun, server)
      BY <1>1, <1>3, <2>1, <3>1, <3>2 DEF Ordered, Waits
    <3> QED BY <1>1, <3>2, <3>3, <3>4 DEF Good
  <2> HIDE DEF begun
  <2> QED BY <1>7, <2>1, <2>3
<1>9. CASE CreateValidated
  <2>1. cfg.create.step = "validate"
    BY <1>9 DEF CreateValidated
  <2>2. CASE /\ cfg' = [cfg EXCEPT !.create.step = "update"]
             /\ server' = [server EXCEPT !.queue = Append(@, Update(cfg.create.candidate, "create"))]
    <3>1. /\ CfgType(cfg') /\ cfg'.create.step = "update"
          /\ cfg'.create.candidate = cfg.create.candidate
          /\ cfg'.save = cfg.save /\ cfg'.draft = cfg.draft /\ cfg'.config = cfg.config
          /\ cfg'.phase = cfg.phase /\ cfg'.timer = cfg.timer
      BY <1>1, <2>2, CreateStepFields
    <3>2. PICK u : u = Update(cfg.create.candidate, "create")
      OBVIOUS
    <3>3. cfg.create.candidate \in Configurations
      BY <1>1, <2>1 DEF CfgType, Stored, Exclusive
    <3>4. u \in Updates /\ Waits(cfg', u)
      BY <3>1, <3>2, <3>3 DEF Update, Updates, Waits
    <3>5. Unawaited(server) /\ cfg.phase # "saved"
      BY <1>1, <1>3, <2>1 DEF Ordered, Waits, Unawaited, Exclusive
    <3>6. ServerType(server') /\ Ordered(cfg', server')
      <4>1. server' = [server EXCEPT !.queue = Append(@, u)]
        BY <2>2, <3>2
      <4>2. cfg'.save.step # "applied" /\ cfg'.create.step # "applied" /\ cfg'.phase # "saved"
        BY <1>3, <3>1, <3>5
      <4> QED BY <1>1, <3>4, <3>5, <4>1, <4>2, AcceptedOrdered
    <3>7. Exclusive(cfg', conn.link)
      BY <1>1, <2>1, <3>1, <3>5 DEF Exclusive
    <3> QED BY <3>1, <3>6, <3>7 DEF Good
  <2> QED BY <1>7, <1>9, <2>1, <2>2 DEF CreateValidated, ended
<1>10. CASE CreateReturns
  <2>1. CASE cfg.create.step = "applied"
    <3> DEFINE new == cfg.create.candidate
               drafted == [cfg EXCEPT !.draft = new]
               draft == IF drafted.draft = new THEN new ELSE drafted.draft
               typed == IF drafted.typed = None THEN None ELSE drafted.typed
               saved == [drafted EXCEPT !.config = new, !.draft = draft,
                                        !.ready = @ /\ None = None,
                                        !.typed = typed, !.loaded = TRUE]
               phase == IF isDirty(saved) THEN "idle" ELSE "saved"
               c == [saved EXCEPT !.phase = phase]
    <3>1. cfg' = [c EXCEPT !.create.step = "refresh"] /\ server' = server
      BY <1>10, <2>1 DEF CreateReturns, applyAutoSaved
    <3>2. /\ DOMAIN drafted = DOMAIN cfg /\ drafted.draft = new /\ drafted.typed = cfg.typed
          /\ drafted.save = cfg.save /\ drafted.create = cfg.create
          /\ drafted.timer = cfg.timer
      BY <1>1 DEF CfgType, Unloaded
    <3>3. new \in Stored /\ new # None /\ draft = new /\ typed = cfg.typed
      BY <1>1, <2>1, <3>2 DEF CfgType, Exclusive
    <3>4. PICK g : g = (drafted.ready /\ None = None)
      OBVIOUS
    <3>5. saved = [drafted EXCEPT !.config = new, !.draft = draft, !.ready = g,
                                  !.typed = typed, !.loaded = TRUE]
      BY <3>4
    <3> HIDE DEF drafted, draft, typed, saved
    <3>6. /\ DOMAIN saved = DOMAIN cfg /\ saved.config = new /\ saved.draft = new
          /\ saved.typed = cfg.typed /\ saved.save = cfg.save /\ saved.create = cfg.create
          /\ saved.timer = cfg.timer
      BY <1>1, <3>2, <3>3, <3>5 DEF CfgType, Unloaded
    <3>7. phase \in {"idle", "saved"}
      OBVIOUS
    <3> HIDE DEF phase
    <3>8. /\ DOMAIN c = DOMAIN cfg /\ c.config = new /\ c.draft = new /\ c.typed = cfg.typed
          /\ c.save = cfg.save /\ c.create = cfg.create /\ c.timer = cfg.timer
          /\ c.phase = phase
      BY <1>1, <3>6 DEF CfgType, Unloaded
    <3> HIDE DEF c
    <3>9. CfgType(c)
      BY <1>1, <3>3, <3>8 DEF CfgType
    <3>10. /\ CfgType(cfg') /\ cfg'.create.step = "refresh"
           /\ cfg'.create.candidate = c.create.candidate
           /\ cfg'.save = c.save /\ cfg'.draft = c.draft /\ cfg'.config = c.config
           /\ cfg'.phase = c.phase /\ cfg'.timer = c.timer
      BY <3>1, <3>9, CreateStepFields
    <3>11. Exclusive(cfg', conn.link)
      BY <1>1, <1>3, <2>1, <3>3, <3>8, <3>10 DEF Exclusive
    <3>12. server.queue = <<>> /\ server.config = new
      BY <1>1, <2>1 DEF Ordered
    <3>13. Ordered(cfg', server)
      BY <1>3, <3>8, <3>10, <3>12 DEF Ordered
    <3> QED BY <1>1, <3>1, <3>10, <3>11, <3>13 DEF Good
  <2> QED BY <1>7, <1>10, <2>1 DEF CreateReturns, ended
<1>11. CASE CreateRefreshed
  BY <1>7, <1>11 DEF CreateRefreshed, ended
<1> QED BY <1>8, <1>9, <1>10, <1>11

-------------------------------------------------------------------------------
(***************************************************************************)
(* The invariant.                                                          *)
(***************************************************************************)
LEMMA SettingsInit == Init => SettingsInv
<1> SUFFICES ASSUME Init PROVE SettingsInv
  OBVIOUS
<1>1. PICK config \in {None, Config(Initial, 1)} :
        server = [up |-> TRUE, config |-> config, queue |-> <<>>]
  BY DEF Init
<1>2. config \in Stored
  BY <1>1, Normalising DEF Stored, Configurations, Config
<1>3. <<>> \in Seq(Updates)
  OBVIOUS
<1>4. ServerType(server) /\ server.queue = <<>>
  BY <1>1, <1>2, <1>3 DEF ServerType
<1>5. cfg = Unloaded /\ Unloaded.save.step = "none" /\ Unloaded.create.step = "none"
  BY DEF Init, Unloaded, NoSave, NoCreate
<1>6. CfgType(cfg)
  BY <1>5 DEF CfgType, Unloaded, NoSave, NoCreate, Stored
<1>7. cfg.phase = "idle"
  BY <1>5 DEF Unloaded
<1>8. Exclusive(cfg, conn.link) /\ Ordered(cfg, server)
  BY <1>4, <1>5, <1>7 DEF Exclusive, Ordered
<1>9. ConnInv /\ Linked
  BY DEF Init, Offline, ConnInv, ConnType, RetryIsArmed, Linked
<1> QED BY <1>4, <1>6, <1>8, <1>9 DEF SettingsInv, Good

LEMMA SettingsStep ==
  ASSUME SettingsInv, [Next]_vars
  PROVE  SettingsInv'
<1>1. /\ ConnInv /\ Linked
      /\ conn.phase \in {"disconnected", "retrying"} \/ conn.timer => conn.link = "none"
  BY DEF SettingsInv, Linked, ConnInv, RetryIsArmed
<1>2. CASE Start \/ RetryTimer \/ Retry
  BY <1>1, <1>2, AttemptsKeep DEF Start, RetryTimer, Retry
<1>3. CASE SocketOpens \/ Initialized \/ StatusArrives
  BY <1>3, HandshakeGood
<1>4. CASE ConnectFails \/ ConnectionLost
  BY <1>4, BreaksKeep DEF ConnectFails, ConnectionLost
<1>5. CASE DaemonApplies
  BY <1>5, DaemonAppliesKeeps
<1>6. CASE DaemonStops \/ DaemonStarts
  BY <1>6, DaemonGoesKeeps DEF DaemonStops, DaemonStarts
<1>7. ASSUME UNCHANGED <<conn, cfg, server>>
      PROVE  SettingsInv'
  BY <1>7 DEF SettingsInv, ConnInv, ConnType, RetryIsArmed, Linked
<1>8. CASE User /\ ~Retry
  <2>1. CASE runPrimaryAction
    BY <1>7, <2>1, DaemonGoesKeeps DEF runPrimaryAction
  <2>2. CASE testProvider
    BY <2>2, PageIsCalm
  <2>3. CASE createProvider \/ selectPage \/ CloseRequested
    BY <2>3, FlushesKeep
  <2> QED BY <1>8, <2>1, <2>2, <2>3, EditsAreCalm DEF User
<1>9. CASE Returns
  BY <1>9, FlushesKeep, PageIsCalm, SaveStepsKeep, CreateStepsKeep DEF Returns
<1>10. CASE Destroyed
  BY <1>10, DestroyedKeeps
<1>11. CASE ServiceReturns
  <2>1. CASE conn.phase = "retrying" /\ Connect
    BY <1>1, <1>11, <2>1, AttemptsKeep DEF ServiceReturns
  <2> QED BY <1>7, <1>11, <2>1 DEF ServiceReturns
<1>12. CASE UNCHANGED vars
  BY <1>7, <1>12 DEF vars
<1> QED BY <1>2, <1>3, <1>4, <1>5, <1>6, <1>8, <1>9, <1>10, <1>11, <1>12 DEF Next, Connecting

LEMMA SettingsInvariance == Spec => []SettingsInv
<1> QED BY SettingsInit, SettingsStep, PTL DEF Spec

\* OneWriter: of the updates the daemon has accepted and not yet applied, somebody waits for
\* one at most, whatever the timer, the pages, the dialog and the connection do: the save
\* loop and createProvider never undo each other.
THEOREM WritersAlone == Spec => []OneWriter
<1>1. SettingsInv => OneWriter
  BY DEF SettingsInv, Good, Ordered, OneWriter
<1> QED BY <1>1, SettingsInvariance, PTL

\* SavedMeansApplied: "saved" is on the page only while the daemon has what the page shows;
\* an update of a lost connection, applied late, is never applied under it.
THEOREM SavedIsApplied == Spec => []SavedMeansApplied
<1>1. SettingsInv => SavedMeansApplied
  BY DEF SettingsInv, Good, Exclusive, Ordered, SavedMeansApplied
<1> QED BY <1>1, SettingsInvariance, PTL

===============================================================================
