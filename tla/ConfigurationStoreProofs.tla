----------------------- MODULE ConfigurationStoreProofs -----------------------
(***************************************************************************)
(* Theorems about ConfigurationStore, for all configurations, credentials  *)
(* and dictionaries, and any number of requests, hand edits and losses of  *)
(* power.                                                                  *)
(*                                                                         *)
(*   UpdatesSurvive: a file holds nothing but what was last acknowledged   *)
(*     or what was put there since (invariant StoreInv).                   *)
(*   RuntimeCorrect: at rest, the providers are those of the files, unless *)
(*     somebody changed one behind the manager's back.                     *)
(*   ReadyIsTrue: the status says "ready" exactly while the recogniser is  *)
(*     there, and the polisher if it is enabled; otherwise there is an     *)
(*     error, and a setting or a required credential is missing (both by   *)
(*     RuntimeInv).                                                        *)
(***************************************************************************)
EXTENDS ConfigurationStore, SequenceTheorems, TLAPS

\* The files have names, and what they hold is possible.
OfFiles(f) == f = [name \in Files |-> f[name]]

StoreInv ==
  /\ OfFiles(disk) /\ OfFiles(seen) /\ OfFiles(possible)
  /\ AcknowledgedSurvives

-------------------------------------------------------------------------------
\* Reading, scheduling and failing write no file.
LEMMA ReadersKeep ==
  ASSUME StoreInv, UNCHANGED <<disk, seen, possible>>
  PROVE  StoreInv'
BY DEF StoreInv, OfFiles, AcknowledgedSurvives

\* The rename makes the new content visible, and it is one of those that may be found.
LEMMA RenameKeeps ==
  ASSUME StoreInv, NEW m \in DOMAIN queue, Rename(m)
  PROVE  StoreInv'
<1> DEFINE job == Head(queue[m])
<1>1. CASE UpdateFails(m)
  BY <1>1, ReadersKeep DEF UpdateFails, files, history
<1>2. CASE /\ seen' = [seen EXCEPT ![job.file] = job.content]
           /\ possible' = [possible EXCEPT ![job.file] = @ \cup {job.content}]
           /\ disk' = disk
  <2> HIDE DEF job
  <2>1. OfFiles(disk)' /\ OfFiles(seen)' /\ OfFiles(possible)'
    BY <1>2 DEF StoreInv, OfFiles
  <2>2. ASSUME NEW f \in Files PROVE disk'[f] \in possible'[f] /\ seen'[f] \in possible'[f]
    BY <1>2, <2>2 DEF StoreInv, OfFiles, AcknowledgedSurvives
  <2> QED BY <2>1, <2>2 DEF StoreInv, AcknowledgedSurvives
<1> QED BY <1>1, <1>2 DEF Rename

\* Once the directory is synced, the disk holds the new content as well.
LEMMA SyncKeeps ==
  ASSUME StoreInv, NEW m \in DOMAIN queue, SyncDirectory(m)
  PROVE  StoreInv'
<1> DEFINE job == Head(queue[m])
<1>1. CASE UpdateFails(m)
  BY <1>1, ReadersKeep DEF UpdateFails, files, history
<1>2. CASE /\ disk' = [disk EXCEPT ![job.file] = job.content]
           /\ possible' = [possible EXCEPT ![job.file] = {job.content, seen[job.file]}]
           /\ seen' = seen
  <2> HIDE DEF job
  <2>1. OfFiles(disk)' /\ OfFiles(seen)' /\ OfFiles(possible)'
    BY <1>2 DEF StoreInv, OfFiles
  <2>2. ASSUME NEW f \in Files PROVE disk'[f] \in possible'[f] /\ seen'[f] \in possible'[f]
    BY <1>2, <2>2 DEF StoreInv, OfFiles, AcknowledgedSurvives
  <2> QED BY <2>1, <2>2 DEF StoreInv, AcknowledgedSurvives
<1> QED BY <1>1, <1>2 DEF SyncDirectory, Acknowledged

LEMMA HandEditKeeps ==
  ASSUME StoreInv, NEW file, NEW content, HandEdit(file, content)
  PROVE  StoreInv'
<1>1. /\ seen' = [seen EXCEPT ![file] = content]
      /\ possible' = [possible EXCEPT ![file] = @ \cup {content}]
      /\ disk' = disk
  BY DEF HandEdit
<1>2. OfFiles(disk)' /\ OfFiles(seen)' /\ OfFiles(possible)'
  BY <1>1 DEF StoreInv, OfFiles
<1>3. ASSUME NEW f \in Files PROVE disk'[f] \in possible'[f] /\ seen'[f] \in possible'[f]
  BY <1>1, <1>3 DEF StoreInv, OfFiles, AcknowledgedSurvives
<1> QED BY <1>2, <1>3 DEF StoreInv, AcknowledgedSurvives

\* A loss of power leaves, of every file, the synced content or the visible one.
LEMMA StopKeeps ==
  ASSUME StoreInv, Stop
  PROVE  StoreInv'
<1>1. CASE UNCHANGED files
  BY <1>1, ReadersKeep DEF Stop, files
<1>2. CASE \E left \in [Files -> BOOLEAN] :
             /\ seen' = [f \in Files |-> IF left[f] THEN seen[f] ELSE disk[f]]
             /\ disk' = seen'
  <2>1. possible' = possible
    BY DEF Stop
  <2> QED BY <1>2, <2>1 DEF StoreInv, OfFiles, AcknowledgedSurvives
<1> QED BY <1>1, <1>2 DEF Stop

LEMMA StoreStep ==
  ASSUME StoreInv, [Next]_vars
  PROVE  StoreInv'
<1>1. CASE \E m \in DOMAIN queue : Rename(m) \/ SyncDirectory(m)
  BY <1>1, RenameKeeps, SyncKeeps
<1>2. CASE Edited
  BY <1>2, HandEditKeeps DEF Edited
<1>3. CASE Stop
  BY <1>3, StopKeeps
<1>4. CASE \E m \in DOMAIN queue : WriteTemporary(m)
  BY <1>4, ReadersKeep DEF WriteTemporary, UpdateFails, files, history
<1>5. CASE LoadConfig \/ LoadCredentials \/ LoadDictionary
  BY <1>5, ReadersKeep DEF LoadConfig, LoadCredentials, LoadDictionary, files
<1>6. CASE StartWatching \/ FileChanged \/ ReloadTimer \/ Launch
  BY <1>6, ReadersKeep DEF StartWatching, FileChanged, ReloadTimer, Launch, files, history
<1>7. CASE Asked
  BY <1>7, ReadersKeep DEF Asked, Request, files, history
<1>8. CASE UNCHANGED vars
  BY <1>8, ReadersKeep DEF vars, files, history
<1> QED BY <1>1, <1>2, <1>3, <1>4, <1>5, <1>6, <1>7, <1>8 DEF Next, Steps

-------------------------------------------------------------------------------
\* AcknowledgedSurvives: an update that was answered with success is never undone by a
\* kill or a loss of power (atomicWriteFile syncs the directory before it returns).
THEOREM UpdatesSurvive == Spec => []AcknowledgedSurvives
<1>1. Init => StoreInv
  <2> SUFFICES ASSUME Init PROVE StoreInv
    OBVIOUS
  <2>1. PICK file : seen = [config |-> file, credentials |-> None, dictionary |-> None]
    BY DEF Init
  <2>2. OfFiles(seen) /\ disk = seen /\ possible = [f \in Files |-> {seen[f]}]
    BY <2>1 DEF Init, OfFiles, Files
  <2> QED BY <2>2 DEF StoreInv, OfFiles, AcknowledgedSurvives
<1>2. StoreInv /\ [Next]_vars => StoreInv'
  BY StoreStep
<1>3. StoreInv => AcknowledgedSurvives
  BY DEF StoreInv
<1> QED BY <1>1, <1>2, <1>3, PTL DEF Spec

-------------------------------------------------------------------------------
(***************************************************************************)
(* What the daemon runs on.  The memory (MemoryOk) holds no configuration, *)
(* or a valid one and what can be built from it; the files (FilesOk) hold  *)
(* credentials or something else that is no configuration; the queues      *)
(* (QueuesOk) hold the jobs of their manager, of which only the first has  *)
(* begun; main() has one job at most (MainOk); and what memory and files   *)
(* are known to agree on is what `unsure' does not name (Known).           *)
(***************************************************************************)
Providers(c) ==
  /\ c.asr = createAsrProvider(c.config, c.credentials)
  /\ c.polisher = resolveTextPolisherProvider(c.config, c.credentials)
  /\ (c.state = "ready") <=> (c.asr # None /\ (c.config \in Enabled => c.polisher # None))
  /\ (c.state # "ready") => c.error

MemoryOk(c) ==
  /\ DOMAIN c = DOMAIN NewConfig
  /\ c.credentials \in SUBSET Names
  /\ \/ c.config = None /\ c.asr = None /\ c.polisher = None /\ c.state # "ready"
     \/ c.config \in Configs /\ Providers(c)

IsSecrets(content) == content \in {None, Invalid} \/ content \in SUBSET Names

FilesOk ==
  /\ OfFiles(disk) /\ OfFiles(seen)
  /\ IsSecrets(disk.credentials) /\ IsSecrets(seen.credentials)

Patches == [add : SUBSET Names, drop : SUBSET Names]

Values == Configs \cup Dictionaries \cup {None, Invalid} \cup Patches

Contents == Values \cup (SUBSET Names)

Jobs ==
  [ by : {"main", "request", "watcher"}, op : {"reload", "update"}, file : Files,
    value : Values, at : {"start", "rename", "sync", "credentials"}, content : Contents ]

\* A job of DaemonConfigManager: what it was asked for, and what it has read or is to write.
Fits(j) ==
  /\ j.file \in {"config", "credentials"}
  /\ (j.file = "config" /\ j.op = "update") => j.value \in Configs \cup {Invalid}
  /\ (j.file = "credentials") => (j.op = "update" /\ j.value \in Patches)
  /\ (j.file = "config" /\ j.at # "start") => j.content \in Configs
  /\ (j.file = "credentials" /\ j.at # "start") => j.content \in SUBSET Names

ConfigQueue(q) ==
  /\ q \in Seq(Jobs)
  /\ \A i \in 1 .. Len(q) : Fits(q[i]) /\ (i > 1 => q[i].at = "start")

DictionaryQueue(q) ==
  /\ q \in Seq(Jobs)
  /\ \A i \in 1 .. Len(q) : q[i].file = "dictionary"

QueuesOk ==
  /\ queue = [config |-> queue.config, dictionary |-> queue.dictionary]
  /\ ConfigQueue(queue.config)
  /\ DictionaryQueue(queue.dictionary)

NotOfMain(q) == \A i \in 1 .. Len(q) : q[i].by # "main"

\* main() waits for one reload of the dictionary.
OnceOfMain(q) ==
  \A i \in 1 .. Len(q) : q[i].by = "main" =>
    q[i].op = "reload" /\ \A j \in 1 .. Len(q) : q[j].by = "main" => i = j

\* main() waits for one job of the configuration, and nobody else is served.
OnlyOfMain(q, op) ==
  /\ Len(q) = 1
  /\ q[1].by = "main" /\ q[1].file = "config" /\ q[1].op = op

MainOk ==
  \/ /\ phase \in {"loading", "reloading"}
     /\ OnlyOfMain(queue.config, "reload") /\ NotOfMain(queue.dictionary)
  \/ /\ phase = "creating"
     /\ OnlyOfMain(queue.config, "update") /\ NotOfMain(queue.dictionary)
  \/ /\ phase = "dictionary"
     /\ queue.config = <<>> /\ OnceOfMain(queue.dictionary)
  \/ /\ phase \in {"off", "loaded"}
     /\ queue.config = <<>> /\ NotOfMain(queue.dictionary)
  \/ /\ phase = "serving"
     /\ NotOfMain(queue.config) /\ NotOfMain(queue.dictionary)

\* A reload replaces the configuration whatever it was: until it has read the file, nothing
\* is known of the memory, and then of what it has read.
KnownConfig ==
  "config" \notin unsure =>
     IF queue.config # <<>> /\ Head(queue.config).op = "reload"
     THEN Head(queue.config).at = "credentials" => Head(queue.config).content = seen.config
     ELSE config.config = seen.config /\ config.config \in Configs

KnownCredentials ==
  "credentials" \notin unsure => config.credentials = StoredCredentials

\* A file that was replaced is unsure until the memory follows.
Replacing ==
  (queue.config # <<>> /\ Head(queue.config).at = "sync") => Head(queue.config).file \in unsure

Known == KnownConfig /\ KnownCredentials /\ Replacing

RuntimeInv == MemoryOk(config) /\ FilesOk /\ QueuesOk /\ MainOk /\ Known

-------------------------------------------------------------------------------
(***************************************************************************)
(* The memory.                                                             *)
(***************************************************************************)
\* A provider is there when no setting and no credential it needs is missing.
LEMMA BuiltIs ==
  ASSUME NEW content \in Configs, NEW credentials \in SUBSET Names
  PROVE  /\ (createAsrProvider(content, credentials) # None) <=>
              (content \in Complete /\ AsrNeeds[content] \subseteq credentials)
         /\ (resolveTextPolisherProvider(content, credentials) # None) <=>
              (content \in Polished /\ PolisherNeeds[content] \subseteq credentials)
BY NoneIsNothing DEF createAsrProvider, resolveTextPolisherProvider

LEMMA AppliedIsOk ==
  ASSUME NEW content \in Configs, NEW credentials \in SUBSET Names
  PROVE  /\ MemoryOk(applyConfiguration(content, credentials))
         /\ applyConfiguration(content, credentials).config = content
         /\ applyConfiguration(content, credentials).credentials = credentials
<1> DEFINE asr == createAsrProvider(content, credentials)
           polisher == resolveTextPolisherProvider(content, credentials)
           failed == asr = None \/ (content \in Enabled /\ polisher = None)
<1>1. PICK state : state = IF failed THEN "degraded" ELSE "ready"
  OBVIOUS
<1>2. applyConfiguration(content, credentials) =
        [ config |-> content, credentials |-> credentials, asr |-> asr, polisher |-> polisher,
          state |-> state, error |-> failed ]
  <2>1. /\ createTextPolisher(content, credentials).polisher = polisher
        /\ createTextPolisher(content, credentials).threw = (content \in Enabled /\ polisher = None)
    BY DEF createTextPolisher
  <2> HIDE DEF asr, polisher
  <2> QED BY <1>1, <2>1, Zenon DEF applyConfiguration, asr, polisher
<1>3. /\ (state = "ready") <=> (asr # None /\ (content \in Enabled => polisher # None))
      /\ (state # "ready") => failed
  BY <1>1
<1> HIDE DEF asr, polisher, failed
<1> DEFINE c == [ config |-> content, credentials |-> credentials, asr |-> asr,
                  polisher |-> polisher, state |-> state, error |-> failed ]
<1>4. /\ DOMAIN c = DOMAIN NewConfig
      /\ c.config = content /\ c.credentials = credentials
      /\ c.asr = asr /\ c.polisher = polisher /\ c.state = state
      /\ c.error = failed
  BY DEF NewConfig
<1> HIDE DEF c
<1>5. Providers(c)
  BY <1>3, <1>4 DEF Providers, asr, polisher
<1> QED BY <1>2, <1>4, <1>5 DEF MemoryOk, c

\* A failure changes what the status says, never what runs.
LEMMA FailedIsOk ==
  ASSUME MemoryOk(config), NEW missing
  PROVE  /\ MemoryOk(recordFailure(missing))
         /\ recordFailure(missing).config = config.config
         /\ recordFailure(missing).credentials = config.credentials
<1> DEFINE c == recordFailure(missing)
<1>1. PICK state : state = CASE config.asr # None -> config.state
                             [] config.asr = None /\ missing -> "needs-configuration"
                             [] OTHER -> "degraded"
  OBVIOUS
<1>2. /\ config.asr # None => state = config.state
      /\ config.asr = None => state # "ready"
  BY <1>1
<1>3. c = [config EXCEPT !.error = TRUE, !.state = state]
  BY <1>1, Zenon DEF recordFailure, MemoryOk, NewConfig
<1>4. /\ DOMAIN c = DOMAIN NewConfig
      /\ c.config = config.config /\ c.credentials = config.credentials
      /\ c.asr = config.asr /\ c.polisher = config.polisher /\ c.state = state
      /\ c.error = TRUE
  BY <1>3 DEF MemoryOk, NewConfig
<1> HIDE DEF c
<1>5. CASE config.config = None /\ config.asr = None /\ config.polisher = None
  BY <1>2, <1>4, <1>5 DEF MemoryOk, c
<1>6. CASE config.config \in Configs /\ Providers(config)
  <2>1. Providers(c)
    BY <1>2, <1>4, <1>6 DEF Providers
  <2> QED BY <1>4, <1>6, <2>1 DEF MemoryOk, c
<1> QED BY <1>5, <1>6 DEF MemoryOk

LEMMA CredentialsAreOk ==
  ASSUME MemoryOk(config), config.config = None, NEW credentials \in SUBSET Names
  PROVE  /\ MemoryOk([config EXCEPT !.credentials = credentials])
         /\ [config EXCEPT !.credentials = credentials].config = config.config
         /\ [config EXCEPT !.credentials = credentials].credentials = credentials
BY NoneIsNothing DEF MemoryOk, NewConfig

LEMMA NewIsOk == MemoryOk(NewConfig)
BY DEF MemoryOk, NewConfig

-------------------------------------------------------------------------------
(***************************************************************************)
(* The queues.                                                             *)
(***************************************************************************)
LEMMA JobIs ==
  ASSUME NEW by, NEW op, NEW file, NEW value
  PROVE  /\ Job(by, op, file, value).by = by /\ Job(by, op, file, value).op = op
         /\ Job(by, op, file, value).file = file /\ Job(by, op, file, value).value = value
         /\ Job(by, op, file, value).at = "start"
BY DEF Job

LEMMA JobIsOne ==
  ASSUME NEW by \in {"main", "request", "watcher"}, NEW op \in {"reload", "update"},
         NEW file \in Files, NEW value \in Values
  PROVE  Job(by, op, file, value) \in Jobs
<1>1. None \in Contents
  BY DEF Contents, Values
<1> QED BY <1>1 DEF Job, Jobs

\* One of the two queues changes.
LEMMA QueueChanges ==
  ASSUME NEW q, NEW c, NEW d, q = [config |-> c, dictionary |-> d], NEW e
  PROVE  /\ q.config = c /\ q.dictionary = d
         /\ [q EXCEPT !["config"] = e] = [config |-> e, dictionary |-> d]
         /\ [q EXCEPT !["dictionary"] = e] = [config |-> c, dictionary |-> e]
<1>1. /\ q = [i \in {"config", "dictionary"} |-> IF i = "config" THEN c ELSE d]
      /\ [config |-> e, dictionary |-> d]
           = [i \in {"config", "dictionary"} |-> IF i = "config" THEN e ELSE d]
      /\ [config |-> c, dictionary |-> e]
           = [i \in {"config", "dictionary"} |-> IF i = "config" THEN c ELSE e]
  OBVIOUS
<1>2. q.config = c /\ q.dictionary = d
  OBVIOUS
<1>3. [q EXCEPT !["config"] = e]
           = [i \in {"config", "dictionary"} |-> IF i = "config" THEN e ELSE d]
  BY <1>1
<1>4. [q EXCEPT !["dictionary"] = e]
           = [i \in {"config", "dictionary"} |-> IF i = "config" THEN c ELSE e]
  BY <1>1
<1> QED BY <1>1, <1>2, <1>3, <1>4

LEMMA HeadIs ==
  ASSUME NEW S, NEW q \in Seq(S), q # <<>>
  PROVE  /\ Len(q) \in Nat /\ Len(q) > 0 /\ Head(q) = q[1] /\ Head(q) \in S
         /\ Tail(q) \in Seq(S) /\ Len(Tail(q)) = Len(q) - 1
         /\ \A i \in 1 .. Len(Tail(q)) : i + 1 \in 1 .. Len(q) /\ Tail(q)[i] = q[i + 1]
OBVIOUS

LEMMA AppendIs ==
  ASSUME NEW S, NEW q \in Seq(S), NEW j \in S
  PROVE  /\ Append(q, j) \in Seq(S) /\ Len(q) \in Nat /\ Len(Append(q, j)) = Len(q) + 1
         /\ Append(q, j) # <<>>
         /\ \A i \in 1 .. Len(q) : Append(q, j)[i] = q[i]
         /\ Append(q, j)[Len(q) + 1] = j
OBVIOUS

\* The head of a queue, replaced by what the job has become.
LEMMA ReplacedIs ==
  ASSUME NEW S, NEW q \in Seq(S), q # <<>>, NEW j \in S
  PROVE  /\ [q EXCEPT ![1] = j] \in Seq(S) /\ Len([q EXCEPT ![1] = j]) = Len(q)
         /\ [q EXCEPT ![1] = j] # <<>> /\ Head([q EXCEPT ![1] = j]) = j
         /\ \A i \in 1 .. Len(q) : [q EXCEPT ![1] = j][i] = IF i = 1 THEN j ELSE q[i]
<1> DEFINE r == [q EXCEPT ![1] = j]
<1>1. /\ Len(q) \in Nat /\ Len(q) > 0 /\ q = [i \in 1 .. Len(q) |-> q[i]]
      /\ \A i \in 1 .. Len(q) : q[i] \in S
  OBVIOUS
<1>2. /\ DOMAIN r = 1 .. Len(q)
      /\ \A i \in 1 .. Len(q) : r[i] = IF i = 1 THEN j ELSE q[i]
      /\ r \in [1 .. Len(q) -> S]
  BY <1>1
<1> HIDE DEF r
<1>3. r \in Seq(S)
  BY <1>1, <1>2
<1>4. Len(r) = Len(q)
  BY <1>1, <1>2, <1>3, LenProperties
<1>5. r # <<>> /\ Head(r) = j
  BY <1>1, <1>2, <1>3, <1>4, HeadIs
<1> QED BY <1>2, <1>3, <1>4, <1>5 DEF r

-------------------------------------------------------------------------------
LEMMA ConfigTail ==
  ASSUME NEW q, ConfigQueue(q), q # <<>>
  PROVE  /\ ConfigQueue(Tail(q))
         /\ Head(q) \in Jobs /\ Fits(Head(q)) /\ Len(q) \in Nat /\ Len(q) > 0
         /\ Head(q) = q[1]
         /\ Tail(q) # <<>> => Head(Tail(q)).at = "start"
         /\ NotOfMain(q) => NotOfMain(Tail(q)) /\ Head(q).by # "main"
<1>1. /\ Len(q) \in Nat /\ Len(q) > 0 /\ Head(q) = q[1] /\ Head(q) \in Jobs
      /\ Tail(q) \in Seq(Jobs) /\ Len(Tail(q)) = Len(q) - 1
      /\ \A i \in 1 .. Len(Tail(q)) : i + 1 \in 1 .. Len(q) /\ Tail(q)[i] = q[i + 1]
  BY HeadIs DEF ConfigQueue
<1>2. \A i \in 1 .. Len(q) : Fits(q[i]) /\ (i > 1 => q[i].at = "start")
  BY DEF ConfigQueue
<1>3. \A i \in 1 .. Len(Tail(q)) : Fits(Tail(q)[i]) /\ Tail(q)[i].at = "start"
  BY <1>1, <1>2
<1>4. Tail(q) # <<>> => Head(Tail(q)) = Tail(q)[1] /\ 1 \in 1 .. Len(Tail(q))
  BY <1>1, HeadIs
<1> QED BY <1>1, <1>2, <1>3, <1>4 DEF ConfigQueue, NotOfMain

LEMMA ConfigAppend ==
  ASSUME NEW q, ConfigQueue(q), NEW j \in Jobs, Fits(j), j.at = "start"
  PROVE  /\ ConfigQueue(Append(q, j)) /\ Append(q, j) # <<>>
         /\ q # <<>> => Head(Append(q, j)) = Head(q)
         /\ q = <<>> => Head(Append(q, j)) = j /\ Len(Append(q, j)) = 1 /\ Append(q, j)[1] = j
         /\ (NotOfMain(q) /\ j.by # "main") => NotOfMain(Append(q, j))
<1>1. /\ Append(q, j) \in Seq(Jobs) /\ Len(q) \in Nat /\ Len(Append(q, j)) = Len(q) + 1
      /\ Append(q, j) # <<>>
      /\ \A i \in 1 .. Len(q) : Append(q, j)[i] = q[i]
      /\ Append(q, j)[Len(q) + 1] = j
  BY AppendIs DEF ConfigQueue
<1>2. Head(Append(q, j)) = Append(q, j)[1]
  BY <1>1, HeadIs
<1>3. q # <<>> => Head(q) = q[1] /\ Len(q) > 0
  BY HeadIs DEF ConfigQueue
<1>4. q = <<>> => Len(q) = 0
  OBVIOUS
<1>5. \A i \in 1 .. Len(Append(q, j)) : i \in 1 .. Len(q) \/ i = Len(q) + 1
  BY <1>1
<1> QED BY <1>1, <1>2, <1>3, <1>4, <1>5 DEF ConfigQueue, NotOfMain

LEMMA ConfigReplace ==
  ASSUME NEW q, ConfigQueue(q), q # <<>>, NEW j \in Jobs, Fits(j), j.by = Head(q).by
  PROVE  /\ ConfigQueue([q EXCEPT ![1] = j])
         /\ [q EXCEPT ![1] = j] # <<>> /\ Head([q EXCEPT ![1] = j]) = j
         /\ [q EXCEPT ![1] = j][1] = j /\ Len([q EXCEPT ![1] = j]) = Len(q)
         /\ NotOfMain(q) => NotOfMain([q EXCEPT ![1] = j])
<1>1. /\ [q EXCEPT ![1] = j] \in Seq(Jobs) /\ Len([q EXCEPT ![1] = j]) = Len(q)
      /\ [q EXCEPT ![1] = j] # <<>> /\ Head([q EXCEPT ![1] = j]) = j
      /\ \A i \in 1 .. Len(q) : [q EXCEPT ![1] = j][i] = IF i = 1 THEN j ELSE q[i]
  BY ReplacedIs DEF ConfigQueue
<1>2. Len(q) \in Nat /\ Len(q) > 0 /\ Head(q) = q[1]
  BY HeadIs DEF ConfigQueue
<1> QED BY <1>1, <1>2 DEF ConfigQueue, NotOfMain

LEMMA DictionaryTail ==
  ASSUME NEW q, DictionaryQueue(q), q # <<>>
  PROVE  /\ DictionaryQueue(Tail(q)) /\ Head(q) \in Jobs /\ Head(q).file = "dictionary"
         /\ NotOfMain(q) => NotOfMain(Tail(q)) /\ Head(q).by # "main"
         /\ (OnceOfMain(q) /\ Head(q).by = "main") => NotOfMain(Tail(q))
         /\ (OnceOfMain(q) /\ Head(q).by # "main") => OnceOfMain(Tail(q))
         /\ (OnceOfMain(q) /\ Head(q).by = "main") => Head(q).op = "reload"
<1>1. /\ Len(q) \in Nat /\ Len(q) > 0 /\ Head(q) = q[1] /\ Head(q) \in Jobs
      /\ Tail(q) \in Seq(Jobs) /\ Len(Tail(q)) = Len(q) - 1
      /\ \A i \in 1 .. Len(Tail(q)) : i + 1 \in 1 .. Len(q) /\ Tail(q)[i] = q[i + 1]
  BY HeadIs DEF DictionaryQueue
<1>2. /\ DictionaryQueue(Tail(q)) /\ Head(q).file = "dictionary"
      /\ NotOfMain(q) => NotOfMain(Tail(q)) /\ Head(q).by # "main"
  BY <1>1 DEF DictionaryQueue, NotOfMain
<1>3. ASSUME OnceOfMain(q), Head(q).by = "main"
      PROVE  NotOfMain(Tail(q)) /\ Head(q).op = "reload"
  <2>1. 1 \in 1 .. Len(q)
    BY <1>1
  <2>2. \A i \in 1 .. Len(Tail(q)) : i + 1 # 1
    BY <1>1
  <2> QED BY <1>1, <1>3, <2>1, <2>2 DEF OnceOfMain, NotOfMain
<1>4. ASSUME OnceOfMain(q)
      PROVE  OnceOfMain(Tail(q))
  <2>1. ASSUME NEW i \in 1 .. Len(Tail(q)), Tail(q)[i].by = "main"
        PROVE  /\ Tail(q)[i].op = "reload"
               /\ \A k \in 1 .. Len(Tail(q)) : Tail(q)[k].by = "main" => i = k
    <3>1. i + 1 \in 1 .. Len(q) /\ Tail(q)[i] = q[i + 1] /\ q[i + 1].by = "main"
      BY <1>1, <2>1
    <3>2. q[i + 1].op = "reload" /\ \A k \in 1 .. Len(q) : q[k].by = "main" => i + 1 = k
      BY <1>4, <3>1 DEF OnceOfMain
    <3>3. ASSUME NEW k \in 1 .. Len(Tail(q)), Tail(q)[k].by = "main"
          PROVE  i = k
      <4>1. i + 1 = k + 1
        BY <1>1, <3>2, <3>3
      <4>2. i \in Int /\ k \in Int
        OBVIOUS
      <4> QED BY <4>1, <4>2
    <3> QED BY <3>1, <3>2, <3>3
  <2> QED BY <2>1 DEF OnceOfMain
<1> QED BY <1>1, <1>2, <1>3, <1>4

LEMMA DictionaryAppend ==
  ASSUME NEW q, DictionaryQueue(q), NEW j \in Jobs, j.file = "dictionary"
  PROVE  /\ DictionaryQueue(Append(q, j))
         /\ (NotOfMain(q) /\ j.by # "main") => NotOfMain(Append(q, j))
         /\ (OnceOfMain(q) /\ j.by # "main") => OnceOfMain(Append(q, j))
         /\ (NotOfMain(q) /\ j.op = "reload") => OnceOfMain(Append(q, j))
<1>1. /\ Append(q, j) \in Seq(Jobs) /\ Len(q) \in Nat /\ Len(Append(q, j)) = Len(q) + 1
      /\ \A i \in 1 .. Len(q) : Append(q, j)[i] = q[i]
      /\ Append(q, j)[Len(q) + 1] = j
  BY AppendIs DEF DictionaryQueue
<1>2. \A i \in 1 .. Len(Append(q, j)) : i \in 1 .. Len(q) \/ i = Len(q) + 1
  BY <1>1
<1>3. /\ DictionaryQueue(Append(q, j))
      /\ (NotOfMain(q) /\ j.by # "main") => NotOfMain(Append(q, j))
  BY <1>1, <1>2 DEF DictionaryQueue, NotOfMain
<1>4. (OnceOfMain(q) /\ j.by # "main") => OnceOfMain(Append(q, j))
  BY <1>1, <1>2 DEF OnceOfMain
<1>5. (NotOfMain(q) /\ j.op = "reload") => OnceOfMain(Append(q, j))
  BY <1>1, <1>2 DEF OnceOfMain, NotOfMain
<1> QED BY <1>3, <1>4, <1>5

LEMMA DictionaryReplace ==
  ASSUME NEW q, DictionaryQueue(q), q # <<>>,
         NEW j \in Jobs, j.by = Head(q).by, j.op = Head(q).op, j.file = Head(q).file
  PROVE  /\ DictionaryQueue([q EXCEPT ![1] = j])
         /\ NotOfMain(q) => NotOfMain([q EXCEPT ![1] = j])
         /\ OnceOfMain(q) => OnceOfMain([q EXCEPT ![1] = j])
<1> DEFINE r == [q EXCEPT ![1] = j]
<1>1. /\ r \in Seq(Jobs) /\ Len(r) = Len(q)
      /\ \A i \in 1 .. Len(q) : r[i] = IF i = 1 THEN j ELSE q[i]
  BY ReplacedIs DEF DictionaryQueue
<1>2. Len(q) \in Nat /\ Len(q) > 0 /\ Head(q) = q[1]
  BY HeadIs DEF DictionaryQueue
<1> HIDE DEF r
<1>3. \A i \in 1 .. Len(q) : r[i].by = q[i].by /\ r[i].op = q[i].op /\ r[i].file = q[i].file
  BY <1>1, <1>2
<1> QED BY <1>1, <1>3 DEF DictionaryQueue, NotOfMain, OnceOfMain, r

-------------------------------------------------------------------------------
(***************************************************************************)
(* The jobs of main().                                                     *)
(***************************************************************************)
LEMMA BootIs ==
  /\ DOMAIN Boot = {"loading", "creating", "reloading", "dictionary"}
  /\ \A p \in DOMAIN Boot :
       /\ Boot[p] \in Jobs /\ Boot[p].by = "main" /\ Boot[p].at = "start"
       /\ Boot[p].op = IF p = "creating" THEN "update" ELSE "reload"
       /\ Boot[p].file = IF p = "dictionary" THEN "dictionary" ELSE "config"
       /\ p # "dictionary" => Fits(Boot[p])
<1> DEFINE loading == Job("main", "reload", "config", None)
           creating == Job("main", "update", "config", Default)
           reading == Job("main", "reload", "dictionary", None)
<1>1. /\ loading.by = "main" /\ loading.op = "reload" /\ loading.file = "config"
      /\ loading.at = "start"
      /\ creating.by = "main" /\ creating.op = "update" /\ creating.file = "config"
      /\ creating.value = Default /\ creating.at = "start"
      /\ reading.by = "main" /\ reading.op = "reload" /\ reading.file = "dictionary"
      /\ reading.at = "start"
  BY JobIs
<1>2. loading \in Jobs /\ creating \in Jobs /\ reading \in Jobs
  BY JobIsOne, Needs DEF Files, Values
<1>3. Fits(loading) /\ Fits(creating)
  BY <1>1, Needs DEF Fits
<1>4. Boot = [loading |-> loading, creating |-> creating, reloading |-> loading, dictionary |-> reading]
  BY DEF Boot
<1> HIDE DEF loading, creating, reading
<1>5. /\ DOMAIN Boot = {"loading", "creating", "reloading", "dictionary"}
      /\ Boot["loading"] = loading /\ Boot["creating"] = creating
      /\ Boot["reloading"] = loading /\ Boot["dictionary"] = reading
  BY <1>4
<1> QED BY <1>1, <1>2, <1>3, <1>5

\* main() goes on when no job of the configuration is left, and waits for the next one.
LEMMA StartIs ==
  ASSUME NEW q, q = [config |-> <<>>, dictionary |-> q.dictionary],
         DictionaryQueue(q.dictionary), NotOfMain(q.dictionary),
         NEW p \in DOMAIN Boot, Start(p, q)
  PROVE  /\ QueuesOk' /\ MainOk'
         /\ queue'.config # <<>> => Head(queue'.config).at = "start"
         /\ p = "reloading" => queue'.config # <<>> /\ Head(queue'.config).op = "reload"
<1> DEFINE j == Boot[p]
<1>1. /\ j \in Jobs /\ j.by = "main" /\ j.at = "start"
      /\ j.op = IF p = "creating" THEN "update" ELSE "reload"
      /\ j.file = IF p = "dictionary" THEN "dictionary" ELSE "config"
      /\ p # "dictionary" => Fits(j)
      /\ p \in {"loading", "creating", "reloading", "dictionary"}
  BY BootIs
<1>2. phase' = p /\ queue' = [q EXCEPT ![Manager(j.file)] = Append(@, j)]
  BY DEF Start
<1> HIDE DEF j
<1>3. ConfigQueue(<<>>)
  BY DEF ConfigQueue
<1>4. CASE p = "dictionary"
  <2>1. queue' = [config |-> <<>>, dictionary |-> Append(q.dictionary, j)]
    <3>1. queue' = [q EXCEPT !["dictionary"] = Append(q.dictionary, j)]
      BY <1>1, <1>2, <1>4 DEF Manager
    <3> QED BY <3>1, QueueChanges
  <2>2. /\ queue'.config = <<>> /\ queue'.dictionary = Append(q.dictionary, j)
        /\ queue' = [config |-> queue'.config, dictionary |-> queue'.dictionary]
    BY <2>1
  <2>3. DictionaryQueue(queue'.dictionary) /\ OnceOfMain(queue'.dictionary)
    BY <1>1, <1>4, <2>2, DictionaryAppend
  <2>4. QueuesOk' /\ MainOk'
    BY <1>2, <1>3, <1>4, <2>2, <2>3 DEF QueuesOk, MainOk
  <2> QED BY <1>4, <2>2, <2>4
<1>5. CASE p # "dictionary"
  <2>1. queue' = [config |-> Append(<<>>, j), dictionary |-> q.dictionary]
    <3>1. queue' = [q EXCEPT !["config"] = Append(q.config, j)] /\ q.config = <<>>
      BY <1>1, <1>2, <1>5 DEF Manager
    <3> QED BY <3>1, QueueChanges
  <2>2. /\ queue'.config = Append(<<>>, j) /\ queue'.dictionary = q.dictionary
        /\ queue' = [config |-> queue'.config, dictionary |-> queue'.dictionary]
    BY <2>1
  <2>3. /\ ConfigQueue(queue'.config) /\ queue'.config # <<>> /\ Head(queue'.config) = j
        /\ Len(queue'.config) = 1 /\ queue'.config[1] = j
    BY <1>1, <1>3, <1>5, <2>2, ConfigAppend
  <2>4. OnlyOfMain(queue'.config, j.op)
    BY <1>1, <1>5, <2>3 DEF OnlyOfMain
  <2>5. QueuesOk' /\ MainOk'
    BY <1>1, <1>2, <1>5, <2>2, <2>3, <2>4 DEF QueuesOk, MainOk
  <2> QED BY <1>1, <1>5, <2>3, <2>5
<1> QED BY <1>4, <1>5

LEMMA FinishConfigIs ==
  ASSUME QueuesOk, MainOk, queue.config # <<>>, NEW result, Finish("config", result)
  PROVE  /\ QueuesOk' /\ MainOk'
         /\ queue'.config # <<>> => Head(queue'.config).at = "start"
         /\ (Head(queue.config).by = "main" /\ Head(queue.config).op = "update" /\ result = "done")
              => queue'.config # <<>> /\ Head(queue'.config).op = "reload"
<1> DEFINE rest == [queue EXCEPT !["config"] = Tail(@)]
<1>1. /\ rest = [config |-> Tail(queue.config), dictionary |-> queue.dictionary]
      /\ rest.config = Tail(queue.config) /\ rest.dictionary = queue.dictionary
      /\ rest = [config |-> rest.config, dictionary |-> rest.dictionary]
  <2>1. PICK tail : tail = Tail(queue.config)
    OBVIOUS
  <2>2. rest = [config |-> tail, dictionary |-> queue.dictionary]
    <3>1. PICK q : q = queue
      OBVIOUS
    <3>2. q = [config |-> q.config, dictionary |-> q.dictionary]
      BY <3>1 DEF QueuesOk
    <3>3. [q EXCEPT !["config"] = tail] = [config |-> tail, dictionary |-> q.dictionary]
      BY <3>2, QueueChanges
    <3>4. rest = [queue EXCEPT !["config"] = Tail(queue.config)]
      OBVIOUS
    <3>5. rest = [q EXCEPT !["config"] = tail]
      BY <2>1, <3>1, <3>4, Zenon
    <3> QED BY <3>1, <3>3, <3>5, Zenon
  <2> HIDE DEF rest
  <2>3. rest.config = tail /\ rest.dictionary = queue.dictionary
    BY <2>2
  <2> QED BY <2>1, <2>2, <2>3
<1>2. /\ ConfigQueue(Tail(queue.config))
      /\ Head(queue.config) \in Jobs /\ Len(queue.config) > 0 /\ Len(queue.config) \in Nat
      /\ Head(queue.config) = queue.config[1]
      /\ Tail(queue.config) # <<>> => Head(Tail(queue.config)).at = "start"
      /\ NotOfMain(queue.config) => NotOfMain(Tail(queue.config)) /\ Head(queue.config).by # "main"
  BY ConfigTail DEF QueuesOk
<1>3. IF Head(queue.config).by = "main" THEN Start(Following(phase, result), rest)
      ELSE queue' = rest /\ UNCHANGED phase
  BY DEF Finish
<1> HIDE DEF rest
<1>4. CASE Head(queue.config).by = "main"
  <2>1. CASE phase \in {"loading", "reloading", "creating"}
    <3>1. NotOfMain(queue.dictionary) /\ Len(queue.config) = 1
      BY <2>1 DEF MainOk, OnlyOfMain
    <3>2. Tail(queue.config) = <<>>
      BY <1>2, <3>1 DEF QueuesOk, ConfigQueue
    <3>3. /\ Following(phase, result) \in DOMAIN Boot
          /\ (phase = "creating" /\ result = "done") => Following(phase, result) = "reloading"
      BY <2>1, BootIs DEF Following
    <3>4. (Head(queue.config).op = "update") => phase = "creating"
      BY <1>2, <2>1 DEF MainOk, OnlyOfMain
    <3> DEFINE p == Following(phase, result)
    <3>5. p \in DOMAIN Boot /\ Start(p, rest)
      BY <1>3, <1>4, <3>3
    <3>6. DictionaryQueue(rest.dictionary) /\ NotOfMain(rest.dictionary)
          /\ rest = [config |-> <<>>, dictionary |-> rest.dictionary]
      BY <1>1, <3>1, <3>2 DEF QueuesOk
    <3> HIDE DEF p
    <3>7. /\ QueuesOk' /\ MainOk'
          /\ queue'.config # <<>> => Head(queue'.config).at = "start"
          /\ p = "reloading" => queue'.config # <<>> /\ Head(queue'.config).op = "reload"
      BY <3>5, <3>6, StartIs
    <3> QED BY <3>3, <3>4, <3>7 DEF p
  <2> QED BY <1>2, <1>4, <2>1 DEF MainOk
<1>5. CASE Head(queue.config).by # "main"
  <2>1. queue' = rest /\ phase' = phase
    BY <1>3, <1>5
  <2>2. phase = "serving" /\ NotOfMain(queue.config) /\ NotOfMain(queue.dictionary)
    BY <1>2, <1>5 DEF MainOk, OnlyOfMain
  <2>3. queue'.config = Tail(queue.config) /\ queue'.dictionary = queue.dictionary
        /\ queue' = [config |-> queue'.config, dictionary |-> queue'.dictionary]
    BY <1>1, <2>1
  <2>4. QueuesOk'
    BY <1>2, <2>3 DEF QueuesOk
  <2>5. MainOk'
    BY <1>2, <2>1, <2>2, <2>3 DEF MainOk
  <2> QED BY <1>2, <1>5, <2>3, <2>4, <2>5
<1> QED BY <1>4, <1>5

LEMMA FinishDictionaryIs ==
  ASSUME QueuesOk, MainOk, queue.dictionary # <<>>, NEW result, Finish("dictionary", result)
  PROVE  QueuesOk' /\ MainOk' /\ queue'.config = queue.config
<1> DEFINE rest == [queue EXCEPT !["dictionary"] = Tail(@)]
<1>1. /\ rest = [config |-> queue.config, dictionary |-> Tail(queue.dictionary)]
      /\ rest.config = queue.config /\ rest.dictionary = Tail(queue.dictionary)
      /\ rest = [config |-> rest.config, dictionary |-> rest.dictionary]
  BY QueueChanges DEF QueuesOk
<1> DEFINE q == queue.dictionary
<1>2. /\ DictionaryQueue(Tail(q)) /\ Head(q) \in Jobs /\ Head(q).file = "dictionary"
      /\ NotOfMain(q) => NotOfMain(Tail(q)) /\ Head(q).by # "main"
      /\ (OnceOfMain(q) /\ Head(q).by = "main") => NotOfMain(Tail(q))
      /\ (OnceOfMain(q) /\ Head(q).by # "main") => OnceOfMain(Tail(q))
      /\ (OnceOfMain(q) /\ Head(q).by = "main") => Head(q).op = "reload"
  BY DictionaryTail DEF QueuesOk
<1>3. IF Head(q).by = "main" THEN Start(Following(phase, result), rest)
      ELSE queue' = rest /\ UNCHANGED phase
  BY DEF Finish
<1> HIDE DEF rest
<1>4. CASE Head(q).by = "main"
  <2>1. phase = "dictionary" /\ queue.config = <<>> /\ OnceOfMain(q)
    BY <1>2, <1>4 DEF MainOk
  <2>2. Following(phase, result) = "loaded"
    BY <2>1 DEF Following
  <2>3. "loaded" \notin DOMAIN Boot
    BY BootIs
  <2>4. phase' = "loaded" /\ queue' = rest
    BY <1>3, <1>4, <2>2, <2>3 DEF Start
  <2>5. NotOfMain(Tail(q))
    BY <1>2, <1>4, <2>1
  <2>6. /\ queue'.config = queue.config /\ queue'.dictionary = Tail(q)
        /\ queue' = [config |-> queue'.config, dictionary |-> queue'.dictionary]
    BY <1>1, <2>4
  <2>7. QueuesOk'
    BY <1>2, <2>6 DEF QueuesOk
  <2>8. MainOk'
    BY <2>1, <2>4, <2>5, <2>6 DEF MainOk
  <2> QED BY <2>6, <2>7, <2>8
<1>5. CASE Head(q).by # "main"
  <2>1. queue' = rest /\ phase' = phase
    BY <1>3, <1>5
  <2>2. /\ queue'.config = queue.config /\ queue'.dictionary = Tail(q)
        /\ queue' = [config |-> queue'.config, dictionary |-> queue'.dictionary]
    BY <1>1, <2>1
  <2>3. QueuesOk'
    BY <1>2, <2>2 DEF QueuesOk
  <2> HIDE DEF q
  <2>4. (NotOfMain(q) => NotOfMain(queue'.dictionary)) /\ (OnceOfMain(q) => OnceOfMain(queue'.dictionary))
    BY <1>2, <1>5, <2>2
  <2>5. MainOk'
    BY <2>1, <2>2, <2>4 DEF MainOk, q
  <2> QED BY <2>2, <2>3, <2>5
<1> QED BY <1>4, <1>5

-------------------------------------------------------------------------------
(***************************************************************************)
(* The steps of an update.                                                 *)
(***************************************************************************)
LEMMA QueuesAre == QueuesOk => DOMAIN queue = {"config", "dictionary"}
<1> SUFFICES ASSUME QueuesOk PROVE DOMAIN queue = {"config", "dictionary"}
  OBVIOUS
<1>1. PICK c, d : queue = [config |-> c, dictionary |-> d]
  BY DEF QueuesOk
<1> QED BY <1>1

\* The first job of the configuration has not begun.
LEMMA KnownAtStart ==
  ASSUME queue'.config # <<>> => Head(queue'.config).at = "start",
         "config" \notin unsure' =>
            \/ config'.config = seen'.config /\ config'.config \in Configs
            \/ queue'.config # <<>> /\ Head(queue'.config).op = "reload"
  PROVE  KnownConfig' /\ Replacing'
BY DEF KnownConfig, Replacing

\* What happens to the dictionary is nothing to the runtime.
LEMMA KnownStays ==
  ASSUME RuntimeInv, queue'.config = queue.config, config' = config,
         seen'.config = seen.config, seen'.credentials = seen.credentials,
         ("config" \in unsure') <=> ("config" \in unsure),
         ("credentials" \in unsure') <=> ("credentials" \in unsure)
  PROVE  Known'
<1>1. queue.config # <<>> => Head(queue.config).file \in {"config", "credentials"}
  BY ConfigTail DEF RuntimeInv, QueuesOk, Fits
<1>2. Replacing'
  BY <1>1 DEF RuntimeInv, Known, Replacing
<1>3. KnownConfig'
  BY DEF RuntimeInv, Known, KnownConfig
<1>4. KnownCredentials'
  BY DEF RuntimeInv, Known, KnownCredentials, StoredCredentials
<1> QED BY <1>2, <1>3, <1>4 DEF Known

\* main() has nothing to update but the default configuration.
LEMMA UpdatesOfDictionary ==
  ASSUME RuntimeInv, NEW at, Running("dictionary", "update", at)
  PROVE  queue.dictionary # <<>> /\ Head(queue.dictionary).by # "main"
<1>1. DictionaryQueue(queue.dictionary) /\ queue.dictionary # <<>>
  BY DEF RuntimeInv, QueuesOk, Running
<1>2. Head(queue.dictionary).op = "update"
  BY DEF Running
<1> QED BY <1>1, <1>2, DictionaryTail DEF RuntimeInv, MainOk

LEMMA UpdateFailsKeeps ==
  ASSUME RuntimeInv, NEW m \in DOMAIN queue, NEW at, Running(m, "update", at), UpdateFails(m)
  PROVE  RuntimeInv'
<1>1. /\ Finish(m, "failed")
      /\ config' = IF Head(queue[m]).by = "main" THEN recordFailure(FALSE) ELSE config
      /\ UNCHANGED <<disk, seen, unsure>>
  BY DEF UpdateFails, files, history
<1>2. FilesOk'
  BY <1>1 DEF RuntimeInv, FilesOk, OfFiles
<1>3. MemoryOk(config') /\ config'.config = config.config /\ config'.credentials = config.credentials
  BY <1>1, FailedIsOk DEF RuntimeInv
<1>4. KnownCredentials'
  BY <1>1, <1>3 DEF RuntimeInv, Known, KnownCredentials, StoredCredentials
<1>5. CASE m = "config"
  <2>1. /\ QueuesOk' /\ MainOk'
        /\ queue'.config # <<>> => Head(queue'.config).at = "start"
    BY <1>1, <1>5, FinishConfigIs DEF RuntimeInv, Running
  <2>2. "config" \notin unsure => config.config = seen.config /\ config.config \in Configs
    BY <1>5 DEF RuntimeInv, Known, KnownConfig, Running
  <2>3. KnownConfig' /\ Replacing'
    BY <1>1, <1>3, <2>1, <2>2, KnownAtStart
  <2> QED BY <1>2, <1>3, <1>4, <2>1, <2>3 DEF RuntimeInv, Known
<1>6. CASE m = "dictionary"
  <2>1. queue.dictionary # <<>> /\ Head(queue.dictionary).by # "main"
    BY <1>6, UpdatesOfDictionary
  <2>2. QueuesOk' /\ MainOk' /\ queue'.config = queue.config
    BY <1>1, <1>6, <2>1, FinishDictionaryIs DEF RuntimeInv
  <2>3. config' = config
    BY <1>1, <1>6, <2>1
  <2>4. Known'
    BY <1>1, <2>2, <2>3, KnownStays DEF RuntimeInv
  <2> QED BY <1>2, <1>3, <2>2, <2>4 DEF RuntimeInv
<1> QED BY <1>5, <1>6, QueuesAre DEF RuntimeInv

\* The job at the head of the configuration's queue has become another.
LEMMA ConfigMoves ==
  ASSUME RuntimeInv, queue.config # <<>>, NEW j \in Jobs, Fits(j),
         j.by = Head(queue.config).by, j.op = Head(queue.config).op,
         j.file = Head(queue.config).file,
         queue' = [queue EXCEPT !["config"] = [@ EXCEPT ![1] = j]], phase' = phase
  PROVE  /\ QueuesOk' /\ MainOk'
         /\ queue'.config # <<>> /\ Head(queue'.config) = j
<1>1. ConfigQueue(queue.config)
  BY DEF RuntimeInv, QueuesOk
<1> DEFINE r == [queue.config EXCEPT ![1] = j]
<1>2. /\ ConfigQueue(r) /\ r # <<>> /\ Head(r) = j /\ r[1] = j /\ Len(r) = Len(queue.config)
      /\ NotOfMain(queue.config) => NotOfMain(r)
  BY <1>1, ConfigReplace
<1>3. Head(queue.config) = queue.config[1]
  BY <1>1, ConfigTail
<1>4. queue' = [queue EXCEPT !["config"] = r]
  OBVIOUS
<1> HIDE DEF r
<1>5. /\ queue'.config = r /\ queue'.dictionary = queue.dictionary
      /\ queue' = [config |-> queue'.config, dictionary |-> queue'.dictionary]
  <2>1. queue' = [config |-> r, dictionary |-> queue.dictionary]
    <3>1. queue = [config |-> queue.config, dictionary |-> queue.dictionary]
      BY DEF RuntimeInv, QueuesOk
    <3> QED BY <1>4, <3>1, QueueChanges
  <2>2. queue'.config = r /\ queue'.dictionary = queue.dictionary
    BY <2>1, QueueChanges
  <2> QED BY <2>1, <2>2
<1>6. QueuesOk'
  BY <1>2, <1>5 DEF RuntimeInv, QueuesOk
<1>7. \A op : OnlyOfMain(queue.config, op) => OnlyOfMain(r, op)
  BY <1>2, <1>3 DEF OnlyOfMain
<1>8. MainOk'
  BY <1>2, <1>5, <1>7 DEF RuntimeInv, MainOk
<1> QED BY <1>2, <1>5, <1>6, <1>8

LEMMA DictionaryMoves ==
  ASSUME RuntimeInv, queue.dictionary # <<>>, NEW j \in Jobs,
         j.by = Head(queue.dictionary).by, j.op = Head(queue.dictionary).op,
         j.file = Head(queue.dictionary).file,
         queue' = [queue EXCEPT !["dictionary"] = [@ EXCEPT ![1] = j]], phase' = phase
  PROVE  QueuesOk' /\ MainOk' /\ queue'.config = queue.config
<1>1. DictionaryQueue(queue.dictionary)
  BY DEF RuntimeInv, QueuesOk
<1> DEFINE r == [queue.dictionary EXCEPT ![1] = j]
<1>2. /\ DictionaryQueue(r)
      /\ NotOfMain(queue.dictionary) => NotOfMain(r)
      /\ OnceOfMain(queue.dictionary) => OnceOfMain(r)
  BY <1>1, DictionaryReplace
<1>4. queue' = [queue EXCEPT !["dictionary"] = r]
  OBVIOUS
<1> HIDE DEF r
<1>5. /\ queue'.config = queue.config /\ queue'.dictionary = r
      /\ queue' = [config |-> queue'.config, dictionary |-> queue'.dictionary]
  <2>1. queue' = [config |-> queue.config, dictionary |-> r]
    <3>1. queue = [config |-> queue.config, dictionary |-> queue.dictionary]
      BY DEF RuntimeInv, QueuesOk
    <3> QED BY <1>4, <3>1, QueueChanges
  <2>2. queue'.config = queue.config /\ queue'.dictionary = r
    BY <2>1, QueueChanges
  <2> QED BY <2>1, <2>2
<1>6. QueuesOk'
  BY <1>2, <1>5 DEF RuntimeInv, QueuesOk
<1>8. MainOk'
  BY <1>2, <1>5 DEF RuntimeInv, MainOk
<1> QED BY <1>5, <1>6, <1>8

\* What an update writes is of the kind of its file.
LEMMA ContentIs ==
  ASSUME RuntimeInv, Running("config", "update", "start"), Head(queue.config).value # Invalid
  PROVE  /\ Head(queue.config).file = "config" => Content(Head(queue.config)) \in Configs
         /\ Head(queue.config).file = "credentials" =>
              Content(Head(queue.config)) \in SUBSET Names
<1> DEFINE j == Head(queue.config)
<1>1. Fits(j) /\ j.op = "update"
  BY ConfigTail DEF RuntimeInv, QueuesOk, Running
<1>2. config.credentials \in SUBSET Names
  BY DEF RuntimeInv, MemoryOk
<1>3. j.file = "credentials" => j.value.add \in SUBSET Names
  BY <1>1 DEF Fits, Patches
<1> HIDE DEF j
<1> QED BY <1>1, <1>2, <1>3 DEF Fits, Content, j

LEMMA QueueIs ==
  ASSUME QueuesOk, NEW m \in DOMAIN queue, queue[m] # <<>>
  PROVE  /\ queue[m] \in Seq(Jobs) /\ Head(queue[m]) \in Jobs
         /\ Head(queue[m]) = queue[m][1] /\ 1 \in DOMAIN queue[m]
<1>1. queue[m] \in Seq(Jobs)
  BY QueuesAre DEF QueuesOk, ConfigQueue, DictionaryQueue
<1> QED BY <1>1, HeadIs, LenProperties

\* Two fields of the job at the head change.
LEMMA BothMove ==
  ASSUME QueuesOk, NEW m \in DOMAIN queue, queue[m] # <<>>, NEW content
  PROVE  [queue EXCEPT ![m][1].at = "rename", ![m][1].content = content]
           = [queue EXCEPT ![m] = [@ EXCEPT ![1] =
                [Head(queue[m]) EXCEPT !.at = "rename", !.content = content]]]
<1> DEFINE q == queue[m]
           j == q[1]
           first == [j EXCEPT !.at = "rename"]
           once == [q EXCEPT ![1] = first]
           Q == [queue EXCEPT ![m] = once]
<1>1. q \in Seq(Jobs) /\ Head(q) = j /\ 1 \in DOMAIN q
  BY QueueIs
<1>2. [queue EXCEPT ![m][1].at = "rename", ![m][1].content = content]
        = [Q EXCEPT ![m][1].content = content]
  OBVIOUS
<1>3. Q[m] = once /\ once[1] = first
  BY <1>1
<1>4. [Q EXCEPT ![m][1].content = content]
        = [Q EXCEPT ![m] = [once EXCEPT ![1] = [first EXCEPT !.content = content]]]
  BY <1>3
<1>5. [once EXCEPT ![1] = [first EXCEPT !.content = content]]
        = [q EXCEPT ![1] = [first EXCEPT !.content = content]]
  BY <1>1
<1>6. ASSUME NEW e
      PROVE  [Q EXCEPT ![m] = e] = [queue EXCEPT ![m] = e]
  OBVIOUS
<1>7. [first EXCEPT !.content = content] = [j EXCEPT !.at = "rename", !.content = content]
  OBVIOUS
<1> QED BY <1>1, <1>2, <1>4, <1>5, <1>6, <1>7

LEMMA StepMoves ==
  ASSUME QueuesOk, NEW m \in DOMAIN queue, queue[m] # <<>>
  PROVE  [queue EXCEPT ![m][1].at = "sync"]
           = [queue EXCEPT ![m] = [@ EXCEPT ![1] = [Head(queue[m]) EXCEPT !.at = "sync"]]]
<1>1. Head(queue[m]) = queue[m][1]
  BY QueueIs
<1> QED BY <1>1

LEMMA ConfigWrites ==
  ASSUME RuntimeInv, Running("config", "update", "start"), Head(queue.config).value # Invalid,
         NEW k, k = [Head(queue.config) EXCEPT !.at = "rename", !.content = Content(Head(queue.config))],
         queue' = [queue EXCEPT !["config"] = [@ EXCEPT ![1] = k]],
         UNCHANGED <<files, phase, config, unsure>>
  PROVE  RuntimeInv'
<1> DEFINE j == Head(queue.config)
           content == Content(j)
<1>1. queue.config # <<>> /\ j.op = "update"
  BY DEF Running
<1>2. j \in Jobs /\ Fits(j)
  BY <1>1, ConfigTail DEF RuntimeInv, QueuesOk
<1>3. /\ j.file = "config" => content \in Configs
      /\ j.file = "credentials" => content \in SUBSET Names
      /\ j.file \in {"config", "credentials"}
  BY <1>2, ContentIs DEF Fits
<1>4. k = [j EXCEPT !.at = "rename", !.content = content]
  OBVIOUS
<1> HIDE DEF j, content
<1>5. /\ k \in Jobs /\ k.by = j.by /\ k.op = j.op /\ k.file = j.file /\ k.value = j.value
      /\ k.at = "rename" /\ k.content = content
  <2>1. content \in Contents
    BY <1>3 DEF Contents, Values
  <2> QED BY <1>2, <1>4, <2>1 DEF Jobs
<1>6. Fits(k)
  BY <1>2, <1>3, <1>5 DEF Fits
<1>7. phase' = phase /\ config' = config /\ disk' = disk /\ seen' = seen /\ unsure' = unsure
  BY DEF files
<1>8. QueuesOk' /\ MainOk' /\ queue'.config # <<>> /\ Head(queue'.config) = k
  BY <1>1, <1>5, <1>6, <1>7, ConfigMoves DEF j
<1>9. MemoryOk(config') /\ FilesOk'
  BY <1>7 DEF RuntimeInv, FilesOk, OfFiles
<1>10. Known'
  <2>1. "config" \notin unsure => config.config = seen.config /\ config.config \in Configs
    BY <1>1 DEF RuntimeInv, Known, KnownConfig, j
  <2>2. KnownConfig' /\ Replacing'
    BY <1>1, <1>5, <1>7, <1>8, <2>1 DEF KnownConfig, Replacing
  <2>3. KnownCredentials'
    BY <1>7 DEF RuntimeInv, Known, KnownCredentials, StoredCredentials
  <2> QED BY <2>2, <2>3 DEF Known
<1> QED BY <1>8, <1>9, <1>10 DEF RuntimeInv

LEMMA WriteKeeps ==
  ASSUME RuntimeInv, NEW m \in DOMAIN queue, WriteTemporary(m)
  PROVE  RuntimeInv'
<1>1. CASE UpdateFails(m)
  BY <1>1, UpdateFailsKeeps DEF WriteTemporary
<1>2. CASE /\ Head(queue[m]).value # Invalid
           /\ queue' = [queue EXCEPT ![m][1].at = "rename",
                                     ![m][1].content = Content(Head(queue[m]))]
           /\ UNCHANGED <<files, phase, config, dict, bounds, history>>
  <2>1. Running(m, "update", "start") /\ UNCHANGED <<files, phase, config, unsure>>
    BY <1>2 DEF WriteTemporary, history
  <2>2. PICK c : c = Content(Head(queue[m]))
    OBVIOUS
  <2>3. PICK k : k = [Head(queue[m]) EXCEPT !.at = "rename", !.content = c]
    OBVIOUS
  <2>4. queue' = [queue EXCEPT ![m] = [@ EXCEPT ![1] = k]]
    <3>1. queue[m] # <<>> /\ QueuesOk
      BY <2>1 DEF RuntimeInv, Running
    <3>2. queue' = [queue EXCEPT ![m][1].at = "rename", ![m][1].content = c]
      BY <1>2, <2>2
    <3> QED BY <2>3, <3>1, <3>2, BothMove
  <2>5. CASE m = "config"
    BY <1>2, <2>1, <2>2, <2>3, <2>4, <2>5, ConfigWrites
  <2>6. CASE m = "dictionary"
    <3> DEFINE j == Head(queue.dictionary)
    <3>1. queue.dictionary # <<>> /\ j \in Jobs /\ j.file = "dictionary"
      BY <2>1, <2>6, DictionaryTail DEF RuntimeInv, QueuesOk, Running
    <3>2. c \in Contents
      BY <2>2, <2>6, <3>1 DEF Content, Jobs, Contents
    <3>3. k \in Jobs /\ k.by = j.by /\ k.op = j.op /\ k.file = j.file
      BY <2>3, <2>6, <3>1, <3>2 DEF Jobs
    <3>4. QueuesOk' /\ MainOk' /\ queue'.config = queue.config
      BY <2>1, <2>4, <2>6, <3>1, <3>3, DictionaryMoves
    <3>5. config' = config /\ disk' = disk /\ seen' = seen /\ unsure' = unsure
      BY <2>1 DEF files
    <3>6. MemoryOk(config') /\ FilesOk'
      BY <3>5 DEF RuntimeInv, FilesOk, OfFiles
    <3>7. Known'
      BY <3>4, <3>5, KnownStays
    <3> QED BY <3>4, <3>6, <3>7 DEF RuntimeInv
  <2> QED BY <2>5, <2>6, QueuesAre DEF RuntimeInv
<1> QED BY <1>1, <1>2 DEF WriteTemporary

\* The replaced file is of its kind, and what is said of it is what is known of it.
LEMMA RenameIsOk ==
  ASSUME RuntimeInv, NEW m \in DOMAIN queue, Rename(m)
  PROVE  RuntimeInv'
<1>1. CASE UpdateFails(m)
  BY <1>1, UpdateFailsKeeps DEF Rename
<1> DEFINE j == Head(queue[m])
<1>2. CASE /\ seen' = [seen EXCEPT ![j.file] = j.content]
           /\ queue' = [queue EXCEPT ![m][1].at = "sync"]
           /\ unsure' = unsure \cup {j.file}
           /\ UNCHANGED <<disk, phase, config, bounds, missed>>
  <2>1. /\ queue[m] # <<>> /\ j.op = "update" /\ j.at = "rename"
        /\ phase' = phase /\ config' = config /\ disk' = disk
    BY <1>2 DEF Rename, Running
  <2>2. PICK k : k = [j EXCEPT !.at = "sync"]
    OBVIOUS
  <2>3. queue' = [queue EXCEPT ![m] = [@ EXCEPT ![1] = k]]
    BY <1>2, <2>1, <2>2, StepMoves DEF RuntimeInv
  <2>4. j \in Jobs
    BY <2>1, QueueIs DEF RuntimeInv
  <2>5. MemoryOk(config')
    BY <2>1 DEF RuntimeInv
  <2>6. CASE m = "config"
    <3>1. Fits(j) /\ j = Head(queue.config)
      BY <2>1, <2>6, ConfigTail DEF RuntimeInv, QueuesOk
    <3> HIDE DEF j
    <3>2. /\ k \in Jobs /\ k.by = j.by /\ k.op = j.op /\ k.file = j.file /\ k.value = j.value
          /\ k.at = "sync" /\ k.content = j.content
      BY <2>2, <2>4 DEF Jobs
    <3>3. Fits(k)
      BY <2>1, <3>1, <3>2 DEF Fits
    <3>4. QueuesOk' /\ MainOk' /\ queue'.config # <<>> /\ Head(queue'.config) = k
      BY <2>1, <2>3, <2>6, <3>1, <3>2, <3>3, ConfigMoves
    <3>5. /\ OfFiles(seen') /\ OfFiles(disk') /\ disk'.credentials = disk.credentials
          /\ j.file # "config" => seen'.config = seen.config
          /\ j.file # "credentials" => seen'.credentials = seen.credentials
          /\ j.file = "credentials" => seen'.credentials = j.content
      BY <1>2, <2>1 DEF RuntimeInv, FilesOk, OfFiles, Files
    <3>6. FilesOk'
      BY <2>1, <3>1, <3>5 DEF RuntimeInv, FilesOk, Fits, IsSecrets
    <3>7. KnownConfig' /\ Replacing'
      BY <1>2, <2>1, <2>6, <3>1, <3>2, <3>4, <3>5 DEF RuntimeInv, Known, KnownConfig, Replacing
    <3>8. KnownCredentials'
      BY <1>2, <2>1, <3>5 DEF RuntimeInv, Known, KnownCredentials, StoredCredentials
    <3> QED BY <2>5, <3>4, <3>6, <3>7, <3>8 DEF RuntimeInv, Known
  <2>7. CASE m = "dictionary"
    <3>1. j.file = "dictionary" /\ j = Head(queue.dictionary)
      BY <2>1, <2>7, DictionaryTail DEF RuntimeInv, QueuesOk
    <3> HIDE DEF j
    <3>2. k \in Jobs /\ k.by = j.by /\ k.op = j.op /\ k.file = j.file
      BY <2>2, <2>4 DEF Jobs
    <3>3. QueuesOk' /\ MainOk' /\ queue'.config = queue.config
      BY <2>1, <2>3, <2>7, <3>1, <3>2, DictionaryMoves
    <3>4. /\ OfFiles(seen') /\ OfFiles(disk') /\ disk'.credentials = disk.credentials
          /\ seen'.config = seen.config /\ seen'.credentials = seen.credentials
      BY <1>2, <2>1, <3>1 DEF RuntimeInv, FilesOk, OfFiles, Files
    <3>5. FilesOk'
      BY <3>4 DEF RuntimeInv, FilesOk, IsSecrets
    <3>6. Known'
      BY <1>2, <2>1, <3>1, <3>3, <3>4, KnownStays
    <3> QED BY <2>5, <3>3, <3>5, <3>6 DEF RuntimeInv
  <2> QED BY <2>6, <2>7, QueuesAre DEF RuntimeInv
<1> QED BY <1>1, <1>2 DEF Rename

\* The default of main() is on the disk: its reload comes next.
LEMMA DefaultSaved ==
  ASSUME RuntimeInv, Running("config", "update", "sync"), Head(queue.config).by = "main",
         Acknowledged(Head(queue.config)), UNCHANGED <<config, seen>>,
         Finish("config", "done")
  PROVE  QueuesOk' /\ MainOk' /\ Known' /\ MemoryOk(config')
<1>1. /\ queue.config # <<>> /\ Head(queue.config).op = "update"
      /\ Head(queue.config).at = "sync"
  BY DEF Running
<1>2. /\ QueuesOk' /\ MainOk'
      /\ queue'.config # <<>> /\ Head(queue'.config).at = "start"
      /\ Head(queue'.config).op = "reload"
  BY <1>1, FinishConfigIs DEF RuntimeInv
<1>3. KnownConfig' /\ Replacing'
  BY <1>2, KnownAtStart
<1>4. Head(queue.config).file = "config"
  BY <1>1, ConfigTail DEF RuntimeInv, QueuesOk, MainOk, OnlyOfMain
<1>5. "credentials" \notin unsure' => "credentials" \notin unsure
  BY <1>4 DEF Acknowledged
<1>6. KnownCredentials'
  BY <1>5 DEF RuntimeInv, Known, KnownCredentials, StoredCredentials
<1> QED BY <1>2, <1>3, <1>6 DEF RuntimeInv, Known

\* What a request saved is in force: if it is still in the file, memory and file agree again.
LEMMA ConfigSaved ==
  ASSUME RuntimeInv, Running("config", "update", "sync"), Head(queue.config).by # "main",
         Acknowledged(Head(queue.config)), ApplySaved(Head(queue.config)), UNCHANGED seen,
         Finish("config", "done")
  PROVE  QueuesOk' /\ MainOk' /\ Known' /\ MemoryOk(config')
<1> DEFINE j == Head(queue.config)
<1>1. queue.config # <<>> /\ j.op = "update" /\ j.at = "sync"
  BY DEF Running
<1>2. /\ QueuesOk' /\ MainOk'
      /\ queue'.config # <<>> => Head(queue'.config).at = "start"
  BY <1>1, FinishConfigIs DEF RuntimeInv
<1>3. Fits(j) /\ j.file \in unsure
  BY <1>1, ConfigTail DEF RuntimeInv, QueuesOk, Known, Replacing
<1>4. /\ "config" \notin unsure => config.config = seen.config /\ config.config \in Configs
      /\ "credentials" \notin unsure => config.credentials = StoredCredentials
  BY <1>1 DEF RuntimeInv, Known, KnownConfig, KnownCredentials
<1>5. unsure' = IF seen[j.file] = j.content THEN unsure \ {j.file} ELSE unsure
  BY DEF Acknowledged
<1>6. ApplySaved(j)
  OBVIOUS
<1>7. MemoryOk(config) /\ config.credentials \in SUBSET Names
  BY DEF RuntimeInv, MemoryOk
<1> HIDE DEF j
<1>8. StoredCredentials' = StoredCredentials
  BY DEF StoredCredentials
<1>9. CASE j.file = "config"
  <2>1. j.content \in Configs
    BY <1>1, <1>3, <1>9 DEF Fits
  <2>2. config' = applyConfiguration(j.content, config.credentials)
    BY <1>6, <1>9 DEF ApplySaved
  <2>3. /\ MemoryOk(config') /\ config'.config = j.content
        /\ config'.credentials = config.credentials
    BY <1>7, <2>1, <2>2, AppliedIsOk
  <2>4. /\ "config" \notin unsure' => seen.config = j.content
        /\ "credentials" \notin unsure' => "credentials" \notin unsure
    BY <1>3, <1>5, <1>9
  <2>5. KnownConfig' /\ Replacing'
    BY <1>2, <2>1, <2>3, <2>4, KnownAtStart
  <2>6. KnownCredentials'
    BY <1>4, <1>8, <2>3, <2>4 DEF KnownCredentials
  <2> QED BY <1>2, <2>3, <2>5, <2>6 DEF Known
<1>10. CASE j.file = "credentials"
  <2>1. j.content \in SUBSET Names
    BY <1>1, <1>3, <1>10 DEF Fits
  <2>2. config' = IF config.config # None THEN applyConfiguration(config.config, j.content)
                  ELSE [config EXCEPT !.credentials = j.content]
    BY <1>6, <1>10 DEF ApplySaved
  <2>3. /\ MemoryOk(config') /\ config'.config = config.config
        /\ config'.credentials = j.content
    <3>1. CASE config.config # None
      <4>1. config.config \in Configs
        BY <1>7, <3>1 DEF MemoryOk
      <4> QED BY <2>1, <2>2, <3>1, <4>1, AppliedIsOk
    <3>2. CASE config.config = None
      BY <1>7, <2>1, <2>2, <3>2, CredentialsAreOk
    <3> QED BY <3>1, <3>2
  <2>4. /\ "credentials" \notin unsure' => seen.credentials = j.content
        /\ "config" \notin unsure' => "config" \notin unsure
    BY <1>3, <1>5, <1>10
  <2>5. KnownConfig' /\ Replacing'
    BY <1>2, <1>4, <2>3, <2>4, KnownAtStart
  <2>6. seen.credentials = j.content => StoredCredentials = j.content
    BY <2>1, NoneIsNothing DEF StoredCredentials
  <2>7. KnownCredentials'
    BY <1>8, <2>3, <2>4, <2>6 DEF KnownCredentials
  <2> QED BY <1>2, <2>3, <2>5, <2>7 DEF Known
<1> QED BY <1>3, <1>9, <1>10 DEF Fits

LEMMA SyncIsOk ==
  ASSUME RuntimeInv, NEW m \in DOMAIN queue, SyncDirectory(m)
  PROVE  RuntimeInv'
<1>1. CASE UpdateFails(m)
  BY <1>1, UpdateFailsKeeps DEF SyncDirectory
<1> DEFINE j == Head(queue[m])
<1>2. CASE /\ disk' = [disk EXCEPT ![j.file] = j.content]
           /\ Acknowledged(j)
           /\ IF j.by = "main" THEN UNCHANGED <<config, dict>> ELSE ApplySaved(j)
           /\ Finish(m, "done")
           /\ UNCHANGED <<seen, bounds>>
  <2>1. Running(m, "update", "sync")
    BY DEF SyncDirectory
  <2>2. CASE m = "config"
    <3>1. QueuesOk' /\ MainOk' /\ Known' /\ MemoryOk(config')
      BY <1>2, <2>1, <2>2, DefaultSaved, ConfigSaved
    <3>2. Fits(j) /\ j.at = "sync"
      BY <2>1, <2>2, ConfigTail DEF RuntimeInv, QueuesOk, Running
    <3> HIDE DEF j
    <3>3. /\ OfFiles(seen') /\ OfFiles(disk') /\ seen'.credentials = seen.credentials
          /\ j.file # "credentials" => disk'.credentials = disk.credentials
          /\ j.file = "credentials" => disk'.credentials = j.content
      BY <1>2 DEF RuntimeInv, FilesOk, OfFiles, Files
    <3>4. FilesOk'
      BY <3>2, <3>3 DEF RuntimeInv, FilesOk, Fits, IsSecrets
    <3> QED BY <3>1, <3>4 DEF RuntimeInv
  <2>3. CASE m = "dictionary"
    <3>1. queue.dictionary # <<>> /\ j.by # "main" /\ j.file = "dictionary"
      BY <2>1, <2>3, UpdatesOfDictionary, DictionaryTail DEF RuntimeInv, QueuesOk, Running
    <3>2. QueuesOk' /\ MainOk' /\ queue'.config = queue.config
      BY <1>2, <2>3, <3>1, FinishDictionaryIs DEF RuntimeInv
    <3>3. Acknowledged(j) /\ ApplySaved(j)
      BY <1>2, <3>1
    <3> HIDE DEF j
    <3>4. /\ OfFiles(seen') /\ OfFiles(disk') /\ seen'.credentials = seen.credentials
          /\ seen'.config = seen.config /\ disk'.credentials = disk.credentials
      BY <1>2, <3>1 DEF RuntimeInv, FilesOk, OfFiles, Files
    <3>5. FilesOk'
      BY <3>4 DEF RuntimeInv, FilesOk, IsSecrets
    <3>6. config' = config
      BY <3>1, <3>3 DEF ApplySaved
    <3>7. /\ ("config" \in unsure') <=> ("config" \in unsure)
          /\ ("credentials" \in unsure') <=> ("credentials" \in unsure)
      BY <3>1, <3>3 DEF Acknowledged
    <3>8. Known'
      BY <3>2, <3>4, <3>6, <3>7, KnownStays
    <3> QED BY <3>2, <3>5, <3>6, <3>8 DEF RuntimeInv
  <2> QED BY <2>2, <2>3, QueuesAre DEF RuntimeInv
<1> QED BY <1>1, <1>2 DEF SyncDirectory

-------------------------------------------------------------------------------
(***************************************************************************)
(* The steps of a reload.                                                  *)
(***************************************************************************)
\* The same of a reload.
LEMMA ReadMoves ==
  ASSUME QueuesOk, NEW m \in DOMAIN queue, queue[m] # <<>>, NEW content
  PROVE  [queue EXCEPT ![m][1].at = "credentials", ![m][1].content = content]
           = [queue EXCEPT ![m] = [@ EXCEPT ![1] =
                [Head(queue[m]) EXCEPT !.at = "credentials", !.content = content]]]
<1> DEFINE q == queue[m]
           j == q[1]
           first == [j EXCEPT !.at = "credentials"]
           once == [q EXCEPT ![1] = first]
           Q == [queue EXCEPT ![m] = once]
<1>1. q \in Seq(Jobs) /\ Head(q) = j /\ 1 \in DOMAIN q
  BY QueueIs
<1>2. [queue EXCEPT ![m][1].at = "credentials", ![m][1].content = content]
        = [Q EXCEPT ![m][1].content = content]
  OBVIOUS
<1>3. Q[m] = once /\ once[1] = first
  BY <1>1
<1>4. [Q EXCEPT ![m][1].content = content]
        = [Q EXCEPT ![m] = [once EXCEPT ![1] = [first EXCEPT !.content = content]]]
  BY <1>3
<1>5. [once EXCEPT ![1] = [first EXCEPT !.content = content]]
        = [q EXCEPT ![1] = [first EXCEPT !.content = content]]
  BY <1>1
<1>6. ASSUME NEW e
      PROVE  [Q EXCEPT ![m] = e] = [queue EXCEPT ![m] = e]
  OBVIOUS
<1>7. [first EXCEPT !.content = content] = [j EXCEPT !.at = "credentials", !.content = content]
  OBVIOUS
<1> QED BY <1>1, <1>2, <1>4, <1>5, <1>6, <1>7

LEMMA LoadConfigKeeps ==
  ASSUME RuntimeInv, LoadConfig
  PROVE  RuntimeInv'
<1> DEFINE j == Head(queue.config)
<1>1. /\ queue.config # <<>> /\ j.op = "reload" /\ j.at = "start"
      /\ UNCHANGED <<disk, seen>>
  BY DEF LoadConfig, Running, files
<1>2. j \in Jobs /\ Fits(j)
  BY <1>1, ConfigTail DEF RuntimeInv, QueuesOk
<1>3. FilesOk' /\ StoredCredentials' = StoredCredentials
  BY <1>1 DEF RuntimeInv, FilesOk, OfFiles, StoredCredentials
<1>4. CASE ValidConfig
  <2>1. /\ queue' = [queue EXCEPT !["config"][1].at = "credentials",
                                  !["config"][1].content = seen.config]
        /\ unsure' = unsure \ {"config"} /\ phase' = phase /\ config' = config
    BY <1>4 DEF LoadConfig
  <2>2. seen.config \in Configs
    BY <1>4 DEF ValidConfig
  <2>3. PICK k : k = [j EXCEPT !.at = "credentials", !.content = seen.config]
    OBVIOUS
  <2>4. queue' = [queue EXCEPT !["config"] = [@ EXCEPT ![1] = k]]
    <3>1. \A m \in DOMAIN queue : \A content :
            QueuesOk /\ queue[m] # <<>> =>
              [queue EXCEPT ![m][1].at = "credentials", ![m][1].content = content]
                = [queue EXCEPT ![m] = [@ EXCEPT ![1] =
                     [Head(queue[m]) EXCEPT !.at = "credentials", !.content = content]]]
      BY ReadMoves
    <3>2. PICK m \in DOMAIN queue : m = "config"
      BY QueuesAre DEF RuntimeInv
    <3>3. queue' = [queue EXCEPT ![m][1].at = "credentials", ![m][1].content = seen.config]
      BY <2>1, <3>2
    <3>4. k = [Head(queue[m]) EXCEPT !.at = "credentials", !.content = seen.config]
      BY <2>3, <3>2
    <3>5. QueuesOk /\ queue[m] # <<>>
      BY <1>1, <3>2 DEF RuntimeInv
    <3>6. queue' = [queue EXCEPT ![m] = [@ EXCEPT ![1] = k]]
      BY <3>1, <3>3, <3>4, <3>5
    <3> QED BY <3>2, <3>6
  <2> HIDE DEF j
  <2>5. /\ k \in Jobs /\ k.by = j.by /\ k.op = j.op /\ k.file = j.file /\ k.value = j.value
        /\ k.at = "credentials" /\ k.content = seen.config
    <3>1. seen.config \in Contents
      BY <2>2 DEF Contents, Values
    <3> QED BY <1>2, <2>3, <3>1 DEF Jobs
  <2>6. Fits(k)
    BY <1>1, <1>2, <2>2, <2>5 DEF Fits
  <2>7. QueuesOk' /\ MainOk' /\ queue'.config # <<>> /\ Head(queue'.config) = k
    BY <1>1, <2>1, <2>4, <2>5, <2>6, ConfigMoves DEF j
  <2>8. KnownConfig' /\ Replacing'
    BY <1>1, <2>5, <2>7 DEF KnownConfig, Replacing
  <2>9. KnownCredentials'
    BY <1>3, <2>1 DEF RuntimeInv, Known, KnownCredentials
  <2> QED BY <1>3, <2>1, <2>7, <2>8, <2>9 DEF RuntimeInv, Known
<1>5. CASE ~ValidConfig
  <2>1. /\ config' = recordFailure(seen.config = None)
        /\ Finish("config", IF seen.config = None THEN "missing" ELSE "failed")
        /\ unsure' = unsure \cup {"config", "credentials"}
    BY <1>5 DEF LoadConfig
  <2>2. MemoryOk(config')
    <3>1. PICK missing : missing = (seen.config = None)
      OBVIOUS
    <3>2. config' = recordFailure(missing)
      BY <2>1, <3>1
    <3> QED BY <3>2, FailedIsOk DEF RuntimeInv
  <2>3. /\ QueuesOk' /\ MainOk'
        /\ queue'.config # <<>> => Head(queue'.config).at = "start"
    BY <1>1, <2>1, FinishConfigIs DEF RuntimeInv
  <2>4. KnownConfig' /\ Replacing'
    BY <2>1, <2>3, KnownAtStart
  <2>5. KnownCredentials'
    BY <2>1 DEF KnownCredentials
  <2> QED BY <1>3, <2>2, <2>3, <2>4, <2>5 DEF RuntimeInv, Known
<1> QED BY <1>4, <1>5

LEMMA LoadCredentialsKeeps ==
  ASSUME RuntimeInv, LoadCredentials
  PROVE  RuntimeInv'
<1> DEFINE j == Head(queue.config)
<1>1. /\ queue.config # <<>> /\ j.op = "reload" /\ j.at = "credentials"
      /\ UNCHANGED <<disk, seen>>
  BY DEF LoadCredentials, Running, files
<1>2. Fits(j) /\ ("config" \notin unsure => j.content = seen.config)
  BY <1>1, ConfigTail DEF RuntimeInv, QueuesOk, Known, KnownConfig
<1>3. FilesOk' /\ StoredCredentials' = StoredCredentials
  BY <1>1 DEF RuntimeInv, FilesOk, OfFiles, StoredCredentials
<1>4. CASE seen.credentials # Invalid
  <2>1. /\ config' = applyConfiguration(j.content, StoredCredentials)
        /\ Finish("config", "done")
        /\ unsure' = unsure \ {"credentials"}
    BY <1>4 DEF LoadCredentials
  <2>2. j.content \in Configs
    BY <1>1, <1>2 DEF Fits
  <2>3. StoredCredentials \in SUBSET Names
    BY <1>4 DEF RuntimeInv, FilesOk, IsSecrets, StoredCredentials
  <2> HIDE DEF j
  <2>4. /\ MemoryOk(config') /\ config'.config = j.content
        /\ config'.credentials = StoredCredentials
    BY <2>1, <2>2, <2>3, AppliedIsOk
  <2>5. /\ QueuesOk' /\ MainOk'
        /\ queue'.config # <<>> => Head(queue'.config).at = "start"
    BY <1>1, <2>1, FinishConfigIs DEF RuntimeInv
  <2>6. KnownConfig' /\ Replacing'
    BY <1>1, <1>2, <2>1, <2>2, <2>4, <2>5, KnownAtStart
  <2>7. KnownCredentials'
    BY <1>3, <2>4 DEF KnownCredentials
  <2> QED BY <1>3, <2>4, <2>5, <2>6, <2>7 DEF RuntimeInv, Known
<1>5. CASE seen.credentials = Invalid
  <2>1. /\ config' = recordFailure(FALSE)
        /\ Finish("config", "failed")
        /\ unsure' = unsure \cup {"config", "credentials"}
    BY <1>5 DEF LoadCredentials
  <2>2. MemoryOk(config')
    BY <2>1, FailedIsOk DEF RuntimeInv
  <2>3. /\ QueuesOk' /\ MainOk'
        /\ queue'.config # <<>> => Head(queue'.config).at = "start"
    BY <1>1, <2>1, FinishConfigIs DEF RuntimeInv
  <2>4. KnownConfig' /\ Replacing'
    BY <2>1, <2>3, KnownAtStart
  <2>5. KnownCredentials'
    BY <2>1 DEF KnownCredentials
  <2> QED BY <1>3, <2>2, <2>3, <2>4, <2>5 DEF RuntimeInv, Known
<1> QED BY <1>4, <1>5

\* What neither the files nor the configuration's memory and queue are changed by.
LEMMA DictionaryKeeps ==
  ASSUME RuntimeInv, QueuesOk', MainOk', queue'.config = queue.config,
         UNCHANGED <<disk, seen, config, unsure>>
  PROVE  RuntimeInv'
<1>1. MemoryOk(config') /\ FilesOk'
  BY DEF RuntimeInv, FilesOk, OfFiles
<1>2. Known'
  BY KnownStays
<1> QED BY <1>1, <1>2 DEF RuntimeInv

LEMMA LoadDictionaryKeeps ==
  ASSUME RuntimeInv, LoadDictionary
  PROVE  RuntimeInv'
<1>1. /\ queue.dictionary # <<>> /\ Finish("dictionary", "done")
      /\ UNCHANGED <<disk, seen, config, unsure>>
  BY DEF LoadDictionary, Running, files
<1>2. QueuesOk' /\ MainOk' /\ queue'.config = queue.config
  BY <1>1, FinishDictionaryIs DEF RuntimeInv
<1> QED BY <1>1, <1>2, DictionaryKeeps

-------------------------------------------------------------------------------
(***************************************************************************)
(* The watcher and the environment.                                        *)
(***************************************************************************)
LEMMA StartWatchingKeeps ==
  ASSUME RuntimeInv, StartWatching
  PROVE  RuntimeInv'
<1>1. /\ phase = "loaded" /\ phase' = "serving" /\ queue' = queue
      /\ UNCHANGED <<disk, seen, config, unsure>>
  BY DEF StartWatching, files, history
<1>2. QueuesOk'
  BY <1>1 DEF RuntimeInv, QueuesOk
<1>3. NotOfMain(<<>>)
  BY DEF NotOfMain
<1>4. MainOk'
  BY <1>1, <1>3 DEF RuntimeInv, MainOk
<1> QED BY <1>1, <1>2, <1>4, DictionaryKeeps

LEMMA FileChangedKeeps ==
  ASSUME RuntimeInv, FileChanged
  PROVE  RuntimeInv'
<1>1. queue' = queue /\ phase' = phase /\ UNCHANGED <<disk, seen, config, unsure>>
  BY DEF FileChanged, files, history
<1>2. QueuesOk' /\ MainOk'
  BY <1>1 DEF RuntimeInv, QueuesOk, MainOk
<1> QED BY <1>1, <1>2, DictionaryKeeps

\* A job for the dictionary that is not main's.
LEMMA DictionaryAsked ==
  ASSUME RuntimeInv, NEW j \in Jobs, j.by # "main", j.file = "dictionary",
         queue' = [queue EXCEPT !["dictionary"] = Append(@, j)], phase' = phase
  PROVE  QueuesOk' /\ MainOk' /\ queue'.config = queue.config
<1> DEFINE q == queue.dictionary
           r == Append(q, j)
<1>1. DictionaryQueue(q)
  BY DEF RuntimeInv, QueuesOk
<1>2. /\ DictionaryQueue(r)
      /\ NotOfMain(q) => NotOfMain(r)
      /\ OnceOfMain(q) => OnceOfMain(r)
  BY <1>1, DictionaryAppend
<1>3. queue' = [queue EXCEPT !["dictionary"] = r]
  OBVIOUS
<1> HIDE DEF r
<1>4. queue' = [config |-> queue.config, dictionary |-> r]
  <2>1. queue = [config |-> queue.config, dictionary |-> queue.dictionary]
    BY DEF RuntimeInv, QueuesOk
  <2> QED BY <1>3, <2>1, QueueChanges
<1>5. queue'.config = queue.config /\ queue'.dictionary = r
  BY <1>4, QueueChanges
<1>6. QueuesOk'
  BY <1>2, <1>4, <1>5 DEF RuntimeInv, QueuesOk
<1>7. MainOk'
  BY <1>2, <1>5 DEF RuntimeInv, MainOk
<1> QED BY <1>5, <1>6, <1>7

LEMMA ReloadTimerKeeps ==
  ASSUME RuntimeInv, ReloadTimer
  PROVE  RuntimeInv'
<1> DEFINE j == Job("watcher", "reload", "dictionary", None)
<1>1. j \in Jobs /\ j.by # "main" /\ j.file = "dictionary"
  BY JobIs, JobIsOne DEF Files, Values
<1>2. /\ queue' = [queue EXCEPT !["dictionary"] = Append(@, j)] /\ phase' = phase
      /\ UNCHANGED <<disk, seen, config, unsure>>
  BY DEF ReloadTimer, files, history
<1> HIDE DEF j
<1>3. QueuesOk' /\ MainOk' /\ queue'.config = queue.config
  BY <1>1, <1>2, DictionaryAsked
<1> QED BY <1>2, <1>3, DictionaryKeeps

\* Requests wait behind what runs.
LEMMA RequestKeeps ==
  ASSUME RuntimeInv, NEW op \in {"reload", "update"}, NEW file \in Files, NEW value \in Values,
         Request(op, file, value),
         (file = "config" /\ op = "update") => value \in Configs \cup {Invalid},
         file = "credentials" => op = "update" /\ value \in Patches
  PROVE  RuntimeInv'
<1> DEFINE j == Job("request", op, file, value)
<1>1. /\ j \in Jobs /\ j.by = "request" /\ j.op = op /\ j.file = file /\ j.value = value
      /\ j.at = "start"
  BY JobIs, JobIsOne
<1>2. /\ phase = "serving" /\ phase' = phase
      /\ queue' = [queue EXCEPT ![Manager(file)] = Append(@, j)]
      /\ UNCHANGED <<disk, seen, config, unsure>>
  BY DEF Request, files, history
<1> HIDE DEF j
<1>3. CASE file = "dictionary"
  <2>1. queue' = [queue EXCEPT !["dictionary"] = Append(@, j)]
    BY <1>2, <1>3 DEF Manager
  <2>2. QueuesOk' /\ MainOk' /\ queue'.config = queue.config
    BY <1>1, <1>2, <1>3, <2>1, DictionaryAsked
  <2> QED BY <1>2, <2>2, DictionaryKeeps
<1>4. CASE file # "dictionary"
  <2> DEFINE q == queue.config
             r == Append(q, j)
  <2>1. queue' = [queue EXCEPT !["config"] = r]
    BY <1>2, <1>4 DEF Manager
  <2>2. Fits(j)
    BY <1>1, <1>4 DEF Fits, Files
  <2>3. ConfigQueue(q)
    BY DEF RuntimeInv, QueuesOk
  <2>4. /\ ConfigQueue(r) /\ r # <<>>
        /\ q # <<>> => Head(r) = Head(q)
        /\ q = <<>> => Head(r) = j
        /\ NotOfMain(q) => NotOfMain(r)
    BY <1>1, <2>2, <2>3, ConfigAppend
  <2> HIDE DEF r
  <2>5. queue' = [config |-> r, dictionary |-> queue.dictionary]
    <3>1. queue = [config |-> queue.config, dictionary |-> queue.dictionary]
      BY DEF RuntimeInv, QueuesOk
    <3> QED BY <2>1, <3>1, QueueChanges
  <2>6. queue'.config = r /\ queue'.dictionary = queue.dictionary
    BY <2>5, QueueChanges
  <2>7. QueuesOk'
    BY <2>4, <2>5, <2>6 DEF RuntimeInv, QueuesOk
  <2>8. MainOk'
    BY <1>2, <2>4, <2>6 DEF RuntimeInv, MainOk
  <2>9. MemoryOk(config') /\ FilesOk'
    BY <1>2 DEF RuntimeInv, FilesOk, OfFiles
  <2>10. KnownConfig' /\ Replacing'
    <3>1. CASE q = <<>>
      BY <1>1, <1>2, <2>4, <2>6, <3>1 DEF RuntimeInv, Known, KnownConfig, Replacing
    <3>2. CASE q # <<>>
      BY <1>2, <2>4, <2>6, <3>2 DEF RuntimeInv, Known, KnownConfig, Replacing
    <3> QED BY <3>1, <3>2
  <2>11. KnownCredentials'
    BY <1>2 DEF RuntimeInv, Known, KnownCredentials, StoredCredentials
  <2> QED BY <2>7, <2>8, <2>9, <2>10, <2>11 DEF RuntimeInv, Known
<1> QED BY <1>3, <1>4

LEMMA AskedKeeps ==
  ASSUME RuntimeInv, Asked
  PROVE  RuntimeInv'
<1>1. ASSUME NEW content \in Configs \cup {Invalid}, Request("update", "config", content)
      PROVE  RuntimeInv'
  BY <1>1, RequestKeeps DEF Files, Values
<1>2. ASSUME NEW add \in SUBSET Names, NEW drop \in SUBSET Names,
             Request("update", "credentials", [add |-> add, drop |-> drop])
      PROVE  RuntimeInv'
  <2>1. [add |-> add, drop |-> drop] \in Patches
    BY DEF Patches
  <2> DEFINE value == [add |-> add, drop |-> drop]
  <2> HIDE DEF value
  <2>2. value \in Values /\ Request("update", "credentials", value)
    BY <1>2, <2>1 DEF Values, value
  <2> QED BY <2>1, <2>2, RequestKeeps DEF Files, value
<1>3. ASSUME NEW content \in Dictionaries \cup {Invalid}, Request("update", "dictionary", content)
      PROVE  RuntimeInv'
  BY <1>3, RequestKeeps DEF Files, Values
<1>4. ASSUME NEW file \in {"config", "dictionary"}, Request("reload", file, None)
      PROVE  RuntimeInv'
  BY <1>4, RequestKeeps DEF Files, Values
<1> QED BY <1>1, <1>2, <1>3, <1>4 DEF Asked

\* A file that somebody else changed is unsure.
LEMMA EditKeeps ==
  ASSUME RuntimeInv, NEW file \in Files, NEW content, HandEdit(file, content),
         file = "credentials" => content = Invalid
  PROVE  RuntimeInv'
<1>1. /\ seen' = [seen EXCEPT ![file] = content] /\ unsure' = unsure \cup {file}
      /\ disk' = disk /\ phase' = phase /\ config' = config /\ queue' = queue
  BY DEF HandEdit
<1>2. /\ OfFiles(seen') /\ OfFiles(disk')
      /\ file # "config" => seen'.config = seen.config
      /\ file # "credentials" => seen'.credentials = seen.credentials
      /\ file = "credentials" => seen'.credentials = content
  BY <1>1 DEF RuntimeInv, FilesOk, OfFiles, Files
<1>3. FilesOk'
  BY <1>1, <1>2 DEF RuntimeInv, FilesOk, IsSecrets
<1>4. QueuesOk' /\ MainOk' /\ MemoryOk(config')
  BY <1>1 DEF RuntimeInv, QueuesOk, MainOk
<1>5. KnownConfig' /\ Replacing'
  BY <1>1, <1>2 DEF RuntimeInv, Known, KnownConfig, Replacing
<1>6. KnownCredentials'
  BY <1>1, <1>2 DEF RuntimeInv, Known, KnownCredentials, StoredCredentials
<1> QED BY <1>3, <1>4, <1>5, <1>6 DEF RuntimeInv, Known

LEMMA EditedKeeps ==
  ASSUME RuntimeInv, Edited
  PROVE  RuntimeInv'
BY EditKeeps DEF Edited, Files

\* Nobody works, and nothing is known of the files.
LEMMA NobodyWorks ==
  ASSUME queue = [config |-> <<>>, dictionary |-> <<>>], phase = "off", unsure = Files
  PROVE  QueuesOk /\ MainOk /\ Known
<1>1. queue.config = <<>> /\ queue.dictionary = <<>>
  BY QueueChanges
<1>2. ConfigQueue(<<>>) /\ DictionaryQueue(<<>>) /\ NotOfMain(<<>>)
  BY DEF ConfigQueue, DictionaryQueue, NotOfMain
<1>3. QueuesOk
  BY <1>1, <1>2 DEF QueuesOk
<1>4. MainOk
  BY <1>1, <1>2 DEF MainOk
<1>5. Known
  BY <1>1 DEF Known, KnownConfig, KnownCredentials, Replacing, Files
<1> QED BY <1>3, <1>4, <1>5

LEMMA StopIsOk ==
  ASSUME RuntimeInv, Stop
  PROVE  RuntimeInv'
<1>1. /\ phase' = "off" /\ config' = NewConfig /\ unsure' = Files
      /\ queue' = [config |-> <<>>, dictionary |-> <<>>]
  BY DEF Stop
<1>2. QueuesOk' /\ MainOk' /\ Known'
  <2>1. queue'.config = <<>> /\ queue'.dictionary = <<>>
    BY <1>1, QueueChanges
  <2>2. ConfigQueue(<<>>) /\ DictionaryQueue(<<>>) /\ NotOfMain(<<>>)
    BY DEF ConfigQueue, DictionaryQueue, NotOfMain
  <2>3. QueuesOk'
    BY <1>1, <2>1, <2>2 DEF QueuesOk
  <2>4. MainOk'
    BY <1>1, <2>1, <2>2 DEF MainOk
  <2>5. Known'
    BY <1>1, <2>1 DEF Known, KnownConfig, KnownCredentials, Replacing, Files
  <2> QED BY <2>3, <2>4, <2>5
<1>3. FilesOk'
  <2>1. CASE UNCHANGED files
    BY <2>1 DEF RuntimeInv, FilesOk, OfFiles, files
  <2>2. ASSUME NEW left \in [Files -> BOOLEAN],
               seen' = [f \in Files |-> IF left[f] THEN seen[f] ELSE disk[f]], disk' = seen'
        PROVE  FilesOk'
    <3>1. OfFiles(seen') /\ OfFiles(disk')
      BY <2>2 DEF OfFiles
    <3>2. seen'.credentials \in {seen.credentials, disk.credentials}
          /\ disk'.credentials = seen'.credentials
      BY <2>2 DEF Files
    <3> QED BY <3>1, <3>2 DEF RuntimeInv, FilesOk
  <2> QED BY <2>1, <2>2 DEF Stop
<1>4. MemoryOk(config')
  BY <1>1, NewIsOk
<1> QED BY <1>2, <1>3, <1>4 DEF RuntimeInv

LEMMA LaunchKeeps ==
  ASSUME RuntimeInv, Launch
  PROVE  RuntimeInv'
<1>1. /\ phase = "off" /\ Start("loading", queue)
      /\ UNCHANGED <<disk, seen, config, unsure>>
  BY DEF Launch, files, history
<1>2. /\ queue = [config |-> <<>>, dictionary |-> queue.dictionary]
      /\ DictionaryQueue(queue.dictionary) /\ NotOfMain(queue.dictionary)
  BY <1>1 DEF RuntimeInv, QueuesOk, MainOk
<1>3. "loading" \in DOMAIN Boot
  BY BootIs
<1>4. /\ QueuesOk' /\ MainOk' /\ queue'.config # <<>>
      /\ Head(queue'.config).at = "start" /\ Head(queue'.config).op = "reload"
  <2>1. /\ QueuesOk' /\ MainOk'
        /\ queue'.config # <<>> => Head(queue'.config).at = "start"
    BY <1>1, <1>2, <1>3, StartIs
  <2>2. phase' = "loading"
    BY <1>1 DEF Start
  <2>3. OnlyOfMain(queue'.config, "reload")
    BY <2>1, <2>2 DEF MainOk
  <2>4. queue'.config # <<>>
    BY <2>3 DEF OnlyOfMain
  <2>5. Head(queue'.config) = queue'.config[1]
    BY <2>1, <2>4, HeadIs DEF QueuesOk, ConfigQueue
  <2> QED BY <2>1, <2>3, <2>4, <2>5 DEF OnlyOfMain
<1>5. KnownConfig' /\ Replacing'
  BY <1>4, KnownAtStart
<1>6. KnownCredentials'
  BY <1>1 DEF RuntimeInv, Known, KnownCredentials, StoredCredentials
<1>7. MemoryOk(config') /\ FilesOk'
  BY <1>1 DEF RuntimeInv, FilesOk, OfFiles
<1> QED BY <1>4, <1>5, <1>6, <1>7 DEF RuntimeInv, Known

LEMMA RuntimeStep ==
  ASSUME RuntimeInv, [Next]_vars
  PROVE  RuntimeInv'
<1>1. CASE \E m \in DOMAIN queue : WriteTemporary(m) \/ Rename(m) \/ SyncDirectory(m)
  BY <1>1, WriteKeeps, RenameIsOk, SyncIsOk
<1>2. CASE LoadConfig \/ LoadCredentials \/ LoadDictionary
  BY <1>2, LoadConfigKeeps, LoadCredentialsKeeps, LoadDictionaryKeeps
<1>3. CASE StartWatching \/ FileChanged \/ ReloadTimer
  BY <1>3, StartWatchingKeeps, FileChangedKeeps, ReloadTimerKeeps
<1>4. CASE Launch \/ Asked \/ Edited \/ Stop
  BY <1>4, LaunchKeeps, AskedKeeps, EditedKeeps, StopIsOk
<1>5. CASE UNCHANGED vars
  <2>1. queue' = queue /\ phase' = phase /\ UNCHANGED <<disk, seen, config, unsure>>
    BY <1>5 DEF vars, files, history
  <2>2. QueuesOk' /\ MainOk'
    BY <2>1 DEF RuntimeInv, QueuesOk, MainOk
  <2> QED BY <2>1, <2>2, DictionaryKeeps
<1> QED BY <1>1, <1>2, <1>3, <1>4, <1>5 DEF Next, Steps

LEMMA RuntimeStart == Init => RuntimeInv
<1> SUFFICES ASSUME Init PROVE RuntimeInv
  OBVIOUS
<1>1. PICK file : seen = [config |-> file, credentials |-> None, dictionary |-> None]
  BY DEF Init
<1>2. FilesOk
  BY <1>1 DEF Init, FilesOk, OfFiles, IsSecrets, Files
<1>3. QueuesOk /\ MainOk /\ Known
  BY NobodyWorks DEF Init
<1>4. MemoryOk(config)
  BY NewIsOk DEF Init
<1> QED BY <1>2, <1>3, <1>4 DEF RuntimeInv

LEMMA RuntimeAlways == Spec => []RuntimeInv
BY RuntimeStart, RuntimeStep, PTL DEF Spec

-------------------------------------------------------------------------------
\* RuntimeIsStored: when no operation runs and the files were not changed behind the
\* manager's back, the providers are those of the files (#applyConfiguration after every
\* successful save and reload, the queue of #enqueue).
THEOREM RuntimeCorrect == Spec => []RuntimeIsStored
<1>1. RuntimeInv => RuntimeIsStored
  <2> SUFFICES ASSUME RuntimeInv, phase = "serving", queue["config"] = <<>>,
                      unsure \cap {"config", "credentials"} = {}
               PROVE  /\ config.config = seen.config
                      /\ config.asr = createAsrProvider(seen.config, StoredCredentials)
                      /\ config.polisher
                           = resolveTextPolisherProvider(seen.config, StoredCredentials)
    BY DEF RuntimeIsStored, Idle
  <2>1. /\ config.config = seen.config /\ config.config \in Configs
        /\ config.credentials = StoredCredentials
    BY DEF RuntimeInv, Known, KnownConfig, KnownCredentials
  <2> QED BY <2>1, NoneIsNothing DEF RuntimeInv, MemoryOk, Providers
<1> QED BY <1>1, RuntimeAlways, PTL

\* ReadyMeansProvider: the status says "ready" exactly while the recogniser is there, and the
\* polisher if it is enabled, whatever fails later (#recordFailure keeps the state of what
\* still runs); and what it tells beside the state accounts for it: if it is not "ready",
\* there is an error, and a setting or a credential that is required is missing
\* (#applyConfiguration, getStatus, and what resolveAsrProvider and createTextPolisher throw).
THEOREM ReadyIsTrue == Spec => []ReadyMeansProvider
<1>1. RuntimeInv => ReadyMeansProvider
  <2> SUFFICES ASSUME RuntimeInv PROVE ReadyMeansProvider
    OBVIOUS
  <2>1. CASE config.config = None /\ config.asr = None /\ config.polisher = None
             /\ config.state # "ready"
    BY <2>1 DEF ReadyMeansProvider
  <2>2. CASE config.config \in Configs /\ Providers(config)
    <3> DEFINE content == config.config
    <3>1. config.credentials \in SUBSET Names /\ content # None
      BY <2>2, NoneIsNothing DEF RuntimeInv, MemoryOk
    <3>2. /\ (config.asr # None) <=>
               (content \in Complete /\ AsrNeeds[content] \subseteq config.credentials)
          /\ (config.polisher # None) <=>
               (content \in Polished /\ PolisherNeeds[content] \subseteq config.credentials)
      BY <2>2, <3>1, BuiltIs DEF Providers
    <3>3. /\ (config.state = "ready") <=>
               (config.asr # None /\ (content \in Enabled => config.polisher # None))
          /\ (config.state # "ready") => config.error
      BY <2>2 DEF Providers
    <3>4. missingCredentialNames
            = (AsrNeeds[content] \cup PolisherNeeds[content]) \ config.credentials
      BY <3>1 DEF missingCredentialNames
    <3>5. (missingCredentialNames \cap Required(content) = {}) <=>
            (AsrNeeds[content] \subseteq config.credentials
               /\ (content \in Enabled => PolisherNeeds[content] \subseteq config.credentials))
      BY <3>4 DEF Required
    <3>6. content \in Enabled => content \in Polished
      BY Needs
    <3> QED BY <3>2, <3>3, <3>5, <3>6 DEF ReadyMeansProvider
  <2> QED BY <2>1, <2>2 DEF RuntimeInv, MemoryOk
<1> QED BY <1>1, RuntimeAlways, PTL

===============================================================================
