-------------------------- MODULE ConfigurationStore --------------------------
(***************************************************************************)
(* The daemon's configuration: DaemonConfigManager (main configuration,    *)
(* credentials and the runtime built from them), DaemonDictionaryManager   *)
(* (voice dictionary and its file watcher), the files they keep with       *)
(* atomicWriteFile, and the start of the daemon that loads them.           *)
(*                                                                         *)
(* Each manager runs its operations one at a time, in the order of the     *)
(* calls (#enqueue).  An operation is a job at the head of its manager's   *)
(* queue; a step of it is what happens between two awaits.  A file is its  *)
(* whole content: the temporary file is complete and synced before it is   *)
(* renamed.                                                                *)
(***************************************************************************)
EXTENDS Naturals, Sequences

CONSTANTS
  Configs,         \* valid main configurations
  Default,         \* what createDefaultConfig writes
  Complete,        \* those that give the recogniser all its settings
  AsrNeeds,        \* [Configs -> credentials of the recogniser]
  Polished,        \* those that name a polisher
  Enabled,         \* those that polish by default
  PolisherNeeds,   \* [Configs -> credentials of the polisher]
  Names,           \* credentials
  Dictionaries,    \* valid dictionaries
  Invalid,         \* the content of a file that does not parse
  None,            \* no file
  Requests,        \* bound: RPC requests
  HandEdits,       \* bound: files changed by others
  Stops            \* bound: processes killed, machines that lose their power

ASSUME Needs ==
  /\ Default \in Configs
  /\ Complete \subseteq Configs
  /\ Enabled \subseteq Polished /\ Polished \subseteq Configs
  /\ AsrNeeds \in [Configs -> SUBSET Names]
  /\ PolisherNeeds \in [Configs -> SUBSET Names]
  /\ \A content \in Configs \ Polished : PolisherNeeds[content] = {}

\* undefined is neither a configuration, nor credentials, nor a provider.
ASSUME NoneIsNothing ==
  /\ None \notin Configs
  /\ \A names \in SUBSET Names :
       None # names /\ \A content \in Configs : None # <<content, names>>

VARIABLES
  disk,            \* [file -> content] that a loss of power leaves
  seen,            \* [file -> content] that processes read
  phase,           \* main() of the daemon
  config,          \* DaemonConfigManager
  dict,            \* DaemonDictionaryManager
  queue,           \* #operation of both
  bounds,          \* what has been used of the bounds
  promised,        \* history: credentials whose update was answered with success
  possible,        \* history: [file -> contents that may be found in it]
  unsure,          \* history: files changed behind the back of the memory
  missed           \* history: the dictionary changed when nobody read or watched it

files == <<disk, seen>>
history == <<promised, possible, unsure, missed>>
vars == <<files, phase, config, dict, queue, bounds, history>>

Files == {"config", "credentials", "dictionary"}

-------------------------------------------------------------------------------
(***************************************************************************)
(* The managers' memory.                                                   *)
(***************************************************************************)
NewConfig ==
  [ state |-> "needs-configuration", config |-> None, credentials |-> {},
    asr |-> None, polisher |-> None, error |-> FALSE ]

NewDictionary ==
  [ snapshot |-> None, error |-> FALSE, watching |-> FALSE, event |-> FALSE, timer |-> FALSE ]

\* A provider is the configuration and the credentials it was built from; None, if there is
\* none.  The recogniser is missing because the construction threw.
createAsrProvider(content, credentials) ==
  IF content \in Complete /\ AsrNeeds[content] \subseteq credentials
  THEN <<content, credentials>> ELSE None

resolveTextPolisherProvider(content, credentials) ==
  IF content \in Polished /\ PolisherNeeds[content] \subseteq credentials
  THEN <<content, credentials>> ELSE None

\* A polisher without its credentials is an error only if it is enabled.
createTextPolisher(content, credentials) ==
  LET polisher == resolveTextPolisherProvider(content, credentials)
  IN [polisher |-> polisher, threw |-> content \in Enabled /\ polisher = None]

applyConfiguration(content, credentials) ==
  LET asr == createAsrProvider(content, credentials)
      created == createTextPolisher(content, credentials)
      failed == asr = None \/ created.threw
  IN [ config |-> content, credentials |-> credentials,
       asr |-> asr, polisher |-> created.polisher,
       state |-> IF failed THEN "degraded" ELSE "ready", error |-> failed ]

\* What getStatus() tells beside the state: it asks for the credentials of a polisher that is
\* not enabled as well.
missingCredentialNames ==
  IF config.config = None THEN {}
  ELSE (AsrNeeds[config.config] \cup PolisherNeeds[config.config]) \ config.credentials

\* Mutant of recordFailure: what still runs is not asked for.
recordFailureAlways(missing) ==
  [config EXCEPT !.error = TRUE,
                 !.state = IF missing THEN "needs-configuration" ELSE "degraded"]

recordFailure(missing) ==
  [config EXCEPT !.error = TRUE,
                 !.state = CASE config.asr # None -> @
                             [] config.asr = None /\ missing -> "needs-configuration"
                             [] OTHER -> "degraded"]

\* #apply of the dictionary.
apply(content) == [dict EXCEPT !.snapshot = content, !.error = FALSE]

\* Mutant of ApplySaved: new credentials are kept, but nothing is built with them.
ApplySavedWithoutBuilding(job) ==
  CASE job.file = "config" ->
         /\ config' = applyConfiguration(job.content, config.credentials)
         /\ UNCHANGED dict
    [] job.file = "credentials" ->
         /\ config' = [config EXCEPT !.credentials = job.content]
         /\ UNCHANGED dict
    [] job.file = "dictionary" ->
         /\ dict' = apply(job.content)
         /\ UNCHANGED config

\* What the manager does once the content is on the disk.
ApplySaved(job) ==
  CASE job.file = "config" ->
         /\ config' = applyConfiguration(job.content, config.credentials)
         /\ UNCHANGED dict
    [] job.file = "credentials" ->
         /\ config' = IF config.config # None THEN applyConfiguration(config.config, job.content)
                                             ELSE [config EXCEPT !.credentials = job.content]
         /\ UNCHANGED dict
    [] job.file = "dictionary" ->
         /\ dict' = apply(job.content)
         /\ UNCHANGED config

-------------------------------------------------------------------------------
(***************************************************************************)
(* The queues, and the jobs of main().                                     *)
(***************************************************************************)
Job(by, op, file, value) ==
  [by |-> by, op |-> op, file |-> file, value |-> value, at |-> "start", content |-> None]

Manager(file) == IF file = "dictionary" THEN "dictionary" ELSE "config"

\* initialize() of the configuration creates a missing one and reloads; whatever comes of
\* it, the dictionary is loaded next.
Boot ==
  [ loading |-> Job("main", "reload", "config", None),
    creating |-> Job("main", "update", "config", Default),
    reloading |-> Job("main", "reload", "config", None),
    dictionary |-> Job("main", "reload", "dictionary", None) ]

Following(p, result) ==
  CASE p = "loading" /\ result = "missing" -> "creating"
    [] p = "creating" /\ result = "done" -> "reloading"
    [] p = "dictionary" -> "loaded"
    [] OTHER -> "dictionary"

Start(p, q) ==
  /\ phase' = p
  /\ queue' = IF p \in DOMAIN Boot
              THEN [q EXCEPT ![Manager(Boot[p].file)] = Append(@, Boot[p])] ELSE q

\* The job at the head of the queue is over.
Finish(m, result) ==
  LET rest == [queue EXCEPT ![m] = Tail(@)] IN
  IF Head(queue[m]).by = "main" THEN Start(Following(phase, result), rest)
  ELSE queue' = rest /\ UNCHANGED phase

Running(m, op, at) ==
  /\ queue[m] # <<>>
  /\ Head(queue[m]).op = op
  /\ Head(queue[m]).at = at

Content(job) ==
  IF job.file = "credentials" THEN (config.credentials \ job.value.drop) \cup job.value.add
  ELSE job.value

-------------------------------------------------------------------------------
(***************************************************************************)
(* The steps of an update: saveVoxSpellConfig, saveVoxSpellCredentials and *)
(* saveVoiceDictionary, atomicWriteFile, and what follows.                 *)
(***************************************************************************)
\* A failure reaches the caller; only main() records it.
UpdateFails(m) ==
  /\ Finish(m, "failed")
  /\ config' = IF Head(queue[m]).by = "main" THEN recordFailure(FALSE) ELSE config
  /\ UNCHANGED <<files, dict, bounds, history>>

\* Parse, write the temporary file, sync and close it.
WriteTemporary(m) ==
  /\ Running(m, "update", "start")
  /\ \/ /\ Head(queue[m]).value # Invalid
        /\ queue' = [queue EXCEPT ![m][1].at = "rename", ![m][1].content = Content(Head(queue[m]))]
        /\ UNCHANGED <<files, phase, config, dict, bounds, history>>
     \/ UpdateFails(m)

Rename(m) ==
  LET job == Head(queue[m]) IN
  /\ Running(m, "update", "rename")
  /\ \/ /\ seen' = [seen EXCEPT ![job.file] = job.content]
        /\ queue' = [queue EXCEPT ![m][1].at = "sync"]
        /\ dict' = [dict EXCEPT !.event = @ \/ (job.file = "dictionary" /\ dict.watching)]
        /\ possible' = [possible EXCEPT ![job.file] = @ \cup {job.content}]
        /\ promised' = IF job.file = "credentials" THEN promised \ job.value.drop ELSE promised
        /\ unsure' = unsure \cup {job.file}
        /\ UNCHANGED <<disk, phase, config, bounds, missed>>
     \/ UpdateFails(m)

Acknowledged(job) ==
  /\ possible' = [possible EXCEPT ![job.file] = {job.content, seen[job.file]}]
  /\ promised' = IF job.file = "credentials" THEN promised \cup job.value.add ELSE promised
  /\ unsure' = IF seen[job.file] = job.content THEN unsure \ {job.file} ELSE unsure
  /\ UNCHANGED missed

\* Mutant of SyncDirectory: the directory is not synced.
SyncNothing(m) ==
  LET job == Head(queue[m]) IN
  /\ Running(m, "update", "sync")
  /\ Acknowledged(job)
  /\ IF job.by = "main" THEN UNCHANGED <<config, dict>> ELSE ApplySaved(job)
  /\ Finish(m, "done")
  /\ UNCHANGED <<files, bounds>>

\* The new name is durable; main() only saves its default, a request also applies it.
SyncDirectory(m) ==
  LET job == Head(queue[m]) IN
  /\ Running(m, "update", "sync")
  /\ \/ /\ disk' = [disk EXCEPT ![job.file] = job.content]
        /\ Acknowledged(job)
        /\ IF job.by = "main" THEN UNCHANGED <<config, dict>> ELSE ApplySaved(job)
        /\ Finish(m, "done")
        /\ UNCHANGED <<seen, bounds>>
     \/ UpdateFails(m)

-------------------------------------------------------------------------------
(***************************************************************************)
(* The steps of a reload.                                                  *)
(***************************************************************************)
\* What parses and validates, of the content of the files.
ValidConfig == seen.config \in Configs

StoredCredentials == IF seen.credentials = None THEN {} ELSE seen.credentials

ValidDictionary == seen.dictionary \in Dictionaries

LoadConfig ==
  /\ Running("config", "reload", "start")
  /\ IF ValidConfig
     THEN /\ queue' = [queue EXCEPT !["config"][1].at = "credentials",
                                    !["config"][1].content = seen.config]
          /\ unsure' = unsure \ {"config"}
          /\ UNCHANGED <<phase, config>>
     ELSE /\ config' = recordFailure(seen.config = None)
          /\ Finish("config", IF seen.config = None THEN "missing" ELSE "failed")
          /\ unsure' = unsure \cup {"config", "credentials"}
  /\ UNCHANGED <<files, dict, bounds, promised, possible, missed>>

LoadCredentials ==
  /\ Running("config", "reload", "credentials")
  /\ IF seen.credentials # Invalid
     THEN /\ config' = applyConfiguration(Head(queue["config"]).content, StoredCredentials)
          /\ Finish("config", "done")
          /\ unsure' = unsure \ {"credentials"}
     ELSE /\ config' = recordFailure(FALSE)
          /\ Finish("config", "failed")
          /\ unsure' = unsure \cup {"config", "credentials"}
  /\ UNCHANGED <<files, dict, bounds, promised, possible, missed>>

\* initialize() is content with the empty dictionary if there is none.
LoadDictionary ==
  /\ Running("dictionary", "reload", "start")
  /\ dict' = IF ValidDictionary
             THEN apply(seen.dictionary)
             ELSE [dict EXCEPT !.error = ~(phase = "dictionary" /\ seen.dictionary = None)]
  /\ Finish("dictionary", "done")
  /\ missed' = FALSE
  /\ UNCHANGED <<files, config, bounds, promised, possible, unsure>>

-------------------------------------------------------------------------------
(***************************************************************************)
(* The watcher of the dictionary's directory.                              *)
(***************************************************************************)
\* startWatching(), and then the server listens.
StartWatching ==
  /\ phase = "loaded"
  /\ phase' = "serving"
  /\ dict' = [dict EXCEPT !.watching = TRUE]
  /\ UNCHANGED <<files, config, queue, bounds, history>>

\* Mutant of FileChanged: nothing is scheduled while an operation runs.
FileChangedIfIdle ==
  /\ dict.event
  /\ dict' = [dict EXCEPT !.event = FALSE, !.timer = @ \/ queue.dictionary = <<>>]
  /\ UNCHANGED <<files, phase, config, queue, bounds, history>>

\* A timer that runs already starts again.
FileChanged ==
  /\ dict.event
  /\ dict' = [dict EXCEPT !.event = FALSE, !.timer = TRUE]
  /\ UNCHANGED <<files, phase, config, queue, bounds, history>>

ReloadTimer ==
  /\ dict.timer
  /\ dict' = [dict EXCEPT !.timer = FALSE]
  /\ queue' = [queue EXCEPT !.dictionary = Append(@, Job("watcher", "reload", "dictionary", None))]
  /\ UNCHANGED <<files, phase, config, bounds, history>>

-------------------------------------------------------------------------------
(***************************************************************************)
(* The environment.                                                        *)
(***************************************************************************)
Request(op, file, value) ==
  /\ phase = "serving"
  /\ bounds.requests < Requests
  /\ bounds' = [bounds EXCEPT !.requests = @ + 1]
  /\ queue' = [queue EXCEPT ![Manager(file)] = Append(@, Job("request", op, file, value))]
  /\ UNCHANGED <<files, phase, config, dict, history>>

\* Another program replaces a file.
HandEdit(file, content) ==
  /\ bounds.edits < HandEdits
  /\ bounds' = [bounds EXCEPT !.edits = @ + 1]
  /\ seen[file] # content
  /\ seen' = [seen EXCEPT ![file] = content]
  /\ possible' = [possible EXCEPT ![file] = @ \cup {content}]
  /\ unsure' = unsure \cup {file}
  /\ dict' = [dict EXCEPT !.event = @ \/ (file = "dictionary" /\ dict.watching)]
  /\ missed' = (missed \/ (file = "dictionary" /\ ~dict.watching))
  /\ UNCHANGED <<disk, phase, config, queue, promised>>

\* The process is gone, with what it had in memory; without power, so are the names that
\* were not synced.
Stop ==
  /\ phase # "off"
  /\ bounds.stops < Stops
  /\ bounds' = [bounds EXCEPT !.stops = @ + 1]
  /\ \/ UNCHANGED files
     \/ \E left \in [Files -> BOOLEAN] :
          /\ seen' = [f \in Files |-> IF left[f] THEN seen[f] ELSE disk[f]]
          /\ disk' = seen'
  /\ phase' = "off"
  /\ config' = NewConfig
  /\ dict' = NewDictionary
  /\ queue' = [config |-> <<>>, dictionary |-> <<>>]
  /\ unsure' = Files
  /\ missed' = FALSE
  /\ UNCHANGED <<promised, possible>>

Launch ==
  /\ phase = "off"
  /\ Start("loading", queue)
  /\ UNCHANGED <<files, config, dict, bounds, history>>

-------------------------------------------------------------------------------
Init ==
  /\ \E file \in Configs \cup {None} :
       seen = [config |-> file, credentials |-> None, dictionary |-> None]
  /\ disk = seen
  /\ phase = "off"
  /\ config = NewConfig
  /\ dict = NewDictionary
  /\ queue = [config |-> <<>>, dictionary |-> <<>>]
  /\ bounds = [requests |-> 0, edits |-> 0, stops |-> 0]
  /\ promised = {}
  /\ possible = [f \in Files |-> {seen[f]}]
  /\ unsure = Files
  /\ missed = FALSE

Steps ==
  \/ \E m \in DOMAIN queue : WriteTemporary(m) \/ Rename(m) \/ SyncDirectory(m)
  \/ LoadConfig \/ LoadCredentials \/ LoadDictionary
  \/ StartWatching \/ FileChanged \/ ReloadTimer

Asked ==
  \/ \E content \in Configs \cup {Invalid} : Request("update", "config", content)
  \/ \E add, drop \in SUBSET Names :
       /\ add \cap drop = {} /\ add \cup drop # {}
       /\ Request("update", "credentials", [add |-> add, drop |-> drop])
  \/ \E content \in Dictionaries \cup {Invalid} : Request("update", "dictionary", content)
  \/ \E file \in {"config", "dictionary"} : Request("reload", file, None)

Edited ==
  \/ \E content \in Configs \cup {Invalid} : HandEdit("config", content)
  \/ HandEdit("credentials", Invalid)
  \/ \E content \in Dictionaries \cup {Invalid} : HandEdit("dictionary", content)

Next == Steps \/ Launch \/ Asked \/ Edited \/ Stop

Spec == Init /\ [][Next]_vars

\* Files are read and written some time, timers and events of the watcher arrive.
FairSpec == Spec /\ WF_vars(Steps) /\ WF_vars(Launch)

-------------------------------------------------------------------------------
(***************************************************************************)
(* Properties.                                                             *)
(***************************************************************************)
Idle(m) == queue[m] = <<>>

\* Whatever stops the daemon, a file holds what was last answered with success, or what was
\* put there since: an acknowledged update is never undone by a loss of power.
AcknowledgedSurvives ==
  \A f \in Files : disk[f] \in possible[f] /\ seen[f] \in possible[f]

\* At rest, the recogniser and the polisher that new sessions get are those that the files
\* describe, unless somebody else changed a file, or an update
\* failed after its file was replaced.
RuntimeIsStored ==
  phase = "serving" /\ Idle("config") /\ unsure \cap {"config", "credentials"} = {} =>
    /\ config.config = seen.config
    /\ config.asr = createAsrProvider(seen.config, StoredCredentials)
    /\ config.polisher = resolveTextPolisherProvider(seen.config, StoredCredentials)

\* The credentials without which a configuration does not run.
Required(content) ==
  AsrNeeds[content] \cup (IF content \in Enabled THEN PolisherNeeds[content] ELSE {})

\* "ready" is what the desktop shows and what a session needs: the recogniser is there, and
\* the polisher if it is enabled, and no failure of a later reload takes that back while they
\* are.  If one is not, there is an error to be shown, and the status names a missing
\* credential that is required or a setting is missing; a name beside "ready" is one that
\* only a disabled polisher needs.
ReadyMeansProvider ==
  /\ config.state = "ready" <=>
       config.asr # None /\ (config.config \in Enabled => config.polisher # None)
  /\ config.config # None =>
       /\ config.state = "ready" <=>
            config.config \in Complete /\ missingCredentialNames \cap Required(config.config) = {}
       /\ config.state # "ready" => config.error

\* In the end the dictionary in use is the one in the file, or an error says why not, if
\* it did not change just before the daemon watched it.
SnapshotFollowsFile ==
  [](phase = "serving" => <>(phase # "serving" \/ missed \/
     IF ValidDictionary
     THEN dict.snapshot = seen.dictionary /\ ~dict.error
     ELSE dict.error \/ seen.dictionary = None))

\* A credential whose update succeeded is stored until it is deleted: updates of others
\* leave it alone (updateCredentialEntries, and the test "serializes credential patches
\* without losing concurrent updates").
CredentialsAreKept ==
  seen.credentials \notin {None, Invalid} => promised \subseteq seen.credentials

===============================================================================
