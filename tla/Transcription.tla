--------------------------- MODULE Transcription ---------------------------
(***************************************************************************)
(* From a saved recording to a conversation and back: the transcription    *)
(* worker with its persistent queue (dev_harness/local_stt_watch.py), the  *)
(* transcribe() procedure it shares with the manual command                *)
(* (dev_harness/local_stt.py), and the deletion of a recording from the    *)
(* library (dev_harness/local_library_delete.py).                          *)
(*                                                                         *)
(* The three are separate processes.  They meet in the capture tree, in    *)
(* the result folders and in the database, and exclude each other with a   *)
(* non-blocking file lock.  Each may die at any step; what is on disk      *)
(* stays.  Every change of the queue is saved at once, so the queue file   *)
(* and the worker's copy are one variable.                                 *)
(*                                                                         *)
(* The database is written by child processes, which do not hold the lock. *)
(* A child whose parent is killed goes on: the strays below.               *)
(*                                                                         *)
(* Data: an audio digest is a model value; a result key is the digest, the *)
(* provider settings and the revision of the installed runtime.  What the  *)
(* engines compute is a choice between speech, silence and an error.       *)
(***************************************************************************)
EXTENDS Naturals, Sequences, SequencesExt

CONSTANTS
  Capture,      \* capture directories
  Digest,       \* SHA-256 values of WAV files
  Audio,        \* the digest of each capture
  Provider,     \* selectable engine settings
  Off,          \* "no transcription provider is selected"
  Free,         \* "nobody holds the lock" / "no capture"
  MaxAttempts,  \* MAX_ATTEMPTS
  MaxRevision,  \* bound: updates of the installed runtime
  Env           \* what happens beside the worker, see EnvEvents

\* The manual command, deletions, crashes and changes of the settings.
EnvEvents == {"manual", "delete", "crash", "settings"}

ASSUME TranscriptionAssumption ==
  /\ Audio \in [Capture -> Digest]
  /\ Off \notin Provider
  /\ Free \notin Capture \cup {"worker", "manual", "delete"}
  /\ MaxAttempts \in Nat \ {0} /\ MaxRevision \in Nat
  /\ Env \subseteq EnvEvents

VARIABLES
  dir,      \* what each capture directory holds
  watch,    \* stt-watch.json
  engine,   \* the selected provider and the installed runtime revision
  jobs,     \* watch-queue.json, in the order of admission
  proc,     \* the two processes that may run transcribe()
  del,      \* the deletion the library is executing
  lock,     \* holder of local-transcripts/.lock
  result,   \* the result folder of each key
  conv,     \* result keys that have a Conversation in the database
  doomed,   \* history: captures whose conversations a deletion took after
            \* their job was admitted
  imports,  \* keys of the import children that outlived their process
  deletes,  \* keys that a deletion child which outlived the library has
  late      \* history: the conversations that such an import child made

strays == <<imports, deletes, late>>
vars == <<dir, watch, engine, jobs, proc, del, lock, result, conv, doomed, strays>>

Key          == Digest \X Provider \X (0 .. MaxRevision)
NoResult     == [stage |-> "none", c |-> Free, imported |-> FALSE]
Transcriber  == {"worker", "manual"}
Stopped      == [pc |-> "down", c |-> Free, key |-> Free]
NoDeletion   == [pc |-> "idle", c |-> Free, keys |-> {}, shared |-> FALSE]

Init ==
  /\ dir \in [Capture -> {"absent", "complete"}]
  /\ watch = [enabled |-> FALSE, opted |-> FALSE, excluded |-> {}]
  /\ engine \in [provider : Provider, revision : {0}]
  /\ jobs = <<>>
  /\ proc = [t \in Transcriber |-> Stopped]
  /\ del = NoDeletion
  /\ lock = Free
  /\ result = [k \in Key |-> NoResult]
  /\ conv = {}
  /\ doomed = {}
  /\ imports = {} /\ deletes = {} /\ late = {}

-----------------------------------------------------------------------------
(* Captures and settings. *)

\* External: the part intake publishes a complete directory (after a deletion
\* once more, if the phone never saw the receipt); an older application
\* streams into one.
Publish(c) ==
  /\ dir[c] \in {"absent", "recording"}
  /\ dir' \in {[dir EXCEPT ![c] = "complete"]} \cup
              (IF dir[c] = "absent" THEN {[dir EXCEPT ![c] = "recording"]} ELSE {})
  /\ UNCHANGED <<watch, engine, jobs, proc, del, lock, result, conv, doomed, strays>>

\* enable(): the first opt-in fixes the archive that is left alone.
Enable ==
  /\ ~watch.enabled /\ engine.provider # Off
  /\ watch' = [enabled  |-> TRUE, opted |-> TRUE,
               excluded |-> IF watch.opted THEN watch.excluded
                            ELSE {c \in Capture : dir[c] # "absent"}]
  /\ UNCHANGED <<dir, engine, jobs, proc, del, lock, result, conv, doomed, strays>>

\* disable(): the worker is stopped with it (Interrupt, WorkerExit).
Disable ==
  /\ "settings" \in Env /\ watch.enabled
  /\ watch' = [watch EXCEPT !.enabled = FALSE]
  /\ UNCHANGED <<dir, engine, jobs, proc, del, lock, result, conv, doomed, strays>>

\* Another provider is selected or switched off, or the runtime is updated.
SetEngine ==
  /\ \/ /\ "settings" \in Env
        /\ engine' \in [provider : (Provider \cup {Off}) \ {engine.provider},
                        revision : {engine.revision}]
     \/ engine.revision < MaxRevision /\ engine' = [engine EXCEPT !.revision = @ + 1]
  /\ UNCHANGED <<dir, watch, jobs, proc, del, lock, result, conv, doomed, strays>>

-----------------------------------------------------------------------------
(* The worker: one tick prunes, admits, and processes at most one job.     *)

At(t, pc)   == proc[t].pc = pc
Goto(t, pc) == proc' = [proc EXCEPT ![t].pc = pc]

NewJob(c)    == [c |-> c, state |-> "pending", attempts |-> 0, due |-> TRUE,
                 provider |-> engine.provider, errors |-> 0]
Queued       == {jobs[i].c : i \in DOMAIN jobs}
Waiting(i)   == jobs[i].state = "pending" /\ jobs[i].due
Admissible   == {c \in Capture \ (watch.excluded \cup Queued) :
                   dir[c] = "complete" /\ engine.provider # Off}

\* Mutant: every job gets an attempt back.
MutReplayed(job) ==
  [job EXCEPT !.state = IF @ = "processing" THEN "pending" ELSE @, !.attempts = @ - 1]

\* Worker(): a job that was in flight is replayed, its attempt given back.
Replayed(job) ==
  IF job.state = "processing"
  THEN [job EXCEPT !.state = "pending", !.due = TRUE,
                   !.attempts = IF @ > 0 THEN @ - 1 ELSE 0]
  ELSE job

\* Mutant: a job that was in flight is left as it is.
MutWorkerStart ==
  /\ At("worker", "down") /\ watch.enabled /\ engine.provider # Off
  /\ Goto("worker", "sleep")
  /\ UNCHANGED <<dir, watch, engine, jobs, del, lock, result, conv, doomed, strays>>

\* main(): the model is checked before the queue is read.
WorkerStart ==
  /\ At("worker", "down") /\ watch.enabled /\ engine.provider # Off
  /\ jobs' = [i \in DOMAIN jobs |-> Replayed(jobs[i])]
  /\ Goto("worker", "sleep")
  /\ UNCHANGED <<dir, watch, engine, del, lock, result, conv, doomed, strays>>

WorkerExit ==
  /\ At("worker", "sleep") /\ ~watch.enabled
  /\ Goto("worker", "down")
  /\ UNCHANGED <<dir, watch, engine, jobs, del, lock, result, conv, doomed, strays>>

\* Jobs of recordings whose audio is gone are dropped; the others keep their
\* order: at[n] is the old place of the n-th job that stays.
HasAudio(job) == dir[job.c] \in {"recording", "complete"}

Prune ==
  \E n \in 0 .. Len(jobs) : \E at \in [1 .. n -> DOMAIN jobs] :
    /\ \A i, j \in 1 .. n : i < j => at[i] < at[j]
    /\ {at[i] : i \in 1 .. n} = {i \in DOMAIN jobs : HasAudio(jobs[i])}
    /\ jobs' = [i \in 1 .. n |-> jobs[at[i]]]

Tick ==
  /\ At("worker", "sleep") /\ watch.enabled
  /\ Prune
  /\ Goto("worker", "scan")
  /\ UNCHANGED <<dir, watch, engine, del, lock, result, conv, doomed, strays>>

\* A finished capture gets a job with the provider selected now.
Admit(c) ==
  /\ At("worker", "scan") /\ c \in Admissible
  /\ jobs' = Append(jobs, NewJob(c))
  /\ doomed' = doomed \ {c}
  /\ UNCHANGED <<dir, watch, engine, proc, del, lock, result, conv, strays>>

\* The first job that is due starts, if there is one.
Take ==
  /\ At("worker", "scan") /\ Admissible = {}
  /\ \/ /\ \A i \in DOMAIN jobs : ~Waiting(i)
        /\ Goto("worker", "sleep") /\ UNCHANGED jobs
     \/ \E i \in DOMAIN jobs :
          /\ Waiting(i) /\ \A j \in 1 .. i - 1 : ~Waiting(j)
          /\ jobs' = [jobs EXCEPT ![i].state = "processing", ![i].attempts = @ + 1]
          /\ proc' = [proc EXCEPT !["worker"] = [pc |-> "inspect", c |-> jobs[i].c, key |-> Free]]
  /\ UNCHANGED <<dir, watch, engine, del, lock, result, conv, doomed, strays>>

\* retry_at is reached.
Due ==
  /\ \E i \in DOMAIN jobs : jobs[i].state = "pending" /\ ~jobs[i].due
                            /\ jobs' = [jobs EXCEPT ![i].due = TRUE]
  /\ UNCHANGED <<dir, watch, engine, proc, del, lock, result, conv, doomed, strays>>

\* Mutant: a busy lock uses up an attempt.
MutConcluded(job, outcome) ==
  CASE outcome \in {"completed", "no_speech"} -> [job EXCEPT !.state = outcome, !.due = TRUE]
    [] outcome = "busy" -> [job EXCEPT !.state = "pending", !.due = FALSE]
    [] outcome = "error" ->
         [job EXCEPT !.state = IF job.attempts >= MaxAttempts THEN "failed" ELSE "pending",
                     !.due = FALSE, !.errors = @ + 1]

\* The job of the worker after transcribe() has ended.
Concluded(job, outcome) ==
  CASE outcome \in {"completed", "no_speech"} -> [job EXCEPT !.state = outcome, !.due = TRUE]
    [] outcome = "busy" ->
         [job EXCEPT !.state = "pending", !.attempts = @ - 1, !.due = FALSE]
    [] outcome = "error" ->
         [job EXCEPT !.state = IF job.attempts >= MaxAttempts THEN "failed" ELSE "pending",
                     !.due = FALSE, !.errors = @ + 1]

-----------------------------------------------------------------------------
(* transcribe(), run by the worker or by the manual command.               *)

\* transcribe() returns or raises: the lock goes, the worker notes the
\* outcome on its job and sleeps.
End(t, outcome) ==
  /\ lock' = IF lock = t THEN Free ELSE lock
  /\ proc' = [proc EXCEPT ![t] = [Stopped EXCEPT !.pc = IF t = "worker" THEN "sleep" ELSE "down"]]
  /\ jobs' = IF t = "worker"
             THEN [i \in DOMAIN jobs |-> IF jobs[i].state = "processing"
                                         THEN Concluded(jobs[i], outcome) ELSE jobs[i]]
             ELSE jobs

ManualStart(c) ==
  /\ "manual" \in Env /\ At("manual", "down") /\ engine.provider # Off
  /\ proc' = [proc EXCEPT !["manual"] = [pc |-> "inspect", c |-> c, key |-> Free]]
  /\ UNCHANGED <<dir, watch, engine, jobs, del, lock, result, conv, doomed, strays>>

\* A queued job keeps the provider it was admitted with; the runtime is the
\* one installed now.
ProviderOf(t) ==
  IF t = "worker" THEN (CHOOSE job \in Range(jobs) : job.state = "processing").provider
  ELSE engine.provider

\* The audio is inspected and the key computed before the lock is taken.
Inspect(t) ==
  /\ At(t, "inspect") /\ dir[proc[t].c] = "complete" /\ ProviderOf(t) # Off
  /\ proc' = [proc EXCEPT ![t].pc = "locking",
                          ![t].key = <<Audio[proc[t].c], ProviderOf(t), engine.revision>>]
  /\ UNCHANGED <<dir, watch, engine, jobs, del, lock, result, conv, doomed, strays>>

\* Mutant: transcription does not respect the lock.
MutTakeLock(t) ==
  /\ At(t, "locking")
  /\ lock' = t
  /\ Goto(t, "infer")
  /\ result' = [result EXCEPT ![proc[t].key] =
                  IF @ = NoResult THEN [@ EXCEPT !.stage = "manifest", !.c = proc[t].c] ELSE @]
  /\ UNCHANGED <<dir, watch, engine, jobs, del, conv, doomed, strays>>

\* A new result folder gets a manifest, which names the capture.
TakeLock(t) ==
  /\ At(t, "locking") /\ lock = Free
  /\ lock' = t
  /\ Goto(t, "infer")
  /\ result' = [result EXCEPT ![proc[t].key] =
                  IF @ = NoResult THEN [@ EXCEPT !.stage = "manifest", !.c = proc[t].c] ELSE @]
  /\ UNCHANGED <<dir, watch, engine, jobs, del, conv, doomed, strays>>

Busy(t) ==
  /\ At(t, "locking") /\ lock # Free
  /\ End(t, "busy")
  /\ UNCHANGED <<dir, watch, engine, del, result, conv, doomed, strays>>

Stage(t) == result[proc[t].key].stage

\* The engine runs on the WAV, unless a result was saved before.
Infer(t) ==
  /\ At(t, "infer")
  /\ \/ Stage(t) # "manifest" /\ UNCHANGED result
     \/ /\ Stage(t) = "manifest" /\ dir[proc[t].c] = "complete"
        /\ \E s \in {"speech", "silence"} : result' = [result EXCEPT ![proc[t].key].stage = s]
  /\ Goto(t, "import")
  /\ UNCHANGED <<dir, watch, engine, jobs, del, lock, conv, doomed, strays>>

\* Silence makes no conversation.
NoSpeech(t) ==
  /\ At(t, "import") /\ Stage(t) = "silence"
  /\ End(t, "no_speech")
  /\ UNCHANGED <<dir, watch, engine, del, result, conv, doomed, strays>>

\* create_completed_conversation(idempotent=True), in a child that its process
\* waits for.
Committed(k) == conv' = conv \cup {k} /\ late' = late \ {k}

\* Create-if-absent in the database, then import.json in the result folder.
Import(t) ==
  /\ At(t, "import") /\ Stage(t) = "speech"
  /\ Committed(proc[t].key)
  /\ result' = [result EXCEPT ![proc[t].key].imported = TRUE]
  /\ End(t, "completed")
  /\ UNCHANGED <<dir, watch, engine, del, doomed, imports, deletes>>

MaybeImported(t) ==
  \/ UNCHANGED <<conv, late>>
  \/ At(t, "import") /\ Stage(t) = "speech" /\ Committed(proc[t].key)

\* Any stage fails. The import may time out after it has been committed.
TranscribeFails(t) ==
  /\ proc[t].pc \in {"inspect", "locking", "infer", "import"}
  /\ MaybeImported(t)
  /\ End(t, "error")
  /\ UNCHANGED <<dir, watch, engine, del, result, doomed, imports, deletes>>

\* SIGTERM: transcribe() unwinds, which kills its child, and the attempt is
\* given back.
Interrupt ==
  /\ proc["worker"].pc \in {"inspect", "locking", "infer", "import"}
  /\ MaybeImported("worker")
  /\ lock' = IF lock = "worker" THEN Free ELSE lock
  /\ proc' = [proc EXCEPT !["worker"] = Stopped]
  /\ jobs' = [i \in DOMAIN jobs |-> IF jobs[i].state = "processing"
                                    THEN Concluded(jobs[i], "busy") ELSE jobs[i]]
  /\ UNCHANGED <<dir, watch, engine, del, result, doomed, imports, deletes>>

\* The process is killed, before, during or after an import.  The kernel drops
\* its lock; a child that imports is not killed with it.
Dies(t) ==
  /\ "crash" \in Env /\ ~At(t, "down")
  /\ \/ MaybeImported(t) /\ UNCHANGED imports
     \/ /\ At(t, "import") /\ Stage(t) = "speech"
        /\ imports' = imports \cup {proc[t].key}
        /\ UNCHANGED <<conv, late>>
  /\ lock' = IF lock = t THEN Free ELSE lock
  /\ proc' = [proc EXCEPT ![t] = Stopped]
  /\ UNCHANGED <<dir, watch, engine, jobs, del, result, doomed, deletes>>

\* An import child that outlived its process creates the conversation now: it
\* has read the result folder, holds no lock, and nobody writes import.json.
\* (Another child may have the same key.)
LateImport(k) ==
  /\ k \in imports \ conv
  /\ conv' = conv \cup {k}
  /\ late' = late \cup {k}
  /\ imports' \in {imports, imports \ {k}}
  /\ UNCHANGED <<dir, watch, engine, jobs, proc, del, lock, result, doomed, deletes>>

-----------------------------------------------------------------------------
(* delete_recording(), on a thread of the library server.                  *)

DeleteAt(pc) == del.pc = pc

\* Only a completed recording; checked before the lock.
DeleteAsk(c) ==
  /\ "delete" \in Env /\ DeleteAt("idle") /\ dir[c] = "complete"
  /\ del' = [NoDeletion EXCEPT !.pc = "locking", !.c = c]
  /\ UNCHANGED <<dir, watch, engine, jobs, proc, lock, result, conv, doomed, strays>>

\* Mutants: results are deleted while another capture needs them; results
\* without import.json are taken for results without a conversation.
MutDeleteLockShared ==
  /\ DeleteAt("locking") /\ lock = Free /\ dir[del.c] = "complete"
  /\ lock' = "delete"
  /\ del' = [del EXCEPT !.pc = "database",
                        !.keys = {k \in Key : result[k] # NoResult /\ k[1] = Audio[del.c]}]
  /\ UNCHANGED <<dir, watch, engine, jobs, proc, result, conv, doomed, strays>>

\* The results of this audio, and whether another capture still needs them.
DeleteLock ==
  /\ DeleteAt("locking") /\ lock = Free /\ dir[del.c] = "complete"
  /\ lock' = "delete"
  /\ LET a == Audio[del.c]
         shared == \E c \in Capture \ {del.c} : dir[c] = "complete" /\ Audio[c] = a
     IN  del' = [del EXCEPT !.pc = IF shared THEN "audio" ELSE "database", !.shared = shared,
                            !.keys = {k \in Key : result[k] # NoResult /\ k[1] = a}]
  /\ UNCHANGED <<dir, watch, engine, jobs, proc, result, conv, doomed, strays>>

\* All linked conversations are deleted, or the deletion stops with some.
DeleteDatabase ==
  /\ DeleteAt("database")
  /\ doomed' = doomed \cup {del.c}
  /\ \/ /\ conv' = conv \ del.keys
        /\ del' = [del EXCEPT !.pc = "results"] /\ UNCHANGED lock
     \/ /\ \E some \in SUBSET del.keys : conv' = conv \ some
        /\ del' = NoDeletion /\ lock' = Free
  /\ late' = late \cap conv'
  /\ UNCHANGED <<dir, watch, engine, jobs, proc, result, imports, deletes>>

\* The result folders are removed one by one.
DeleteResults ==
  /\ DeleteAt("results")
  /\ \/ del.keys = {} /\ del' = [del EXCEPT !.pc = "audio"] /\ UNCHANGED result
     \/ \E k \in del.keys : /\ result' = [result EXCEPT ![k] = NoResult]
                            /\ del' = [del EXCEPT !.keys = @ \ {k}]
  /\ UNCHANGED <<dir, watch, engine, jobs, proc, lock, conv, doomed, strays>>

\* audio.wav is unlinked, then metadata.json and the directory.
DeleteAudio ==
  /\ DeleteAt("audio")
  /\ dir' = [dir EXCEPT ![del.c] = "stripped"]
  /\ del' = [del EXCEPT !.pc = "metadata"]
  /\ doomed' = doomed \cup {del.c}
  /\ UNCHANGED <<watch, engine, jobs, proc, lock, result, conv, strays>>

DeleteMetadata ==
  /\ DeleteAt("metadata")
  /\ dir' = [dir EXCEPT ![del.c] = "absent"]
  /\ del' = NoDeletion /\ lock' = Free
  /\ UNCHANGED <<watch, engine, jobs, proc, result, conv, doomed, strays>>

\* The lock is taken, an OSError ends the request, or the library dies: the
\* child that deletes from the database does not die with it.
DeleteStops ==
  /\ ~DeleteAt("idle")
  /\ \/ "crash" \in Env
     \/ DeleteAt("locking") /\ (lock # Free \/ dir[del.c] # "complete")
  /\ del' = NoDeletion
  /\ lock' = IF lock = "delete" THEN Free ELSE lock
  /\ deletes' = IF DeleteAt("database") THEN deletes \cup del.keys ELSE deletes
  /\ UNCHANGED <<dir, watch, engine, jobs, proc, result, conv, doomed, imports, late>>

\* A deletion child that outlived the library deletes a conversation now, which
\* may be the one of a copy that was published in the meantime.
LateDelete(k) ==
  /\ k \in deletes \cap conv
  /\ conv' = conv \ {k}
  /\ late' = late \ {k}
  /\ deletes' \in {deletes, deletes \ {k}}
  /\ doomed' = doomed \cup {c \in Capture : Audio[c] = k[1]}
  /\ UNCHANGED <<dir, watch, engine, jobs, proc, del, lock, result, imports>>

-----------------------------------------------------------------------------
Settings == Enable \/ Disable \/ SetEngine

Worker ==
  \/ WorkerStart \/ WorkerExit \/ Tick \/ Take \/ Interrupt
  \/ \E c \in Capture : Admit(c)

Transcribe(t) ==
  Inspect(t) \/ TakeLock(t) \/ Busy(t) \/ Infer(t) \/ NoSpeech(t) \/ Import(t)

Delete ==
  \/ DeleteLock \/ DeleteDatabase \/ DeleteResults \/ DeleteAudio \/ DeleteMetadata
  \/ DeleteStops

Stray == \E k \in Key : LateImport(k) \/ LateDelete(k)

Next ==
  \/ Settings \/ Worker \/ Due \/ Delete \/ Stray
  \/ \E c \in Capture : Publish(c) \/ ManualStart(c) \/ DeleteAsk(c)
  \/ \E t \in Transcriber : Transcribe(t) \/ TranscribeFails(t) \/ Dies(t)

Spec == Init /\ [][Next]_vars

\* The worker and what it waits for go on; the poll and the back-off end.
Fairness ==
  /\ WF_vars(Tick) /\ WF_vars(Take) /\ WF_vars(Due)
  /\ WF_vars(\E c \in Capture : Admit(c))
  /\ WF_vars(Transcribe("worker") \/ TranscribeFails("worker"))

FairSpec == Spec /\ Fairness

-----------------------------------------------------------------------------
(* Properties *)

JobType ==
  [c : Capture, state : {"pending", "processing", "completed", "no_speech", "failed"},
   attempts : Nat, due : BOOLEAN, provider : Provider, errors : Nat]

\* The types of the state.
TypeOK ==
  /\ dir \in [Capture -> {"absent", "recording", "complete", "stripped"}]
  /\ watch \in [enabled : BOOLEAN, opted : BOOLEAN, excluded : SUBSET Capture]
  /\ engine \in [provider : Provider \cup {Off}, revision : 0 .. MaxRevision]
  /\ jobs \in Seq(JobType)
  /\ proc \in [Transcriber -> [pc : {"down", "sleep", "scan", "inspect", "locking", "infer", "import"},
                               c : Capture \cup {Free}, key : Key \cup {Free}]]
  /\ del \in [pc : {"idle", "locking", "database", "results", "audio", "metadata"},
              c : Capture \cup {Free}, keys : SUBSET Key, shared : BOOLEAN]
  /\ lock \in {Free, "worker", "manual", "delete"}
  /\ result \in [Key -> [stage : {"none", "manifest", "speech", "silence"},
                         c : Capture \cup {Free}, imported : BOOLEAN]]
  /\ conv \subseteq Key
  /\ doomed \subseteq Capture
  /\ imports \subseteq Key /\ deletes \subseteq Key /\ late \subseteq Key

Converted(c) == \E k \in conv : k[1] = Audio[c]

HasRecording(k) == \E c \in Capture : dir[c] = "complete" /\ Audio[c] = k[1]

\* A conversation never outlives its audio: deletion takes the conversations
\* of a recording first, and no transcription that inspected the audio before
\* brings one back.  A shared transcript keeps at least one copy.  Excepted are
\* the conversations that an import child made after its process was killed,
\* until a transcription with the lock vouches for them.
ConversationHasAudio == \A k \in conv \ late : HasRecording(k)

\* "The lock stops deletion racing an active import": a deletion leaves no
\* conversation of a recording that is gone.
DeletionIsComplete == \A k \in conv : HasRecording(k)

\* A recording whose job is completed has its conversation, also when the
\* worker died anywhere, until that recording itself is deleted: deleting an
\* identical recording does not take it away, unless the library was killed
\* and its deletion child went on.
CompletedIsImported ==
  \A i \in DOMAIN jobs :
    jobs[i].state = "completed" /\ jobs[i].c \notin doomed => Converted(jobs[i].c)

\* Only failed transcriptions use up attempts: not a busy lock, not a
\* shutdown, not a crash. A job fails for good after exactly MAX_ATTEMPTS.
AttemptsCountErrors ==
  \A i \in DOMAIN jobs : LET job == jobs[i] IN
    /\ job.attempts = job.errors +
         (IF job.state \in {"pending", "failed"} THEN 0 ELSE 1)
    /\ job.errors <= MaxAttempts /\ (job.state = "failed") = (job.errors = MaxAttempts)

\* A recording has one job, and one job at most is in flight: exactly the
\* one the worker is transcribing.
OneJobInFlight ==
  /\ \A i, j \in DOMAIN jobs : i # j => jobs[i].c # jobs[j].c
  /\ LET busy == {i \in DOMAIN jobs : jobs[i].state = "processing"}
     IN  /\ \A i, j \in busy : i = j
         /\ proc["worker"].c # Free => \E i \in busy : jobs[i].c = proc["worker"].c

\* "Replaying transcribe reuses its JSON and create-if-absent Conversation":
\* automatic processing makes one conversation of a recording, whatever
\* crashes and provider changes come between.
OneConversation == \A k, l \in conv : k[1] = l[1] => k = l

\* While the worker runs with a provider, every recording saved after the
\* opt-in is transcribed, found silent, or given up after its attempts, also
\* when the lock was busy or the worker had died, once the manual runs and the
\* deletions have come to an end.
EventuallyTranscribed ==
  \A c \in Capture :
    <>[]( /\ watch.enabled /\ engine.provider # Off /\ ~At("worker", "down")
          /\ At("manual", "down") /\ DeleteAt("idle") ) =>
      []( dir[c] = "complete" /\ watch.opted /\ c \notin watch.excluded =>
          <>( \/ dir[c] # "complete"
              \/ \E i \in DOMAIN jobs : jobs[i].c = c /\
                   jobs[i].state \in {"completed", "no_speech", "failed"} ) )
=============================================================================
