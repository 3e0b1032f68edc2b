---------------------------- MODULE Finalization ----------------------------
(***************************************************************************)
(* The durable finalization of one conversation: the Firestore row, its    *)
(* outbox job, the Cloud Tasks that carry the job to a handler, the pusher *)
(* workers of a live session, the in-request processors that bypass the    *)
(* job, and the three periodic sweeps that repair what a crash leaves.     *)
(*                                                                         *)
(* Every Firestore transaction is one atomic action; everything between    *)
(* two of them interleaves.  A conversation is never bound to a second job *)
(* (nothing clears finalization_job_id), so one job is the whole outbox    *)
(* and the fences on finalization_revision are the fence on conv.bound.    *)
(* A clock is a set of Boolean facts (a lease is live, a stamp is fresh, a *)
(* job is old) that time may change.                                       *)
(***************************************************************************)
EXTENDS Integers, FiniteSets

CONSTANTS
    Worker,       \* threads that run a finalization (handlers and pushers)
    Keys,         \* whether a session presents the user's own keys
    Verdicts,     \* what process_conversation may conclude
    Events,       \* what users and other lanes do to the row
    MaxAttempts,  \* LISTEN_FINALIZATION_TASKS_MAX_ATTEMPTS
    MaxFaults,    \* crashes, failures and lateness in one behaviour
    MaxTouches    \* what users and other lanes do in one behaviour

ASSUME FinalizationAssumption ==
    /\ Keys \subseteq BOOLEAN
    /\ Verdicts \subseteq {"keep", "drop", "custom", "lost", "skip", "defer"}
    /\ Events \subseteq {"discard", "restore", "delete", "merge", "cutover",
                         "route", "open", "legacy"}
    /\ MaxAttempts \in Nat \ {0}
    /\ MaxFaults \in Nat
    /\ MaxTouches \in Nat

VARIABLES
    conv,     \* the conversation row
    job,      \* its finalization job
    task,     \* Cloud Tasks: the retry count of the task of each generation
    lock,     \* the Redis run lock of the job
    worker,   \* what each worker is doing
    session,  \* the request between its transaction and its handoff
    requeue,  \* the generation a reconciler claimed and has yet to enqueue
    direct,   \* the in-request processor that owns the row without a job
    orphan,   \* the candidate of the stale-processing sweep
    scanned,  \* the candidate of the BYOK abandonment sweep
    tally,    \* the projection shards: how many jobs are in each status
    sent,     \* history: the fanout was delivered, or its last try dropped
    touched,  \* how often a user or another lane claimed the conversation, or
              \* a verdict kept it from its fanout
    faults    \* faults so far

vars == <<conv, job, task, lock, worker, session, requeue, direct, orphan,
          scanned, tally, sent, touched, faults>>

rowVars == <<conv, direct, orphan>>
laneVars == <<task, lock, session, requeue, scanned>>

Gens == 1 .. MaxFaults + MaxTouches + 1
Unused == -1
Gone == MaxAttempts
Terminal == {"completed", "dead_letter"}
JobStatuses == {"none", "queued", "leased", "blocked_byok"} \cup Terminal
NoRow == [there |-> FALSE, status |-> "failed", discarded |-> TRUE,
          deferred |-> FALSE, bound |-> FALSE, admitted |-> "none"]
NoJob == [status |-> "none", byok |-> FALSE, gen |-> 1, epoch |-> 0,
          attempts |-> 0, fanout |-> "pending", fanoutEpoch |-> 0,
          outcome |-> "none", due |-> FALSE, live |-> FALSE, old |-> FALSE]
Idle == [pc |-> "idle", lane |-> "task", gen |-> 0, epoch |-> 0, retry |-> 0,
         attempts |-> 0, keys |-> FALSE, discarded |-> FALSE,
         deferred |-> FALSE]
NoSession == [pc |-> "idle", gen |-> 0, keys |-> FALSE]
NoDirect == [pc |-> "idle", discarded |-> FALSE]
NoScan == [status |-> "none", gen |-> 0, epoch |-> 0]

TypeOK ==
    /\ conv \in [there : BOOLEAN,
                 status : {"in_progress", "processing", "completed",
                           "failed", "merging"},
                 discarded : BOOLEAN, deferred : BOOLEAN, bound : BOOLEAN,
                 admitted : {"none", "fresh", "aged"}]
    /\ job \in [status : JobStatuses, byok : BOOLEAN, gen : Gens, epoch : Nat,
                attempts : Nat,
                fanout : {"pending", "leased", "completed", "fenced"},
                fanoutEpoch : Nat,
                outcome : {"none", "success", "fenced", "failure",
                           "abandoned"},
                due : BOOLEAN, live : BOOLEAN, old : BOOLEAN]
    /\ task \in [Gens -> Unused .. Gone]
    /\ lock \in Worker \cup {"free", "lost"}
    /\ worker \in [Worker -> [pc : {"idle", "claim", "check", "read",
                                    "ensure", "process", "fanout", "deliver",
                                    "ack", "complete", "fence", "fail"},
                              lane : {"task", "pusher"}, gen : Nat,
                              epoch : Nat, retry : Nat, attempts : Nat,
                              keys : BOOLEAN, discarded : BOOLEAN,
                              deferred : BOOLEAN]]
    /\ session \in [pc : {"idle", "resume", "enqueue", "dispatch"},
                    gen : Nat, keys : BOOLEAN]
    /\ requeue \in Gens \cup {0}
    /\ direct \in [pc : {"idle", "route", "enrich", "merge"}, discarded : BOOLEAN]
    /\ orphan \in {"none", "aged", "legacy", "renewed"}
    /\ scanned \in [status : {"none", "queued", "leased"}, gen : Nat,
                    epoch : Nat]
    /\ tally \in [JobStatuses \ {"none"} -> Int]
    /\ sent \in BOOLEAN /\ touched \in 0 .. MaxTouches
    /\ faults \in 0 .. MaxFaults

(***************************************************************************)
(* A fresh recording, or a row that an older release left on `processing'  *)
(* before admissions were stamped.                                         *)
(***************************************************************************)
Init ==
    /\ conv \in {[there |-> TRUE, status |-> s, discarded |-> FALSE,
                  deferred |-> FALSE, bound |-> FALSE, admitted |-> "none"] :
                 s \in {"in_progress"} \cup
                       (IF "legacy" \in Events THEN {"processing"} ELSE {})}
    /\ job = NoJob
    /\ task = [g \in Gens |-> Unused]
    /\ lock = "free"
    /\ worker = [w \in Worker |-> Idle]
    /\ session = NoSession /\ requeue = 0 /\ direct = NoDirect
    /\ orphan = "none" /\ scanned = NoScan
    /\ tally = [s \in JobStatuses \ {"none"} |-> 0]
    /\ sent = FALSE /\ touched = 0 /\ faults = 0

Fault == faults < MaxFaults /\ faults' = faults + 1
FaultIf(condition) == IF condition THEN Fault ELSE UNCHANGED faults
Touch == touched < MaxTouches /\ touched' = touched + 1

(* _record_projection_delta: one job leaves a status and enters another. *)
Moved(from, to) ==
    [s \in DOMAIN tally |->
        tally[s] + (IF s = to THEN 1 ELSE 0) - (IF s = from THEN 1 ELSE 0)]

(* Every write of a job stamps updated_at. *)
Write(j) == job' = [j EXCEPT !.old = FALSE]

(* Every admission or renewal replaces the instant a sweep scanned. *)
Restamp == orphan' = IF orphan = "aged" THEN "renewed" ELSE orphan

IsCurrentLease(w) ==
    /\ job.status = "leased"
    /\ job.gen = worker[w].gen
    /\ job.epoch = worker[w].epoch

-----------------------------------------------------------------------------
(* A session asks for the finalization and hands the job to its lane.      *)

CreateIntent(k) ==
    /\ session.pc = "idle"
    /\ conv.there /\ ~conv.deferred /\ ~conv.discarded /\ ~conv.bound
    /\ conv.status \in {"in_progress", "merging"}
    /\ LET status == IF k THEN "blocked_byok" ELSE "queued" IN
       /\ Write([NoJob EXCEPT !.status = status, !.byok = k, !.due = ~k])
       /\ tally' = Moved("none", status)
    /\ conv' = [conv EXCEPT !.status = "processing", !.bound = TRUE]
    /\ session' = [pc |-> IF k THEN "resume" ELSE "enqueue", gen |-> 1,
                   keys |-> k]
    /\ UNCHANGED <<task, lock, worker, requeue, direct, orphan, scanned, sent,
                   touched, faults>>

GetIntent(k) ==
    /\ session.pc = "idle"
    /\ conv.there /\ ~conv.deferred /\ ~conv.discarded /\ conv.bound
    /\ conv.status \notin {"completed", "failed"}
    /\ job.status \notin Terminal
    /\ job.byok => k
    /\ session' = [pc |-> IF job.byok THEN "resume" ELSE "enqueue",
                   gen |-> job.gen, keys |-> k]
    /\ UNCHANGED <<conv, job, task, lock, worker, requeue, direct, orphan,
                   scanned, tally, sent, touched, faults>>

ResumeBlockedByok ==
    /\ session.pc = "resume"
    /\ IF job.status = "blocked_byok"
       THEN /\ Write([job EXCEPT !.status = "queued", !.due = FALSE])
            /\ tally' = Moved("blocked_byok", "queued")
       ELSE UNCHANGED <<job, tally>>
    /\ session' = [session EXCEPT !.pc = "dispatch", !.gen = job.gen]
    /\ UNCHANGED <<conv, task, lock, worker, requeue, direct, orphan, scanned,
                   sent, touched, faults>>

(* A task name is used once: a second enqueue of a generation is a no-op. *)
Enqueued(g) == IF task[g] = Unused THEN [task EXCEPT ![g] = 0] ELSE task

EnqueueIntent ==
    /\ session.pc = "enqueue"
    /\ \/ task' = Enqueued(session.gen) /\ UNCHANGED faults
       \/ Fault /\ UNCHANGED task
    /\ session' = NoSession
    /\ UNCHANGED <<conv, job, lock, worker, requeue, direct, orphan, scanned,
                   tally, sent, touched>>

(* Threads are interchangeable: the same idle one takes the next work. *)
Takes(w) ==
    /\ worker[w].pc = "idle"
    /\ w = CHOOSE x \in Worker : worker[x].pc = "idle"

DispatchToPusher(w) ==
    /\ session.pc = "dispatch"
    /\ Takes(w)
    /\ worker' = [worker EXCEPT ![w] =
           [Idle EXCEPT !.pc = "claim", !.lane = "pusher", !.gen = session.gen,
                        !.keys = session.keys]]
    /\ session' = NoSession
    /\ UNCHANGED <<conv, job, task, lock, requeue, direct, orphan, scanned,
                   tally, sent, touched, faults>>

SessionCrash ==
    /\ session.pc # "idle"
    /\ Fault
    /\ session' = NoSession
    /\ UNCHANGED <<conv, job, task, lock, worker, requeue, direct, orphan,
                   scanned, tally, sent, touched>>

-----------------------------------------------------------------------------
(* One worker: the Cloud Tasks handler or the pusher's session task, both  *)
(* around finalize_persisted_conversation.                                 *)

Answered(g, retry, ok) ==
    IF task[g] = retry
    THEN [task EXCEPT ![g] = IF ok THEN Gone ELSE retry + 1]
    ELSE task

(* The handler answers its task and releases the lock; a pusher just ends. *)
Finish(w, ok) ==
    /\ worker' = [worker EXCEPT ![w] = Idle]
    /\ IF worker[w].lane = "task"
       THEN /\ task' = Answered(worker[w].gen, worker[w].retry, ok)
            /\ lock' = IF lock = w THEN "free" ELSE lock
       ELSE UNCHANGED <<task, lock>>

Goto(w, pc) == worker' = [worker EXCEPT ![w].pc = pc]

\* Mutant: the queue allows one attempt more than the worker counts with.
MutPending(g) == task[g] \in 0 .. MaxAttempts

Pending(g) == task[g] \in 0 .. MaxAttempts - 1

InService(g) ==
    \E w \in Worker : /\ worker[w].pc # "idle" /\ worker[w].lane = "task"
                      /\ worker[w].gen = g /\ worker[w].retry = task[g]

(* A held lock answers 409.  The last retry lost to it is charged, as it   *)
(* may repeat for as long as the lock is held.                             *)
DeliverTask(w, g) ==
    /\ Takes(w)
    /\ Pending(g) /\ ~InService(g)
    /\ IF lock = "free"
       THEN /\ lock' = w
            /\ worker' = [worker EXCEPT ![w] =
                   [Idle EXCEPT !.pc = "claim", !.gen = g, !.retry = task[g]]]
            /\ UNCHANGED <<task, faults>>
       ELSE /\ task' = Answered(g, task[g], FALSE)
            /\ FaultIf(task[g] = MaxAttempts - 1)
            /\ UNCHANGED <<lock, worker>>
    /\ UNCHANGED <<rowVars, job, session, requeue, scanned, tally, sent,
                   touched>>

ClaimStatus(w) ==
    CASE job.status \in Terminal -> job.status
      [] job.byok /\ ~worker[w].keys -> "blocked_byok"
      [] job.status = "blocked_byok" -> "blocked_byok"
      [] job.gen # worker[w].gen -> "stale_generation"
      [] job.status = "leased" /\ job.live -> "leased"
      [] OTHER -> "claimed"

\* Mutant: a reclaimed lease keeps its epoch.
MutLeased == [job EXCEPT !.status = "leased", !.live = TRUE, !.due = ~job.byok,
                         !.epoch = IF @ = 0 THEN 1 ELSE @,
                         !.attempts = @ + 1]

\* Mutant: a claimed job leaves the replay query.
MutLeasedUndue == [job EXCEPT !.status = "leased", !.live = TRUE,
                              !.due = FALSE, !.epoch = @ + 1,
                              !.attempts = @ + 1]

(* A claim opens a new lease epoch, counts the attempt and, for a job of   *)
(* the platform's keys, arms the replay for the end of the lease.          *)
Leased == [job EXCEPT !.status = "leased", !.live = TRUE, !.due = ~job.byok,
                      !.epoch = @ + 1, !.attempts = @ + 1]

\* Mutant: reclaiming an expired lease takes a job out of the queue twice.
MutClaimTally == Moved("queued", "leased")

ClaimTally ==
    IF job.status = "queued" THEN Moved("queued", "leased") ELSE tally

ClaimJob(w) ==
    /\ worker[w].pc = "claim"
    /\ IF ClaimStatus(w) = "claimed"
       THEN /\ Write(Leased)
            /\ tally' = ClaimTally
            /\ worker' = [worker EXCEPT
                   ![w].pc = IF worker[w].lane = "task" THEN "check" ELSE "read",
                   ![w].epoch = Leased.epoch,
                   ![w].attempts = Leased.attempts]
            /\ UNCHANGED <<task, lock>>
       ELSE /\ Finish(w, ClaimStatus(w) # "leased")
            /\ UNCHANGED <<job, tally>>
    /\ UNCHANGED <<rowVars, session, requeue, scanned, sent, touched, faults>>

(* should_skip_background_account_mutation: the account is being migrated. *)
CheckCutover(w) ==
    /\ worker[w].pc = "check"
    /\ \/ Goto(w, "read") /\ UNCHANGED touched
       \/ "cutover" \in Events /\ Touch /\ Goto(w, "fence")
    /\ UNCHANGED <<rowVars, job, laneVars, tally, sent, faults>>

(* A fence is refused once the fanout began, and the attempt then repeats: *)
(* here and in ProcessConversation such an attempt is charged.             *)
ReadConversation(w) ==
    /\ worker[w].pc = "read"
    /\ FaultIf(conv.status = "merging" /\ job.fanout # "pending")
    /\ worker' = [worker EXCEPT
           ![w].pc = CASE ~conv.there \/ conv.status = "completed" -> "fanout"
                       [] conv.there /\ conv.status = "processing" -> "process"
                       [] OTHER -> "ensure",
           ![w].discarded = conv.there /\ conv.discarded,
           ![w].deferred = conv.deferred]
    /\ UNCHANGED <<rowVars, job, laneVars, tally, sent, touched>>

EnsureProcessing(w) ==
    /\ worker[w].pc = "ensure"
    /\ LET admit == conv.status = "in_progress" /\ ~conv.discarded IN
       /\ Goto(w, CASE ~conv.there -> "fail"
                    [] conv.there /\ (admit \/ conv.status = "processing")
                         -> "process"
                    [] OTHER -> "fence")
       /\ IF conv.there /\ admit
          THEN /\ conv' = [conv EXCEPT !.status = "processing",
                                       !.admitted = "fresh"]
               /\ Restamp
          ELSE UNCHANGED <<conv, orphan>>
    /\ UNCHANGED <<job, laneVars, direct, tally, sent, touched, faults>>

(* What process_conversation persists: a deletion refuses it, and the       *)
(* custom-STT branch swallows an exception of the write (lost).            *)
Persisted(v, discarded, deferred) ==
    IF ~conv.there \/ v \in {"skip", "lost"} THEN conv
    ELSE [conv EXCEPT
             !.status = IF v = "defer" THEN "processing" ELSE "completed",
             !.discarded = IF v = "custom" THEN discarded ELSE v = "drop",
             !.deferred = v = "defer" \/ deferred]

ProcessConversation(w) ==
    /\ worker[w].pc = "process"
    /\ \E v \in Verdicts :
          /\ conv' = Persisted(v, worker[w].discarded, worker[w].deferred)
          /\ Goto(w, IF v = "custom" \/ (v \in {"keep", "drop"} /\ conv.there)
                     THEN "fanout" ELSE "fence")
          /\ IF v \in {"drop", "skip", "defer", "lost"} THEN Touch
             ELSE UNCHANGED touched
    /\ UNCHANGED <<job, laneVars, direct, orphan, tally, sent, faults>>

AdmitsFanout ==
    conv.there /\ ~conv.discarded /\ conv.status = "completed" /\ conv.bound

Fenced(j) == [j EXCEPT !.status = "completed", !.outcome = "fenced",
                       !.fanout = "fenced", !.due = FALSE, !.live = FALSE]

FanoutLeased(w) == [job EXCEPT !.fanout = "leased",
                               !.fanoutEpoch = worker[w].epoch]

\* Mutant: a replay claims an acknowledged fanout once more.
MutAlreadyFannedOut == FALSE

AlreadyFannedOut == job.fanout = "completed"

ClaimFanout(w) ==
    /\ worker[w].pc = "fanout"
    /\ CASE AlreadyFannedOut ->
              Goto(w, "complete") /\ UNCHANGED <<job, tally>>
         [] ~AlreadyFannedOut /\ ~IsCurrentLease(w) ->
              Goto(w, "fail") /\ UNCHANGED <<job, tally>>
         [] ~AlreadyFannedOut /\ IsCurrentLease(w) /\ ~AdmitsFanout ->
              /\ Goto(w, "fence") /\ Write(Fenced(job))
              /\ tally' = Moved("leased", "completed")
         [] OTHER ->
              /\ Goto(w, "deliver") /\ UNCHANGED tally
              /\ Write(FanoutLeased(w))
    /\ UNCHANGED <<rowVars, laneVars, sent, touched, faults>>

FinalAttempt(w) ==
    IF worker[w].lane = "task" THEN worker[w].retry >= MaxAttempts - 1
    ELSE worker[w].attempts >= MaxAttempts

(* Derived effects and integrations; the last attempt drops a delivery     *)
(* that fails.                                                             *)
DeliverFanout(w) ==
    /\ worker[w].pc = "deliver"
    /\ Goto(w, "ack")
    /\ sent' = TRUE
    /\ UNCHANGED <<rowVars, job, laneVars, tally, touched, faults>>

AckFanout(w) ==
    /\ worker[w].pc = "ack"
    /\ LET already == job.fanout = "completed"
           fresh == ~already /\ IsCurrentLease(w) IN
       /\ Goto(w, IF fresh \/ (already /\ job.fanoutEpoch = worker[w].epoch)
                  THEN "complete" ELSE "fail")
       /\ IF fresh THEN Write([job EXCEPT !.fanout = "completed"])
          ELSE UNCHANGED job
    /\ UNCHANGED <<rowVars, laneVars, tally, sent, touched, faults>>

MarkCompleted(w) ==
    /\ worker[w].pc = "complete"
    /\ LET ok == IsCurrentLease(w) /\ job.fanout = "completed" IN
       /\ Finish(w, ok \/ (job.status = "completed"
                             /\ job.epoch = worker[w].epoch))
       /\ IF ok
          THEN /\ Write([job EXCEPT !.status = "completed", !.live = FALSE,
                                    !.outcome = "success", !.due = FALSE])
               /\ tally' = Moved("leased", "completed")
          ELSE UNCHANGED <<job, tally>>
    /\ UNCHANGED <<rowVars, session, requeue, scanned, sent, touched, faults>>

MarkFenced(w) ==
    /\ worker[w].pc = "fence"
    /\ LET ok == IsCurrentLease(w) /\ job.fanout = "pending" IN
       /\ Finish(w, ok \/ (job.status = "completed" /\ job.outcome = "fenced"
                             /\ job.epoch = worker[w].epoch))
       /\ IF ok THEN Write(Fenced(job)) /\ tally' = Moved("leased", "completed")
          ELSE UNCHANGED <<job, tally>>
    /\ UNCHANGED <<rowVars, session, requeue, scanned, sent, touched, faults>>

\* Mutant: the row is closed by a write of its own that never comes.
MutDeadLetteredRow == conv

(* The row that still waits for a dead-lettered job is closed with it. *)
DeadLetteredRow ==
    IF conv.there /\ conv.bound /\ ~conv.discarded /\ conv.status = "processing"
    THEN [conv EXCEPT !.status = "failed", !.discarded = TRUE]
    ELSE conv

(* A failed attempt: the lease is released, or the job is dead-lettered.   *)
RetryOrDeadLetter(w) ==
    /\ worker[w].pc = "fail"
    /\ LET current == IsCurrentLease(w)
           dead == current /\ FinalAttempt(w) IN
       /\ Finish(w, dead)
       /\ job' = CASE dead -> [job EXCEPT !.status = "dead_letter",
                                   !.outcome = "failure", !.live = FALSE,
                                   !.due = FALSE, !.old = FALSE]
                   [] current /\ ~dead -> [job EXCEPT !.status = "queued",
                                   !.live = FALSE, !.due = ~job.byok,
                                   !.old = FALSE]
                   [] OTHER -> job
       /\ tally' = IF current THEN Moved("leased", job'.status) ELSE tally
       /\ conv' = IF dead THEN DeadLetteredRow ELSE conv
    /\ UNCHANGED <<direct, orphan, session, requeue, scanned, sent, touched,
                   faults>>

(* An exception anywhere in the attempt; in the recovery it loses even the *)
(* release of the lease.                                                   *)
WorkerFails(w) ==
    /\ worker[w].pc # "idle"
    /\ Fault
    /\ IF worker[w].pc \in {"claim", "fail"}
       THEN Finish(w, FALSE)
       ELSE Goto(w, "fail") /\ UNCHANGED <<task, lock>>
    /\ UNCHANGED <<rowVars, job, session, requeue, scanned, tally, sent,
                   touched>>

(* The process dies, or the handler is cancelled and keeps its lock. *)
WorkerCrash(w) ==
    /\ worker[w].pc # "idle"
    /\ Fault
    /\ worker' = [worker EXCEPT ![w] = Idle]
    /\ IF worker[w].lane = "task"
       THEN /\ task' = Answered(worker[w].gen, worker[w].retry, FALSE)
            /\ lock' = IF lock = w THEN "lost" ELSE lock
       ELSE UNCHANGED <<task, lock>>
    /\ UNCHANGED <<rowVars, job, session, requeue, scanned, tally, sent,
                   touched>>

(* Cloud Tasks gives up on a slow answer and delivers the task again. *)
TaskTimesOut(w) ==
    /\ worker[w].pc # "idle" /\ worker[w].lane = "task"
    /\ task[worker[w].gen] = worker[w].retry
    /\ Fault
    /\ task' = Answered(worker[w].gen, worker[w].retry, FALSE)
    /\ UNCHANGED <<rowVars, job, lock, worker, session, requeue, scanned,
                   tally, sent, touched>>

-----------------------------------------------------------------------------
(* Time, and the reconciler that replays stale platform jobs.              *)

LeaseOwned == \E w \in Worker : worker[w].pc # "idle" /\ IsCurrentLease(w)

LeaseExpires ==
    /\ job.status = "leased" /\ job.live
    /\ FaultIf(LeaseOwned)
    /\ job' = [job EXCEPT !.live = FALSE]
    /\ UNCHANGED <<rowVars, laneVars, worker, tally, sent, touched>>

LockExpires ==
    /\ lock # "free"
    /\ FaultIf(lock \in Worker)
    /\ lock' = "free"
    /\ UNCHANGED <<rowVars, job, task, worker, session, requeue, scanned,
                   tally, sent, touched>>

(* A delivery of the queued job is still to come: replaying it is early. *)
UnderWay ==
    \/ Pending(job.gen)
    \/ task[job.gen] = Unused /\ session.pc = "enqueue"
    \/ \E w \in Worker : worker[w].pc # "idle"

ClaimReplay ==
    /\ requeue = 0
    /\ job.due /\ job.status \in {"queued", "leased"}
    /\ job.status = "leased" => ~job.live
    /\ FaultIf(job.status = "queued" /\ UnderWay)
    /\ Write([job EXCEPT !.status = "queued", !.gen = @ + 1, !.live = FALSE])
    /\ tally' = IF job.status = "leased" THEN Moved("leased", "queued")
                ELSE tally
    /\ requeue' = job.gen + 1
    /\ UNCHANGED <<rowVars, task, lock, worker, session, scanned, sent,
                   touched>>

EnqueueReplay ==
    /\ requeue # 0
    /\ \/ task' = Enqueued(requeue) /\ UNCHANGED faults
       \/ Fault /\ UNCHANGED task
    /\ requeue' = 0
    /\ UNCHANGED <<rowVars, job, lock, worker, session, scanned, tally, sent,
                   touched>>

(* The sweep of BYOK jobs whose session is gone for good.                  *)
JobGrowsOld ==
    /\ job.byok /\ job.status \in {"queued", "leased"}
    /\ ~job.live /\ ~job.old
    /\ session.pc = "idle" /\ \A w \in Worker : worker[w].pc = "idle"
    /\ job' = [job EXCEPT !.old = TRUE]
    /\ UNCHANGED <<rowVars, laneVars, worker, tally, sent, touched, faults>>

ScanByok ==
    /\ scanned = NoScan
    /\ job.byok /\ job.old /\ job.status \in {"queued", "leased"}
    /\ job.status = "leased" => ~job.live
    /\ scanned' = [status |-> job.status, gen |-> job.gen,
                   epoch |-> job.epoch]
    /\ UNCHANGED <<rowVars, job, task, lock, worker, session, requeue, tally,
                   sent, touched, faults>>

AbandonByok ==
    /\ scanned # NoScan
    /\ scanned' = NoScan
    /\ IF /\ job.byok /\ job.old /\ ~job.live
          /\ scanned = [status |-> job.status, gen |-> job.gen,
                        epoch |-> job.epoch]
       THEN /\ Write([job EXCEPT !.status = "dead_letter",
                          !.outcome = "abandoned", !.fanout = "fenced",
                          !.due = FALSE])
            /\ tally' = Moved(job.status, "dead_letter")
            /\ conv' = IF conv.there /\ conv.bound /\ ~conv.discarded
                          /\ ~conv.deferred /\ conv.status = "processing"
                       THEN [conv EXCEPT !.status = "completed"] ELSE conv
       ELSE UNCHANGED <<job, tally, conv>>
    /\ UNCHANGED <<direct, orphan, task, lock, worker, session, requeue, sent,
                   touched, faults>>

-----------------------------------------------------------------------------
(* Processors that own the row by its admission stamp instead of a job,    *)
(* and the sweep that closes the rows they leave behind.                   *)

directRest == <<job, laneVars, worker, tally, sent>>

RouteAdmit ==
    /\ "route" \in Events /\ direct = NoDirect
    /\ conv.there /\ conv.status = "in_progress" /\ ~conv.discarded
    /\ conv' = [conv EXCEPT !.status = "processing", !.admitted = "fresh"]
    /\ direct' = [NoDirect EXCEPT !.pc = "route"]
    /\ Restamp
    /\ UNCHANGED <<directRest, touched, faults>>

OpenDeferred ==
    /\ "open" \in Events /\ direct = NoDirect
    /\ conv.there /\ conv.deferred /\ ~conv.discarded
    /\ conv.status \in {"processing", "completed"}
    /\ conv' = [conv EXCEPT !.status = "processing", !.deferred = FALSE,
                            !.admitted = "fresh"]
    /\ direct' = [NoDirect EXCEPT !.pc = "enrich"]
    /\ Restamp
    /\ UNCHANGED <<directRest, touched, faults>>

DirectProcess ==
    /\ direct.pc \in {"route", "enrich"}
    /\ \E v \in Verdicts \cap {"keep", "custom", "lost", "skip"} :
          conv' = Persisted(v, FALSE, FALSE)
    /\ direct' = NoDirect
    /\ UNCHANGED <<directRest, orphan, touched, faults>>

(* The route rolls its admission back; an enrichment re-arms the row. *)
DirectFails ==
    /\ direct.pc \in {"route", "enrich"}
    /\ Fault
    /\ conv' =
         IF ~conv.there \/ conv.discarded THEN conv
         ELSE IF direct.pc = "route" /\ conv.status = "processing"
         THEN [conv EXCEPT !.status = "in_progress"]
         ELSE IF direct.pc = "enrich" /\ ~conv.deferred
                 /\ conv.status \in {"processing", "completed"}
         THEN [conv EXCEPT !.status = "completed", !.deferred = TRUE]
         ELSE conv
    /\ direct' = NoDirect
    /\ UNCHANGED <<directRest, orphan, touched>>

(* The process dies, with the request or the background task of a merge in *)
(* it; nothing takes a row off `merging' but that task.                    *)
DirectCrash ==
    /\ direct.pc # "idle"
    /\ Fault
    /\ direct' = NoDirect
    /\ UNCHANGED <<directRest, conv, orphan, touched>>

(* A live processor's heartbeat keeps the stamp fresh, unless it is late.  *)
(* The age of a bound row's stamp is left alone: no sweep looks at it.     *)
StampAges ==
    /\ conv.there /\ conv.status = "processing" /\ conv.admitted = "fresh"
    /\ ~conv.bound
    /\ FaultIf(direct.pc \in {"route", "enrich"})
    /\ conv' = [conv EXCEPT !.admitted = "aged"]
    /\ UNCHANGED <<directRest, direct, orphan, touched>>

RenewLease ==
    /\ direct.pc \in {"route", "enrich"}
    /\ conv.there /\ conv.status = "processing" /\ ~conv.discarded
    /\ conv.admitted = "aged"
    /\ conv' = [conv EXCEPT !.admitted = "fresh"]
    /\ Restamp
    /\ UNCHANGED <<directRest, direct, touched, faults>>

ScanOrphan ==
    /\ orphan = "none"
    /\ conv.there /\ conv.status = "processing"
    /\ ~conv.deferred /\ ~conv.bound /\ conv.admitted # "fresh"
    /\ orphan' = IF conv.admitted = "aged" THEN "aged" ELSE "legacy"
    /\ UNCHANGED <<directRest, conv, direct, touched, faults>>

(* A row without a stamp is stamped, or closed when it is too large for    *)
(* one; a stamped row is closed if its stamp is still the scanned one.     *)
CloseOrphan ==
    /\ orphan # "none"
    /\ orphan' = "none"
    /\ LET processing == conv.there /\ conv.status = "processing"
           closable == /\ processing /\ ~conv.discarded
                       /\ ~conv.deferred /\ ~conv.bound
           unstamped == conv.admitted = "none"
           closed == [conv EXCEPT !.status = "completed"] IN
       CASE orphan = "legacy" /\ processing /\ unstamped ->
              \/ conv' = [conv EXCEPT !.admitted = "fresh"]
              \/ closable /\ conv' = closed
         [] orphan = "aged" /\ closable -> conv' = closed
         [] OTHER -> UNCHANGED conv
    /\ UNCHANGED <<directRest, direct, touched, faults>>

-----------------------------------------------------------------------------
(* What users do to the row while it is finalized.                         *)

DeleteConversation == "delete" \in Events /\ conv' = NoRow

UserEvent ==
    /\ conv.there
    /\ \/ /\ "discard" \in Events /\ ~conv.discarded
          /\ conv' = [conv EXCEPT !.discarded = TRUE]
       \/ /\ "restore" \in Events /\ conv.discarded
          /\ conv' = [conv EXCEPT !.discarded = FALSE]
       \/ DeleteConversation
    /\ Touch
    /\ UNCHANGED <<directRest, direct, orphan, faults>>

BeginMerge ==
    /\ "merge" \in Events /\ direct = NoDirect
    /\ conv.there /\ conv.status = "completed"
    /\ conv' = [conv EXCEPT !.status = "merging"]
    /\ direct' = [NoDirect EXCEPT !.pc = "merge"]
    /\ Touch
    /\ UNCHANGED <<directRest, orphan, faults>>

(* The sources are deleted, or a failed merge completes them again. *)
EndMerge ==
    /\ direct.pc = "merge"
    /\ \/ conv' = NoRow /\ UNCHANGED faults
       \/ /\ Fault
          /\ conv' = IF conv.there /\ ~conv.discarded
                        /\ conv.status \in {"processing", "merging"}
                     THEN [conv EXCEPT !.status = "completed"] ELSE conv
    /\ direct' = NoDirect
    /\ UNCHANGED <<directRest, orphan, touched>>

-----------------------------------------------------------------------------
WorkerStep(w) ==
    \/ ClaimJob(w) \/ CheckCutover(w) \/ ReadConversation(w)
    \/ EnsureProcessing(w) \/ ProcessConversation(w) \/ ClaimFanout(w)
    \/ DeliverFanout(w) \/ AckFanout(w) \/ MarkCompleted(w) \/ MarkFenced(w)
    \/ RetryOrDeadLetter(w)

Next ==
    \/ \E k \in Keys : CreateIntent(k) \/ GetIntent(k)
    \/ ResumeBlockedByok \/ EnqueueIntent \/ SessionCrash
    \/ \E w \in Worker :
          \/ DispatchToPusher(w) \/ WorkerStep(w) \/ WorkerFails(w)
          \/ WorkerCrash(w) \/ TaskTimesOut(w)
          \/ \E g \in Gens : DeliverTask(w, g)
    \/ LeaseExpires \/ LockExpires \/ ClaimReplay \/ EnqueueReplay
    \/ JobGrowsOld \/ ScanByok \/ AbandonByok
    \/ RouteAdmit \/ OpenDeferred \/ DirectProcess \/ DirectFails
    \/ DirectCrash \/ StampAges \/ RenewLease \/ ScanOrphan \/ CloseOrphan
    \/ UserEvent \/ BeginMerge \/ EndMerge

Spec == Init /\ [][Next]_vars

(* Running code finishes its step, Cloud Tasks delivers, leases end, and   *)
(* the sweeps run every few minutes.  Nothing is assumed of users.         *)
FairSpec ==
    /\ Spec
    /\ WF_vars(ResumeBlockedByok) /\ WF_vars(EnqueueIntent)
    /\ WF_vars(\E w \in Worker : DispatchToPusher(w))
    /\ \A w \in Worker : WF_vars(WorkerStep(w))
    /\ WF_vars(\E w \in Worker, g \in Gens : DeliverTask(w, g))
    /\ WF_vars(LeaseExpires /\ ~LeaseOwned)
    /\ WF_vars(LockExpires /\ lock \notin Worker)
    /\ WF_vars(ClaimReplay) /\ WF_vars(EnqueueReplay)
    /\ WF_vars(JobGrowsOld) /\ WF_vars(ScanByok) /\ WF_vars(AbandonByok)
    /\ WF_vars(DirectProcess) /\ WF_vars(EndMerge)
    /\ WF_vars(StampAges /\ direct.pc \notin {"route", "enrich"})
    /\ WF_vars(ScanOrphan) /\ WF_vars(CloseOrphan)

-----------------------------------------------------------------------------
(* The projection shards that the backlog metrics read count exactly the   *)
(* job's status: no claim, replay, retry or sweep moves them twice.        *)
ProjectionIsExact ==
    \A s \in DOMAIN tally : tally[s] = IF job.status = s THEN 1 ELSE 0

(* No two running attempts hold the same lease epoch, and none is ahead of *)
(* the job: a write fenced by its epoch is one worker's write.             *)
EpochsAreUnique ==
    \A w \in Worker : worker[w].epoch > 0 =>
        /\ worker[w].epoch <= job.epoch
        /\ \A x \in Worker \ {w} : worker[x].epoch # worker[w].epoch

(* What a finished job says is so.  Success was acknowledged, and only a   *)
(* fanout that was delivered (or whose last attempt gave up on it) is,     *)
(* whatever crashed, expired or was replayed in between.  And unless a     *)
(* user or another lane was in the way, or an attempt concluded to drop,   *)
(* skip or defer the conversation or lost its custom-STT result (these are *)
(* what `touched' counts), the row is one its owner can read: never        *)
(* fenced, never still processing.                                         *)
EndsTruthfully ==
    /\ job.outcome = "success" => job.fanout = "completed"
    /\ job.fanout = "completed" => sent
    /\ job.status \in Terminal /\ touched = 0 =>
        /\ job.outcome # "fenced"
        /\ conv.status \in {"completed", "failed"}
        /\ job.outcome = "success" => conv.status = "completed"

(* A terminal job never changes again, and an acknowledged fanout is only  *)
(* ever overwritten by the abandonment of the job.                         *)
TerminalIsFinal ==
    [][/\ job.status \in Terminal => job' = job
       /\ job.fanout = "completed" =>
             job'.fanout = "completed" \/ job'.outcome = "abandoned"]_vars

(* Every accepted job of the platform's keys ends, and so does every BYOK  *)
(* job that a session resumed: the replay, the retries and the abandonment *)
(* sweep leave none behind.  The exception is a job whose fanout had begun *)
(* and whose row a merge left on merging, having died or failed on a       *)
(* discarded row: every fence of it is refused, and it is replayed for     *)
(* ever.  A row left on processing without a job is closed by the          *)
(* stale-processing sweep.                                                 *)
MergeLeft ==
    /\ conv.there /\ conv.status = "merging" /\ direct.pc # "merge"
    /\ job.fanout # "pending"

Orphaned ==
    /\ conv.there /\ conv.status = "processing"
    /\ ~conv.bound /\ ~conv.deferred /\ ~conv.discarded

RecoveryEnds ==
    /\ job.status \in {"queued", "leased"} ~>
          job.status \in Terminal \/ MergeLeft
    /\ Orphaned ~> ~Orphaned
=============================================================================
