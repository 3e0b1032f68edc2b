-------------------------- MODULE FinalizationProofs --------------------------
(***************************************************************************)
(* What Finalization guarantees for every number of workers, attempts,     *)
(* faults and interventions.                                               *)
(*                                                                         *)
(* A worker acts on what it read some steps before: a claim, a row, a      *)
(* fanout.  The invariant ties what a worker may still believe to the      *)
(* lease epoch it holds, and says nothing of a worker whose lease is not   *)
(* the current one, for its writes are fenced.                             *)
(***************************************************************************)
EXTENDS Finalization, TLAPS

Rows == [there : BOOLEAN,
         status : {"in_progress", "processing", "completed", "failed", "merging"},
         discarded : BOOLEAN, deferred : BOOLEAN, bound : BOOLEAN,
         admitted : {"none", "fresh", "aged"}]
Jobs == [status : JobStatuses, byok : BOOLEAN, gen : Nat, epoch : Nat,
         attempts : Nat, fanout : {"pending", "leased", "completed", "fenced"},
         fanoutEpoch : Nat,
         outcome : {"none", "success", "fenced", "failure", "abandoned"},
         due : BOOLEAN, live : BOOLEAN, old : BOOLEAN]
Threads == [pc : {"idle", "claim", "check", "read", "ensure", "process",
                  "fanout", "deliver", "ack", "complete", "fence", "fail"},
            lane : {"task", "pusher"}, gen : Nat, epoch : Nat, retry : Nat,
            attempts : Nat, keys : BOOLEAN, discarded : BOOLEAN,
            deferred : BOOLEAN]

\* The types, with any number of task generations.
Types ==
    /\ conv \in Rows /\ job \in Jobs /\ worker \in [Worker -> Threads]
    /\ session \in [pc : {"idle", "resume", "enqueue", "dispatch"},
                    gen : Nat, keys : BOOLEAN]
    /\ direct \in [pc : {"idle", "route", "enrich", "merge"}, discarded : BOOLEAN]
    /\ scanned = NoScan \/ scanned.status \in {"queued", "leased"}
    /\ tally \in [JobStatuses \ {"none"} -> Int]
    /\ sent \in BOOLEAN /\ touched \in Nat

\* Nobody is at work before there is a job, and the job of a row stays its only
\* one: a row that is not bound to it no longer exists.
JobComesFirst ==
    /\ \A w \in Worker : worker[w].pc = "idle" => worker[w] = Idle
    /\ job.status = "none" =>
          /\ job = NoJob /\ ~conv.bound /\ session.pc = "idle" /\ requeue = 0
          /\ \A g \in Gens : task[g] = Unused
          /\ \A w \in Worker : worker[w].pc = "idle"
    /\ job.status # "none" => conv.bound \/ ~conv.there

\* What the fields of the job say of each other.
OutcomeIsEarned ==
    /\ job.outcome # "none" => job.status \in Terminal
    /\ job.outcome = "success" => job.fanout = "completed"
    /\ job.fanout = "completed" => sent
    /\ \A w \in Worker : worker[w].pc = "ack" => sent

\* Without an intervention the row is there, and it is closed only by its job
\* or by a processor that owns it while it has none.
RowSettles ==
    /\ conv.there /\ ~conv.deferred /\ conv.status # "merging"
    /\ direct.pc \in {"idle", "route"}
    /\ direct.pc = "route" => ~conv.bound /\ conv.status # "in_progress"
    /\ conv.discarded => conv.status = "failed"
    /\ conv.status = "failed" => job.status = "dead_letter"
    /\ conv.bound => conv.status # "in_progress"

\* A job whose fanout began has a completed row, and one that ended a row that
\* its owner can read.
JobSettles ==
    /\ job.fanout # "pending" => conv.status = "completed"
    /\ job.status \in Terminal =>
          /\ job.outcome # "fenced"
          /\ conv.status \in {"completed", "failed"}
          /\ job.outcome = "success" => conv.status = "completed"

\* A worker that holds the current lease is where the row says it should be.
WorkerSettles(w) ==
    /\ worker[w].pc = "process" => ~worker[w].discarded /\ ~worker[w].deferred
    /\ worker[w].pc = "ensure" => conv.status \in {"completed", "failed"}
    /\ IsCurrentLease(w) /\ worker[w].pc # "idle" =>
          /\ worker[w].pc \notin {"ensure", "fence"}
          /\ worker[w].pc \in {"fanout", "deliver", "ack", "complete"} =>
                conv.status = "completed"

Undisturbed ==
    touched = 0 => RowSettles /\ JobSettles /\ \A w \in Worker : WorkerSettles(w)

FinalizationInv ==
    Types /\ JobComesFirst /\ ProjectionIsExact /\ EpochsAreUnique
    /\ OutcomeIsEarned /\ Undisturbed

-----------------------------------------------------------------------------
\* The shards after a move are well typed.
LEMMA MovedType ==
  ASSUME tally \in [JobStatuses \ {"none"} -> Int], NEW from, NEW to
  PROVE  Moved(from, to) \in [JobStatuses \ {"none"} -> Int]
BY DEF Moved

\* The constants of the model are well typed.
LEMMA ConstantTypes ==
  /\ NoRow \in Rows /\ NoJob \in Jobs /\ Idle \in Threads /\ NoScan.status = "none"
  /\ NoJob.status = "none" /\ NoJob.epoch = 0 /\ NoJob.fanout = "pending"
  /\ NoJob.outcome = "none" /\ Idle.pc = "idle" /\ Idle.epoch = 0
  /\ NoSession \in [pc : {"idle", "resume", "enqueue", "dispatch"}, gen : Nat, keys : BOOLEAN]
  /\ NoSession.pc = "idle" /\ NoDirect.pc = "idle" /\ Gens \subseteq Nat
  /\ NoDirect \in [pc : {"idle", "route", "enrich", "merge"}, discarded : BOOLEAN]
BY FinalizationAssumption
   DEF NoRow, Rows, NoJob, Jobs, JobStatuses, Terminal, Idle, Threads, NoScan, NoSession,
       NoDirect, Gens

\* The statuses of a job, spelled out.
LEMMA Statuses ==
  JobStatuses = {"none", "queued", "leased", "blocked_byok", "completed", "dead_letter"}
BY DEF JobStatuses, Terminal

-----------------------------------------------------------------------------
\* What a step does to the fields of the job that the invariant is about.
JobBecomes(status, gen, epoch, fanout, outcome) ==
    /\ job' \in Jobs /\ job'.status = status /\ job'.gen = gen
    /\ job'.epoch = epoch /\ job'.fanout = fanout /\ job'.outcome = outcome

\* The same of a record before it is written.
Fields(j, status, gen, epoch, fanout, outcome) ==
    /\ j \in Jobs /\ j.status = status /\ j.gen = gen
    /\ j.epoch = epoch /\ j.fanout = fanout /\ j.outcome = outcome

\* A write stamps the job and changes nothing else of it.
LEMMA Written ==
  ASSUME NEW j, NEW s, NEW g, NEW e, NEW f, NEW o, Fields(j, s, g, e, f, o), Write(j)
  PROVE  JobBecomes(s, g, e, f, o)
BY DEF Write, Jobs, Fields, JobBecomes

\* The record of a new job.
LEMMA CreatedFields ==
  ASSUME NEW k \in BOOLEAN, NEW s \in {"queued", "blocked_byok"}
  PROVE  Fields([NoJob EXCEPT !.status = s, !.byok = k, !.due = ~k],
                s, 1, 0, "pending", "none")
BY Statuses DEF Jobs, NoJob, Fields

\* The record of a resumed job.
LEMMA ResumedFields ==
  ASSUME NEW j \in Jobs
  PROVE  Fields([j EXCEPT !.status = "queued", !.due = FALSE],
                "queued", j.gen, j.epoch, j.fanout, j.outcome)
BY Statuses DEF Jobs, Fields

\* The record of a claimed job.
LEMMA LeasedFields ==
  ASSUME Types
  PROVE  Fields(Leased, "leased", job.gen, job.epoch + 1, job.fanout, job.outcome)
         /\ Leased.attempts \in Nat /\ Leased.epoch \in Nat
<1>1. job.epoch \in Nat /\ job.attempts \in Nat /\ job.byok \in BOOLEAN /\ job \in Jobs
  BY DEF Jobs, Types
<1>2. ASSUME NEW j \in Jobs, NEW d \in BOOLEAN, NEW e \in Nat, NEW a \in Nat
      PROVE  Fields([j EXCEPT !.status = "leased", !.live = TRUE, !.due = d,
                              !.epoch = e, !.attempts = a],
                    "leased", j.gen, e, j.fanout, j.outcome)
  BY <1>2, Statuses DEF Jobs, Fields
<1>3. (~job.byok) \in BOOLEAN /\ job.epoch + 1 \in Nat /\ job.attempts + 1 \in Nat
  BY <1>1
<1>4. Fields(Leased, "leased", job.gen, job.epoch + 1, job.fanout, job.outcome)
  BY <1>1, <1>2, <1>3 DEF Leased
<1> QED
  BY <1>4 DEF Fields, Jobs

\* The record of a job whose fanout is claimed, and of one it is acknowledged for.
LEMMA FanoutFields ==
  ASSUME Types, NEW w \in Worker
  PROVE  /\ Fields(FanoutLeased(w), job.status, job.gen, job.epoch, "leased", job.outcome)
         /\ Fields([job EXCEPT !.fanout = "completed"],
                   job.status, job.gen, job.epoch, "completed", job.outcome)
<1>1. job \in Jobs /\ worker[w].epoch \in Nat
  BY DEF Types, Threads
<1>2. Fields(FanoutLeased(w), job.status, job.gen, job.epoch, "leased", job.outcome)
  BY <1>1 DEF Jobs, Fields, FanoutLeased
<1>3. Fields([job EXCEPT !.fanout = "completed"],
             job.status, job.gen, job.epoch, "completed", job.outcome)
  BY <1>1 DEF Jobs, Fields
<1> QED
  BY <1>2, <1>3

\* The records of a job that ended.
LEMMA EndedFields ==
  ASSUME NEW j \in Jobs
  PROVE  /\ Fields(Fenced(j), "completed", j.gen, j.epoch, "fenced", "fenced")
         /\ Fields([j EXCEPT !.status = "completed", !.live = FALSE,
                             !.outcome = "success", !.due = FALSE],
                   "completed", j.gen, j.epoch, j.fanout, "success")
         /\ Fields([j EXCEPT !.status = "dead_letter", !.outcome = "abandoned",
                             !.fanout = "fenced", !.due = FALSE],
                   "dead_letter", j.gen, j.epoch, "fenced", "abandoned")
         /\ Fields([j EXCEPT !.status = "dead_letter", !.outcome = "failure",
                             !.live = FALSE, !.due = FALSE, !.old = FALSE],
                   "dead_letter", j.gen, j.epoch, j.fanout, "failure")
<1>1. Fields(Fenced(j), "completed", j.gen, j.epoch, "fenced", "fenced")
  BY Statuses DEF Jobs, Fields, Fenced
<1>2. Fields([j EXCEPT !.status = "completed", !.live = FALSE,
                       !.outcome = "success", !.due = FALSE],
             "completed", j.gen, j.epoch, j.fanout, "success")
  BY Statuses DEF Jobs, Fields
<1>3. Fields([j EXCEPT !.status = "dead_letter", !.outcome = "abandoned",
                       !.fanout = "fenced", !.due = FALSE],
             "dead_letter", j.gen, j.epoch, "fenced", "abandoned")
  BY Statuses DEF Jobs, Fields
<1>4. Fields([j EXCEPT !.status = "dead_letter", !.outcome = "failure",
                       !.live = FALSE, !.due = FALSE, !.old = FALSE],
             "dead_letter", j.gen, j.epoch, j.fanout, "failure")
  BY Statuses DEF Jobs, Fields
<1> QED
  BY <1>1, <1>2, <1>3, <1>4

\* The records of a job that waits again, or only ages.
LEMMA WaitingFields ==
  ASSUME NEW j \in Jobs
  PROVE  /\ Fields([j EXCEPT !.status = "queued", !.live = FALSE,
                             !.due = ~j.byok, !.old = FALSE],
                   "queued", j.gen, j.epoch, j.fanout, j.outcome)
         /\ Fields([j EXCEPT !.status = "queued", !.gen = @ + 1, !.live = FALSE],
                   "queued", j.gen + 1, j.epoch, j.fanout, j.outcome)
         /\ Fields([j EXCEPT !.live = FALSE],
                   j.status, j.gen, j.epoch, j.fanout, j.outcome)
         /\ Fields([j EXCEPT !.old = TRUE],
                   j.status, j.gen, j.epoch, j.fanout, j.outcome)
<1>1. j.gen \in Nat /\ j.byok \in BOOLEAN
  BY DEF Jobs
<1>2. Fields([j EXCEPT !.status = "queued", !.live = FALSE,
                       !.due = ~j.byok, !.old = FALSE],
             "queued", j.gen, j.epoch, j.fanout, j.outcome)
  BY <1>1, Statuses DEF Jobs, Fields
<1>3. Fields([j EXCEPT !.status = "queued", !.gen = @ + 1, !.live = FALSE],
             "queued", j.gen + 1, j.epoch, j.fanout, j.outcome)
  <2>1. ASSUME NEW g \in Nat
        PROVE  Fields([j EXCEPT !.status = "queued", !.gen = g, !.live = FALSE],
                      "queued", g, j.epoch, j.fanout, j.outcome)
    BY <2>1, Statuses DEF Jobs, Fields
  <2>2. j.gen + 1 \in Nat
    BY <1>1
  <2> QED
    BY <2>1, <2>2
<1>4. /\ Fields([j EXCEPT !.live = FALSE],
                j.status, j.gen, j.epoch, j.fanout, j.outcome)
      /\ Fields([j EXCEPT !.old = TRUE],
                j.status, j.gen, j.epoch, j.fanout, j.outcome)
  BY DEF Jobs, Fields
<1> QED
  BY <1>2, <1>3, <1>4

-----------------------------------------------------------------------------
\* A step of worker w leaves the others alone.
Others(w) ==
    /\ worker' \in [Worker -> Threads]
    /\ \A x \in Worker \ {w} : worker'[x] = worker[x]

\* A worker that goes on keeps what it knows.
KeepsLease(w) ==
    worker'[w].epoch = worker[w].epoch /\ worker'[w].gen = worker[w].gen

Pcs == {"idle", "claim", "check", "read", "ensure", "process", "fanout",
        "deliver", "ack", "complete", "fence", "fail"}

\* A worker that goes on.
LEMMA GotoEffect ==
  ASSUME Types, NEW w \in Worker, NEW pc \in Pcs, Goto(w, pc)
  PROVE  /\ Others(w) /\ KeepsLease(w) /\ worker'[w].pc = pc
         /\ worker'[w].discarded = worker[w].discarded
         /\ worker'[w].deferred = worker[w].deferred
BY DEF Types, Goto, Threads, Pcs, Others, KeepsLease

\* A worker that ends its attempt.
LEMMA FinishEffect ==
  ASSUME Types, NEW w \in Worker, worker' = [worker EXCEPT ![w] = Idle]
  PROVE  Others(w) /\ worker'[w] = Idle
BY ConstantTypes DEF Types, Others

\* A worker that starts one.
LEMMA StartEffect ==
  ASSUME Types, NEW w \in Worker, DispatchToPusher(w) \/ \E g \in Gens : DeliverTask(w, g)
  PROVE  worker' = worker \/ (/\ Others(w) /\ worker[w].pc = "idle"
                              /\ worker'[w].pc = "claim" /\ worker'[w].epoch = 0)
<1>1. ASSUME NEW r \in Threads, worker' = [worker EXCEPT ![w] = r]
      PROVE  Others(w) /\ worker'[w] = r
  BY <1>1 DEF Types, Others
<1>2. CASE DispatchToPusher(w)
  <2> DEFINE r == [Idle EXCEPT !.pc = "claim", !.lane = "pusher", !.gen = session.gen,
                               !.keys = session.keys]
  <2>1. session.gen \in Nat /\ session.keys \in BOOLEAN
    BY DEF Types
  <2>2. r \in Threads /\ r.pc = "claim" /\ r.epoch = 0
    BY <2>1 DEF Threads, Idle
  <2>3. worker[w].pc = "idle" /\ worker' = [worker EXCEPT ![w] = r]
    BY <1>2 DEF DispatchToPusher, Takes
  <2> HIDE DEF r
  <2> QED
    BY <1>1, <2>2, <2>3
<1>3. ASSUME NEW g \in Gens, DeliverTask(w, g), worker' # worker
      PROVE  Others(w) /\ worker[w].pc = "idle" /\ worker'[w].pc = "claim" /\ worker'[w].epoch = 0
  <2> DEFINE r == [Idle EXCEPT !.pc = "claim", !.gen = g, !.retry = task[g]]
  <2>1. g \in Nat /\ task[g] \in Nat
    <3>1. task[g] \in 0 .. MaxAttempts - 1
      BY <1>3 DEF DeliverTask, Pending
    <3>2. g \in 1 .. MaxFaults + MaxTouches + 1
      BY DEF Gens
    <3> QED
      BY <3>1, <3>2, FinalizationAssumption
  <2>2. r \in Threads /\ r.pc = "claim" /\ r.epoch = 0
    BY <2>1 DEF Threads, Idle
  <2>3. worker[w].pc = "idle" /\ worker' = [worker EXCEPT ![w] = r]
    BY <1>3 DEF DeliverTask, Takes
  <2> HIDE DEF r
  <2> QED
    BY <1>1, <2>2, <2>3
<1> QED
  BY <1>2, <1>3

-----------------------------------------------------------------------------
\* What each step does to the job, the shards and the workers.

\* A claim that opens the next epoch; any other ends the attempt.
Claims(w) ==
    /\ job.status \in {"none", "queued", "leased"} /\ job.gen = worker[w].gen
    /\ JobBecomes("leased", job.gen, job.epoch + 1, job.fanout, job.outcome)
    /\ tally' = ClaimTally
    /\ worker'[w].pc \in {"check", "read"} /\ worker'[w].epoch = job.epoch + 1
    /\ worker'[w].gen = worker[w].gen

\* ClaimJob opens the next epoch or ends the attempt.
LEMMA ClaimEffect ==
  ASSUME Types, NEW w \in Worker, ClaimJob(w)
  PROVE  /\ Others(w)
         /\ \/ UNCHANGED <<job, tally>> /\ worker'[w] = Idle
            \/ Claims(w)
<1>1. CASE ClaimStatus(w) = "claimed"
  <2> DEFINE pc == IF worker[w].lane = "task" THEN "check" ELSE "read"
             r == [worker[w] EXCEPT !.pc = pc, !.epoch = Leased.epoch,
                                    !.attempts = Leased.attempts]
  <2>1. worker[w] \in Threads
    BY DEF Types
  <2>2. /\ r \in Threads /\ r.pc \in {"check", "read"} /\ r.epoch = Leased.epoch
        /\ r.gen = worker[w].gen
    BY <2>1, LeasedFields DEF Threads
  <2>3. worker' = [worker EXCEPT ![w] = r]
    BY <1>1 DEF ClaimJob, Types
  <2>4. Others(w) /\ worker'[w] = r
    <3> HIDE DEF r
    <3> QED
      BY <2>2, <2>3 DEF Types, Others
  <2>5. JobBecomes("leased", job.gen, job.epoch + 1, job.fanout, job.outcome)
    BY <1>1, Written, LeasedFields DEF ClaimJob
  <2>6. job.status \in {"none", "queued", "leased"} /\ job.gen = worker[w].gen
    BY <1>1, Statuses DEF Types, Jobs, ClaimStatus, Terminal
  <2>7. tally' = ClaimTally /\ Leased.epoch = job.epoch + 1
    BY <1>1, LeasedFields DEF ClaimJob, Fields
  <2> HIDE DEF r
  <2> QED
    BY <2>2, <2>4, <2>5, <2>6, <2>7 DEF Claims
<1>2. CASE ClaimStatus(w) # "claimed"
  <2>1. worker' = [worker EXCEPT ![w] = Idle] /\ UNCHANGED <<job, tally>>
    BY <1>2 DEF ClaimJob, Finish
  <2> QED
    BY <2>1, FinishEffect
<1> QED
  BY <1>1, <1>2

\* The claim of a fanout: it is delivered already, the lease is lost, the row
\* does not admit it, or it is the worker's to deliver.
LEMMA ClaimFanoutEffect ==
  ASSUME Types, NEW w \in Worker, ClaimFanout(w)
  PROVE  /\ Others(w) /\ KeepsLease(w)
         /\ \/ /\ job.fanout = "completed"
               /\ worker'[w].pc = "complete" /\ UNCHANGED <<job, tally>>
            \/ /\ ~IsCurrentLease(w)
               /\ worker'[w].pc = "fail" /\ UNCHANGED <<job, tally>>
            \/ /\ job.fanout # "completed" /\ IsCurrentLease(w) /\ ~AdmitsFanout
               /\ worker'[w].pc = "fence" /\ tally' = Moved("leased", "completed")
               /\ JobBecomes("completed", job.gen, job.epoch, "fenced", "fenced")
            \/ /\ job.fanout # "completed" /\ IsCurrentLease(w) /\ AdmitsFanout
               /\ worker'[w].pc = "deliver" /\ tally' = tally
               /\ JobBecomes(job.status, job.gen, job.epoch, "leased", job.outcome)
<1>1. job \in Jobs
  BY DEF Types
<1>2. ASSUME NEW pc \in Pcs, Goto(w, pc)
      PROVE  Others(w) /\ KeepsLease(w) /\ worker'[w].pc = pc
  BY <1>2, GotoEffect
<1>3. CASE job.fanout = "completed"
  BY <1>2, <1>3 DEF ClaimFanout, AlreadyFannedOut, Pcs
<1>4. CASE job.fanout # "completed" /\ ~IsCurrentLease(w)
  BY <1>2, <1>4 DEF ClaimFanout, AlreadyFannedOut, Pcs
<1>5. CASE job.fanout # "completed" /\ IsCurrentLease(w) /\ ~AdmitsFanout
  <2>1. Goto(w, "fence") /\ Write(Fenced(job)) /\ tally' = Moved("leased", "completed")
    BY <1>5 DEF ClaimFanout, AlreadyFannedOut
  <2>2. JobBecomes("completed", job.gen, job.epoch, "fenced", "fenced")
    BY <1>1, <2>1, Written, EndedFields
  <2> QED
    BY <1>2, <1>5, <2>1, <2>2 DEF Pcs
<1>6. CASE job.fanout # "completed" /\ IsCurrentLease(w) /\ AdmitsFanout
  <2>1. Goto(w, "deliver") /\ Write(FanoutLeased(w)) /\ tally' = tally
    BY <1>6 DEF ClaimFanout, AlreadyFannedOut
  <2>2. JobBecomes(job.status, job.gen, job.epoch, "leased", job.outcome)
    BY <2>1, Written, FanoutFields
  <2> QED
    BY <1>2, <1>6, <2>1, <2>2 DEF Pcs
<1> QED
  BY <1>3, <1>4, <1>5, <1>6

\* The acknowledgement of a fanout.
LEMMA AckEffect ==
  ASSUME Types, NEW w \in Worker, AckFanout(w)
  PROVE  /\ Others(w) /\ KeepsLease(w) /\ worker'[w].pc \in {"complete", "fail"}
         /\ tally' = tally
         /\ worker'[w].pc = "complete" => job'.fanout = "completed"
         /\ \/ job' = job
            \/ /\ job.fanout # "completed" /\ IsCurrentLease(w)
               /\ JobBecomes(job.status, job.gen, job.epoch, "completed", job.outcome)
<1>1. PICK pc \in {"complete", "fail"} :
         /\ Goto(w, pc)
         /\ pc = "complete" => \/ job.fanout # "completed" /\ IsCurrentLease(w)
                               \/ job.fanout = "completed"
  BY DEF AckFanout
<1>2. Others(w) /\ KeepsLease(w) /\ worker'[w].pc = pc /\ pc \in {"complete", "fail"}
  BY <1>1, GotoEffect DEF Pcs
<1>3. CASE job.fanout # "completed" /\ IsCurrentLease(w)
  <2>1. Write([job EXCEPT !.fanout = "completed"]) /\ tally' = tally
    BY <1>3 DEF AckFanout
  <2>2. JobBecomes(job.status, job.gen, job.epoch, "completed", job.outcome)
    BY <2>1, Written, FanoutFields
  <2> QED
    BY <1>2, <1>3, <2>1, <2>2 DEF JobBecomes
<1>4. CASE ~(job.fanout # "completed" /\ IsCurrentLease(w))
  <2>1. job' = job /\ tally' = tally
    BY <1>4 DEF AckFanout
  <2> QED
    BY <1>1, <1>2, <1>4, <2>1
<1> QED
  BY <1>3, <1>4

\* The two writes that complete a job.
LEMMA MarkEffect ==
  ASSUME Types, NEW w \in Worker, MarkCompleted(w) \/ MarkFenced(w)
  PROVE  /\ Others(w) /\ worker'[w] = Idle
         /\ \/ UNCHANGED <<job, tally>>
            \/ /\ worker[w].pc = "complete" /\ IsCurrentLease(w) /\ job.fanout = "completed"
               /\ tally' = Moved("leased", "completed")
               /\ JobBecomes("completed", job.gen, job.epoch, job.fanout, "success")
            \/ /\ worker[w].pc = "fence" /\ IsCurrentLease(w) /\ job.fanout = "pending"
               /\ tally' = Moved("leased", "completed")
               /\ JobBecomes("completed", job.gen, job.epoch, "fenced", "fenced")
<1>1. job \in Jobs
  BY DEF Types
<1>2. worker' = [worker EXCEPT ![w] = Idle]
  BY DEF MarkCompleted, MarkFenced, Finish
<1>3. Others(w) /\ worker'[w] = Idle
  BY <1>2, FinishEffect
<1>4. ASSUME MarkCompleted(w), ~UNCHANGED <<job, tally>>
      PROVE  /\ worker[w].pc = "complete" /\ IsCurrentLease(w) /\ job.fanout = "completed"
             /\ tally' = Moved("leased", "completed")
             /\ JobBecomes("completed", job.gen, job.epoch, job.fanout, "success")
  <2>1. /\ worker[w].pc = "complete" /\ IsCurrentLease(w) /\ job.fanout = "completed"
        /\ tally' = Moved("leased", "completed")
        /\ Write([job EXCEPT !.status = "completed", !.live = FALSE,
                             !.outcome = "success", !.due = FALSE])
    BY <1>4 DEF MarkCompleted
  <2> QED
    BY <1>1, <2>1, Written, EndedFields
<1>5. ASSUME MarkFenced(w), ~UNCHANGED <<job, tally>>
      PROVE  /\ worker[w].pc = "fence" /\ IsCurrentLease(w) /\ job.fanout = "pending"
             /\ tally' = Moved("leased", "completed")
             /\ JobBecomes("completed", job.gen, job.epoch, "fenced", "fenced")
  <2>1. /\ worker[w].pc = "fence" /\ IsCurrentLease(w) /\ job.fanout = "pending"
        /\ tally' = Moved("leased", "completed") /\ Write(Fenced(job))
    BY <1>5 DEF MarkFenced
  <2> QED
    BY <1>1, <2>1, Written, EndedFields
<1> QED
  BY <1>3, <1>4, <1>5

\* A failed attempt: the lease was lost, the job waits again or is dead.
LEMMA RetryEffect ==
  ASSUME Types, NEW w \in Worker, RetryOrDeadLetter(w)
  PROVE  /\ Others(w) /\ worker'[w] = Idle
         /\ \/ job' = job /\ tally' = tally /\ conv' = conv
            \/ /\ IsCurrentLease(w) /\ tally' = Moved("leased", "queued") /\ conv' = conv
               /\ JobBecomes("queued", job.gen, job.epoch, job.fanout, job.outcome)
            \/ /\ IsCurrentLease(w) /\ tally' = Moved("leased", "dead_letter")
               /\ conv' = DeadLetteredRow
               /\ JobBecomes("dead_letter", job.gen, job.epoch, job.fanout, "failure")
<1>1. job \in Jobs
  BY DEF Types
<1>2. worker' = [worker EXCEPT ![w] = Idle]
  BY DEF RetryOrDeadLetter, Finish
<1>3. Others(w) /\ worker'[w] = Idle
  BY <1>2, FinishEffect
<1>4. CASE ~IsCurrentLease(w)
  <2>1. job' = job /\ tally' = tally /\ conv' = conv
    BY <1>4 DEF RetryOrDeadLetter
  <2> QED
    BY <1>3, <2>1
<1>5. CASE IsCurrentLease(w) /\ FinalAttempt(w)
  <2>1. /\ job' = [job EXCEPT !.status = "dead_letter", !.outcome = "failure",
                              !.live = FALSE, !.due = FALSE, !.old = FALSE]
        /\ tally' = Moved("leased", job'.status) /\ conv' = DeadLetteredRow
    BY <1>5 DEF RetryOrDeadLetter
  <2>2. JobBecomes("dead_letter", job.gen, job.epoch, job.fanout, "failure")
    BY <1>1, <2>1, EndedFields DEF Fields, JobBecomes
  <2> QED
    BY <1>3, <1>5, <2>1, <2>2 DEF JobBecomes
<1>6. CASE IsCurrentLease(w) /\ ~FinalAttempt(w)
  <2>1. /\ job' = [job EXCEPT !.status = "queued", !.live = FALSE,
                              !.due = ~job.byok, !.old = FALSE]
        /\ tally' = Moved("leased", job'.status) /\ conv' = conv
    BY <1>6 DEF RetryOrDeadLetter
  <2>2. JobBecomes("queued", job.gen, job.epoch, job.fanout, job.outcome)
    BY <1>1, <2>1, WaitingFields DEF Fields, JobBecomes
  <2> QED
    BY <1>3, <1>6, <2>1, <2>2 DEF JobBecomes
<1> QED
  BY <1>4, <1>5, <1>6

\* The steps outside the workers that write the job.
LEMMA LaneEffect ==
  ASSUME Types
  PROVE  /\ \A k \in Keys : CreateIntent(k) =>
              \E s \in {"queued", "blocked_byok"} :
                 JobBecomes(s, 1, 0, "pending", "none") /\ tally' = Moved("none", s)
         /\ ResumeBlockedByok =>
              \/ UNCHANGED <<job, tally>>
              \/ /\ job.status = "blocked_byok" /\ tally' = Moved("blocked_byok", "queued")
                 /\ JobBecomes("queued", job.gen, job.epoch, job.fanout, job.outcome)
         /\ LeaseExpires \/ JobGrowsOld =>
              /\ JobBecomes(job.status, job.gen, job.epoch, job.fanout, job.outcome)
              /\ job.status \in {"queued", "leased"} /\ tally' = tally
         /\ ClaimReplay =>
              /\ JobBecomes("queued", job.gen + 1, job.epoch, job.fanout, job.outcome)
              /\ \/ job.status = "leased" /\ tally' = Moved("leased", "queued")
                 \/ job.status = "queued" /\ tally' = tally
         /\ AbandonByok =>
              \/ UNCHANGED <<job, tally, conv>>
              \/ /\ JobBecomes("dead_letter", job.gen, job.epoch, "fenced", "abandoned")
                 /\ job.status \in {"queued", "leased"}
                 /\ tally' = Moved(job.status, "dead_letter")
<1>1. job \in Jobs
  BY DEF Types
<1>2. ASSUME NEW k \in Keys, CreateIntent(k)
      PROVE  \E s \in {"queued", "blocked_byok"} :
                JobBecomes(s, 1, 0, "pending", "none") /\ tally' = Moved("none", s)
  <2> DEFINE s == IF k THEN "blocked_byok" ELSE "queued"
  <2>1. k \in BOOLEAN /\ s \in {"queued", "blocked_byok"}
    BY FinalizationAssumption
  <2>2. Write([NoJob EXCEPT !.status = s, !.byok = k, !.due = ~k]) /\ tally' = Moved("none", s)
    BY <1>2 DEF CreateIntent
  <2>3. JobBecomes(s, 1, 0, "pending", "none")
    <3> HIDE DEF s
    <3> QED
      BY <2>1, <2>2, Written, CreatedFields
  <2> QED
    BY <2>1, <2>2, <2>3
<1>3. ASSUME ResumeBlockedByok, job.status = "blocked_byok"
      PROVE  /\ tally' = Moved("blocked_byok", "queued")
             /\ JobBecomes("queued", job.gen, job.epoch, job.fanout, job.outcome)
  <2>1. /\ Write([job EXCEPT !.status = "queued", !.due = FALSE])
        /\ tally' = Moved("blocked_byok", "queued")
    BY <1>3 DEF ResumeBlockedByok
  <2> QED
    BY <1>1, <2>1, Written, ResumedFields
<1>4. ASSUME LeaseExpires \/ JobGrowsOld
      PROVE  /\ JobBecomes(job.status, job.gen, job.epoch, job.fanout, job.outcome)
             /\ job.status \in {"queued", "leased"} /\ tally' = tally
  <2>1. /\ job' = [job EXCEPT !.live = FALSE] \/ job' = [job EXCEPT !.old = TRUE]
        /\ job.status \in {"queued", "leased"} /\ tally' = tally
    BY <1>4 DEF LeaseExpires, JobGrowsOld
  <2>2. Fields(job', job.status, job.gen, job.epoch, job.fanout, job.outcome)
    BY <1>1, <2>1, WaitingFields
  <2> QED
    BY <2>1, <2>2 DEF Fields, JobBecomes
<1>5. ASSUME ClaimReplay
      PROVE  /\ JobBecomes("queued", job.gen + 1, job.epoch, job.fanout, job.outcome)
             /\ \/ job.status = "leased" /\ tally' = Moved("leased", "queued")
                \/ job.status = "queued" /\ tally' = tally
  <2>1. /\ Write([job EXCEPT !.status = "queued", !.gen = @ + 1, !.live = FALSE])
        /\ \/ job.status = "leased" /\ tally' = Moved("leased", "queued")
           \/ job.status = "queued" /\ tally' = tally
    BY <1>5 DEF ClaimReplay
  <2> QED
    BY <1>1, <2>1, Written, WaitingFields
<1>6. ASSUME AbandonByok, ~UNCHANGED <<job, tally, conv>>
      PROVE  /\ JobBecomes("dead_letter", job.gen, job.epoch, "fenced", "abandoned")
             /\ job.status \in {"queued", "leased"}
             /\ tally' = Moved(job.status, "dead_letter")
  <2>1. /\ Write([job EXCEPT !.status = "dead_letter", !.outcome = "abandoned",
                             !.fanout = "fenced", !.due = FALSE])
        /\ scanned # NoScan /\ scanned.status = job.status
        /\ tally' = Moved(job.status, "dead_letter")
    BY <1>6 DEF AbandonByok
  <2>2. job.status \in {"queued", "leased"}
    BY <2>1 DEF Types
  <2> QED
    BY <1>1, <2>1, <2>2, Written, EndedFields
<1>7. ResumeBlockedByok => UNCHANGED <<job, tally>> \/ job.status = "blocked_byok"
  BY DEF ResumeBlockedByok
<1> QED
  BY <1>2, <1>3, <1>4, <1>5, <1>6, <1>7

-----------------------------------------------------------------------------
\* What a step does to the fields of the row that the invariant is about.
RowIs(r, there, status, discarded, deferred, bound) ==
    /\ r \in Rows /\ r.there = there /\ r.status = status
    /\ r.discarded = discarded /\ r.deferred = deferred /\ r.bound = bound

RowStatuses == {"in_progress", "processing", "completed", "failed", "merging"}

\* The records a step may write for the row.
LEMMA RowFields ==
  ASSUME NEW r \in Rows, NEW s \in RowStatuses, NEW d \in BOOLEAN, NEW f \in BOOLEAN,
         NEW a \in {"none", "fresh", "aged"}
  PROVE  /\ RowIs([r EXCEPT !.status = s], r.there, s, r.discarded, r.deferred, r.bound)
         /\ RowIs([r EXCEPT !.status = s, !.bound = TRUE],
                  r.there, s, r.discarded, r.deferred, TRUE)
         /\ RowIs([r EXCEPT !.status = s, !.admitted = a],
                  r.there, s, r.discarded, r.deferred, r.bound)
         /\ RowIs([r EXCEPT !.status = s, !.discarded = d, !.deferred = f],
                  r.there, s, d, f, r.bound)
         /\ RowIs([r EXCEPT !.status = s, !.discarded = d], r.there, s, d, r.deferred, r.bound)
         /\ RowIs([r EXCEPT !.status = s, !.deferred = f, !.admitted = a],
                  r.there, s, r.discarded, f, r.bound)
         /\ RowIs([r EXCEPT !.status = s, !.deferred = f], r.there, s, r.discarded, f, r.bound)
         /\ RowIs([r EXCEPT !.admitted = a],
                  r.there, r.status, r.discarded, r.deferred, r.bound)
         /\ RowIs([r EXCEPT !.discarded = d], r.there, r.status, d, r.deferred, r.bound)
<1>1. RowIs([r EXCEPT !.status = s], r.there, s, r.discarded, r.deferred, r.bound)
  BY DEF Rows, RowIs, RowStatuses
<1>2. RowIs([r EXCEPT !.status = s, !.bound = TRUE],
            r.there, s, r.discarded, r.deferred, TRUE)
  BY DEF Rows, RowIs, RowStatuses
<1>3. RowIs([r EXCEPT !.status = s, !.admitted = a],
            r.there, s, r.discarded, r.deferred, r.bound)
  BY DEF Rows, RowIs, RowStatuses
<1>4. RowIs([r EXCEPT !.status = s, !.discarded = d, !.deferred = f],
            r.there, s, d, f, r.bound)
  BY DEF Rows, RowIs, RowStatuses
<1>5. RowIs([r EXCEPT !.status = s, !.discarded = d], r.there, s, d, r.deferred, r.bound)
  BY DEF Rows, RowIs, RowStatuses
<1>6. RowIs([r EXCEPT !.status = s, !.deferred = f, !.admitted = a],
            r.there, s, r.discarded, f, r.bound)
  BY DEF Rows, RowIs, RowStatuses
<1>7. RowIs([r EXCEPT !.status = s, !.deferred = f], r.there, s, r.discarded, f, r.bound)
  BY DEF Rows, RowIs, RowStatuses
<1>8. RowIs([r EXCEPT !.admitted = a],
            r.there, r.status, r.discarded, r.deferred, r.bound)
  BY DEF Rows, RowIs
<1>9. RowIs([r EXCEPT !.discarded = d], r.there, r.status, d, r.deferred, r.bound)
  BY DEF Rows, RowIs
<1> QED
  BY <1>1, <1>2, <1>3, <1>4, <1>5, <1>6, <1>7, <1>8, <1>9

\* What a verdict makes of the row.
LEMMA PersistedRow ==
  ASSUME Types, NEW v \in Verdicts, NEW d \in BOOLEAN, NEW f \in BOOLEAN
  PROVE  \/ Persisted(v, d, f) = conv /\ (~conv.there \/ v \in {"skip", "lost"})
         \/ /\ conv.there /\ v \notin {"skip", "lost"}
            /\ RowIs(Persisted(v, d, f), TRUE,
                     IF v = "defer" THEN "processing" ELSE "completed",
                     IF v = "custom" THEN d ELSE v = "drop", v = "defer" \/ f, conv.bound)
<1> DEFINE s == IF v = "defer" THEN "processing" ELSE "completed"
           dd == IF v = "custom" THEN d ELSE v = "drop"
           ff == v = "defer" \/ f
<1>1. s \in RowStatuses /\ dd \in BOOLEAN /\ ff \in BOOLEAN /\ conv \in Rows
  BY DEF RowStatuses, Types
<1>2. ASSUME conv.there, v \notin {"skip", "lost"}
      PROVE  Persisted(v, d, f) = [conv EXCEPT !.status = s, !.discarded = dd, !.deferred = ff]
  BY <1>2 DEF Persisted
<1>3. CASE ~conv.there \/ v \in {"skip", "lost"}
  BY <1>3 DEF Persisted
<1>4. CASE conv.there /\ v \notin {"skip", "lost"}
  <2> HIDE DEF s, dd, ff
  <2>1. conv.there = TRUE
    BY <1>1, <1>4 DEF Rows
  <2>2. RowIs(Persisted(v, d, f), TRUE, s, dd, ff, conv.bound)
    <3>1. "fresh" \in {"none", "fresh", "aged"}
      OBVIOUS
    <3>2. RowIs([conv EXCEPT !.status = s, !.discarded = dd, !.deferred = ff],
                conv.there, s, dd, ff, conv.bound)
      BY <1>1, <3>1, RowFields
    <3> QED
      BY <1>2, <1>4, <2>1, <3>2
  <2> QED
    BY <1>4, <2>2 DEF s, dd, ff
<1> QED
  BY <1>3, <1>4

\* The in-request processors, the sweeps and the users.
LEMMA DirectEffect ==
  ASSUME Types
  PROVE  /\ RouteAdmit => RowIs(conv', TRUE, "processing", FALSE, conv.deferred, conv.bound)
         /\ OpenDeferred => RowIs(conv', TRUE, "processing", FALSE, FALSE, conv.bound)
         /\ DirectProcess => \/ conv' = conv
                             \/ conv.there /\ RowIs(conv', TRUE, "completed", FALSE, FALSE, conv.bound)
         /\ DirectFails => \/ conv' = conv
                           \/ /\ direct.pc = "route" /\ conv.status = "processing"
                              /\ ~conv.discarded
                              /\ RowIs(conv', conv.there, "in_progress", conv.discarded,
                                       conv.deferred, conv.bound)
                           \/ /\ direct.pc = "enrich"
                              /\ RowIs(conv', conv.there, "completed", conv.discarded,
                                       TRUE, conv.bound)
         /\ StampAges \/ RenewLease =>
              RowIs(conv', conv.there, conv.status, conv.discarded, conv.deferred, conv.bound)
         /\ CloseOrphan =>
              \/ conv' = conv
              \/ RowIs(conv', conv.there, conv.status, conv.discarded, conv.deferred, conv.bound)
              \/ /\ conv.there /\ ~conv.bound /\ ~conv.discarded /\ conv.status = "processing"
                 /\ RowIs(conv', conv.there, "completed", conv.discarded, conv.deferred, conv.bound)
<1>1. conv \in Rows
  BY DEF Types
<1> USE DEF RowStatuses
<1>2. ASSUME RouteAdmit
      PROVE  RowIs(conv', TRUE, "processing", FALSE, conv.deferred, conv.bound)
  <2>1. /\ conv' = [conv EXCEPT !.status = "processing", !.admitted = "fresh"]
        /\ conv.there = TRUE /\ conv.discarded = FALSE
    BY <1>1, <1>2 DEF RouteAdmit, Rows
  <2> QED
    BY <1>1, <2>1, RowFields
<1>3. ASSUME OpenDeferred
      PROVE  RowIs(conv', TRUE, "processing", FALSE, FALSE, conv.bound)
  <2>1. /\ conv' = [conv EXCEPT !.status = "processing", !.deferred = FALSE, !.admitted = "fresh"]
        /\ conv.there = TRUE /\ conv.discarded = FALSE
    BY <1>1, <1>3 DEF OpenDeferred, Rows
  <2> QED
    BY <1>1, <2>1, RowFields
<1>4. ASSUME DirectProcess
      PROVE  \/ conv' = conv
             \/ conv.there /\ RowIs(conv', TRUE, "completed", FALSE, FALSE, conv.bound)
  <2>1. PICK v \in Verdicts \cap {"keep", "custom", "lost", "skip"} : conv' = Persisted(v, FALSE, FALSE)
    BY <1>4 DEF DirectProcess
  <2>2. v \in Verdicts /\ v \notin {"drop", "defer"}
    BY <2>1
  <2> QED
    BY <2>1, <2>2, PersistedRow
<1>5. ASSUME DirectFails, conv' # conv
      PROVE  \/ /\ direct.pc = "route" /\ conv.status = "processing" /\ ~conv.discarded
                /\ RowIs(conv', conv.there, "in_progress", conv.discarded,
                         conv.deferred, conv.bound)
             \/ /\ direct.pc = "enrich"
                /\ RowIs(conv', conv.there, "completed", conv.discarded,
                         TRUE, conv.bound)
  <2>1. \/ /\ direct.pc = "route" /\ conv.status = "processing" /\ ~conv.discarded
           /\ conv' = [conv EXCEPT !.status = "in_progress"]
        \/ direct.pc = "enrich" /\ conv' = [conv EXCEPT !.status = "completed", !.deferred = TRUE]
    BY <1>5 DEF DirectFails
  <2> QED
    BY <1>1, <2>1, RowFields
<1>6. ASSUME StampAges \/ RenewLease
      PROVE  RowIs(conv', conv.there, conv.status, conv.discarded, conv.deferred, conv.bound)
  <2>1. \E a \in {"aged", "fresh"} : conv' = [conv EXCEPT !.admitted = a]
    BY <1>6 DEF StampAges, RenewLease
  <2> QED
    BY <1>1, <2>1, RowFields
<1>7. ASSUME CloseOrphan, conv' # conv
      PROVE  \/ RowIs(conv', conv.there, conv.status, conv.discarded, conv.deferred, conv.bound)
             \/ /\ conv.there /\ ~conv.bound /\ ~conv.discarded /\ conv.status = "processing"
                /\ RowIs(conv', conv.there, "completed", conv.discarded, conv.deferred, conv.bound)
  <2>1. \/ conv' = [conv EXCEPT !.admitted = "fresh"]
        \/ /\ conv.there /\ ~conv.bound /\ ~conv.discarded /\ conv.status = "processing"
           /\ conv' = [conv EXCEPT !.status = "completed"]
    BY <1>7 DEF CloseOrphan
  <2> QED
    BY <1>1, <2>1, RowFields
<1> QED
  BY <1>2, <1>3, <1>4, <1>5, <1>6, <1>7

\* The users.
LEMMA UserEffect ==
  ASSUME Types
  PROVE  /\ UserEvent => \/ RowIs(conv', FALSE, "failed", TRUE, FALSE, FALSE)
                         \/ \E d \in BOOLEAN : RowIs(conv', conv.there, conv.status, d,
                                                     conv.deferred, conv.bound)
         /\ BeginMerge => RowIs(conv', conv.there, "merging", conv.discarded, conv.deferred, conv.bound)
         /\ EndMerge => \/ conv' = conv
                        \/ RowIs(conv', FALSE, "failed", TRUE, FALSE, FALSE)
                        \/ RowIs(conv', conv.there, "completed", conv.discarded, conv.deferred, conv.bound)
<1>1. conv \in Rows /\ RowIs(NoRow, FALSE, "failed", TRUE, FALSE, FALSE)
  BY ConstantTypes DEF Types, NoRow, RowIs
<1>2. ASSUME UserEvent
      PROVE  \/ RowIs(conv', FALSE, "failed", TRUE, FALSE, FALSE)
             \/ \E d \in BOOLEAN : RowIs(conv', conv.there, conv.status, d, conv.deferred, conv.bound)
  <2>1. conv' = NoRow \/ \E d \in BOOLEAN : conv' = [conv EXCEPT !.discarded = d]
    BY <1>2 DEF UserEvent, DeleteConversation
  <2> QED
    BY <1>1, <2>1, RowFields DEF RowStatuses
<1>3. ASSUME BeginMerge
      PROVE  RowIs(conv', conv.there, "merging", conv.discarded, conv.deferred, conv.bound)
  <2>1. conv' = [conv EXCEPT !.status = "merging"]
    BY <1>3 DEF BeginMerge
  <2> QED
    BY <1>1, <2>1, RowFields DEF RowStatuses
<1>4. ASSUME EndMerge, conv' # conv
      PROVE  \/ RowIs(conv', FALSE, "failed", TRUE, FALSE, FALSE)
             \/ RowIs(conv', conv.there, "completed", conv.discarded, conv.deferred, conv.bound)
  <2>1. conv' = NoRow \/ conv' = [conv EXCEPT !.status = "completed"]
    BY <1>4 DEF EndMerge
  <2> QED
    BY <1>1, <2>1, RowFields DEF RowStatuses
<1> QED
  BY <1>2, <1>3, <1>4

\* The workers, the sessions and the abandonment sweep.
LEMMA JobRowEffect ==
  ASSUME Types
  PROVE  /\ \A k \in Keys : CreateIntent(k) =>
              /\ RowIs(conv', TRUE, "processing", FALSE, FALSE, TRUE)
              /\ conv.there /\ ~conv.bound
         /\ \A w \in Worker : EnsureProcessing(w) =>
              \/ conv' = conv
              \/ RowIs(conv', TRUE, "processing", FALSE, conv.deferred, conv.bound)
                 /\ conv.there /\ conv.status = "in_progress"
         /\ AbandonByok =>
              \/ conv' = conv
              \/ /\ conv.there /\ conv.bound /\ ~conv.discarded /\ conv.status = "processing"
                 /\ RowIs(conv', TRUE, "completed", FALSE, conv.deferred, conv.bound)
         /\ \/ DeadLetteredRow = conv
               /\ (conv.there /\ conv.bound /\ ~conv.discarded => conv.status # "processing")
            \/ /\ conv.there /\ conv.bound /\ ~conv.discarded /\ conv.status = "processing"
               /\ RowIs(DeadLetteredRow, TRUE, "failed", TRUE, conv.deferred, conv.bound)
<1>1. conv \in Rows /\ (conv.there => conv.there = TRUE) /\ (~conv.discarded => conv.discarded = FALSE)
      /\ (~conv.deferred => conv.deferred = FALSE)
  BY DEF Types, Rows
<1> USE DEF RowStatuses
<1>2. ASSUME NEW k \in Keys, CreateIntent(k)
      PROVE  /\ RowIs(conv', TRUE, "processing", FALSE, FALSE, TRUE)
             /\ conv.there /\ ~conv.bound
  <2>1. /\ conv' = [conv EXCEPT !.status = "processing", !.bound = TRUE]
        /\ conv.there /\ ~conv.discarded /\ ~conv.deferred /\ ~conv.bound
    BY <1>2 DEF CreateIntent
  <2> QED
    BY <1>1, <2>1, RowFields
<1>3. ASSUME NEW w \in Worker, EnsureProcessing(w), conv' # conv
      PROVE  RowIs(conv', TRUE, "processing", FALSE, conv.deferred, conv.bound)
             /\ conv.there /\ conv.status = "in_progress"
  <2>1. /\ conv' = [conv EXCEPT !.status = "processing", !.admitted = "fresh"]
        /\ conv.there /\ ~conv.discarded /\ conv.status = "in_progress"
    BY <1>3 DEF EnsureProcessing
  <2> QED
    BY <1>1, <2>1, RowFields
<1>4. ASSUME AbandonByok, conv' # conv
      PROVE  /\ conv.there /\ conv.bound /\ ~conv.discarded /\ conv.status = "processing"
             /\ RowIs(conv', TRUE, "completed", FALSE, conv.deferred, conv.bound)
  <2>1. /\ conv' = [conv EXCEPT !.status = "completed"]
        /\ conv.there /\ conv.bound /\ ~conv.discarded /\ conv.status = "processing"
    BY <1>4 DEF AbandonByok
  <2> QED
    BY <1>1, <2>1, RowFields
<1>5. CASE conv.there /\ conv.bound /\ ~conv.discarded /\ conv.status = "processing"
  <2>1. DeadLetteredRow = [conv EXCEPT !.status = "failed", !.discarded = TRUE]
    BY <1>5 DEF DeadLetteredRow
  <2>2. RowIs(DeadLetteredRow, TRUE, "failed", TRUE, conv.deferred, conv.bound)
    BY <1>1, <1>5, <2>1, RowFields
  <2> QED
    BY <1>2, <1>3, <1>4, <1>5, <2>2
<1>6. CASE ~(conv.there /\ conv.bound /\ ~conv.discarded /\ conv.status = "processing")
  <2>1. DeadLetteredRow = conv
    BY <1>6 DEF DeadLetteredRow
  <2> QED
    BY <1>2, <1>3, <1>4, <1>6, <2>1
<1> QED
  BY <1>5, <1>6

\* What a worker reads of the row.
LEMMA ReadEffect ==
  ASSUME Types, NEW w \in Worker, ReadConversation(w)
  PROVE  /\ Others(w) /\ KeepsLease(w)
         /\ worker'[w].pc \in {"fanout", "process", "ensure"}
         /\ worker'[w].pc = CASE ~conv.there \/ conv.status = "completed" -> "fanout"
                              [] conv.there /\ conv.status = "processing" -> "process"
                              [] OTHER -> "ensure"
         /\ worker'[w].discarded = (conv.there /\ conv.discarded)
         /\ worker'[w].deferred = conv.deferred
<1> DEFINE pc == CASE ~conv.there \/ conv.status = "completed" -> "fanout"
                   [] conv.there /\ conv.status = "processing" -> "process"
                   [] OTHER -> "ensure"
           d == conv.there /\ conv.discarded
           r == [worker[w] EXCEPT !.pc = pc, !.discarded = d, !.deferred = conv.deferred]
<1>1. pc \in {"fanout", "process", "ensure"} /\ d \in BOOLEAN /\ conv.deferred \in BOOLEAN
  BY DEF Types, Rows
<1>2. worker[w] \in Threads
  BY DEF Types
<1>3. worker' = [worker EXCEPT ![w] = r]
  BY DEF ReadConversation, Types
<1> HIDE DEF pc, d
<1>4. /\ r \in Threads /\ r.pc = pc /\ r.discarded = d /\ r.deferred = conv.deferred
      /\ r.epoch = worker[w].epoch /\ r.gen = worker[w].gen
  BY <1>1, <1>2 DEF Threads
<1> HIDE DEF r
<1>5. Others(w) /\ worker'[w] = r
  BY <1>3, <1>4 DEF Types, Others
<1>6. worker'[w].pc \in {"fanout", "process", "ensure"}
  BY <1>1, <1>4, <1>5
<1> QED
  BY <1>4, <1>5, <1>6 DEF pc, d, KeepsLease

\* The verdict on a conversation and where it sends the worker.
LEMMA ProcessEffect ==
  ASSUME Types, NEW w \in Worker, ProcessConversation(w)
  PROVE  /\ Others(w) /\ KeepsLease(w)
         /\ \E v \in Verdicts :
              /\ worker'[w].pc = IF v = "custom" \/ (v \in {"keep", "drop"} /\ conv.there)
                                 THEN "fanout" ELSE "fence"
              /\ \/ conv' = conv /\ (~conv.there \/ v \in {"skip", "lost"})
                 \/ /\ conv.there /\ v \notin {"skip", "lost"}
                    /\ RowIs(conv', TRUE, IF v = "defer" THEN "processing" ELSE "completed",
                             IF v = "custom" THEN worker[w].discarded ELSE v = "drop",
                             v = "defer" \/ worker[w].deferred, conv.bound)
              /\ IF v \in {"drop", "skip", "defer", "lost"} THEN Touch ELSE touched' = touched
<1>1. worker[w].discarded \in BOOLEAN /\ worker[w].deferred \in BOOLEAN
  BY DEF Types, Threads
<1>2. PICK v \in Verdicts :
          /\ conv' = Persisted(v, worker[w].discarded, worker[w].deferred)
          /\ Goto(w, IF v = "custom" \/ (v \in {"keep", "drop"} /\ conv.there)
                     THEN "fanout" ELSE "fence")
          /\ IF v \in {"drop", "skip", "defer", "lost"} THEN Touch ELSE UNCHANGED touched
  BY DEF ProcessConversation
<1> DEFINE pc == IF v = "custom" \/ (v \in {"keep", "drop"} /\ conv.there)
                 THEN "fanout" ELSE "fence"
<1>3. pc \in Pcs /\ Goto(w, pc)
  BY <1>2 DEF Pcs
<1>4. Others(w) /\ KeepsLease(w) /\ worker'[w].pc = pc
  <2> HIDE DEF pc
  <2> QED
    BY <1>3, GotoEffect
<1>5. \/ conv' = conv /\ (~conv.there \/ v \in {"skip", "lost"})
      \/ /\ conv.there /\ v \notin {"skip", "lost"}
         /\ RowIs(conv', TRUE, IF v = "defer" THEN "processing" ELSE "completed",
                  IF v = "custom" THEN worker[w].discarded ELSE v = "drop",
                  v = "defer" \/ worker[w].deferred, conv.bound)
  BY <1>1, <1>2, PersistedRow
<1> QED
  BY <1>2, <1>4, <1>5

\* Any other step of a worker.
LEMMA OtherWorkerEffect ==
  ASSUME Types, NEW w \in Worker,
         \/ CheckCutover(w) \/ EnsureProcessing(w) \/ DeliverFanout(w)
         \/ WorkerFails(w) \/ WorkerCrash(w) \/ TaskTimesOut(w)
  PROVE  \/ worker' = worker
         \/ Others(w) /\ worker'[w] = Idle
         \/ /\ Others(w) /\ KeepsLease(w) /\ worker[w].pc # "idle"
            /\ worker'[w].pc \in Pcs \ {"idle", "fanout", "complete"}
            /\ worker'[w].pc = "ack" => DeliverFanout(w)
            /\ worker'[w].pc = "deliver" => FALSE
            /\ worker'[w].discarded = worker[w].discarded
            /\ worker'[w].deferred = worker[w].deferred
<1>1. \/ worker' = worker
      \/ worker' = [worker EXCEPT ![w] = Idle]
      \/ /\ worker[w].pc # "idle"
         /\ \E pc \in {"read", "fence", "fail", "process", "ack"} :
               Goto(w, pc) /\ (pc = "ack" => DeliverFanout(w))
  BY DEF CheckCutover, EnsureProcessing, DeliverFanout, WorkerFails, WorkerCrash, TaskTimesOut,
         Finish
<1>2. \A pc \in {"read", "fence", "fail", "process", "ack"} :
         pc \in Pcs /\ pc \notin {"idle", "fanout", "complete", "deliver"}
  BY DEF Pcs
<1> QED
  BY <1>1, <1>2, FinishEffect, GotoEffect

-----------------------------------------------------------------------------
\* Every step keeps the types.
LEMMA TypesStep == Types /\ [Next]_vars => Types'
<1> SUFFICES ASSUME Types, [Next]_vars PROVE Types'
  OBVIOUS
<1> DEFINE Sessions == [pc : {"idle", "resume", "enqueue", "dispatch"}, gen : Nat,
                        keys : BOOLEAN]
<1>0. /\ conv \in Rows /\ job \in Jobs /\ worker \in [Worker -> Threads]
      /\ job.gen \in Nat /\ touched \in Nat
  BY DEF Types, Jobs
<1>1. ASSUME NEW k \in Keys, CreateIntent(k) PROVE Types'
  <2>1. job' \in Jobs /\ \E s : tally' = Moved("none", s)
    BY <1>1, LaneEffect DEF JobBecomes
  <2>2. conv' \in Rows
    BY <1>1, JobRowEffect DEF RowIs
  <2>3. session' \in Sessions
    BY <1>1, FinalizationAssumption DEF CreateIntent
  <2> QED
    BY <1>1, <2>1, <2>2, <2>3, MovedType DEF CreateIntent, Types
<1>2. ASSUME NEW k \in Keys, GetIntent(k) PROVE Types'
  <2>1. session' \in Sessions
    BY <1>0, <1>2, FinalizationAssumption DEF GetIntent
  <2> QED
    BY <1>2, <2>1 DEF GetIntent, Types
<1>3. ASSUME ResumeBlockedByok PROVE Types'
  <2>1. job' \in Jobs /\ (tally' = tally \/ tally' = Moved("blocked_byok", "queued"))
    BY <1>0, <1>3, LaneEffect DEF JobBecomes
  <2>2. session' \in Sessions
    BY <1>0, <1>3 DEF ResumeBlockedByok, Types
  <2> QED
    BY <1>3, <2>1, <2>2, MovedType DEF ResumeBlockedByok, Types
<1>4. ASSUME EnqueueIntent \/ SessionCrash PROVE Types'
  BY <1>4, ConstantTypes DEF EnqueueIntent, SessionCrash, Types
<1>5. ASSUME NEW w \in Worker, DispatchToPusher(w) PROVE Types'
  <2>1. worker' \in [Worker -> Threads]
    BY <1>0, <1>5, StartEffect DEF Others
  <2> QED
    BY <1>5, <2>1, ConstantTypes DEF DispatchToPusher, Types
<1>6. ASSUME NEW w \in Worker, NEW g \in Gens, DeliverTask(w, g) PROVE Types'
  <2>1. worker' \in [Worker -> Threads]
    BY <1>0, <1>6, StartEffect DEF Others
  <2> QED
    BY <1>6, <2>1 DEF DeliverTask, Types, rowVars
<1>7. ASSUME NEW w \in Worker, ClaimJob(w) PROVE Types'
  <2>1. /\ job' \in Jobs /\ worker' \in [Worker -> Threads]
        /\ tally' = tally \/ tally' = Moved("queued", "leased")
    BY <1>0, <1>7, ClaimEffect DEF Others, Claims, JobBecomes, ClaimTally
  <2> QED
    BY <1>7, <2>1, MovedType DEF ClaimJob, Types, rowVars
<1>8. ASSUME NEW w \in Worker, CheckCutover(w) PROVE Types'
  <2>1. worker' \in [Worker -> Threads]
    BY <1>0, <1>8, OtherWorkerEffect, FinishEffect DEF Others
  <2> QED
    BY <1>0, <1>8, <2>1 DEF CheckCutover, Types, rowVars, laneVars, Touch
<1>9. ASSUME NEW w \in Worker, ReadConversation(w) PROVE Types'
  <2>1. worker' \in [Worker -> Threads]
    BY <1>9, ReadEffect DEF Others
  <2> QED
    BY <1>9, <2>1 DEF ReadConversation, Types, rowVars, laneVars
<1>10. ASSUME NEW w \in Worker, EnsureProcessing(w) PROVE Types'
  <2>1. worker' \in [Worker -> Threads] /\ conv' \in Rows
    BY <1>0, <1>10, OtherWorkerEffect, JobRowEffect DEF Others, RowIs
  <2> QED
    BY <1>10, <2>1 DEF EnsureProcessing, Types, laneVars
<1>11. ASSUME NEW w \in Worker, ProcessConversation(w) PROVE Types'
  <2>1. worker' \in [Worker -> Threads] /\ conv' \in Rows /\ touched' \in Nat
    <3>1. Others(w) /\ (conv' = conv \/ conv' \in Rows) /\ (Touch \/ touched' = touched)
      BY <1>11, ProcessEffect DEF RowIs
    <3> QED
      BY <1>0, <3>1 DEF Others, Touch
  <2> QED
    BY <1>11, <2>1 DEF ProcessConversation, Types, laneVars
<1>12. ASSUME NEW w \in Worker, ClaimFanout(w) PROVE Types'
  <2>1. /\ job' \in Jobs /\ worker' \in [Worker -> Threads]
        /\ tally' = tally \/ tally' = Moved("leased", "completed")
    BY <1>0, <1>12, ClaimFanoutEffect DEF Others, JobBecomes
  <2> QED
    BY <1>12, <2>1, MovedType DEF ClaimFanout, Types, rowVars, laneVars
<1>13. ASSUME NEW w \in Worker, DeliverFanout(w) PROVE Types'
  <2>1. worker' \in [Worker -> Threads]
    BY <1>0, <1>13, OtherWorkerEffect DEF Others
  <2> QED
    BY <1>13, <2>1 DEF DeliverFanout, Types, rowVars, laneVars
<1>14. ASSUME NEW w \in Worker, AckFanout(w) PROVE Types'
  <2>1. job' \in Jobs /\ worker' \in [Worker -> Threads]
    BY <1>0, <1>14, AckEffect DEF Others, JobBecomes
  <2> QED
    BY <1>14, <2>1 DEF AckFanout, Types, rowVars, laneVars
<1>15. ASSUME NEW w \in Worker, MarkCompleted(w) \/ MarkFenced(w) PROVE Types'
  <2>1. /\ job' \in Jobs /\ worker' \in [Worker -> Threads]
        /\ tally' = tally \/ tally' = Moved("leased", "completed")
    BY <1>0, <1>15, MarkEffect DEF Others, JobBecomes
  <2> QED
    BY <1>15, <2>1, MovedType DEF MarkCompleted, MarkFenced, Types, rowVars
<1>16. ASSUME NEW w \in Worker, RetryOrDeadLetter(w) PROVE Types'
  <2>1. /\ job' \in Jobs /\ worker' \in [Worker -> Threads]
        /\ tally' = tally \/ \E s : tally' = Moved("leased", s)
    BY <1>0, <1>16, RetryEffect DEF Others, JobBecomes
  <2>2. conv' \in Rows
    BY <1>0, <1>16, RetryEffect, JobRowEffect DEF RowIs
  <2> QED
    BY <1>16, <2>1, <2>2, MovedType DEF RetryOrDeadLetter, Types
<1>17. ASSUME NEW w \in Worker, WorkerFails(w) \/ WorkerCrash(w) \/ TaskTimesOut(w)
       PROVE Types'
  <2>1. worker' \in [Worker -> Threads]
    BY <1>0, <1>17, OtherWorkerEffect DEF Others
  <2> QED
    BY <1>17, <2>1 DEF WorkerFails, WorkerCrash, TaskTimesOut, Types, rowVars
<1>18. ASSUME LeaseExpires \/ JobGrowsOld PROVE Types'
  <2>1. job' \in Jobs
    BY <1>18, LaneEffect DEF JobBecomes
  <2> QED
    BY <1>18, <2>1 DEF LeaseExpires, JobGrowsOld, Types, rowVars, laneVars
<1>19. ASSUME LockExpires \/ EnqueueReplay PROVE Types'
  BY <1>19 DEF LockExpires, EnqueueReplay, Types, rowVars
<1>20. ASSUME ClaimReplay PROVE Types'
  <2>1. job' \in Jobs /\ (tally' = tally \/ tally' = Moved("leased", "queued"))
    BY <1>20, LaneEffect DEF JobBecomes
  <2> QED
    BY <1>20, <2>1, MovedType DEF ClaimReplay, Types, rowVars
<1>21. ASSUME ScanByok PROVE Types'
  BY <1>21 DEF ScanByok, Types, rowVars
<1>22. ASSUME AbandonByok PROVE Types'
  <2>1. job' \in Jobs /\ (tally' = tally \/ tally' = Moved(job.status, "dead_letter"))
    BY <1>0, <1>22, LaneEffect DEF JobBecomes
  <2>2. conv' \in Rows
    BY <1>0, <1>22, JobRowEffect DEF RowIs
  <2> QED
    BY <1>22, <2>1, <2>2, MovedType DEF AbandonByok, Types
<1>23. ASSUME RouteAdmit \/ OpenDeferred PROVE Types'
  <2>1. conv' \in Rows
    BY <1>23, DirectEffect DEF RowIs
  <2> QED
    BY <1>23, <2>1, ConstantTypes
       DEF RouteAdmit, OpenDeferred, Types, directRest, laneVars, NoDirect
<1>24. ASSUME DirectProcess \/ DirectFails \/ DirectCrash PROVE Types'
  <2>1. conv' \in Rows
    BY <1>0, <1>24, DirectEffect DEF RowIs, DirectCrash
  <2> QED
    BY <1>24, <2>1, ConstantTypes
       DEF DirectProcess, DirectFails, DirectCrash, Types, directRest, laneVars
<1>25. ASSUME StampAges \/ RenewLease \/ ScanOrphan \/ CloseOrphan PROVE Types'
  <2>1. conv' \in Rows
    BY <1>0, <1>25, DirectEffect DEF RowIs, ScanOrphan
  <2> QED
    BY <1>25, <2>1 DEF StampAges, RenewLease, ScanOrphan, CloseOrphan, Types, directRest, laneVars
<1>26. ASSUME UserEvent \/ BeginMerge \/ EndMerge PROVE Types'
  <2>1. conv' \in Rows
    BY <1>0, <1>26, UserEffect DEF RowIs
  <2>2. touched' \in Nat
    BY <1>0, <1>26 DEF UserEvent, BeginMerge, EndMerge, Touch
  <2> QED
    BY <1>26, <2>1, <2>2, ConstantTypes
       DEF UserEvent, BeginMerge, EndMerge, Types, directRest, laneVars, NoDirect
<1>27. CASE UNCHANGED vars
  BY <1>27 DEF vars, Types
<1> QED
  BY <1>1, <1>2, <1>3, <1>4, <1>5, <1>6, <1>7, <1>8, <1>9, <1>10, <1>11, <1>12, <1>13, <1>14,
     <1>15, <1>16, <1>17, <1>18, <1>19, <1>20, <1>21, <1>22, <1>23, <1>24, <1>25, <1>26, <1>27
     DEF Next, WorkerStep

-----------------------------------------------------------------------------
\* The steps that leave the job alone.
LEMMA QuietSteps ==
  ASSUME \/ \E k \in Keys : GetIntent(k)
         \/ \E w \in Worker : \/ DispatchToPusher(w) \/ CheckCutover(w) \/ ReadConversation(w)
                               \/ EnsureProcessing(w) \/ ProcessConversation(w)
                               \/ DeliverFanout(w) \/ WorkerFails(w) \/ WorkerCrash(w)
                               \/ TaskTimesOut(w) \/ \E g \in Gens : DeliverTask(w, g)
         \/ EnqueueIntent \/ SessionCrash \/ LockExpires \/ EnqueueReplay \/ ScanByok
         \/ RouteAdmit \/ OpenDeferred \/ DirectProcess \/ DirectFails \/ DirectCrash
         \/ StampAges \/ RenewLease \/ ScanOrphan \/ CloseOrphan
         \/ UserEvent \/ BeginMerge \/ EndMerge
  PROVE  UNCHANGED <<job, tally>>
BY DEF GetIntent, EnqueueIntent, SessionCrash, DispatchToPusher, DeliverTask, CheckCutover,
       ReadConversation, EnsureProcessing, ProcessConversation, DeliverFanout, WorkerFails,
       WorkerCrash, TaskTimesOut, LockExpires, EnqueueReplay, ScanByok, RouteAdmit, OpenDeferred,
       DirectProcess, DirectFails, DirectCrash, StampAges, RenewLease, ScanOrphan, CloseOrphan,
       UserEvent, BeginMerge, EndMerge, directRest

\* A job that is neither new nor finished goes on: the shards follow its status,
\* its lease epoch only grows, and only an abandonment takes an acknowledged
\* fanout back.
JobMoves ==
    /\ job.status \in {"blocked_byok", "queued", "leased"} /\ job' \in Jobs
    /\ job'.status # "none" /\ job'.epoch >= job.epoch
    /\ \/ tally' = Moved(job.status, job'.status)
       \/ tally' = tally /\ job'.status = job.status
    /\ job'.status = "leased" =>
          \/ job.status = "leased" /\ job'.gen = job.gen /\ job'.epoch = job.epoch
          \/ job'.epoch = job.epoch + 1
    /\ job'.outcome # job.outcome => job'.status \in Terminal
    /\ job'.outcome = "success" => job.outcome = "success" \/ job'.fanout = "completed"
    /\ job.fanout = "completed" => job'.fanout = "completed" \/ job'.outcome = "abandoned"
    /\ job'.fanout = "completed" =>
          job.fanout = "completed" \/ \E w \in Worker : worker[w].pc = "ack"

\* Every step leaves the job alone, makes it or moves it.
LEMMA JobStep ==
  ASSUME Types, JobComesFirst, [Next]_vars
  PROVE  \/ UNCHANGED <<job, tally>>
         \/ /\ job.status = "none" /\ (\E k \in Keys : CreateIntent(k))
            /\ \E s \in {"queued", "blocked_byok"} :
                  JobBecomes(s, 1, 0, "pending", "none") /\ tally' = Moved("none", s)
         \/ JobMoves
<1>0. job \in Jobs /\ job.epoch \in Nat /\ job.status \in JobStatuses
  BY DEF Types, Jobs
<1>1. ASSUME NEW k \in Keys, CreateIntent(k)
      PROVE  /\ job.status = "none"
             /\ \E s \in {"queued", "blocked_byok"} :
                  JobBecomes(s, 1, 0, "pending", "none") /\ tally' = Moved("none", s)
  BY <1>1, LaneEffect, JobRowEffect DEF JobComesFirst
<1>2. ASSUME ResumeBlockedByok, ~UNCHANGED <<job, tally>> PROVE JobMoves
  <2>1. /\ job.status = "blocked_byok" /\ tally' = Moved("blocked_byok", "queued")
        /\ JobBecomes("queued", job.gen, job.epoch, job.fanout, job.outcome)
    BY <1>2, LaneEffect
  <2> QED
    BY <1>0, <2>1 DEF JobMoves, JobBecomes
<1>3. ASSUME NEW w \in Worker, ClaimJob(w), ~UNCHANGED <<job, tally>> PROVE JobMoves
  <2>1. /\ Claims(w) /\ worker[w].pc = "claim"
    BY <1>3, ClaimEffect DEF ClaimJob
  <2>2. job.status # "none"
    BY <2>1 DEF JobComesFirst
  <2>3. /\ job.status \in {"queued", "leased"}
        /\ JobBecomes("leased", job.gen, job.epoch + 1, job.fanout, job.outcome)
        /\ \/ tally' = Moved("queued", "leased") /\ job.status = "queued"
           \/ tally' = tally /\ job.status = "leased"
    BY <2>1, <2>2 DEF Claims, ClaimTally
  <2> QED
    BY <1>0, <2>3 DEF JobMoves, JobBecomes
<1>4. ASSUME NEW w \in Worker, ClaimFanout(w), ~UNCHANGED <<job, tally>> PROVE JobMoves
  <2>1. /\ job.status = "leased" /\ job.fanout # "completed"
        /\ \/ /\ tally' = Moved("leased", "completed")
              /\ JobBecomes("completed", job.gen, job.epoch, "fenced", "fenced")
           \/ /\ tally' = tally
              /\ JobBecomes(job.status, job.gen, job.epoch, "leased", job.outcome)
    BY <1>4, ClaimFanoutEffect DEF IsCurrentLease
  <2> QED
    BY <1>0, <2>1 DEF JobMoves, JobBecomes, Terminal
<1>5. ASSUME NEW w \in Worker, AckFanout(w), ~UNCHANGED <<job, tally>> PROVE JobMoves
  <2>1. /\ job.status = "leased" /\ tally' = tally /\ worker[w].pc = "ack"
        /\ JobBecomes(job.status, job.gen, job.epoch, "completed", job.outcome)
    BY <1>5, AckEffect DEF IsCurrentLease, AckFanout
  <2> QED
    BY <1>0, <2>1 DEF JobMoves, JobBecomes
<1>6. ASSUME NEW w \in Worker, MarkCompleted(w) \/ MarkFenced(w), ~UNCHANGED <<job, tally>>
      PROVE  JobMoves
  <2>1. /\ job.status = "leased" /\ tally' = Moved("leased", "completed")
        /\ \/ /\ job.fanout = "completed"
              /\ JobBecomes("completed", job.gen, job.epoch, job.fanout, "success")
           \/ /\ job.fanout = "pending"
              /\ JobBecomes("completed", job.gen, job.epoch, "fenced", "fenced")
    BY <1>6, MarkEffect DEF IsCurrentLease
  <2> QED
    BY <1>0, <2>1 DEF JobMoves, JobBecomes, Terminal
<1>7. ASSUME NEW w \in Worker, RetryOrDeadLetter(w), ~UNCHANGED <<job, tally>> PROVE JobMoves
  <2>1. /\ job.status = "leased"
        /\ \/ /\ tally' = Moved("leased", "queued")
              /\ JobBecomes("queued", job.gen, job.epoch, job.fanout, job.outcome)
           \/ /\ tally' = Moved("leased", "dead_letter")
              /\ JobBecomes("dead_letter", job.gen, job.epoch, job.fanout, "failure")
    BY <1>7, RetryEffect DEF IsCurrentLease
  <2> QED
    BY <1>0, <2>1 DEF JobMoves, JobBecomes, Terminal
<1>8. ASSUME LeaseExpires \/ JobGrowsOld PROVE JobMoves
  <2>1. /\ JobBecomes(job.status, job.gen, job.epoch, job.fanout, job.outcome)
        /\ job.status \in {"queued", "leased"} /\ tally' = tally
    BY <1>8, LaneEffect
  <2> QED
    BY <1>0, <2>1 DEF JobMoves, JobBecomes
<1>9. ASSUME ClaimReplay PROVE JobMoves
  <2>1. /\ JobBecomes("queued", job.gen + 1, job.epoch, job.fanout, job.outcome)
        /\ \/ job.status = "leased" /\ tally' = Moved("leased", "queued")
           \/ job.status = "queued" /\ tally' = tally
    BY <1>9, LaneEffect
  <2> QED
    BY <1>0, <2>1 DEF JobMoves, JobBecomes
<1>10. ASSUME AbandonByok, ~UNCHANGED <<job, tally>> PROVE JobMoves
  <2>1. /\ JobBecomes("dead_letter", job.gen, job.epoch, "fenced", "abandoned")
        /\ job.status \in {"queued", "leased"}
        /\ tally' = Moved(job.status, "dead_letter")
    BY <1>10, LaneEffect
  <2> QED
    BY <1>0, <2>1 DEF JobMoves, JobBecomes, Terminal
<1>11. CASE UNCHANGED vars
  BY <1>11 DEF vars
<1> QED
  BY <1>1, <1>2, <1>3, <1>4, <1>5, <1>6, <1>7, <1>8, <1>9, <1>10, <1>11, QuietSteps
     DEF Next, WorkerStep

\* How a step changes what one worker does.
WorkerMoves(w) ==
    /\ Others(w)
    /\ \/ worker'[w] = Idle
       \/ worker[w].pc = "idle" /\ worker'[w].pc = "claim" /\ worker'[w].epoch = 0
       \/ Claims(w)
       \/ /\ KeepsLease(w) /\ worker'[w].pc # "idle" /\ worker[w].pc # "idle"
          /\ worker'[w].pc = "ack" => DeliverFanout(w)

\* Every step leaves the workers alone or moves one.
LEMMA WorkerMove ==
  ASSUME Types, [Next]_vars
  PROVE  worker' = worker \/ \E w \in Worker : WorkerMoves(w)
<1>1. ASSUME NEW w \in Worker, DispatchToPusher(w) \/ \E g \in Gens : DeliverTask(w, g)
      PROVE  worker' = worker \/ WorkerMoves(w)
  BY <1>1, StartEffect DEF WorkerMoves
<1>2. ASSUME NEW w \in Worker, ClaimJob(w) PROVE WorkerMoves(w)
  BY <1>2, ClaimEffect DEF WorkerMoves
<1>3. ASSUME NEW w \in Worker,
             \/ CheckCutover(w) \/ EnsureProcessing(w) \/ DeliverFanout(w)
             \/ WorkerFails(w) \/ WorkerCrash(w) \/ TaskTimesOut(w)
      PROVE  worker' = worker \/ WorkerMoves(w)
  BY <1>3, OtherWorkerEffect DEF WorkerMoves
<1>4. ASSUME NEW w \in Worker, ReadConversation(w) PROVE WorkerMoves(w)
  <2>1. worker[w].pc = "read" /\ worker'[w].pc \notin {"idle", "ack"}
    BY <1>4, ReadEffect DEF ReadConversation
  <2> QED
    BY <1>4, <2>1, ReadEffect DEF WorkerMoves
<1>5. ASSUME NEW w \in Worker, ProcessConversation(w) PROVE WorkerMoves(w)
  <2>1. worker[w].pc = "process" /\ worker'[w].pc \notin {"idle", "ack"}
    BY <1>5, ProcessEffect DEF ProcessConversation
  <2> QED
    BY <1>5, <2>1, ProcessEffect DEF WorkerMoves
<1>6. ASSUME NEW w \in Worker, ClaimFanout(w) PROVE WorkerMoves(w)
  <2>1. worker[w].pc = "fanout" /\ worker'[w].pc \notin {"idle", "ack"}
    BY <1>6, ClaimFanoutEffect DEF ClaimFanout
  <2> QED
    BY <1>6, <2>1, ClaimFanoutEffect DEF WorkerMoves
<1>7. ASSUME NEW w \in Worker, AckFanout(w) PROVE WorkerMoves(w)
  <2>1. worker[w].pc = "ack" /\ worker'[w].pc \notin {"idle", "ack"}
    BY <1>7, AckEffect DEF AckFanout
  <2> QED
    BY <1>7, <2>1, AckEffect DEF WorkerMoves
<1>8. ASSUME NEW w \in Worker, MarkCompleted(w) \/ MarkFenced(w) \/ RetryOrDeadLetter(w)
      PROVE  WorkerMoves(w)
  BY <1>8, MarkEffect, RetryEffect DEF WorkerMoves
<1>9. ASSUME \/ \E k \in Keys : CreateIntent(k) \/ GetIntent(k)
             \/ ResumeBlockedByok \/ EnqueueIntent \/ SessionCrash
             \/ LeaseExpires \/ LockExpires \/ ClaimReplay \/ EnqueueReplay
             \/ JobGrowsOld \/ ScanByok \/ AbandonByok
             \/ RouteAdmit \/ OpenDeferred \/ DirectProcess \/ DirectFails
             \/ DirectCrash \/ StampAges \/ RenewLease \/ ScanOrphan \/ CloseOrphan
             \/ UserEvent \/ BeginMerge \/ EndMerge \/ UNCHANGED vars
      PROVE  worker' = worker
  BY <1>9 DEF CreateIntent, GetIntent, ResumeBlockedByok, EnqueueIntent, SessionCrash,
       LeaseExpires, LockExpires, ClaimReplay, EnqueueReplay, JobGrowsOld, ScanByok, AbandonByok,
       RouteAdmit, OpenDeferred, DirectProcess, DirectFails, DirectCrash, StampAges, RenewLease,
       ScanOrphan, CloseOrphan, UserEvent, BeginMerge, EndMerge, directRest, vars
<1> QED
  BY <1>1, <1>2, <1>3, <1>4, <1>5, <1>6, <1>7, <1>8, <1>9 DEF Next, WorkerStep

-----------------------------------------------------------------------------
\* The shards count the job in the one status it has.
LEMMA ProjectionStep ==
  ASSUME Types, JobComesFirst, ProjectionIsExact, [Next]_vars
  PROVE  ProjectionIsExact'
<1>1. tally \in [JobStatuses \ {"none"} -> Int] /\ job.status \in JobStatuses
  BY DEF Types, Jobs
<1>2. ASSUME NEW to \in JobStatuses, job'.status = to, tally' = Moved(job.status, to)
      PROVE  ProjectionIsExact'
  <2>1. tally' = [s \in JobStatuses \ {"none"} |->
            tally[s] + (IF s = to THEN 1 ELSE 0) - (IF s = job.status THEN 1 ELSE 0)]
    BY <1>1, <1>2 DEF Moved
  <2>2. \A s \in JobStatuses \ {"none"} : tally[s] = IF job.status = s THEN 1 ELSE 0
    BY <1>1 DEF ProjectionIsExact
  <2>3. \A s \in JobStatuses \ {"none"} : tally'[s] = IF to = s THEN 1 ELSE 0
    BY <2>1, <2>2
  <2> QED
    BY <1>2, <2>1, <2>3 DEF ProjectionIsExact
<1>3. ASSUME tally' = tally, job'.status = job.status PROVE ProjectionIsExact'
  BY <1>3 DEF ProjectionIsExact
<1>4. CASE UNCHANGED <<job, tally>>
  BY <1>3, <1>4
<1>5. ASSUME job.status = "none", NEW s \in {"queued", "blocked_byok"},
             JobBecomes(s, 1, 0, "pending", "none"), tally' = Moved("none", s)
      PROVE  ProjectionIsExact'
  BY <1>2, <1>5, Statuses DEF JobBecomes
<1>6. CASE JobMoves
  <2>1. job'.status \in JobStatuses
    BY <1>6 DEF JobMoves, Jobs
  <2> QED
    BY <1>2, <1>3, <1>6, <2>1 DEF JobMoves
<1> QED
  BY <1>4, <1>5, <1>6, JobStep

\* A row that was bound stays bound or goes, one that is gone stays gone, and
\* only the creation of the job binds one.
LEMMA BindingStep ==
  ASSUME Types, [Next]_vars
  PROVE  /\ conv.bound => conv'.bound \/ ~conv'.there
         /\ ~conv.there => ~conv'.there
         /\ conv'.bound => conv.bound \/ \E k \in Keys : CreateIntent(k)
<1>0. conv \in Rows /\ conv.bound \in BOOLEAN /\ conv.there \in BOOLEAN
  BY DEF Types, Rows
<1>1. ASSUME NEW k \in Keys, CreateIntent(k)
      PROVE  conv'.bound /\ conv.there
  BY <1>1, JobRowEffect DEF RowIs
<1>2. ASSUME \/ \E w \in Worker : EnsureProcessing(w) \/ RetryOrDeadLetter(w)
             \/ AbandonByok
      PROVE  conv'.bound = conv.bound /\ conv'.there = conv.there
  BY <1>0, <1>2, JobRowEffect, RetryEffect DEF RowIs
<1>3. ASSUME NEW w \in Worker, ProcessConversation(w)
      PROVE  conv'.bound = conv.bound /\ conv'.there = conv.there
  BY <1>0, <1>3, ProcessEffect DEF RowIs
<1>4. ASSUME \/ RouteAdmit \/ OpenDeferred \/ DirectProcess \/ DirectFails
             \/ StampAges \/ RenewLease \/ CloseOrphan
      PROVE  conv'.bound = conv.bound /\ conv'.there = conv.there
  <2>1. RouteAdmit \/ OpenDeferred => conv.there = TRUE
    BY <1>0 DEF RouteAdmit, OpenDeferred
  <2> QED
    BY <1>0, <1>4, <2>1, DirectEffect DEF RowIs
<1>5. ASSUME UserEvent \/ BeginMerge \/ EndMerge
      PROVE  \/ conv'.bound = conv.bound /\ conv'.there = conv.there
             \/ ~conv'.there /\ ~conv'.bound
  BY <1>0, <1>5, UserEffect DEF RowIs
<1>6. ASSUME \/ \E k \in Keys : GetIntent(k)
             \/ \E w \in Worker : \/ DispatchToPusher(w) \/ ClaimJob(w) \/ CheckCutover(w)
                                  \/ ReadConversation(w) \/ ClaimFanout(w) \/ DeliverFanout(w)
                                  \/ AckFanout(w) \/ MarkCompleted(w) \/ MarkFenced(w)
                                  \/ WorkerFails(w) \/ WorkerCrash(w)
                                  \/ TaskTimesOut(w) \/ \E g \in Gens : DeliverTask(w, g)
             \/ ResumeBlockedByok \/ EnqueueIntent \/ SessionCrash \/ LeaseExpires
             \/ LockExpires \/ ClaimReplay \/ EnqueueReplay \/ JobGrowsOld \/ ScanByok
             \/ DirectCrash \/ ScanOrphan \/ UNCHANGED vars
      PROVE  conv' = conv
  BY <1>6 DEF GetIntent, DispatchToPusher, ClaimJob, CheckCutover, ReadConversation, ClaimFanout,
       DeliverFanout, AckFanout, MarkCompleted, MarkFenced, WorkerFails, WorkerCrash, TaskTimesOut,
       DeliverTask, ResumeBlockedByok, EnqueueIntent, SessionCrash, LeaseExpires, LockExpires,
       ClaimReplay, EnqueueReplay, JobGrowsOld, ScanByok, DirectCrash, ScanOrphan, vars, rowVars
<1> QED
  BY <1>1, <1>2, <1>3, <1>4, <1>5, <1>6 DEF Next, WorkerStep

\* Before there is a job nobody works for it.
LEMMA BeforeTheJob ==
  ASSUME Types, JobComesFirst, [Next]_vars, job.status = "none", job' = job
  PROVE  /\ ~conv'.bound /\ session'.pc = "idle" /\ requeue' = 0
         /\ \A g \in Gens : task'[g] = Unused
         /\ worker' = worker
<1>1. /\ ~conv.bound /\ session.pc = "idle" /\ requeue = 0
      /\ \A g \in Gens : task[g] = Unused
      /\ \A w \in Worker : worker[w].pc = "idle"
  BY DEF JobComesFirst
<1>2. ~\E k \in Keys : CreateIntent(k)
  <2> SUFFICES ASSUME NEW k \in Keys, CreateIntent(k) PROVE FALSE
    OBVIOUS
  <2>1. PICK s \in {"queued", "blocked_byok"} : JobBecomes(s, 1, 0, "pending", "none")
    BY LaneEffect
  <2> QED
    BY <2>1 DEF JobBecomes
<1>3. ~conv'.bound
  BY <1>1, <1>2, BindingStep
<1>4. \A w \in Worker, g \in Gens : ~DeliverTask(w, g)
  <2>1. \A g \in Gens : ~Pending(g)
    BY <1>1 DEF Pending, Unused
  <2> QED
    BY <2>1 DEF DeliverTask
<1>5. \A w \in Worker : ~WorkerStep(w) /\ ~WorkerFails(w) /\ ~WorkerCrash(w) /\ ~TaskTimesOut(w)
                        /\ ~DispatchToPusher(w)
  BY <1>1 DEF WorkerStep, ClaimJob, CheckCutover, ReadConversation, EnsureProcessing,
       ProcessConversation, ClaimFanout, DeliverFanout, AckFanout, MarkCompleted, MarkFenced,
       RetryOrDeadLetter, WorkerFails, WorkerCrash, TaskTimesOut, DispatchToPusher
<1>6. ~(\E k \in Keys : GetIntent(k)) /\ ~ResumeBlockedByok /\ ~EnqueueIntent /\ ~SessionCrash
      /\ ~EnqueueReplay /\ ~ClaimReplay
  BY <1>1 DEF GetIntent, ResumeBlockedByok, EnqueueIntent, SessionCrash, EnqueueReplay, ClaimReplay
<1>7. UNCHANGED <<session, requeue, task, worker>>
  <2>1. CASE UNCHANGED vars
    BY <2>1 DEF vars
  <2>2. CASE \/ LeaseExpires \/ LockExpires \/ JobGrowsOld \/ ScanByok \/ AbandonByok
             \/ RouteAdmit \/ OpenDeferred \/ DirectProcess \/ DirectFails
             \/ DirectCrash \/ StampAges \/ RenewLease \/ ScanOrphan \/ CloseOrphan
             \/ UserEvent \/ BeginMerge \/ EndMerge
    BY <2>2 DEF LeaseExpires, LockExpires, JobGrowsOld, ScanByok, AbandonByok, RouteAdmit,
         OpenDeferred, DirectProcess, DirectFails, DirectCrash, StampAges, RenewLease, ScanOrphan,
         CloseOrphan, UserEvent, BeginMerge, EndMerge, directRest, laneVars
  <2> QED
    BY <1>2, <1>4, <1>5, <1>6, <2>1, <2>2 DEF Next
<1> QED
  BY <1>1, <1>3, <1>7

\* Nobody works before the job, on every step.
LEMMA JobComesFirstStep ==
  ASSUME Types, JobComesFirst, [Next]_vars
  PROVE  JobComesFirst'
<1>1. \A w \in Worker : worker'[w].pc = "idle" => worker'[w] = Idle
  <2>1. CASE worker' = worker
    BY <2>1 DEF JobComesFirst
  <2>2. ASSUME NEW w \in Worker, WorkerMoves(w)
        PROVE  \A x \in Worker : worker'[x].pc = "idle" => worker'[x] = Idle
    BY <2>2 DEF WorkerMoves, Others, JobComesFirst, Claims
  <2> QED
    BY <2>1, <2>2, WorkerMove
<1>2. CASE job' = job
  <2>1. ASSUME job.status = "none"
        PROVE  /\ job' = NoJob /\ ~conv'.bound /\ session'.pc = "idle" /\ requeue' = 0
               /\ \A g \in Gens : task'[g] = Unused
               /\ \A w \in Worker : worker'[w].pc = "idle"
    BY <1>2, <2>1, BeforeTheJob DEF JobComesFirst
  <2>2. job.status # "none" => conv'.bound \/ ~conv'.there
    BY BindingStep DEF JobComesFirst
  <2> QED
    BY <1>1, <1>2, <2>1, <2>2 DEF JobComesFirst
<1>3. CASE job.status = "none" /\ (\E k \in Keys : CreateIntent(k))
           /\ \E s \in {"queued", "blocked_byok"} :
                  JobBecomes(s, 1, 0, "pending", "none") /\ tally' = Moved("none", s)
  <2>1. job'.status # "none" /\ conv'.bound
    BY <1>3, JobRowEffect DEF JobBecomes, RowIs
  <2> QED
    BY <1>1, <2>1 DEF JobComesFirst
<1>4. CASE JobMoves
  <2>1. job.status # "none" /\ job'.status # "none"
    BY <1>4 DEF JobMoves
  <2>2. conv'.bound \/ ~conv'.there
    BY <2>1, BindingStep DEF JobComesFirst
  <2> QED
    BY <1>1, <2>1, <2>2 DEF JobComesFirst
<1> QED
  BY <1>2, <1>3, <1>4, JobStep

\* A lease epoch is one worker's.
LEMMA EpochsStep ==
  ASSUME Types, JobComesFirst, EpochsAreUnique, [Next]_vars
  PROVE  EpochsAreUnique'
<1>0. /\ Types' /\ job.epoch \in Nat /\ job'.epoch \in Nat
      /\ \A w \in Worker : worker[w].epoch \in Nat /\ worker'[w].epoch \in Nat
  <2>1. Types'
    BY TypesStep
  <2> QED
    BY <2>1 DEF Types, Jobs, Threads
<1>1. ASSUME job'.epoch >= job.epoch,
             \A w \in Worker : worker'[w].epoch = 0 \/ worker'[w].epoch = worker[w].epoch
      PROVE  EpochsAreUnique'
  BY <1>0, <1>1 DEF EpochsAreUnique
<1>2. ASSUME NEW w \in Worker, Others(w), Claims(w)
      PROVE  EpochsAreUnique'
  <2>1. /\ job'.epoch = job.epoch + 1 /\ worker'[w].epoch = job.epoch + 1
        /\ \A x \in Worker \ {w} : worker'[x].epoch = worker[x].epoch
    BY <1>2 DEF Others, Claims, JobBecomes
  <2>2. \A x \in Worker : worker[x].epoch <= job.epoch
    BY <1>0 DEF EpochsAreUnique
  <2> QED
    BY <1>0, <2>1, <2>2 DEF EpochsAreUnique
<1>3. ASSUME ~\E w \in Worker : Others(w) /\ Claims(w)
      PROVE  \A w \in Worker : worker'[w].epoch = 0 \/ worker'[w].epoch = worker[w].epoch
  <2>1. CASE worker' = worker
    BY <2>1
  <2>2. ASSUME NEW w \in Worker, WorkerMoves(w)
        PROVE  \A x \in Worker : worker'[x].epoch = 0 \/ worker'[x].epoch = worker[x].epoch
    BY <1>3, <2>2, ConstantTypes DEF WorkerMoves, Others, KeepsLease
  <2> QED
    BY <2>1, <2>2, WorkerMove
<1>4. CASE job' = job \/ JobMoves
  <2>1. job'.epoch >= job.epoch
    BY <1>0, <1>4 DEF JobMoves
  <2> QED
    BY <1>1, <1>2, <1>3, <2>1
<1>5. CASE job.status = "none" /\ \E k \in Keys : CreateIntent(k)
  <2>1. worker' = worker /\ \A w \in Worker : worker[w].epoch = 0
    BY <1>5, ConstantTypes DEF CreateIntent, JobComesFirst
  <2> QED
    BY <2>1 DEF EpochsAreUnique
<1> QED
  BY <1>4, <1>5, JobStep

\* What was sent stays sent, and interventions are only ever counted up.
LEMMA HistoryGrows ==
  ASSUME [Next]_vars
  PROVE  /\ sent' = TRUE \/ sent' = sent
         /\ (\E w \in Worker : DeliverFanout(w)) => sent' = TRUE
         /\ touched' = touched \/ touched' = touched + 1
<1>1. ASSUME NEW w \in Worker, DeliverFanout(w) PROVE sent' = TRUE /\ touched' = touched
  BY <1>1 DEF DeliverFanout
<1>2. ASSUME NEW w \in Worker,
             \/ DispatchToPusher(w) \/ ClaimJob(w) \/ CheckCutover(w)
             \/ ReadConversation(w) \/ EnsureProcessing(w) \/ ProcessConversation(w)
             \/ ClaimFanout(w) \/ AckFanout(w) \/ MarkCompleted(w) \/ MarkFenced(w)
             \/ RetryOrDeadLetter(w) \/ WorkerFails(w) \/ WorkerCrash(w)
             \/ TaskTimesOut(w) \/ \E g \in Gens : DeliverTask(w, g)
      PROVE  sent' = sent /\ (touched' = touched \/ touched' = touched + 1)
  BY <1>2 DEF DispatchToPusher, ClaimJob, CheckCutover, ReadConversation, EnsureProcessing,
       ProcessConversation, ClaimFanout, AckFanout, MarkCompleted, MarkFenced, RetryOrDeadLetter,
       WorkerFails, WorkerCrash, TaskTimesOut, DeliverTask, Touch
<1>3. ASSUME \/ \E k \in Keys : CreateIntent(k) \/ GetIntent(k)
             \/ ResumeBlockedByok \/ EnqueueIntent \/ SessionCrash
             \/ LeaseExpires \/ LockExpires \/ ClaimReplay \/ EnqueueReplay
             \/ JobGrowsOld \/ ScanByok \/ AbandonByok
             \/ RouteAdmit \/ OpenDeferred \/ DirectProcess \/ DirectFails
             \/ DirectCrash \/ StampAges \/ RenewLease \/ ScanOrphan \/ CloseOrphan
             \/ UserEvent \/ BeginMerge \/ EndMerge \/ UNCHANGED vars
      PROVE  sent' = sent /\ (touched' = touched \/ touched' = touched + 1)
  BY <1>3 DEF CreateIntent, GetIntent, ResumeBlockedByok, EnqueueIntent, SessionCrash,
       LeaseExpires, LockExpires, ClaimReplay, EnqueueReplay, JobGrowsOld, ScanByok, AbandonByok,
       RouteAdmit, OpenDeferred, DirectProcess, DirectFails, DirectCrash, StampAges, RenewLease,
       ScanOrphan, CloseOrphan, UserEvent, BeginMerge, EndMerge, directRest, vars, Touch
<1> QED
  BY <1>1, <1>2, <1>3 DEF Next, WorkerStep

\* What a finished job says is earned, on every step.
LEMMA OutcomeStep ==
  ASSUME Types, JobComesFirst, OutcomeIsEarned, [Next]_vars
  PROVE  OutcomeIsEarned'
<1>0. sent => sent'
  BY HistoryGrows
<1>1. \A w \in Worker : worker'[w].pc = "ack" => sent'
  <2>1. CASE worker' = worker
    BY <1>0, <2>1 DEF OutcomeIsEarned
  <2>2. ASSUME NEW w \in Worker, WorkerMoves(w)
        PROVE  \A x \in Worker : worker'[x].pc = "ack" => sent'
    <3>1. worker'[w].pc = "ack" => DeliverFanout(w)
      BY <2>2, ConstantTypes DEF WorkerMoves, Claims
    <3> QED
      BY <1>0, <2>2, <3>1, HistoryGrows DEF WorkerMoves, Others, OutcomeIsEarned
  <2> QED
    BY <2>1, <2>2, WorkerMove
<1>2. CASE job' = job
  BY <1>0, <1>1, <1>2 DEF OutcomeIsEarned
<1>3. ASSUME NEW s \in {"queued", "blocked_byok"}, JobBecomes(s, 1, 0, "pending", "none")
      PROVE  OutcomeIsEarned'
  BY <1>1, <1>3 DEF OutcomeIsEarned, JobBecomes
<1>4. CASE JobMoves
  <2>1. job.outcome = "none"
    BY <1>4 DEF JobMoves, OutcomeIsEarned, Terminal
  <2>2. /\ job'.outcome # "none" => job'.status \in Terminal
        /\ job'.outcome = "success" => job'.fanout = "completed"
        /\ job'.fanout = "completed" => sent'
    BY <1>0, <1>4, <2>1 DEF JobMoves, OutcomeIsEarned
  <2> QED
    BY <1>1, <2>2 DEF OutcomeIsEarned
<1> QED
  BY <1>2, <1>3, <1>4, JobStep

\* A worker that did not claim holds the current lease only if it held it before:
\* a claim by another opens an epoch that nobody has.
LEMMA CurrentStays ==
  ASSUME Types, JobComesFirst, EpochsAreUnique, [Next]_vars,
         NEW w \in Worker, worker[w].pc # "idle", KeepsLease(w), IsCurrentLease(w)'
  PROVE  IsCurrentLease(w)
<1>1. job.epoch \in Nat /\ worker[w].epoch \in Nat /\ worker[w].epoch <= job.epoch
  BY DEF Types, Jobs, Threads, EpochsAreUnique
<1>2. job'.status = "leased" /\ job'.gen = worker[w].gen /\ job'.epoch = worker[w].epoch
  BY DEF IsCurrentLease, KeepsLease
<1>3. job.status # "none"
  BY DEF JobComesFirst
<1>4. CASE job' = job
  BY <1>2, <1>4 DEF IsCurrentLease
<1>5. CASE JobMoves
  BY <1>1, <1>2, <1>5 DEF IsCurrentLease, JobMoves
<1> QED
  BY <1>3, <1>4, <1>5, JobStep

-----------------------------------------------------------------------------
\* Without an intervention a completed row stays so and a failed one is at most
\* completed after all.
RowStays ==
    /\ conv.status = "completed" => conv'.status = "completed"
    /\ conv.status = "failed" => conv'.status \in {"completed", "failed"}

\* A live job's row waits for it or is completed.
LEMMA LiveRow ==
  ASSUME Types, JobComesFirst, RowSettles,
         job.status \in {"blocked_byok", "queued", "leased"}
  PROVE  conv.bound /\ conv.status \in {"processing", "completed"} /\ ~conv.discarded
         /\ direct.pc = "idle"
<1>1. conv.status \in {"in_progress", "processing", "completed", "failed", "merging"}
  BY DEF Types, Rows
<1> QED
  BY <1>1 DEF RowSettles, JobComesFirst

\* The row and the job without an intervention, on every step.
LEMMA RowStep ==
  ASSUME Types, JobComesFirst, RowSettles, JobSettles, OutcomeIsEarned,
         \A w \in Worker : WorkerSettles(w), touched = 0, touched' = 0, [Next]_vars
  PROVE  RowSettles' /\ JobSettles' /\ RowStays
<1>0. conv \in Rows /\ job \in Jobs /\ conv.discarded \in BOOLEAN
  BY DEF Types, Rows
<1>T. ~Touch
  BY DEF Touch
<1>1. ASSUME NEW k \in Keys, CreateIntent(k) PROVE RowSettles' /\ JobSettles' /\ RowStays
  <2>1. PICK s \in {"queued", "blocked_byok"} : JobBecomes(s, 1, 0, "pending", "none")
    BY <1>1, LaneEffect
  <2>2. RowIs(conv', TRUE, "processing", FALSE, FALSE, TRUE)
    BY <1>1, JobRowEffect
  <2>3. conv.status = "in_progress" /\ direct.pc = "idle" /\ direct' = direct
    BY <1>1 DEF CreateIntent, RowSettles
  <2> QED
    BY <2>1, <2>2, <2>3 DEF RowSettles, JobSettles, RowStays, JobBecomes, RowIs, Terminal
<1>2. ASSUME conv' = conv, direct' = direct,
             \/ job' = job
             \/ /\ job.status \in {"blocked_byok", "queued", "leased"}
                /\ job'.status \in {"blocked_byok", "queued", "leased"}
                /\ job'.fanout # "pending" => job.fanout # "pending" \/ conv.status = "completed"
      PROVE  RowSettles' /\ JobSettles' /\ RowStays
  BY <1>2 DEF RowSettles, JobSettles, RowStays, Terminal
<1>3. ASSUME ResumeBlockedByok \/ LeaseExpires \/ JobGrowsOld \/ ClaimReplay
      PROVE  RowSettles' /\ JobSettles' /\ RowStays
  <2>1. conv' = conv /\ direct' = direct
    BY <1>3 DEF ResumeBlockedByok, LeaseExpires, JobGrowsOld, ClaimReplay, rowVars
  <2>2. \/ job' = job
        \/ /\ job.status \in {"blocked_byok", "queued", "leased"}
           /\ job'.status \in {"blocked_byok", "queued", "leased"} /\ job'.fanout = job.fanout
    BY <1>3, LaneEffect DEF JobBecomes
  <2> QED
    BY <1>2, <2>1, <2>2
<1>4. ASSUME NEW w \in Worker, ClaimJob(w) PROVE RowSettles' /\ JobSettles' /\ RowStays
  <2>1. conv' = conv /\ direct' = direct /\ worker[w].pc # "idle"
    BY <1>4 DEF ClaimJob, rowVars
  <2>2. \/ job' = job
        \/ /\ job.status \in {"queued", "leased"}
           /\ job'.status = "leased" /\ job'.fanout = job.fanout
    BY <1>4, <2>1, ClaimEffect DEF Claims, JobBecomes, JobComesFirst
  <2> QED
    BY <1>2, <2>1, <2>2
<1>5. ASSUME NEW w \in Worker, ClaimFanout(w) PROVE RowSettles' /\ JobSettles' /\ RowStays
  <2>1. conv' = conv /\ direct' = direct /\ worker[w].pc = "fanout"
    BY <1>5 DEF ClaimFanout, rowVars
  <2>2. IsCurrentLease(w) => AdmitsFanout /\ job.status = "leased"
    BY <2>1, LiveRow DEF WorkerSettles, AdmitsFanout, IsCurrentLease, RowSettles
  <2>3. \/ job' = job
        \/ /\ job.status = "leased" /\ AdmitsFanout
           /\ job'.status = "leased" /\ job'.fanout = "leased"
    BY <1>5, <2>2, ClaimFanoutEffect DEF JobBecomes
  <2> QED
    BY <1>2, <2>1, <2>3 DEF AdmitsFanout
<1>6. ASSUME NEW w \in Worker, AckFanout(w) PROVE RowSettles' /\ JobSettles' /\ RowStays
  <2>1. conv' = conv /\ direct' = direct /\ worker[w].pc = "ack"
    BY <1>6 DEF AckFanout, rowVars
  <2>2. \/ job' = job
        \/ /\ job.status = "leased" /\ conv.status = "completed"
           /\ job'.status = "leased" /\ job'.fanout = "completed"
    BY <1>6, <2>1, AckEffect DEF JobBecomes, WorkerSettles, IsCurrentLease
  <2> QED
    BY <1>2, <2>1, <2>2
<1>7. ASSUME NEW w \in Worker, MarkCompleted(w) \/ MarkFenced(w)
      PROVE  RowSettles' /\ JobSettles' /\ RowStays
  <2>1. conv' = conv /\ direct' = direct
    BY <1>7 DEF MarkCompleted, MarkFenced, rowVars
  <2>2. CASE job' = job
    BY <1>2, <2>1, <2>2
  <2>3. CASE job' # job
    <3>1. /\ job.status = "leased" /\ conv.status = "completed"
          /\ JobBecomes("completed", job.gen, job.epoch, job.fanout, "success")
      BY <1>7, <2>3, MarkEffect DEF WorkerSettles, IsCurrentLease
    <3> QED
      BY <2>1, <3>1 DEF RowSettles, JobSettles, RowStays, JobBecomes
  <2> QED
    BY <2>2, <2>3
<1>8. ASSUME NEW w \in Worker, RetryOrDeadLetter(w)
      PROVE  RowSettles' /\ JobSettles' /\ RowStays
  <2>1. direct' = direct
    BY <1>8 DEF RetryOrDeadLetter
  <2>2. CASE job' = job /\ conv' = conv
    BY <1>2, <2>1, <2>2
  <2>3. CASE /\ IsCurrentLease(w) /\ conv' = conv
             /\ JobBecomes("queued", job.gen, job.epoch, job.fanout, job.outcome)
    BY <1>2, <2>1, <2>3 DEF IsCurrentLease, JobBecomes
  <2>4. CASE /\ IsCurrentLease(w) /\ conv' = DeadLetteredRow
             /\ JobBecomes("dead_letter", job.gen, job.epoch, job.fanout, "failure")
    <3>1. conv.bound /\ conv.status \in {"processing", "completed"} /\ ~conv.discarded
          /\ direct.pc = "idle" /\ conv.there
      BY <2>4, LiveRow DEF IsCurrentLease, RowSettles
    <3>2. \/ conv' = conv /\ conv.status = "completed"
          \/ /\ RowIs(conv', TRUE, "failed", TRUE, conv.deferred, conv.bound)
             /\ conv.status = "processing"
      BY <2>4, <3>1, JobRowEffect
    <3> QED
      BY <2>1, <2>4, <3>1, <3>2 DEF RowSettles, JobSettles, RowStays, JobBecomes, RowIs
  <2> QED
    BY <1>8, <2>2, <2>3, <2>4, RetryEffect
<1>9. ASSUME AbandonByok PROVE RowSettles' /\ JobSettles' /\ RowStays
  <2>1. direct' = direct
    BY <1>9 DEF AbandonByok
  <2>2. CASE job' = job /\ conv' = conv
    BY <1>2, <2>1, <2>2
  <2>3. CASE ~UNCHANGED <<job, tally, conv>>
    <3>1. /\ JobBecomes("dead_letter", job.gen, job.epoch, "fenced", "abandoned")
          /\ job.status \in {"queued", "leased"}
      BY <1>9, <2>3, LaneEffect
    <3>2. conv.bound /\ conv.status \in {"processing", "completed"} /\ ~conv.discarded
          /\ direct.pc = "idle" /\ conv.there /\ ~conv.deferred
      BY <3>1, LiveRow DEF RowSettles
    <3>3. \/ conv' = conv /\ conv.status = "completed"
          \/ RowIs(conv', TRUE, "completed", FALSE, conv.deferred, conv.bound)
      <4>1. conv.status = "processing" => conv' = [conv EXCEPT !.status = "completed"]
        BY <1>9, <2>3, <3>2 DEF AbandonByok
      <4>2. conv.status = "completed" => conv' = conv
        BY <1>9, <2>3 DEF AbandonByok
      <4>3. RowIs([conv EXCEPT !.status = "completed"], conv.there, "completed",
                  conv.discarded, conv.deferred, conv.bound)
        BY <1>0, RowFields DEF RowStatuses
      <4>4. conv.there = TRUE /\ conv.discarded = FALSE
        BY <1>0, <3>2 DEF Rows
      <4> QED
        BY <3>2, <4>1, <4>2, <4>3, <4>4
    <3> QED
      BY <2>1, <3>1, <3>2, <3>3 DEF RowSettles, JobSettles, RowStays, JobBecomes, RowIs
  <2> QED
    BY <2>2, <2>3
<1>10. ASSUME NEW w \in Worker, EnsureProcessing(w)
       PROVE  RowSettles' /\ JobSettles' /\ RowStays
  <2>1. worker[w].pc = "ensure" /\ direct' = direct /\ job' = job
    BY <1>10 DEF EnsureProcessing
  <2>2. conv' = conv
    BY <1>10, <2>1, JobRowEffect DEF WorkerSettles
  <2> QED
    BY <1>2, <2>1, <2>2
<1>11. ASSUME NEW w \in Worker, ProcessConversation(w)
       PROVE  RowSettles' /\ JobSettles' /\ RowStays
  <2>1. worker[w].pc = "process" /\ direct' = direct /\ job' = job
    BY <1>11 DEF ProcessConversation
  <2>2. ~worker[w].discarded /\ ~worker[w].deferred /\ conv.there
    BY <2>1 DEF WorkerSettles, RowSettles
  <2>3. PICK v \in Verdicts :
          /\ conv.there /\ v \notin {"skip", "lost"}
             => RowIs(conv', TRUE, IF v = "defer" THEN "processing" ELSE "completed",
                      IF v = "custom" THEN worker[w].discarded ELSE v = "drop",
                      v = "defer" \/ worker[w].deferred, conv.bound)
          /\ v \notin {"drop", "skip", "defer", "lost"}
    BY <1>11, <1>T, ProcessEffect
  <2>4. /\ conv'.status = "completed" /\ conv'.there /\ ~conv'.discarded /\ ~conv'.deferred
        /\ conv'.bound = conv.bound
    BY <2>2, <2>3 DEF RowIs
  <2> QED
    BY <2>1, <2>4 DEF RowSettles, JobSettles, RowStays
<1>12. ASSUME RouteAdmit PROVE RowSettles' /\ JobSettles' /\ RowStays
  <2>1. conv.status = "in_progress" /\ conv.there /\ direct'.pc = "route" /\ job' = job
    BY <1>12 DEF RouteAdmit, directRest, NoDirect
  <2>2. ~conv.bound /\ job.status = "none" /\ job.fanout = "pending"
    BY <2>1, ConstantTypes DEF RowSettles, JobComesFirst
  <2>3. RowIs(conv', TRUE, "processing", FALSE, conv.deferred, conv.bound)
    BY <1>12, DirectEffect
  <2> QED
    BY <2>1, <2>2, <2>3 DEF RowSettles, JobSettles, RowStays, RowIs, Terminal
<1>13. ASSUME DirectProcess PROVE RowSettles' /\ JobSettles' /\ RowStays
  <2>1. direct'.pc = "idle" /\ job' = job
    BY <1>13, ConstantTypes DEF DirectProcess, directRest
  <2>2. conv' = conv \/ RowIs(conv', TRUE, "completed", FALSE, FALSE, conv.bound)
    BY <1>13, DirectEffect
  <2> QED
    BY <2>1, <2>2 DEF RowSettles, JobSettles, RowStays, RowIs
<1>14. ASSUME DirectFails PROVE RowSettles' /\ JobSettles' /\ RowStays
  <2>1. direct'.pc = "idle" /\ job' = job /\ direct.pc = "route"
    BY <1>14, ConstantTypes DEF DirectFails, directRest, RowSettles
  <2>2. ~conv.bound /\ job.status = "none" /\ job.fanout = "pending"
    BY <2>1, ConstantTypes DEF RowSettles, JobComesFirst
  <2>3. \/ conv' = conv
        \/ /\ conv.status = "processing" /\ ~conv.discarded
           /\ RowIs(conv', conv.there, "in_progress", conv.discarded, conv.deferred, conv.bound)
    BY <1>14, <2>1, DirectEffect
  <2> QED
    BY <2>1, <2>2, <2>3 DEF RowSettles, JobSettles, RowStays, RowIs, Terminal
<1>15. ASSUME DirectCrash PROVE RowSettles' /\ JobSettles' /\ RowStays
  <2>1. direct'.pc = "idle" /\ job' = job /\ conv' = conv
    BY <1>15, ConstantTypes DEF DirectCrash, directRest
  <2> QED
    BY <2>1 DEF RowSettles, JobSettles, RowStays
<1>16. ASSUME StampAges \/ RenewLease \/ CloseOrphan
       PROVE  RowSettles' /\ JobSettles' /\ RowStays
  <2>1. direct' = direct /\ job' = job
    BY <1>16 DEF StampAges, RenewLease, CloseOrphan, directRest
  <2>2. \/ conv' = conv
        \/ RowIs(conv', conv.there, conv.status, conv.discarded, conv.deferred, conv.bound)
        \/ /\ conv.status = "processing" /\ ~conv.discarded
           /\ RowIs(conv', conv.there, "completed", conv.discarded, conv.deferred, conv.bound)
    BY <1>16, DirectEffect
  <2> QED
    BY <2>1, <2>2 DEF RowSettles, JobSettles, RowStays, RowIs
<1>17. ~OpenDeferred /\ ~UserEvent /\ ~BeginMerge /\ ~EndMerge
  BY <1>T DEF OpenDeferred, UserEvent, BeginMerge, EndMerge, RowSettles
<1>18. ASSUME \/ \E k \in Keys : GetIntent(k)
              \/ \E w \in Worker : \/ DispatchToPusher(w) \/ CheckCutover(w)
                                   \/ ReadConversation(w) \/ DeliverFanout(w)
                                   \/ WorkerFails(w) \/ WorkerCrash(w)
                                   \/ TaskTimesOut(w) \/ \E g \in Gens : DeliverTask(w, g)
              \/ EnqueueIntent \/ SessionCrash \/ LockExpires \/ EnqueueReplay \/ ScanByok
              \/ ScanOrphan \/ UNCHANGED vars
       PROVE  RowSettles' /\ JobSettles' /\ RowStays
  <2>1. conv' = conv /\ direct' = direct /\ job' = job
    BY <1>18 DEF GetIntent, DispatchToPusher, CheckCutover, ReadConversation, DeliverFanout,
         WorkerFails, WorkerCrash, TaskTimesOut, DeliverTask, EnqueueIntent, SessionCrash,
         LockExpires, EnqueueReplay, ScanByok, ScanOrphan, vars, rowVars, directRest
  <2> QED
    BY <1>2, <2>1
<1> QED
  BY <1>1, <1>3, <1>4, <1>5, <1>6, <1>7, <1>8, <1>9, <1>10, <1>11, <1>12, <1>13, <1>14, <1>15,
     <1>16, <1>17, <1>18 DEF Next, WorkerStep

\* A worker without an intervention, on every step.
LEMMA WorkerSettlesStep ==
  ASSUME Types, JobComesFirst, EpochsAreUnique, RowSettles, JobSettles,
         \A w \in Worker : WorkerSettles(w), touched = 0, touched' = 0, [Next]_vars,
         JobSettles', RowStays
  PROVE  \A w \in Worker : WorkerSettles(w)'
<1>T. ~Touch
  BY DEF Touch
<1>1. ASSUME NEW w \in Worker, worker'[w] = worker[w]
      PROVE  WorkerSettles(w)'
  <2>1. IsCurrentLease(w)' /\ worker[w].pc # "idle" => IsCurrentLease(w)
    BY <1>1, CurrentStays DEF KeepsLease
  <2> QED
    BY <1>1, <2>1 DEF WorkerSettles, RowStays
<1>2. ASSUME NEW w \in Worker,
             worker'[w].pc \notin {"process", "ensure", "fence", "fanout", "deliver", "ack",
                                   "complete"}
      PROVE  WorkerSettles(w)'
  BY <1>2 DEF WorkerSettles
<1>3. ASSUME NEW w \in Worker, Others(w), WorkerSettles(w)'
      PROVE  \A x \in Worker : WorkerSettles(x)'
  <2>1. ASSUME NEW x \in Worker, x # w PROVE WorkerSettles(x)'
    BY <1>1, <1>3, <2>1 DEF Others
  <2> QED
    BY <1>3, <2>1
<1>4. ASSUME worker' = worker PROVE \A w \in Worker : WorkerSettles(w)'
  BY <1>1, <1>4
<1>5. ASSUME NEW w \in Worker, DispatchToPusher(w) \/ \E g \in Gens : DeliverTask(w, g)
      PROVE  \A x \in Worker : WorkerSettles(x)'
  BY <1>2, <1>3, <1>4, <1>5, StartEffect
<1>6. ASSUME NEW w \in Worker, ClaimJob(w)
      PROVE  \A x \in Worker : WorkerSettles(x)'
  <2>1. Others(w) /\ worker'[w].pc \in {"idle", "check", "read"}
    BY <1>6, ClaimEffect, ConstantTypes DEF Claims
  <2> QED
    BY <1>2, <1>3, <2>1
<1>7. ASSUME NEW w \in Worker, MarkCompleted(w) \/ MarkFenced(w) \/ RetryOrDeadLetter(w)
      PROVE  \A x \in Worker : WorkerSettles(x)'
  <2>1. Others(w) /\ worker'[w].pc = "idle"
    BY <1>7, MarkEffect, RetryEffect, ConstantTypes
  <2> QED
    BY <1>2, <1>3, <2>1
<1>8. ASSUME NEW w \in Worker,
             CheckCutover(w) \/ WorkerFails(w) \/ WorkerCrash(w) \/ TaskTimesOut(w)
      PROVE  \A x \in Worker : WorkerSettles(x)'
  <2>1. \/ worker' = worker
        \/ worker' = [worker EXCEPT ![w] = Idle]
        \/ \E pc \in {"read", "fail"} : Goto(w, pc)
    BY <1>8, <1>T DEF CheckCutover, WorkerFails, WorkerCrash, TaskTimesOut, Finish
  <2>2. worker' = worker \/ (Others(w) /\ worker'[w].pc \in {"idle", "read", "fail"})
    BY <2>1, FinishEffect, GotoEffect, ConstantTypes DEF Pcs
  <2> QED
    BY <1>2, <1>3, <1>4, <2>2
<1>9. ASSUME NEW w \in Worker, ReadConversation(w)
      PROVE  \A x \in Worker : WorkerSettles(x)'
  <2>1. worker[w].pc = "read" /\ conv' = conv /\ job' = job
    BY <1>9 DEF ReadConversation, rowVars
  <2>2. Others(w) /\ worker'[w].pc \in {"fanout", "process", "ensure"}
    BY <1>9, ReadEffect
  <2>3. worker'[w].pc = "fanout" => conv'.status = "completed"
    BY <1>9, <2>1, ReadEffect DEF RowSettles
  <2>4. worker'[w].pc = "process" => ~worker'[w].discarded /\ ~worker'[w].deferred
    BY <1>9, ReadEffect DEF RowSettles
  <2>5. worker'[w].pc = "ensure" => conv.status = "failed"
    <3>1. conv.status \in {"in_progress", "processing", "completed", "failed", "merging"}
      BY DEF Types, Rows
    <3>2. conv.status # "in_progress" /\ conv.status # "merging" /\ conv.there
      BY <2>1 DEF JobComesFirst, RowSettles
    <3> QED
      BY <1>9, <3>1, <3>2, ReadEffect
  <2>6. worker'[w].pc = "ensure" => ~IsCurrentLease(w)'
    BY <2>1, <2>5 DEF RowSettles, IsCurrentLease
  <2>7. WorkerSettles(w)'
    BY <2>1, <2>2, <2>3, <2>4, <2>5, <2>6 DEF WorkerSettles
  <2> QED
    BY <1>3, <2>2, <2>7
<1>10. ASSUME NEW w \in Worker, EnsureProcessing(w)
       PROVE  \A x \in Worker : WorkerSettles(x)'
  <2>1. worker[w].pc = "ensure" /\ conv.status \in {"completed", "failed"} /\ conv.there
    BY <1>10 DEF EnsureProcessing, WorkerSettles, RowSettles
  <2>2. Goto(w, "fence")
    BY <1>10, <2>1 DEF EnsureProcessing
  <2>3. Others(w) /\ KeepsLease(w) /\ worker'[w].pc = "fence"
    BY <2>2, GotoEffect DEF Pcs
  <2>4. ~IsCurrentLease(w)'
    BY <2>1, <2>3, CurrentStays DEF WorkerSettles
  <2>5. WorkerSettles(w)'
    BY <2>3, <2>4 DEF WorkerSettles
  <2> QED
    BY <1>3, <2>3, <2>5
<1>11. ASSUME NEW w \in Worker, ProcessConversation(w)
       PROVE  \A x \in Worker : WorkerSettles(x)'
  <2>1. conv.there
    BY DEF RowSettles
  <2>2. Others(w) /\ \E v \in Verdicts :
           /\ v \notin {"drop", "skip", "defer", "lost"}
           /\ worker'[w].pc = IF v = "custom" \/ (v \in {"keep", "drop"} /\ conv.there)
                              THEN "fanout" ELSE "fence"
           /\ conv'.status = IF v = "defer" THEN "processing" ELSE "completed"
    BY <1>11, <1>T, <2>1, ProcessEffect DEF RowIs
  <2>3. worker'[w].pc = "fanout" /\ conv'.status = "completed"
    BY <2>1, <2>2, FinalizationAssumption
  <2>4. WorkerSettles(w)'
    BY <2>3 DEF WorkerSettles
  <2> QED
    BY <1>3, <2>2, <2>4
<1>12. ASSUME NEW w \in Worker, ClaimFanout(w)
       PROVE  \A x \in Worker : WorkerSettles(x)'
  <2>1. worker[w].pc = "fanout" /\ conv' = conv
    BY <1>12 DEF ClaimFanout, rowVars
  <2>2. /\ Others(w)
        /\ \/ worker'[w].pc = "complete" /\ job.fanout = "completed"
           \/ worker'[w].pc = "fail"
           \/ worker'[w].pc = "fence" /\ job'.status = "completed"
           \/ worker'[w].pc = "deliver" /\ IsCurrentLease(w)
    BY <1>12, ClaimFanoutEffect DEF JobBecomes
  <2>3. \/ worker'[w].pc \in {"complete", "deliver"} /\ conv'.status = "completed"
        \/ worker'[w].pc = "fail"
        \/ worker'[w].pc = "fence" /\ ~IsCurrentLease(w)'
    BY <2>1, <2>2 DEF JobSettles, WorkerSettles, IsCurrentLease
  <2>4. WorkerSettles(w)'
    BY <2>3 DEF WorkerSettles
  <2> QED
    BY <1>3, <2>2, <2>4
<1>13. ASSUME NEW w \in Worker, DeliverFanout(w)
       PROVE  \A x \in Worker : WorkerSettles(x)'
  <2>1. worker[w].pc = "deliver" /\ conv' = conv /\ Goto(w, "ack")
    BY <1>13 DEF DeliverFanout, rowVars
  <2>2. Others(w) /\ KeepsLease(w) /\ worker'[w].pc = "ack"
    BY <2>1, GotoEffect DEF Pcs
  <2>3. IsCurrentLease(w)' => conv'.status = "completed"
    BY <2>1, <2>2, CurrentStays DEF WorkerSettles
  <2>4. WorkerSettles(w)'
    BY <2>2, <2>3 DEF WorkerSettles
  <2> QED
    BY <1>3, <2>2, <2>4
<1>14. ASSUME NEW w \in Worker, AckFanout(w)
       PROVE  \A x \in Worker : WorkerSettles(x)'
  <2>1. /\ Others(w) /\ worker'[w].pc \in {"complete", "fail"}
        /\ worker'[w].pc = "complete" => conv'.status = "completed"
    BY <1>14, AckEffect DEF JobSettles
  <2>2. WorkerSettles(w)'
    BY <2>1 DEF WorkerSettles
  <2> QED
    BY <1>3, <2>1, <2>2
<1>15. ASSUME \/ \E k \in Keys : CreateIntent(k) \/ GetIntent(k)
              \/ ResumeBlockedByok \/ EnqueueIntent \/ SessionCrash
              \/ LeaseExpires \/ LockExpires \/ ClaimReplay \/ EnqueueReplay
              \/ JobGrowsOld \/ ScanByok \/ AbandonByok
              \/ RouteAdmit \/ OpenDeferred \/ DirectProcess \/ DirectFails
              \/ DirectCrash \/ StampAges \/ RenewLease \/ ScanOrphan \/ CloseOrphan
              \/ UserEvent \/ BeginMerge \/ EndMerge \/ UNCHANGED vars
       PROVE  worker' = worker
  BY <1>15 DEF CreateIntent, GetIntent, ResumeBlockedByok, EnqueueIntent, SessionCrash,
       LeaseExpires, LockExpires, ClaimReplay, EnqueueReplay, JobGrowsOld, ScanByok, AbandonByok,
       RouteAdmit, OpenDeferred, DirectProcess, DirectFails, DirectCrash, StampAges, RenewLease,
       ScanOrphan, CloseOrphan, UserEvent, BeginMerge, EndMerge, directRest, vars
<1> QED
  BY <1>4, <1>5, <1>6, <1>7, <1>8, <1>9, <1>10, <1>11, <1>12, <1>13, <1>14, <1>15
     DEF Next, WorkerStep

-----------------------------------------------------------------------------
\* The invariant holds of a new conversation.
LEMMA FinalizationInit == Init => FinalizationInv
<1> SUFFICES ASSUME Init PROVE FinalizationInv
  OBVIOUS
<1>1. /\ job = NoJob /\ session = NoSession /\ requeue = 0 /\ direct = NoDirect
      /\ scanned = NoScan /\ sent = FALSE /\ touched = 0
      /\ worker = [w \in Worker |-> Idle] /\ task = [g \in Gens |-> Unused]
      /\ tally = [s \in JobStatuses \ {"none"} |-> 0]
  BY DEF Init
<1>2. /\ conv \in Rows /\ conv.there /\ ~conv.deferred /\ ~conv.discarded /\ ~conv.bound
      /\ conv.status \in {"in_progress", "processing"}
  <2>1. PICK s \in {"in_progress", "processing"} :
           conv = [there |-> TRUE, status |-> s, discarded |-> FALSE, deferred |-> FALSE,
                   bound |-> FALSE, admitted |-> "none"]
    BY DEF Init
  <2> QED
    BY <2>1 DEF Rows
<1>3. Types
  <2>1. worker \in [Worker -> Threads] /\ tally \in [JobStatuses \ {"none"} -> Int]
    BY <1>1, ConstantTypes
  <2> QED
    BY <1>1, <1>2, <2>1, ConstantTypes DEF Types
<1>4. JobComesFirst
  BY <1>1, <1>2, ConstantTypes DEF JobComesFirst
<1>5. ProjectionIsExact
  BY <1>1, ConstantTypes DEF ProjectionIsExact
<1>6. EpochsAreUnique
  BY <1>1, ConstantTypes DEF EpochsAreUnique
<1>7. OutcomeIsEarned
  BY <1>1, ConstantTypes DEF OutcomeIsEarned
<1>8. Undisturbed
  <2>1. RowSettles
    BY <1>1, <1>2, ConstantTypes DEF RowSettles
  <2>2. JobSettles
    BY <1>1, ConstantTypes DEF JobSettles, Terminal
  <2>3. \A w \in Worker : WorkerSettles(w)
    BY <1>1, ConstantTypes DEF WorkerSettles
  <2> QED
    BY <2>1, <2>2, <2>3 DEF Undisturbed
<1> QED
  BY <1>3, <1>4, <1>5, <1>6, <1>7, <1>8 DEF FinalizationInv

\* Every step keeps the invariant.
LEMMA FinalizationStep == FinalizationInv /\ [Next]_vars => FinalizationInv'
<1> SUFFICES ASSUME FinalizationInv, [Next]_vars PROVE FinalizationInv'
  OBVIOUS
<1>1. Types /\ JobComesFirst /\ ProjectionIsExact /\ EpochsAreUnique /\ OutcomeIsEarned /\ Undisturbed
  BY DEF FinalizationInv
<1>2. Types' /\ JobComesFirst' /\ ProjectionIsExact' /\ EpochsAreUnique' /\ OutcomeIsEarned'
  BY <1>1, TypesStep, JobComesFirstStep, ProjectionStep, EpochsStep, OutcomeStep
<1>3. Undisturbed'
  <2> SUFFICES ASSUME touched' = 0
               PROVE  RowSettles' /\ JobSettles' /\ \A w \in Worker : WorkerSettles(w)'
    BY DEF Undisturbed
  <2>1. touched = 0
    <3>1. touched \in Nat
      BY <1>1 DEF Types
    <3>2. touched' = touched \/ touched' = touched + 1
      BY HistoryGrows
    <3> QED
      BY <3>1, <3>2
  <2>2. RowSettles /\ JobSettles /\ \A w \in Worker : WorkerSettles(w)
    BY <1>1, <2>1 DEF Undisturbed
  <2>3. RowSettles' /\ JobSettles' /\ RowStays
    BY <1>1, <2>1, <2>2, RowStep
  <2> QED
    BY <1>1, <2>1, <2>2, <2>3, WorkerSettlesStep
<1> QED
  BY <1>2, <1>3 DEF FinalizationInv

\* The model of the finalization is sound: the invariant holds whatever crashes,
\* expires, is retried or is replayed, for any number of workers and attempts.
THEOREM FinalizationIsSound == Spec => []FinalizationInv
BY FinalizationInit, FinalizationStep, PTL DEF Spec

\* The shards that _record_projection_delta keeps count exactly the job's
\* status, whichever claim, replay, retry or sweep moved it.
THEOREM ProjectionIsAlwaysExact == Spec => []ProjectionIsExact
<1>1. FinalizationInv => ProjectionIsExact
  BY DEF FinalizationInv
<1> QED
  BY <1>1, FinalizationIsSound, PTL

\* No two attempts ever hold the same lease epoch, so a write that is fenced by
\* the epoch is one worker's write.
THEOREM LeasesAreExclusive == Spec => []EpochsAreUnique
<1>1. FinalizationInv => EpochsAreUnique
  BY DEF FinalizationInv
<1> QED
  BY <1>1, FinalizationIsSound, PTL

\* A job that says success was acknowledged after a delivery, and without an
\* intervention its row is never left on processing.
THEOREM FinalizationEndsTruthfully == Spec => []EndsTruthfully
<1>1. FinalizationInv => EndsTruthfully
  BY DEF FinalizationInv, OutcomeIsEarned, Undisturbed, JobSettles, EndsTruthfully
<1> QED
  BY <1>1, FinalizationIsSound, PTL

\* A finished job never changes again, whatever late worker or sweep meets it.
THEOREM FinishedJobsStay == Spec => TerminalIsFinal
<1> DEFINE Final == /\ job.status \in Terminal => job' = job
                    /\ job.fanout = "completed" =>
                          job'.fanout = "completed" \/ job'.outcome = "abandoned"
<1>1. FinalizationInv /\ [Next]_vars => [Final]_vars
  <2> SUFFICES ASSUME FinalizationInv, [Next]_vars PROVE Final
    OBVIOUS
  <2>1. Types /\ JobComesFirst
    BY DEF FinalizationInv
  <2>2. job.status = "none" => job.fanout = "pending"
    BY <2>1, ConstantTypes DEF JobComesFirst
  <2> QED
    BY <2>1, <2>2, JobStep DEF JobMoves, Terminal
<1>2. Spec => [][Final]_vars
  BY <1>1, FinalizationIsSound, PTL DEF Spec
<1> QED
  BY <1>2 DEF TerminalIsFinal

-----------------------------------------------------------------------------
(***************************************************************************)
(* Why the reconciler does not replay for ever.  A job of the platform's   *)
(* keys is on its track while its task is due or will be enqueued and      *)
(* nobody of its generation is at work, or while exactly one worker serves *)
(* it with the lease, on a live lease, and sees the row it needs.  Only a  *)
(* fault or an intervention puts it off the track, and a replay puts it    *)
(* back: so each generation has a cause of its own.                        *)
(***************************************************************************)

\* A worker of the job's generation is at work on it; any other is too late.
AtWork(w) == worker[w].pc # "idle" /\ worker[w].gen = job.gen

\* The worker answers the task of the generation, holds the job or is about to
\* claim it, and the row and the fanout are as its next step needs them.
Serves(w) ==
    /\ worker[w].lane = "task" /\ worker[w].retry = task[job.gen] /\ Pending(job.gen)
    /\ \/ worker[w].pc = "claim" /\ job.status = "queued"
       \/ worker[w].pc # "claim" /\ IsCurrentLease(w) /\ job.live
    /\ worker[w].pc \in {"ensure", "fence"} => job.fanout = "pending"
    /\ worker[w].pc = "process" => conv.there
    /\ worker[w].pc = "complete" => job.fanout = "completed"

\* The queued job is nobody's, and its task is due or will be enqueued.
Waits ==
    /\ job.status = "queued" /\ \A w \in Worker : ~AtWork(w)
    /\ \/ Pending(job.gen)
       \/ /\ task[job.gen] = Unused
          /\ requeue = job.gen \/ (session.pc = "enqueue" /\ session.gen = job.gen)

\* The job needs no replay: it is not the reconciler's, or its end is in sight.
OnTrack ==
    \/ job.byok \/ job.status \in {"none"} \cup Terminal
    \/ Waits
    \/ \E w \in Worker : AtWork(w) /\ Serves(w) /\ \A x \in Worker \ {w} : ~AtWork(x)

Unit(b) == IF b THEN 1 ELSE 0

\* Each generation was paid for by a fault or an intervention, a job that is off
\* its track by one that no replay used yet, and so is a merge before it ends.
Paid == job.gen + Unit(~OnTrack) + Unit(direct.pc = "merge") <= faults + touched + 1

\* A bound row never returns to in_progress, a route owns a row without a job,
\* and only a dead letter leaves a row on failed.
RowWays ==
    /\ direct.pc = "route" => ~conv.bound /\ conv.status \notin {"in_progress", "merging"}
    /\ conv.bound => conv.status # "in_progress"
    /\ conv.there /\ conv.status = "failed" => job.status = "dead_letter"

\* Sessions, the reconciler, tasks and workers never run ahead of the job's
\* generation, and the reconciler never sees a job of the user's own keys.
Lanes ==
    /\ job.gen >= 1 /\ requeue \in {0, job.gen}
    /\ session.pc = "enqueue" => session.gen \in 1 .. job.gen
    /\ session.pc \in {"resume", "dispatch"} => job.byok /\ session.gen <= job.gen
    /\ \A g \in Gens : g > job.gen => task[g] = Unused
    /\ job.byok => ~job.due
    /\ job.status = "blocked_byok" => job.byok
    /\ \A w \in Worker : worker[w].pc # "idle" =>
          /\ worker[w].gen <= job.gen
          /\ worker[w].lane = "task" => worker[w].retry < MaxAttempts

Counts ==
    /\ faults \in 0 .. MaxFaults /\ touched \in 0 .. MaxTouches
    /\ task \in [Gens -> Unused .. Gone]

TrackInv == Types /\ JobComesFirst /\ RowWays /\ Lanes /\ Counts /\ Paid

\* The fields of the job that its track depends on.
SameJob ==
    /\ job'.byok = job.byok /\ job'.status = job.status /\ job'.gen = job.gen
    /\ job'.epoch = job.epoch /\ job'.fanout = job.fanout /\ job'.live = job.live

\* A step outside the job's generation keeps the job on its track.
LEMMA TrackKept ==
  ASSUME OnTrack, SameJob, task'[job.gen] = task[job.gen],
         \A w \in Worker : AtWork(w) => worker'[w] = worker[w],
         \A w \in Worker : AtWork(w)' => AtWork(w),
         conv.there => conv'.there,
         task[job.gen] = Unused =>
            /\ requeue = job.gen => requeue' = requeue
            /\ session.pc = "enqueue" /\ session.gen = job.gen => session' = session
  PROVE  OnTrack'
<1>1. /\ job'.byok = job.byok /\ job'.status = job.status /\ job'.gen = job.gen
      /\ job'.epoch = job.epoch /\ job'.fanout = job.fanout /\ job'.live = job.live
  BY DEF SameJob
<1>2. Pending(job.gen) => Pending(job.gen)'
  BY <1>1 DEF Pending
<1>3. CASE job.byok \/ job.status \in {"none"} \cup Terminal
  BY <1>1, <1>3 DEF OnTrack, Terminal
<1>4. CASE Waits
  <2>1. Waits'
    BY <1>1, <1>2, <1>4 DEF Waits
  <2> QED
    BY <2>1 DEF OnTrack
<1>5. ASSUME NEW w \in Worker, AtWork(w), Serves(w), \A x \in Worker \ {w} : ~AtWork(x)
      PROVE  OnTrack'
  <2>1. worker'[w] = worker[w]
    BY <1>5
  <2>2. AtWork(w)' /\ \A x \in Worker \ {w} : ~AtWork(x)'
    BY <1>1, <1>5, <2>1 DEF AtWork
  <2>3. Serves(w)'
    BY <1>1, <1>2, <1>5, <2>1 DEF Serves, IsCurrentLease
  <2> QED
    BY <2>2, <2>3 DEF OnTrack
<1> QED
  BY <1>3, <1>4, <1>5 DEF OnTrack

\* A step of the worker that serves the job keeps it on its track: the job ends,
\* waits for the next delivery of its task or is served on.
LEMMA ServedOn ==
  ASSUME NEW w \in Worker, \A x \in Worker \ {w} : ~AtWork(x), Others(w), job'.gen = job.gen,
         \/ job'.status \in Terminal
         \/ worker'[w].pc = "idle" /\ job'.status = "queued" /\ Pending(job.gen)'
         \/ AtWork(w)' /\ Serves(w)'
  PROVE  OnTrack'
<1>1. \A x \in Worker \ {w} : ~AtWork(x)'
  BY DEF AtWork, Others
<1>2. CASE job'.status \in Terminal
  BY <1>2 DEF OnTrack, Terminal
<1>3. CASE worker'[w].pc = "idle" /\ job'.status = "queued" /\ Pending(job.gen)'
  <2>1. \A x \in Worker : ~AtWork(x)'
    BY <1>1, <1>3 DEF AtWork
  <2>2. Waits'
    BY <1>3, <2>1 DEF Waits
  <2> QED
    BY <2>2 DEF OnTrack
<1>4. CASE AtWork(w)' /\ Serves(w)'
  BY <1>1, <1>4 DEF OnTrack
<1> QED
  BY <1>2, <1>3, <1>4

\* Every generation stays paid for by a step that is charged or keeps the track.
LEMMA PaidKept ==
  ASSUME Types, Types', Counts, Paid, job'.gen = job.gen,
         faults' \in {faults, faults + 1}, touched' \in {touched, touched + 1},
         \/ faults' = faults + 1 \/ touched' = touched + 1
         \/ OnTrack => OnTrack',
         direct'.pc = "merge" => direct.pc = "merge"
  PROVE  Paid'
<1> DEFINE u == Unit(~OnTrack) m == Unit(direct.pc = "merge")
           v == Unit(~OnTrack)' n == Unit(direct.pc = "merge")'
<1>1. u \in 0 .. 1 /\ v \in 0 .. 1 /\ m \in 0 .. 1 /\ n \in 0 .. 1 /\ n <= m
  BY DEF Unit
<1>2. (OnTrack => OnTrack') => v <= u
  BY DEF Unit
<1>3. job.gen \in Nat /\ faults \in Nat /\ touched \in Nat
  BY FinalizationAssumption DEF Types, Jobs, Counts
<1>4. job.gen + u + m <= faults + touched + 1
  BY DEF Paid
<1>5. job'.gen + v + n <= faults' + touched' + 1
  <2> HIDE DEF u, v, m, n
  <2> QED
    BY <1>1, <1>2, <1>3, <1>4
<1> QED
  BY <1>5 DEF Paid

-----------------------------------------------------------------------------
\* The counters of faults and interventions grow by one, within their bounds.
LEMMA CountersGrow ==
  ASSUME [Next]_vars
  PROVE  (faults' = faults \/ Fault) /\ (touched' = touched \/ Touch)
<1>1. ASSUME NEW w \in Worker,
             \/ DispatchToPusher(w) \/ ClaimJob(w) \/ CheckCutover(w)
             \/ ReadConversation(w) \/ EnsureProcessing(w) \/ ProcessConversation(w)
             \/ ClaimFanout(w) \/ DeliverFanout(w) \/ AckFanout(w) \/ MarkCompleted(w)
             \/ MarkFenced(w) \/ RetryOrDeadLetter(w) \/ WorkerFails(w) \/ WorkerCrash(w)
             \/ TaskTimesOut(w) \/ \E g \in Gens : DeliverTask(w, g)
      PROVE  (faults' = faults \/ Fault) /\ (touched' = touched \/ Touch)
  BY <1>1 DEF DispatchToPusher, ClaimJob, CheckCutover, ReadConversation, EnsureProcessing,
       ProcessConversation, ClaimFanout, DeliverFanout, AckFanout, MarkCompleted, MarkFenced,
       RetryOrDeadLetter, WorkerFails, WorkerCrash, TaskTimesOut, DeliverTask, FaultIf
<1>2. ASSUME \/ \E k \in Keys : CreateIntent(k) \/ GetIntent(k)
             \/ ResumeBlockedByok \/ EnqueueIntent \/ SessionCrash
             \/ LeaseExpires \/ LockExpires \/ ClaimReplay \/ EnqueueReplay
             \/ JobGrowsOld \/ ScanByok \/ AbandonByok
             \/ RouteAdmit \/ OpenDeferred \/ DirectProcess \/ DirectFails
             \/ DirectCrash \/ StampAges \/ RenewLease \/ ScanOrphan \/ CloseOrphan
             \/ UserEvent \/ BeginMerge \/ EndMerge \/ UNCHANGED vars
      PROVE  (faults' = faults \/ Fault) /\ (touched' = touched \/ Touch)
  BY <1>2 DEF CreateIntent, GetIntent, ResumeBlockedByok, EnqueueIntent, SessionCrash,
       LeaseExpires, LockExpires, ClaimReplay, EnqueueReplay, JobGrowsOld, ScanByok, AbandonByok,
       RouteAdmit, OpenDeferred, DirectProcess, DirectFails, DirectCrash, StampAges, RenewLease,
       ScanOrphan, CloseOrphan, UserEvent, BeginMerge, EndMerge, vars, FaultIf
<1> QED
  BY <1>1, <1>2 DEF Next, WorkerStep

\* What a step may do to the generation of a job and to whose keys it uses.
FlagsKept ==
    /\ job'.byok = job.byok /\ (job.byok => (job'.due => job.due))
    /\ job'.gen = job.gen \/ ClaimReplay
    /\ job'.status = "blocked_byok" => job.status = "blocked_byok"

\* A job keeps its keys, only a replay opens a generation, and the replay query
\* never gains a job of the user's own keys.
LEMMA FlagsStep ==
  ASSUME Types, [Next]_vars, ~\E k \in Keys : CreateIntent(k)
  PROVE  FlagsKept
<1>0. job \in Jobs /\ job.byok \in BOOLEAN
  BY DEF Types, Jobs
<1>1. ASSUME UNCHANGED job PROVE FlagsKept
  BY <1>1 DEF FlagsKept
<1>2. ASSUME ResumeBlockedByok PROVE FlagsKept
  <2>1. \/ job' = job
        \/ job' = [[job EXCEPT !.status = "queued", !.due = FALSE] EXCEPT !.old = FALSE]
    BY <1>2 DEF ResumeBlockedByok, Write
  <2> QED
    BY <1>0, <2>1 DEF Jobs, FlagsKept
<1>3. ASSUME NEW w \in Worker, ClaimJob(w) PROVE FlagsKept
  <2>1. job' = job \/ job' = [Leased EXCEPT !.old = FALSE]
    BY <1>3 DEF ClaimJob, Write
  <2> QED
    BY <1>0, <2>1 DEF Jobs, FlagsKept, Leased
<1>4. ASSUME NEW w \in Worker, ClaimFanout(w) PROVE FlagsKept
  <2>1. \/ job' = job \/ job' = [Fenced(job) EXCEPT !.old = FALSE]
        \/ job' = [FanoutLeased(w) EXCEPT !.old = FALSE]
    BY <1>4 DEF ClaimFanout, Write
  <2> QED
    BY <1>0, <2>1 DEF Jobs, FlagsKept, Fenced, FanoutLeased
<1>5. ASSUME NEW w \in Worker, AckFanout(w) PROVE FlagsKept
  <2>1. \/ job' = job \/ job' = [[job EXCEPT !.fanout = "completed"] EXCEPT !.old = FALSE]
    BY <1>5 DEF AckFanout, Write
  <2> QED
    BY <1>0, <2>1 DEF Jobs, FlagsKept
<1>6. ASSUME NEW w \in Worker, MarkCompleted(w) \/ MarkFenced(w) PROVE FlagsKept
  <2>1. \/ job' = job \/ job' = [Fenced(job) EXCEPT !.old = FALSE]
        \/ job' = [[job EXCEPT !.status = "completed", !.live = FALSE,
                               !.outcome = "success", !.due = FALSE] EXCEPT !.old = FALSE]
    BY <1>6 DEF MarkCompleted, MarkFenced, Write
  <2> QED
    BY <1>0, <2>1 DEF Jobs, FlagsKept, Fenced
<1>7. ASSUME NEW w \in Worker, RetryOrDeadLetter(w) PROVE FlagsKept
  <2>1. \/ job' = job
        \/ job' = [job EXCEPT !.status = "dead_letter", !.outcome = "failure", !.live = FALSE,
                              !.due = FALSE, !.old = FALSE]
        \/ job' = [job EXCEPT !.status = "queued", !.live = FALSE, !.due = ~job.byok,
                              !.old = FALSE]
    BY <1>7 DEF RetryOrDeadLetter
  <2> QED
    BY <1>0, <2>1 DEF Jobs, FlagsKept
<1>8. ASSUME LeaseExpires \/ JobGrowsOld PROVE FlagsKept
  <2>1. job' = [job EXCEPT !.live = FALSE] \/ job' = [job EXCEPT !.old = TRUE]
    BY <1>8 DEF LeaseExpires, JobGrowsOld
  <2> QED
    BY <1>0, <2>1 DEF Jobs, FlagsKept
<1>9. ASSUME ClaimReplay PROVE FlagsKept
  <2>1. job' = [[job EXCEPT !.status = "queued", !.gen = @ + 1, !.live = FALSE] EXCEPT !.old = FALSE]
    BY <1>9 DEF ClaimReplay, Write
  <2> QED
    BY <1>0, <1>9, <2>1 DEF Jobs, FlagsKept
<1>10. ASSUME AbandonByok PROVE FlagsKept
  <2>1. \/ job' = job
        \/ job' = [[job EXCEPT !.status = "dead_letter", !.outcome = "abandoned",
                               !.fanout = "fenced", !.due = FALSE] EXCEPT !.old = FALSE]
    BY <1>10 DEF AbandonByok, Write
  <2> QED
    BY <1>0, <2>1 DEF Jobs, FlagsKept
<1>11. CASE UNCHANGED vars
  BY <1>1, <1>11 DEF vars
<1> QED
  BY <1>1, <1>2, <1>3, <1>4, <1>5, <1>6, <1>7, <1>8, <1>9, <1>10, <1>11, QuietSteps
     DEF Next, WorkerStep

\* What a new job is.
LEMMA CreatedJob ==
  ASSUME Types, JobComesFirst, NEW k \in Keys, CreateIntent(k)
  PROVE  /\ job = NoJob /\ job'.gen = 1 /\ job.gen = 1
         /\ job'.byok = k /\ job'.due = ~k
         /\ job'.status = IF k THEN "blocked_byok" ELSE "queued"
         /\ session' = [pc |-> IF k THEN "resume" ELSE "enqueue", gen |-> 1, keys |-> k]
<1>1. job.status = "none"
  BY DEF CreateIntent, JobComesFirst
<1>2. job = NoJob /\ job.gen = 1
  BY <1>1 DEF JobComesFirst, NoJob
<1>3. job' = [[NoJob EXCEPT !.status = IF k THEN "blocked_byok" ELSE "queued", !.byok = k,
                            !.due = ~k] EXCEPT !.old = FALSE]
  BY DEF CreateIntent, Write
<1> DEFINE s == IF k THEN "blocked_byok" ELSE "queued"
<1>4. job'.gen = 1 /\ job'.byok = k /\ job'.due = ~k /\ job'.status = s
  <2>1. job' = [[NoJob EXCEPT !.status = s, !.byok = k, !.due = ~k] EXCEPT !.old = FALSE]
    BY <1>3
  <2> HIDE DEF s
  <2> QED
    BY <2>1 DEF NoJob
<1> QED
  BY <1>2, <1>4 DEF CreateIntent

-----------------------------------------------------------------------------
\* The row keeps to its ways, on every step.
LEMMA RowWaysStep ==
  ASSUME Types, JobComesFirst, RowWays, [Next]_vars
  PROVE  RowWays'
<1>0. conv \in Rows /\ conv.bound \in BOOLEAN /\ conv.there \in BOOLEAN
  BY DEF Types, Rows
<1>1. job.status = "dead_letter" => job'.status = "dead_letter"
  BY JobStep DEF JobMoves
<1>2. ASSUME direct' = direct \/ direct'.pc # "route",
             \/ conv' = conv
             \/ /\ conv'.bound = conv.bound
                /\ conv'.status \in {conv.status, "processing", "completed"}
                /\ conv'.there = conv.there
             \/ conv'.bound = FALSE /\ conv'.there = FALSE /\ conv'.status = "failed"
      PROVE  RowWays'
  BY <1>0, <1>1, <1>2 DEF RowWays
<1>3. ASSUME NEW k \in Keys, CreateIntent(k) PROVE RowWays'
  <2>1. RowIs(conv', TRUE, "processing", FALSE, FALSE, TRUE)
    BY <1>3, JobRowEffect
  <2>2. direct.pc # "route" /\ direct' = direct
    BY <1>3 DEF CreateIntent, RowWays
  <2> QED
    BY <2>1, <2>2 DEF RowWays, RowIs
<1>4. ASSUME NEW w \in Worker, EnsureProcessing(w) \/ ProcessConversation(w) PROVE RowWays'
  <2>1. direct' = direct
    BY <1>4 DEF EnsureProcessing, ProcessConversation
  <2>2. \/ conv' = conv
        \/ conv'.bound = conv.bound /\ conv'.status \in {"processing", "completed"}
           /\ conv'.there = conv.there
    BY <1>0, <1>4, JobRowEffect, ProcessEffect DEF RowIs
  <2> QED
    BY <1>2, <2>1, <2>2
<1>5. ASSUME NEW w \in Worker, RetryOrDeadLetter(w) PROVE RowWays'
  <2>1. direct' = direct
    BY <1>5 DEF RetryOrDeadLetter
  <2>2. \/ conv' = conv
        \/ /\ conv' = DeadLetteredRow /\ job'.status = "dead_letter"
    BY <1>5, RetryEffect DEF JobBecomes
  <2>3. \/ conv' = conv
        \/ conv'.bound = conv.bound /\ conv'.status = "failed" /\ job'.status = "dead_letter"
    BY <2>2, JobRowEffect DEF RowIs
  <2> QED
    BY <1>2, <2>1, <2>3 DEF RowWays
<1>6. ASSUME AbandonByok PROVE RowWays'
  <2>1. direct' = direct
    BY <1>6 DEF AbandonByok
  <2>2. \/ conv' = conv
        \/ conv'.bound = conv.bound /\ conv'.status = "completed" /\ conv'.there = conv.there
    BY <1>0, <1>6, JobRowEffect DEF RowIs
  <2> QED
    BY <1>2, <2>1, <2>2
<1>7. ASSUME RouteAdmit PROVE RowWays'
  <2>1. RowIs(conv', TRUE, "processing", FALSE, conv.deferred, conv.bound)
    BY <1>7, DirectEffect
  <2>2. ~conv.bound
    BY <1>7 DEF RouteAdmit, RowWays
  <2> QED
    BY <2>1, <2>2 DEF RowWays, RowIs
<1>8. ASSUME OpenDeferred \/ DirectProcess PROVE RowWays'
  <2>1. direct'.pc # "route"
    <3>1. direct' = NoDirect \/ direct' = [NoDirect EXCEPT !.pc = "enrich"]
      BY <1>8 DEF OpenDeferred, DirectProcess
    <3> QED
      BY <3>1 DEF NoDirect
  <2>2. \/ conv' = conv
        \/ conv'.bound = conv.bound /\ conv'.status \in {"processing", "completed"}
           /\ conv'.there = conv.there
    BY <1>0, <1>8, DirectEffect DEF RowIs, OpenDeferred
  <2> QED
    BY <1>2, <2>1, <2>2
<1>9. ASSUME DirectFails PROVE RowWays'
  <2>1. direct'.pc # "route"
    BY <1>9 DEF DirectFails, NoDirect
  <2>2. CASE direct.pc = "route" /\ RowIs(conv', conv.there, "in_progress", conv.discarded,
                                          conv.deferred, conv.bound)
    BY <2>1, <2>2 DEF RowWays, RowIs
  <2>3. CASE \/ conv' = conv
             \/ RowIs(conv', conv.there, "completed", conv.discarded, TRUE, conv.bound)
    BY <1>2, <2>1, <2>3 DEF RowIs
  <2> QED
    BY <1>9, <2>2, <2>3, DirectEffect
<1>10. ASSUME StampAges \/ RenewLease \/ CloseOrphan PROVE RowWays'
  <2>1. direct' = direct
    BY <1>10 DEF StampAges, RenewLease, CloseOrphan
  <2>2. \/ conv' = conv
        \/ /\ conv'.bound = conv.bound /\ conv'.status \in {conv.status, "completed"}
           /\ conv'.there = conv.there
    BY <1>10, DirectEffect DEF RowIs
  <2> QED
    BY <1>2, <2>1, <2>2
<1>11. ASSUME UserEvent \/ EndMerge PROVE RowWays'
  <2>1. direct' = direct \/ direct'.pc # "route"
    BY <1>11 DEF UserEvent, EndMerge, NoDirect
  <2>2. \/ conv' = conv
        \/ /\ conv'.bound = conv.bound /\ conv'.status \in {conv.status, "completed"}
           /\ conv'.there = conv.there
        \/ conv'.bound = FALSE /\ conv'.there = FALSE /\ conv'.status = "failed"
    BY <1>11, UserEffect DEF RowIs
  <2> QED
    BY <1>2, <2>1, <2>2
<1>12. ASSUME BeginMerge PROVE RowWays'
  <2>1. direct'.pc = "merge"
    BY <1>12 DEF BeginMerge, NoDirect
  <2>2. conv'.status = "merging"
    BY <1>12, UserEffect DEF RowIs
  <2> QED
    BY <2>1, <2>2 DEF RowWays
<1>13. ASSUME NEW w \in Worker,
              \/ DispatchToPusher(w) \/ ClaimJob(w) \/ CheckCutover(w) \/ ReadConversation(w)
              \/ ClaimFanout(w) \/ DeliverFanout(w) \/ AckFanout(w) \/ MarkCompleted(w)
              \/ MarkFenced(w) \/ WorkerFails(w) \/ WorkerCrash(w) \/ TaskTimesOut(w)
              \/ \E g \in Gens : DeliverTask(w, g)
       PROVE  RowWays'
  <2>1. UNCHANGED <<conv, direct>>
    BY <1>13 DEF DispatchToPusher, ClaimJob, CheckCutover, ReadConversation, ClaimFanout,
       DeliverFanout, AckFanout, MarkCompleted, MarkFenced, WorkerFails, WorkerCrash,
       TaskTimesOut, DeliverTask, rowVars
  <2> QED
    BY <1>2, <2>1
<1>15. ASSUME \/ \E k \in Keys : GetIntent(k)
              \/ ResumeBlockedByok \/ EnqueueIntent \/ SessionCrash \/ LeaseExpires
              \/ LockExpires \/ ClaimReplay \/ EnqueueReplay \/ JobGrowsOld \/ ScanByok
              \/ ScanOrphan \/ UNCHANGED vars
       PROVE  RowWays'
  <2>1. UNCHANGED <<conv, direct>>
    BY <1>15 DEF GetIntent, ResumeBlockedByok, EnqueueIntent, SessionCrash, LeaseExpires,
       LockExpires, ClaimReplay, EnqueueReplay, JobGrowsOld, ScanByok, ScanOrphan, vars, rowVars
  <2> QED
    BY <1>2, <2>1
<1>14. ASSUME DirectCrash PROVE RowWays'
  <2>1. conv' = conv /\ direct'.pc # "route"
    BY <1>14 DEF DirectCrash, NoDirect
  <2> QED
    BY <1>2, <2>1
<1> QED
  BY <1>3, <1>4, <1>5, <1>6, <1>7, <1>8, <1>9, <1>10, <1>11, <1>12, <1>13, <1>14, <1>15
     DEF Next, WorkerStep

\* Only a merge that begins owns the row as one.
LEMMA MergeStep ==
  ASSUME Types, [Next]_vars
  PROVE  /\ direct'.pc = "merge" => direct.pc = "merge" \/ BeginMerge
         /\ EndMerge => direct.pc = "merge" /\ direct'.pc = "idle"
         /\ BeginMerge => direct.pc = "idle" /\ touched' = touched + 1
<1>1. ASSUME NEW w \in Worker,
             \/ DispatchToPusher(w) \/ ClaimJob(w) \/ CheckCutover(w)
             \/ ReadConversation(w) \/ EnsureProcessing(w) \/ ProcessConversation(w)
             \/ ClaimFanout(w) \/ DeliverFanout(w) \/ AckFanout(w) \/ MarkCompleted(w)
             \/ MarkFenced(w) \/ RetryOrDeadLetter(w) \/ WorkerFails(w) \/ WorkerCrash(w)
             \/ TaskTimesOut(w) \/ \E g \in Gens : DeliverTask(w, g)
      PROVE  direct' = direct
  BY <1>1 DEF DispatchToPusher, ClaimJob, CheckCutover, ReadConversation, EnsureProcessing,
       ProcessConversation, ClaimFanout, DeliverFanout, AckFanout, MarkCompleted, MarkFenced,
       RetryOrDeadLetter, WorkerFails, WorkerCrash, TaskTimesOut, DeliverTask, rowVars
<1>2. ASSUME \/ \E k \in Keys : CreateIntent(k) \/ GetIntent(k)
             \/ ResumeBlockedByok \/ EnqueueIntent \/ SessionCrash
             \/ LeaseExpires \/ LockExpires \/ ClaimReplay \/ EnqueueReplay
             \/ JobGrowsOld \/ ScanByok \/ AbandonByok
             \/ StampAges \/ RenewLease \/ ScanOrphan \/ CloseOrphan
             \/ UserEvent \/ UNCHANGED vars
      PROVE  direct' = direct
  BY <1>2 DEF CreateIntent, GetIntent, ResumeBlockedByok, EnqueueIntent, SessionCrash,
       LeaseExpires, LockExpires, ClaimReplay, EnqueueReplay, JobGrowsOld, ScanByok, AbandonByok,
       StampAges, RenewLease, ScanOrphan, CloseOrphan, UserEvent, vars, rowVars
<1>3. ASSUME RouteAdmit \/ OpenDeferred \/ DirectProcess \/ DirectFails \/ DirectCrash \/ EndMerge
      PROVE  direct'.pc # "merge"
  <2>1. \/ direct' = NoDirect
        \/ \E p \in {"route", "enrich"} : direct' = [NoDirect EXCEPT !.pc = p]
    BY <1>3 DEF RouteAdmit, OpenDeferred, DirectProcess, DirectFails, DirectCrash, EndMerge
  <2> QED
    BY <2>1 DEF NoDirect
<1>4. EndMerge => direct.pc = "merge" /\ direct'.pc = "idle"
  BY DEF EndMerge, NoDirect
<1>5. BeginMerge => direct.pc = "idle" /\ touched' = touched + 1
  BY DEF BeginMerge, NoDirect, Touch
<1>6. direct'.pc = "merge" => direct.pc = "merge" \/ BeginMerge
  BY <1>1, <1>2, <1>3 DEF Next, WorkerStep
<1> QED
  BY <1>4, <1>5, <1>6

-----------------------------------------------------------------------------
\* What a worker was started with.
SameTask(w) ==
    /\ worker'[w].lane = worker[w].lane /\ worker'[w].gen = worker[w].gen
    /\ worker'[w].retry = worker[w].retry

\* A worker at work ends its attempt or goes on with the task it was started with.
LEMMA WorkerKeepsTask ==
  ASSUME Types, NEW w \in Worker,
         WorkerStep(w) \/ WorkerFails(w) \/ WorkerCrash(w) \/ TaskTimesOut(w)
  PROVE  /\ worker[w].pc # "idle" /\ Others(w)
         /\ worker'[w] = Idle \/ SameTask(w)
<1>0. worker[w] \in Threads /\ worker \in [Worker -> Threads]
  BY DEF Types
<1>1. worker[w].pc # "idle"
  BY DEF WorkerStep, ClaimJob, CheckCutover, ReadConversation, EnsureProcessing,
       ProcessConversation, ClaimFanout, DeliverFanout, AckFanout, MarkCompleted, MarkFenced,
       RetryOrDeadLetter, WorkerFails, WorkerCrash, TaskTimesOut
<1>2. ASSUME NEW pc, Goto(w, pc) PROVE SameTask(w)
  BY <1>0, <1>2 DEF Goto, Threads, SameTask
<1>3. ASSUME worker' = [worker EXCEPT ![w] = Idle] PROVE worker'[w] = Idle /\ Others(w)
  BY <1>3, FinishEffect
<1>4. CASE CheckCutover(w) \/ EnsureProcessing(w) \/ DeliverFanout(w)
  <2>1. PICK pc \in {"read", "fence", "fail", "process", "ack"} : Goto(w, pc)
    BY <1>4 DEF CheckCutover, EnsureProcessing, DeliverFanout
  <2> QED
    BY <1>1, <1>2, <2>1, GotoEffect DEF Pcs
<1>5. CASE ProcessConversation(w) \/ AckFanout(w) \/ ClaimFanout(w)
  <2>1. \E pc : Goto(w, pc)
    BY <1>5 DEF ProcessConversation, AckFanout, ClaimFanout
  <2>2. Others(w)
    BY <1>5, ProcessEffect, AckEffect, ClaimFanoutEffect
  <2> QED
    BY <1>1, <1>2, <2>1, <2>2
<1>6. CASE MarkCompleted(w) \/ MarkFenced(w) \/ RetryOrDeadLetter(w)
  BY <1>1, <1>6, MarkEffect, RetryEffect
<1>7. CASE ReadConversation(w)
  <2>1. Others(w)
    BY <1>7, ReadEffect
  <2>2. SameTask(w)
    BY <1>0, <1>7 DEF ReadConversation, Threads, SameTask
  <2> QED
    BY <1>1, <2>1, <2>2
<1>8. CASE ClaimJob(w)
  <2>1. Others(w)
    BY <1>8, ClaimEffect
  <2>2. CASE ClaimStatus(w) = "claimed"
    <3>1. SameTask(w)
      BY <1>0, <1>8, <2>2 DEF ClaimJob, Threads, SameTask
    <3> QED
      BY <1>1, <2>1, <3>1
  <2>3. CASE ClaimStatus(w) # "claimed"
    BY <1>1, <1>3, <1>8, <2>3 DEF ClaimJob, Finish
  <2> QED
    BY <2>2, <2>3
<1>9. CASE WorkerFails(w) \/ WorkerCrash(w)
  <2>1. worker' = [worker EXCEPT ![w] = Idle] \/ Goto(w, "fail")
    BY <1>9 DEF WorkerFails, WorkerCrash, Finish
  <2> QED
    BY <1>1, <1>2, <1>3, <2>1, GotoEffect DEF Pcs
<1>10. CASE TaskTimesOut(w)
  <2>1. worker' = worker
    BY <1>10 DEF TaskTimesOut
  <2> QED
    BY <1>0, <1>1, <2>1 DEF SameTask, Others
<1> QED
  BY <1>4, <1>5, <1>6, <1>7, <1>8, <1>9, <1>10 DEF WorkerStep

\* A worker that a delivery starts.
LEMMA Started ==
  ASSUME Types, NEW w \in Worker
  PROVE  /\ DispatchToPusher(w) =>
              /\ Others(w) /\ worker[w].pc = "idle" /\ worker'[w].pc = "claim"
              /\ worker'[w].lane = "pusher" /\ worker'[w].gen = session.gen
         /\ \A g \in Gens : DeliverTask(w, g) =>
              \/ worker' = worker /\ lock # "free" /\ task' = Answered(g, task[g], FALSE)
              \/ /\ Others(w) /\ worker[w].pc = "idle" /\ worker'[w].pc = "claim" /\ task' = task
                 /\ worker'[w].lane = "task" /\ worker'[w].gen = g
                 /\ worker'[w].retry = task[g]
<1>0. worker \in [Worker -> Threads]
  BY DEF Types
<1>1. ASSUME DispatchToPusher(w)
      PROVE  /\ Others(w) /\ worker[w].pc = "idle" /\ worker'[w].pc = "claim"
             /\ worker'[w].lane = "pusher" /\ worker'[w].gen = session.gen
  <2>1. /\ worker[w].pc = "idle"
        /\ worker'[w] = [Idle EXCEPT !.pc = "claim", !.lane = "pusher", !.gen = session.gen,
                                     !.keys = session.keys]
    BY <1>0, <1>1 DEF DispatchToPusher, Takes
  <2>2. worker'[w].pc = "claim" /\ worker'[w].lane = "pusher" /\ worker'[w].gen = session.gen
    BY <2>1 DEF Idle
  <2>3. worker' # worker
    BY <2>1, <2>2
  <2> QED
    BY <1>1, <2>1, <2>2, <2>3, StartEffect
<1>2. ASSUME NEW g \in Gens, DeliverTask(w, g), lock = "free"
      PROVE  /\ Others(w) /\ worker[w].pc = "idle" /\ worker'[w].pc = "claim" /\ task' = task
             /\ worker'[w].lane = "task" /\ worker'[w].gen = g
             /\ worker'[w].retry = task[g]
  <2>1. /\ worker[w].pc = "idle" /\ task' = task
        /\ worker'[w] = [Idle EXCEPT !.pc = "claim", !.gen = g, !.retry = task[g]]
    BY <1>0, <1>2 DEF DeliverTask, Takes
  <2>2. /\ worker'[w].pc = "claim" /\ worker'[w].lane = "task" /\ worker'[w].gen = g
        /\ worker'[w].retry = task[g]
    BY <2>1 DEF Idle
  <2>3. worker' # worker
    BY <2>1, <2>2
  <2> QED
    BY <1>2, <2>1, <2>2, <2>3, StartEffect
<1>3. ASSUME NEW g \in Gens, DeliverTask(w, g), lock # "free"
      PROVE  worker' = worker /\ task' = Answered(g, task[g], FALSE)
  BY <1>3 DEF DeliverTask
<1> QED
  BY <1>1, <1>2, <1>3

\* The task of generation g is at retry r from now on.
TaskMoves(g) == \E r \in 0 .. MaxAttempts : task' = [task EXCEPT ![g] = r]

\* An answer counts the attempt or ends the task.
LEMMA AnsweredTask ==
  ASSUME NEW g, NEW retry \in Nat, retry < MaxAttempts, NEW ok, task' = Answered(g, retry, ok)
  PROVE  task' = task \/ TaskMoves(g)
<1>1. \E r \in {MaxAttempts, retry + 1} : task' = task \/ task' = [task EXCEPT ![g] = r]
  BY DEF Answered, Gone
<1>2. \A r \in {MaxAttempts, retry + 1} : r \in 0 .. MaxAttempts
  BY FinalizationAssumption
<1> QED
  BY <1>1, <1>2 DEF TaskMoves

\* A task was enqueued.
LEMMA EnqueuedTask ==
  ASSUME NEW g, task' = Enqueued(g)
  PROVE  task' = task \/ TaskMoves(g)
<1>1. 0 \in 0 .. MaxAttempts
  BY FinalizationAssumption
<1> QED
  BY <1>1 DEF Enqueued, TaskMoves

\* Every step leaves the tasks alone or moves one that the job's generation has
\* reached.
LEMMA TaskStep ==
  ASSUME Types, Lanes, [Next]_vars
  PROVE  task' = task \/ \E g \in Nat : g <= job.gen /\ TaskMoves(g)
<1>0. job.gen \in Nat /\ worker \in [Worker -> Threads]
  BY DEF Types, Jobs
<1>1. ASSUME NEW w \in Worker,
             WorkerStep(w) \/ WorkerFails(w) \/ WorkerCrash(w) \/ TaskTimesOut(w)
      PROVE  task' = task \/ \E g \in Nat : g <= job.gen /\ TaskMoves(g)
  <2>1. \/ task' = task
        \/ /\ worker[w].lane = "task"
           /\ \E ok : task' = Answered(worker[w].gen, worker[w].retry, ok)
    <3>1. ASSUME NEW ok, Finish(w, ok)
          PROVE  \/ task' = task
                 \/ /\ worker[w].lane = "task"
                    /\ task' = Answered(worker[w].gen, worker[w].retry, ok)
      BY <3>1 DEF Finish
    <3>2. CASE \/ ClaimJob(w) \/ MarkCompleted(w) \/ MarkFenced(w) \/ RetryOrDeadLetter(w)
               \/ WorkerFails(w)
      <4>1. task' = task \/ \E ok : Finish(w, ok)
        BY <3>2 DEF ClaimJob, MarkCompleted, MarkFenced, RetryOrDeadLetter, WorkerFails
      <4> QED
        BY <3>1, <4>1
    <3>3. CASE WorkerCrash(w) \/ TaskTimesOut(w)
      BY <3>3 DEF WorkerCrash, TaskTimesOut
    <3>4. CASE \/ CheckCutover(w) \/ ReadConversation(w) \/ EnsureProcessing(w)
               \/ ProcessConversation(w) \/ ClaimFanout(w) \/ DeliverFanout(w) \/ AckFanout(w)
      BY <3>4 DEF CheckCutover, ReadConversation, EnsureProcessing, ProcessConversation,
           ClaimFanout, DeliverFanout, AckFanout, laneVars
    <3> QED
      BY <1>1, <3>2, <3>3, <3>4 DEF WorkerStep
  <2>2. worker[w].pc # "idle"
    BY <1>1, WorkerKeepsTask
  <2>3. worker[w].gen \in Nat /\ worker[w].retry \in Nat
    BY <1>0 DEF Threads
  <2>4. worker[w].gen <= job.gen /\ (worker[w].lane = "task" => worker[w].retry < MaxAttempts)
    BY <2>2 DEF Lanes
  <2> QED
    BY <2>1, <2>3, <2>4, AnsweredTask
<1>2. ASSUME NEW w \in Worker, NEW g \in Gens, DeliverTask(w, g)
      PROVE  task' = task \/ \E h \in Nat : h <= job.gen /\ TaskMoves(h)
  <2>1. Pending(g)
    BY <1>2 DEF DeliverTask
  <2>2. task[g] \in Nat /\ task[g] < MaxAttempts /\ task[g] # Unused
    BY <2>1, FinalizationAssumption DEF Pending, Unused
  <2>3. g \in Nat /\ g <= job.gen
    BY <1>0, <2>2, ConstantTypes DEF Lanes
  <2>4. task' = task \/ task' = Answered(g, task[g], FALSE)
    BY <1>2, Started
  <2> QED
    BY <2>2, <2>3, <2>4, AnsweredTask
<1>3. ASSUME EnqueueIntent
      PROVE  task' = task \/ \E g \in Nat : g <= job.gen /\ TaskMoves(g)
  <2>1. session.gen \in Nat /\ session.gen <= job.gen
    BY <1>0, <1>3 DEF EnqueueIntent, Lanes
  <2> QED
    BY <1>3, <2>1, EnqueuedTask DEF EnqueueIntent
<1>4. ASSUME EnqueueReplay
      PROVE  task' = task \/ \E g \in Nat : g <= job.gen /\ TaskMoves(g)
  <2>1. requeue = job.gen
    BY <1>4 DEF EnqueueReplay, Lanes
  <2> QED
    BY <1>0, <1>4, <2>1, EnqueuedTask DEF EnqueueReplay
<1>5. ASSUME \/ \E k \in Keys : CreateIntent(k) \/ GetIntent(k)
             \/ ResumeBlockedByok \/ SessionCrash
             \/ LeaseExpires \/ LockExpires \/ ClaimReplay
             \/ JobGrowsOld \/ ScanByok \/ AbandonByok
             \/ RouteAdmit \/ OpenDeferred \/ DirectProcess \/ DirectFails
             \/ DirectCrash \/ StampAges \/ RenewLease \/ ScanOrphan \/ CloseOrphan
             \/ UserEvent \/ BeginMerge \/ EndMerge \/ UNCHANGED vars
             \/ \E w \in Worker : DispatchToPusher(w)
      PROVE  task' = task
  BY <1>5 DEF CreateIntent, GetIntent, ResumeBlockedByok, SessionCrash, DispatchToPusher,
       LeaseExpires, LockExpires, ClaimReplay, JobGrowsOld, ScanByok, AbandonByok,
       RouteAdmit, OpenDeferred, DirectProcess, DirectFails, DirectCrash, StampAges, RenewLease,
       ScanOrphan, CloseOrphan, UserEvent, BeginMerge, EndMerge, vars, laneVars, directRest
<1> QED
  BY <1>1, <1>2, <1>3, <1>4, <1>5 DEF Next

\* The counters and the tasks keep their bounds, on every step.
LEMMA CountsStep ==
  ASSUME Types, Lanes, Counts, [Next]_vars
  PROVE  Counts'
<1>1. faults' \in 0 .. MaxFaults /\ touched' \in 0 .. MaxTouches
  BY CountersGrow, FinalizationAssumption DEF Fault, Touch, Counts
<1>2. \A r \in 0 .. MaxAttempts : r \in Unused .. Gone
  BY FinalizationAssumption DEF Unused, Gone
<1>3. task' \in [Gens -> Unused .. Gone]
  BY <1>2, TaskStep DEF Counts, TaskMoves
<1> QED
  BY <1>1, <1>3 DEF Counts

-----------------------------------------------------------------------------
\* The generation stays or a replay opens the next one.
LEMMA GenStep ==
  ASSUME Types, JobComesFirst, [Next]_vars
  PROVE  job'.gen = job.gen \/ (ClaimReplay /\ job'.gen = job.gen + 1)
<1>1. ASSUME NEW k \in Keys, CreateIntent(k) PROVE job'.gen = job.gen
  BY <1>1, CreatedJob
<1>2. ClaimReplay => job'.gen = job.gen + 1
  BY LaneEffect DEF JobBecomes
<1> QED
  BY <1>1, <1>2, FlagsStep DEF FlagsKept

\* Who sets the session and the generation to enqueue.
LEMMA HandoffStep ==
  ASSUME [Next]_vars
  PROVE  /\ \/ session' = session \/ session' = NoSession \/ ResumeBlockedByok
            \/ \E k \in Keys : CreateIntent(k) \/ GetIntent(k)
         /\ requeue' = requeue \/ requeue' = 0 \/ ClaimReplay
<1>1. ASSUME NEW w \in Worker,
             \/ DispatchToPusher(w) \/ ClaimJob(w) \/ CheckCutover(w)
             \/ ReadConversation(w) \/ EnsureProcessing(w) \/ ProcessConversation(w)
             \/ ClaimFanout(w) \/ DeliverFanout(w) \/ AckFanout(w) \/ MarkCompleted(w)
             \/ MarkFenced(w) \/ RetryOrDeadLetter(w) \/ WorkerFails(w) \/ WorkerCrash(w)
             \/ TaskTimesOut(w) \/ \E g \in Gens : DeliverTask(w, g)
      PROVE  (session' = session \/ session' = NoSession) /\ requeue' = requeue
  BY <1>1 DEF DispatchToPusher, ClaimJob, CheckCutover, ReadConversation, EnsureProcessing,
       ProcessConversation, ClaimFanout, DeliverFanout, AckFanout, MarkCompleted, MarkFenced,
       RetryOrDeadLetter, WorkerFails, WorkerCrash, TaskTimesOut, DeliverTask, laneVars
<1>2. ASSUME \/ EnqueueIntent \/ SessionCrash \/ EnqueueReplay
             \/ LeaseExpires \/ LockExpires \/ JobGrowsOld \/ ScanByok \/ AbandonByok
             \/ RouteAdmit \/ OpenDeferred \/ DirectProcess \/ DirectFails
             \/ DirectCrash \/ StampAges \/ RenewLease \/ ScanOrphan \/ CloseOrphan
             \/ UserEvent \/ BeginMerge \/ EndMerge \/ UNCHANGED vars
      PROVE  (session' = session \/ session' = NoSession) /\ (requeue' = requeue \/ requeue' = 0)
  BY <1>2 DEF EnqueueIntent, SessionCrash, EnqueueReplay, LeaseExpires, LockExpires, JobGrowsOld,
       ScanByok, AbandonByok, RouteAdmit, OpenDeferred, DirectProcess, DirectFails, DirectCrash,
       StampAges, RenewLease, ScanOrphan, CloseOrphan, UserEvent, BeginMerge, EndMerge, vars,
       laneVars, directRest
<1>3. ASSUME \/ ResumeBlockedByok \/ \E k \in Keys : CreateIntent(k) \/ GetIntent(k)
      PROVE  requeue' = requeue
  BY <1>3 DEF ResumeBlockedByok, CreateIntent, GetIntent
<1>4. ClaimReplay => session' = session
  BY DEF ClaimReplay
<1> QED
  BY <1>1, <1>2, <1>3, <1>4 DEF Next, WorkerStep

\* What a session is for keeps to the job, on every step.
LEMMA SessionStep ==
  ASSUME Types, JobComesFirst, Lanes, [Next]_vars
  PROVE  /\ session'.pc = "enqueue" => session'.gen \in 1 .. job'.gen
         /\ session'.pc \in {"resume", "dispatch"} => job'.byok /\ session'.gen <= job'.gen
<1>0. job.gen \in Nat /\ job.gen >= 1 /\ session.gen \in Nat /\ job.byok \in BOOLEAN
  BY DEF Types, Jobs, Lanes
<1>1. ASSUME NEW k \in Keys, CreateIntent(k)
      PROVE  /\ session'.pc = "enqueue" => session'.gen \in 1 .. job'.gen
             /\ session'.pc \in {"resume", "dispatch"} => job'.byok /\ session'.gen <= job'.gen
  <2>1. /\ job'.gen = 1 /\ job'.byok = k /\ session'.gen = 1
        /\ session'.pc = IF k THEN "resume" ELSE "enqueue"
    BY <1>1, CreatedJob
  <2> QED
    BY <2>1
<1>2. ASSUME NEW k \in Keys, GetIntent(k)
      PROVE  /\ session'.pc = "enqueue" => session'.gen \in 1 .. job'.gen
             /\ session'.pc \in {"resume", "dispatch"} => job'.byok /\ session'.gen <= job'.gen
  <2>1. /\ job' = job /\ session'.gen = job.gen
        /\ session'.pc = IF job.byok THEN "resume" ELSE "enqueue"
    BY <1>2 DEF GetIntent
  <2> QED
    BY <1>0, <2>1
<1>3. ASSUME ResumeBlockedByok
      PROVE  /\ session'.pc = "enqueue" => session'.gen \in 1 .. job'.gen
             /\ session'.pc \in {"resume", "dispatch"} => job'.byok /\ session'.gen <= job'.gen
  <2>1. session.pc = "resume" /\ session' = [session EXCEPT !.pc = "dispatch", !.gen = job.gen]
    BY <1>3 DEF ResumeBlockedByok
  <2>2. session'.pc = "dispatch" /\ session'.gen = job.gen
    BY <2>1 DEF Types
  <2>3. job'.gen = job.gen /\ job'.byok = job.byok
    <3>1. job' = job \/ JobBecomes("queued", job.gen, job.epoch, job.fanout, job.outcome)
      BY <1>3, LaneEffect
    <3>2. ~\E k \in Keys : CreateIntent(k)
      BY <2>1 DEF CreateIntent
    <3> QED
      BY <3>1, <3>2, FlagsStep DEF FlagsKept, JobBecomes
  <2>4. job.byok
    BY <2>1 DEF Lanes
  <2> QED
    BY <1>0, <2>2, <2>3, <2>4
<1>4. ASSUME session' = NoSession
      PROVE  /\ session'.pc = "enqueue" => session'.gen \in 1 .. job'.gen
             /\ session'.pc \in {"resume", "dispatch"} => job'.byok /\ session'.gen <= job'.gen
  BY <1>4, ConstantTypes
<1>5. ASSUME session' = session, ~\E k \in Keys : CreateIntent(k)
      PROVE  /\ session'.pc = "enqueue" => session'.gen \in 1 .. job'.gen
             /\ session'.pc \in {"resume", "dispatch"} => job'.byok /\ session'.gen <= job'.gen
  <2>1. job'.byok = job.byok
    BY <1>5, FlagsStep DEF FlagsKept
  <2>2. job'.gen = job.gen \/ job'.gen = job.gen + 1
    BY GenStep
  <2>3. /\ session.pc = "enqueue" => session.gen \in 1 .. job.gen
        /\ session.pc \in {"resume", "dispatch"} => job.byok /\ session.gen <= job.gen
    BY DEF Lanes
  <2> QED
    BY <1>0, <1>5, <2>1, <2>2, <2>3
<1> QED
  BY <1>1, <1>2, <1>3, <1>4, <1>5, HandoffStep

\* No worker runs ahead of the job, on every step.
LEMMA WorkerLaneStep ==
  ASSUME Types, JobComesFirst, Lanes, [Next]_vars, NEW x \in Worker, worker'[x].pc # "idle"
  PROVE  /\ worker'[x].gen <= job'.gen
         /\ worker'[x].lane = "task" => worker'[x].retry < MaxAttempts
<1>0. /\ job.gen \in Nat /\ worker \in [Worker -> Threads] /\ worker[x].gen \in Nat
      /\ job'.gen \in {job.gen, job.gen + 1}
  BY GenStep DEF Types, Jobs, Threads
<1> DEFINE Fits(gen, lane, retry) == gen <= job.gen /\ (lane = "task" => retry < MaxAttempts)
<1>1. ASSUME worker'[x] = worker[x]
      PROVE  worker'[x].gen \in Nat /\ Fits(worker'[x].gen, worker'[x].lane, worker'[x].retry)
  BY <1>0, <1>1 DEF Lanes
<1>2. ASSUME NEW w \in Worker,
             WorkerStep(w) \/ WorkerFails(w) \/ WorkerCrash(w) \/ TaskTimesOut(w)
      PROVE  worker'[x].gen \in Nat /\ Fits(worker'[x].gen, worker'[x].lane, worker'[x].retry)
  <2>1. CASE x # w
    BY <1>1, <1>2, <2>1, WorkerKeepsTask DEF Others
  <2>2. CASE x = w
    <3>1. worker[x].pc # "idle" /\ SameTask(x)
      BY <1>2, <2>2, WorkerKeepsTask, ConstantTypes
    <3> QED
      BY <1>0, <3>1 DEF Lanes, SameTask
  <2> QED
    BY <2>1, <2>2
<1>3. ASSUME NEW w \in Worker, DispatchToPusher(w)
      PROVE  worker'[x].gen \in Nat /\ Fits(worker'[x].gen, worker'[x].lane, worker'[x].retry)
  <2>1. session.gen <= job.gen /\ session.gen \in Nat
    BY <1>3 DEF DispatchToPusher, Lanes, Types
  <2>2. Others(w) /\ worker'[w].lane = "pusher" /\ worker'[w].gen = session.gen
    BY <1>3, Started
  <2> QED
    BY <1>1, <2>1, <2>2 DEF Others
<1>4. ASSUME NEW w \in Worker, NEW g \in Gens, DeliverTask(w, g)
      PROVE  worker'[x].gen \in Nat /\ Fits(worker'[x].gen, worker'[x].lane, worker'[x].retry)
  <2>1. task[g] \in 0 .. MaxAttempts - 1
    BY <1>4 DEF DeliverTask, Pending
  <2>2. task[g] < MaxAttempts /\ task[g] # Unused /\ g \in Nat
    BY <2>1, FinalizationAssumption, ConstantTypes DEF Unused
  <2>3. g <= job.gen
    BY <1>0, <2>2 DEF Lanes
  <2>4. \/ worker' = worker
        \/ /\ Others(w) /\ worker'[w].lane = "task" /\ worker'[w].gen = g
           /\ worker'[w].retry = task[g]
    BY <1>4, Started
  <2> QED
    BY <1>1, <2>2, <2>3, <2>4 DEF Others
<1>5. ASSUME \/ \E k \in Keys : CreateIntent(k) \/ GetIntent(k)
             \/ ResumeBlockedByok \/ EnqueueIntent \/ SessionCrash
             \/ LeaseExpires \/ LockExpires \/ ClaimReplay \/ EnqueueReplay
             \/ JobGrowsOld \/ ScanByok \/ AbandonByok
             \/ RouteAdmit \/ OpenDeferred \/ DirectProcess \/ DirectFails
             \/ DirectCrash \/ StampAges \/ RenewLease \/ ScanOrphan \/ CloseOrphan
             \/ UserEvent \/ BeginMerge \/ EndMerge \/ UNCHANGED vars
      PROVE  worker' = worker
  BY <1>5 DEF CreateIntent, GetIntent, ResumeBlockedByok, EnqueueIntent, SessionCrash,
       LeaseExpires, LockExpires, ClaimReplay, EnqueueReplay, JobGrowsOld, ScanByok, AbandonByok,
       RouteAdmit, OpenDeferred, DirectProcess, DirectFails, DirectCrash, StampAges, RenewLease,
       ScanOrphan, CloseOrphan, UserEvent, BeginMerge, EndMerge, directRest, vars
<1>6. worker'[x].gen \in Nat /\ Fits(worker'[x].gen, worker'[x].lane, worker'[x].retry)
  <2> HIDE DEF Fits
  <2> QED
    BY <1>1, <1>2, <1>3, <1>4, <1>5 DEF Next
<1> QED
  BY <1>0, <1>6

\* Nobody runs ahead of the job's generation, on every step.
LEMMA LanesStep ==
  ASSUME Types, JobComesFirst, Lanes, Counts, [Next]_vars
  PROVE  Lanes'
<1>0. job.gen \in Nat /\ job.gen >= 1 /\ requeue \in {0, job.gen} /\ job.byok \in BOOLEAN
  BY DEF Types, Jobs, Lanes
<1>1. job'.gen \in {job.gen, job.gen + 1}
  BY GenStep
<1>2. job'.gen >= 1
  BY <1>0, <1>1
<1>3. requeue' \in {0, job'.gen}
  <2>1. CASE ClaimReplay
    <3>1. requeue' = job.gen + 1
      BY <2>1 DEF ClaimReplay
    <3>2. job'.gen = job.gen + 1
      BY <2>1, LaneEffect DEF JobBecomes
    <3> QED
      BY <3>1, <3>2
  <2>2. CASE ~ClaimReplay
    BY <1>0, <2>2, GenStep, HandoffStep
  <2> QED
    BY <2>1, <2>2
<1>4. \A g \in Gens : g > job'.gen => task'[g] = Unused
  <2> SUFFICES ASSUME NEW g \in Gens, g > job'.gen PROVE task'[g] = Unused
    OBVIOUS
  <2>1. g \in Nat /\ g > job.gen
    BY <1>0, <1>1, ConstantTypes
  <2>2. task[g] = Unused
    BY <2>1 DEF Lanes
  <2>3. CASE task' = task
    BY <2>2, <2>3
  <2>4. ASSUME NEW h \in Nat, h <= job.gen, TaskMoves(h) PROVE task'[g] = Unused
    <3>1. h # g
      BY <1>0, <2>1, <2>4
    <3>2. PICK r : task' = [task EXCEPT ![h] = r]
      BY <2>4 DEF TaskMoves
    <3> QED
      BY <2>2, <3>1, <3>2 DEF Counts
  <2> QED
    BY <2>3, <2>4, TaskStep
<1>5. (job'.byok => ~job'.due) /\ (job'.status = "blocked_byok" => job'.byok)
  <2>1. ASSUME NEW k \in Keys, CreateIntent(k)
        PROVE  (job'.byok => ~job'.due) /\ (job'.status = "blocked_byok" => job'.byok)
    BY <2>1, CreatedJob, FinalizationAssumption
  <2>2. CASE ~\E k \in Keys : CreateIntent(k)
    BY <2>2, FlagsStep DEF FlagsKept, Lanes
  <2> QED
    BY <2>1, <2>2
<1> QED
  BY <1>2, <1>3, <1>4, <1>5, SessionStep, WorkerLaneStep DEF Lanes

-----------------------------------------------------------------------------
\* The generation of a paid job has a task.
LEMMA PaidGen ==
  ASSUME Types, Lanes, Counts, Paid
  PROVE  job.gen \in Gens /\ job.gen <= faults + touched + 1
<1> DEFINE u == Unit(~OnTrack) m == Unit(direct.pc = "merge")
<1>1. u \in Nat /\ m \in Nat
  BY DEF Unit
<1>2. /\ job.gen \in Nat /\ job.gen >= 1 /\ faults \in 0 .. MaxFaults
      /\ touched \in 0 .. MaxTouches /\ job.gen + u + m <= faults + touched + 1
  BY DEF Types, Jobs, Lanes, Counts, Paid
<1>3. job.gen <= faults + touched + 1
  <2> HIDE DEF u, m
  <2> QED
    BY <1>1, <1>2
<1> QED
  BY <1>2, <1>3, FinalizationAssumption DEF Gens

\* No worker, sweep or processor deletes the row.
LEMMA RowStaysThere ==
  ASSUME Types, conv.there,
         \/ \E w \in Worker : WorkerStep(w)
         \/ AbandonByok \/ RouteAdmit \/ OpenDeferred \/ DirectProcess
         \/ StampAges \/ RenewLease \/ ScanOrphan \/ CloseOrphan \/ BeginMerge
  PROVE  conv'.there
<1>0. conv \in Rows /\ conv.there = TRUE
  BY DEF Types, Rows
<1>1. ASSUME \/ \E w \in Worker : EnsureProcessing(w) \/ RetryOrDeadLetter(w)
             \/ AbandonByok
      PROVE  conv'.there
  BY <1>0, <1>1, JobRowEffect, RetryEffect DEF RowIs
<1>2. ASSUME NEW w \in Worker, ProcessConversation(w) PROVE conv'.there
  BY <1>0, <1>2, ProcessEffect DEF RowIs
<1>3. ASSUME \/ RouteAdmit \/ OpenDeferred \/ DirectProcess
             \/ StampAges \/ RenewLease \/ CloseOrphan
      PROVE  conv'.there
  BY <1>0, <1>3, DirectEffect DEF RowIs
<1>4. ASSUME BeginMerge PROVE conv'.there
  BY <1>0, <1>4, UserEffect DEF RowIs
<1>5. ASSUME NEW w \in Worker,
             \/ ClaimJob(w) \/ CheckCutover(w) \/ ReadConversation(w) \/ ClaimFanout(w)
             \/ DeliverFanout(w) \/ AckFanout(w) \/ MarkCompleted(w) \/ MarkFenced(w)
      PROVE  conv' = conv
  BY <1>5 DEF ClaimJob, CheckCutover, ReadConversation, ClaimFanout,
       DeliverFanout, AckFanout, MarkCompleted, MarkFenced, rowVars
<1>6. ScanOrphan => conv' = conv
  BY DEF ScanOrphan
<1> QED
  BY <1>1, <1>2, <1>3, <1>4, <1>5, <1>6 DEF WorkerStep

\* A job that is not the reconciler's stays so.
LEMMA Settled ==
  ASSUME Types, JobComesFirst, [Next]_vars,
         job.byok \/ job.status \in {"none"} \cup Terminal,
         ~\E k \in Keys : CreateIntent(k)
  PROVE  OnTrack'
<1>1. CASE job.byok
  BY <1>1, FlagsStep DEF FlagsKept, OnTrack
<1>2. CASE job.status \in {"none"} \cup Terminal
  <2>1. job' = job
    BY <1>2, JobStep DEF JobMoves, Terminal
  <2> QED
    BY <1>2, <2>1 DEF OnTrack, Terminal
<1> QED
  BY <1>1, <1>2

\* A step of a worker that is too late keeps the job on its track: its writes
\* are fenced and its task is another one.
LEMMA LateWorkerTrack ==
  ASSUME Types, JobComesFirst, Counts, job.gen \in Gens, OnTrack, [Next]_vars,
         NEW w \in Worker, WorkerStep(w), ~AtWork(w)
  PROVE  OnTrack'
<1>0. job \in Jobs /\ worker[w] \in Threads /\ task \in [Gens -> Unused .. Gone]
  BY DEF Types, Counts
<1>1. Others(w) /\ worker[w].pc # "idle" /\ (worker'[w] = Idle \/ SameTask(w))
  BY WorkerKeepsTask
<1>2. worker[w].gen # job.gen /\ ~IsCurrentLease(w)
  BY <1>1 DEF AtWork, IsCurrentLease
<1>3. ~(~job.byok /\ job.status \notin {"none"} \cup Terminal) => OnTrack'
  <2>1. ~\E k \in Keys : CreateIntent(k)
    BY <1>1 DEF CreateIntent, JobComesFirst
  <2> QED
    BY <2>1, Settled
<1> SUFFICES ASSUME ~job.byok, job.status \notin {"none"} \cup Terminal PROVE OnTrack'
  BY <1>3
<1>4. ClaimStatus(w) # "claimed"
  BY <1>2 DEF ClaimStatus
<1>5. job' = job
  <2>1. CASE ClaimJob(w)
    BY <1>4, <2>1 DEF ClaimJob
  <2>2. CASE ClaimFanout(w)
    BY <1>2, <2>2 DEF ClaimFanout
  <2>3. CASE AckFanout(w)
    BY <1>2, <2>3 DEF AckFanout
  <2>4. CASE MarkCompleted(w) \/ MarkFenced(w)
    BY <1>2, <2>4 DEF MarkCompleted, MarkFenced
  <2>5. CASE RetryOrDeadLetter(w)
    BY <1>2, <2>5, RetryEffect
  <2>6. CASE \/ CheckCutover(w) \/ ReadConversation(w) \/ EnsureProcessing(w)
             \/ ProcessConversation(w) \/ DeliverFanout(w)
    BY <2>6, QuietSteps
  <2> QED
    BY <2>1, <2>2, <2>3, <2>4, <2>5, <2>6 DEF WorkerStep
<1>6. task'[job.gen] = task[job.gen]
  <2>1. ASSUME NEW ok, Finish(w, ok) PROVE task'[job.gen] = task[job.gen]
    <3>1. task' = task \/ \E r : task' = [task EXCEPT ![worker[w].gen] = r]
      BY <2>1 DEF Finish, Answered
    <3> QED
      BY <1>0, <1>2, <3>1
  <2>2. task' = task \/ \E ok : Finish(w, ok)
    BY DEF WorkerStep, ClaimJob, CheckCutover, ReadConversation, EnsureProcessing,
       ProcessConversation, ClaimFanout, DeliverFanout, AckFanout, MarkCompleted, MarkFenced,
       RetryOrDeadLetter, laneVars
  <2> QED
    BY <2>1, <2>2
<1>7. requeue' = requeue /\ session' = session
  BY DEF WorkerStep, ClaimJob, CheckCutover, ReadConversation, EnsureProcessing,
       ProcessConversation, ClaimFanout, DeliverFanout, AckFanout, MarkCompleted, MarkFenced,
       RetryOrDeadLetter, laneVars
<1>8. conv.there => conv'.there
  BY RowStaysThere
<1>9. \A x \in Worker : AtWork(x) => worker'[x] = worker[x]
  BY <1>1 DEF Others
<1>10. \A x \in Worker : AtWork(x)' => AtWork(x)
  <2>1. ~AtWork(w)'
    BY <1>1, <1>2, <1>5, ConstantTypes DEF AtWork, SameTask
  <2> QED
    BY <1>1, <1>5, <2>1 DEF AtWork, Others
<1> QED
  BY <1>5, <1>6, <1>7, <1>8, <1>9, <1>10, TrackKept DEF SameJob

-----------------------------------------------------------------------------
\* The worker alone serves the job.
Served(w) == AtWork(w) /\ Serves(w) /\ \A x \in Worker \ {w} : ~AtWork(x)

\* A worker with the lease serves the job on while both keep what they are.
LEMMA GoesOn ==
  ASSUME NEW w \in Worker, Served(w), worker[w].pc # "claim",
         Others(w), SameTask(w), KeepsLease(w), task' = task,
         job'.gen = job.gen, job'.status = job.status, job'.epoch = job.epoch,
         job'.live = job.live, worker'[w].pc \notin {"idle", "claim"},
         worker'[w].pc \in {"ensure", "fence"} => job'.fanout = "pending",
         worker'[w].pc = "process" => conv'.there,
         worker'[w].pc = "complete" => job'.fanout = "completed"
  PROVE  OnTrack'
<1>1. /\ worker[w].lane = "task" /\ worker[w].retry = task[job.gen] /\ Pending(job.gen)
      /\ IsCurrentLease(w) /\ job.live /\ worker[w].gen = job.gen
  BY DEF Served, Serves, AtWork
<1>2. AtWork(w)' /\ Pending(job.gen)' /\ IsCurrentLease(w)'
  BY <1>1 DEF AtWork, SameTask, Pending, IsCurrentLease, KeepsLease
<1>3. Serves(w)'
  BY <1>1, <1>2 DEF Serves, SameTask
<1> QED
  BY <1>2, <1>3, ServedOn DEF Served

\* The claim of the worker that was started for the job succeeds.
LEMMA ClaimTrack ==
  ASSUME Types, Lanes, ~job.byok, NEW w \in Worker, Served(w), ClaimJob(w)
  PROVE  OnTrack'
<1>1. /\ worker[w].lane = "task" /\ worker[w].retry = task[job.gen] /\ Pending(job.gen)
      /\ worker[w].pc = "claim" /\ job.status = "queued" /\ worker[w].gen = job.gen
  BY DEF Served, Serves, AtWork, ClaimJob
<1>2. ClaimStatus(w) = "claimed"
  BY <1>1 DEF ClaimStatus, Terminal
<1>3. Others(w) /\ (Claims(w) \/ worker'[w] = Idle)
  BY ClaimEffect
<1>4. /\ job' = [Leased EXCEPT !.old = FALSE] /\ task' = task
      /\ worker' = [worker EXCEPT
                   ![w].pc = IF worker[w].lane = "task" THEN "check" ELSE "read",
                   ![w].epoch = Leased.epoch,
                   ![w].attempts = Leased.attempts]
  BY <1>2 DEF ClaimJob, Write
<1>5. job'.live = TRUE /\ job \in Jobs
  BY <1>4 DEF Types, Jobs, Leased
<1>6. worker'[w].pc = "check" /\ worker[w] \in Threads
  BY <1>1, <1>4 DEF Types, Threads
<1>7. Claims(w) /\ SameTask(w)
  <2>1. SameTask(w)
    BY <1>4, <1>6 DEF Types, Threads, SameTask
  <2> QED
    BY <1>3, <1>6, <2>1, ConstantTypes
<1>8. /\ job'.status = "leased" /\ job'.gen = job.gen /\ job'.epoch = job.epoch + 1
      /\ worker'[w].epoch = job.epoch + 1 /\ worker'[w].gen = job.gen
  BY <1>1, <1>7 DEF Claims, JobBecomes
<1>9. AtWork(w)' /\ Pending(job.gen)' /\ IsCurrentLease(w)'
  BY <1>1, <1>4, <1>6, <1>8 DEF AtWork, Pending, IsCurrentLease
<1>10. Serves(w)'
  BY <1>1, <1>4, <1>5, <1>6, <1>7, <1>8, <1>9 DEF Serves, SameTask
<1> QED
  BY <1>3, <1>8, <1>9, <1>10, ServedOn DEF Served

\* The steps of the attempt before its fanout, unless they are charged.
LEMMA AttemptTrack ==
  ASSUME Types, JobComesFirst, RowWays, NEW w \in Worker, Served(w),
         \/ CheckCutover(w) \/ ReadConversation(w) \/ EnsureProcessing(w)
         \/ ProcessConversation(w)
  PROVE  faults' = faults + 1 \/ touched' = touched + 1 \/ OnTrack'
<1>0. /\ Others(w) /\ (worker'[w] = Idle \/ SameTask(w)) /\ conv \in Rows
      /\ conv.there \in BOOLEAN
  BY WorkerKeepsTask DEF WorkerStep, Types, Rows
<1>1. UNCHANGED <<job, task>>
  BY DEF CheckCutover, ReadConversation, EnsureProcessing, ProcessConversation, laneVars
<1>2. worker[w].pc # "claim" /\ IsCurrentLease(w) /\ job.status = "leased"
  BY DEF CheckCutover, ReadConversation, EnsureProcessing, ProcessConversation, Served, Serves,
         IsCurrentLease
<1>3. ASSUME KeepsLease(w), worker'[w].pc \notin {"idle", "claim", "complete"},
             worker'[w].pc \in {"ensure", "fence"} => job.fanout = "pending",
             worker'[w].pc = "process" => conv'.there
      PROVE  OnTrack'
  <2>1. SameTask(w)
    BY <1>0, <1>3, ConstantTypes
  <2> QED
    BY <1>0, <1>1, <1>2, <1>3, <2>1, GoesOn
<1>4. CASE CheckCutover(w)
  <2>1. touched' = touched + 1 \/ Goto(w, "read")
    BY <1>4 DEF CheckCutover, Touch
  <2>2. Goto(w, "read") => KeepsLease(w) /\ worker'[w].pc = "read"
    BY GotoEffect DEF Pcs
  <2> QED
    BY <1>3, <2>1, <2>2
<1>5. CASE ReadConversation(w)
  <2>1. \/ faults' = faults + 1
        \/ ~(conv.status = "merging" /\ job.fanout # "pending")
    BY <1>5 DEF ReadConversation, FaultIf, Fault
  <2>2. /\ KeepsLease(w) /\ worker'[w].pc \in {"fanout", "process", "ensure"}
        /\ worker'[w].pc = CASE ~conv.there \/ conv.status = "completed" -> "fanout"
                             [] conv.there /\ conv.status = "processing" -> "process"
                             [] OTHER -> "ensure"
    BY <1>5, ReadEffect
  <2>3. conv' = conv
    BY <1>5 DEF ReadConversation, rowVars
  <2>4. worker'[w].pc = "process" => conv'.there
    BY <2>2, <2>3
  <2>5. worker'[w].pc = "ensure" => conv.status = "merging"
    <3>1. conv.status \in {"in_progress", "processing", "completed", "failed", "merging"}
      BY <1>0 DEF Rows
    <3>2. worker'[w].pc = "ensure" => conv.there /\ conv.status \notin {"completed", "processing"}
      BY <2>2
    <3>3. conv.there => conv.status # "in_progress" /\ conv.status # "failed"
      BY <1>2 DEF JobComesFirst, RowWays
    <3> QED
      BY <3>1, <3>2, <3>3
  <2> QED
    BY <1>3, <2>1, <2>2, <2>4, <2>5
<1>6. CASE EnsureProcessing(w)
  <2>1. PICK pc \in {"fail", "process", "fence"} :
           Goto(w, pc) /\ (pc = "process" => conv.there)
    BY <1>6 DEF EnsureProcessing
  <2>2. KeepsLease(w) /\ worker'[w].pc = pc
    BY <2>1, GotoEffect DEF Pcs
  <2>3. job.fanout = "pending"
    BY <1>6 DEF EnsureProcessing, Served, Serves
  <2>4. conv.there => conv'.there
    BY <1>6, RowStaysThere DEF WorkerStep
  <2> QED
    BY <1>3, <2>1, <2>2, <2>3, <2>4
<1>7. CASE ProcessConversation(w)
  <2>1. conv.there
    BY <1>7 DEF ProcessConversation, Served, Serves
  <2>2. PICK v \in Verdicts :
           /\ worker'[w].pc = IF v = "custom" \/ (v \in {"keep", "drop"} /\ conv.there)
                              THEN "fanout" ELSE "fence"
           /\ IF v \in {"drop", "skip", "defer", "lost"} THEN Touch ELSE touched' = touched
    BY <1>7, ProcessEffect
  <2>3. touched' = touched + 1 \/ v \in {"keep", "custom"}
    BY <2>2, FinalizationAssumption DEF Touch
  <2>4. v \in {"keep", "custom"} => worker'[w].pc = "fanout"
    BY <2>1, <2>2
  <2>5. KeepsLease(w)
    BY <1>7, ProcessEffect
  <2> QED
    BY <1>3, <2>3, <2>4, <2>5
<1> QED
  BY <1>4, <1>5, <1>6, <1>7

\* The fanout of the attempt, its acknowledgement and its end.
LEMMA FanoutTrack ==
  ASSUME Types, NEW w \in Worker, Served(w),
         ClaimFanout(w) \/ DeliverFanout(w) \/ AckFanout(w)
  PROVE  OnTrack'
<1>0. /\ Others(w) /\ (worker'[w] = Idle \/ SameTask(w)) /\ job \in Jobs
  BY WorkerKeepsTask DEF WorkerStep, Types
<1>1. task' = task
  BY DEF ClaimFanout, DeliverFanout, AckFanout, laneVars
<1>2. worker[w].pc # "claim" /\ IsCurrentLease(w)
  BY DEF ClaimFanout, DeliverFanout, AckFanout, Served, Serves
<1>3. ASSUME KeepsLease(w), worker'[w].pc \in {"deliver", "ack", "complete", "fail"},
             worker'[w].pc = "complete" => job'.fanout = "completed",
             job'.gen = job.gen, job'.status = job.status, job'.epoch = job.epoch,
             job'.live = job.live
      PROVE  OnTrack'
  <2>1. SameTask(w)
    BY <1>0, <1>3, ConstantTypes
  <2> QED
    BY <1>0, <1>1, <1>2, <1>3, <2>1, GoesOn
<1>4. CASE ClaimFanout(w)
  <2>1. job'.live = job.live \/ job'.status = "completed"
    <3>1. \/ job' = job \/ job' = [Fenced(job) EXCEPT !.old = FALSE]
          \/ job' = [FanoutLeased(w) EXCEPT !.old = FALSE]
      BY <1>4 DEF ClaimFanout, Write
    <3> QED
      BY <1>0, <3>1 DEF Jobs, Fenced, FanoutLeased
  <2>2. job'.status = "completed" /\ job'.gen = job.gen => OnTrack'
    BY <1>0, ServedOn DEF Served, Terminal
  <2>3. /\ KeepsLease(w) /\ job'.gen = job.gen
        /\ \/ job'.status = "completed"
           \/ /\ worker'[w].pc \in {"deliver", "complete"} /\ job'.status = job.status
              /\ job'.epoch = job.epoch /\ (worker'[w].pc = "complete" => job'.fanout = "completed")
    BY <1>2, <1>4, ClaimFanoutEffect DEF JobBecomes
  <2> QED
    BY <1>3, <2>1, <2>2, <2>3
<1>5. CASE DeliverFanout(w)
  <2>1. Goto(w, "ack") /\ job' = job
    BY <1>5 DEF DeliverFanout
  <2>2. KeepsLease(w) /\ worker'[w].pc = "ack"
    BY <2>1, GotoEffect DEF Pcs
  <2> QED
    BY <1>3, <2>1, <2>2
<1>6. CASE AckFanout(w)
  <2>1. \/ job' = job \/ job' = [[job EXCEPT !.fanout = "completed"] EXCEPT !.old = FALSE]
    BY <1>6 DEF AckFanout, Write
  <2>2. /\ job'.gen = job.gen /\ job'.status = job.status /\ job'.epoch = job.epoch
        /\ job'.live = job.live
    BY <1>0, <2>1 DEF Jobs
  <2>3. /\ KeepsLease(w) /\ worker'[w].pc \in {"complete", "fail"}
        /\ worker'[w].pc = "complete" => job'.fanout = "completed"
    BY <1>6, AckEffect
  <2> QED
    BY <1>3, <2>2, <2>3
<1> QED
  BY <1>4, <1>5, <1>6

\* The end of the attempt ends the job or leaves its task another delivery.
LEMMA EndTrack ==
  ASSUME Types, Counts, job.gen \in Gens, NEW w \in Worker, Served(w),
         MarkCompleted(w) \/ MarkFenced(w) \/ RetryOrDeadLetter(w)
  PROVE  OnTrack'
<1>0. Others(w) /\ worker'[w] = Idle /\ job \in Jobs
  BY MarkEffect, RetryEffect DEF Types
<1>1. /\ worker[w].pc # "claim" /\ IsCurrentLease(w) /\ worker[w].lane = "task"
      /\ worker[w].retry = task[job.gen] /\ Pending(job.gen) /\ worker[w].gen = job.gen
  BY DEF MarkCompleted, MarkFenced, RetryOrDeadLetter, Served, Serves, AtWork
<1>2. ASSUME job'.status \in Terminal, job'.gen = job.gen PROVE OnTrack'
  BY <1>0, <1>2, ServedOn DEF Served
<1>3. CASE MarkCompleted(w)
  <2>1. IsCurrentLease(w) /\ job.fanout = "completed"
    BY <1>1, <1>3 DEF MarkCompleted, Served, Serves
  <2>2. job' = [[job EXCEPT !.status = "completed", !.live = FALSE,
                            !.outcome = "success", !.due = FALSE] EXCEPT !.old = FALSE]
    BY <1>3, <2>1 DEF MarkCompleted, Write
  <2> QED
    BY <1>0, <1>2, <2>2 DEF Jobs, Terminal
<1>4. CASE MarkFenced(w)
  <2>1. IsCurrentLease(w) /\ job.fanout = "pending"
    BY <1>1, <1>4 DEF MarkFenced, Served, Serves
  <2>2. job' = [Fenced(job) EXCEPT !.old = FALSE]
    BY <1>4, <2>1 DEF MarkFenced, Write
  <2> QED
    BY <1>0, <1>2, <2>2 DEF Jobs, Terminal, Fenced
<1>5. CASE RetryOrDeadLetter(w) /\ FinalAttempt(w)
  <2>1. job' = [job EXCEPT !.status = "dead_letter", !.outcome = "failure", !.live = FALSE,
                           !.due = FALSE, !.old = FALSE]
    BY <1>1, <1>5 DEF RetryOrDeadLetter
  <2> QED
    BY <1>0, <1>2, <2>1 DEF Jobs, Terminal
<1>6. CASE RetryOrDeadLetter(w) /\ ~FinalAttempt(w)
  <2>1. /\ job' = [job EXCEPT !.status = "queued", !.live = FALSE, !.due = ~job.byok,
                              !.old = FALSE]
        /\ Finish(w, FALSE)
    BY <1>1, <1>6 DEF RetryOrDeadLetter
  <2>2. job'.status = "queued" /\ job'.gen = job.gen
    BY <1>0, <2>1 DEF Jobs
  <2>3. task' = [task EXCEPT ![job.gen] = task[job.gen] + 1]
    BY <1>1, <2>1 DEF Finish, Answered
  <2>4. task'[job.gen] = task[job.gen] + 1
    BY <2>3 DEF Counts
  <2>5. task[job.gen] \in 0 .. MaxAttempts - 1 /\ ~(task[job.gen] >= MaxAttempts - 1)
    BY <1>1, <1>6 DEF Pending, FinalAttempt
  <2>6. task'[job'.gen] \in 0 .. MaxAttempts - 1
    BY <2>2, <2>4, <2>5, FinalizationAssumption
  <2>7. Pending(job.gen)'
    BY <2>6 DEF Pending
  <2> QED
    BY <1>0, <2>2, <2>7, ServedOn, ConstantTypes DEF Served
<1> QED
  BY <1>3, <1>4, <1>5, <1>6

\* A step of any worker is charged or keeps the job on its track.
LEMMA WorkerTrack ==
  ASSUME Types, JobComesFirst, RowWays, Lanes, Counts, job.gen \in Gens, OnTrack, [Next]_vars,
         NEW w \in Worker, WorkerStep(w)
  PROVE  faults' = faults + 1 \/ touched' = touched + 1 \/ OnTrack'
<1>1. CASE ~AtWork(w)
  BY <1>1, LateWorkerTrack
<1>2. CASE job.byok \/ job.status \in {"none"} \cup Terminal
  <2>1. worker[w].pc # "idle"
    BY WorkerKeepsTask
  <2>2. ~\E k \in Keys : CreateIntent(k)
    BY <2>1 DEF CreateIntent, JobComesFirst
  <2> QED
    BY <1>2, <2>2, Settled
<1>3. CASE AtWork(w) /\ ~(job.byok \/ job.status \in {"none"} \cup Terminal)
  <2>1. Served(w)
    BY <1>3 DEF OnTrack, Waits, Served
  <2> QED
    BY <1>3, <2>1, ClaimTrack, AttemptTrack, FanoutTrack, EndTrack DEF WorkerStep
<1> QED
  BY <1>1, <1>2, <1>3

-----------------------------------------------------------------------------
\* A delivery starts the worker that serves the job, or the lock costs the task
\* an attempt that is not its last, unless it is charged.
LEMMA DeliverTrack ==
  ASSUME Types, Counts, job.gen \in Gens, OnTrack,
         NEW w \in Worker, NEW g \in Gens, DeliverTask(w, g)
  PROVE  faults' = faults + 1 \/ OnTrack'
<1>0. task \in [Gens -> Unused .. Gone]
  BY DEF Counts
<1>1. job' = job /\ conv' = conv /\ session' = session /\ requeue' = requeue
  BY DEF DeliverTask, rowVars
<1>2. \/ worker' = worker /\ lock # "free" /\ task' = Answered(g, task[g], FALSE)
      \/ /\ Others(w) /\ worker[w].pc = "idle" /\ worker'[w].pc = "claim" /\ task' = task
         /\ worker'[w].lane = "task" /\ worker'[w].gen = g /\ worker'[w].retry = task[g]
  BY Started
<1>3. Pending(g) /\ ~InService(g)
  BY DEF DeliverTask
<1>4. CASE job.byok \/ job.status \in {"none"} \cup Terminal
  BY <1>1, <1>4 DEF OnTrack
<1>5. CASE g # job.gen
  <2>1. task'[job.gen] = task[job.gen]
    <3>1. task' = task \/ \E r : task' = [task EXCEPT ![g] = r]
      BY <1>2 DEF Answered
    <3> QED
      BY <1>0, <1>5, <3>1
  <2>2. \A x \in Worker : AtWork(x) => worker'[x] = worker[x]
    BY <1>2 DEF Others, AtWork
  <2>3. \A x \in Worker : AtWork(x)' => AtWork(x)
    BY <1>1, <1>2, <1>5 DEF Others, AtWork
  <2> QED
    BY <1>1, <2>1, <2>2, <2>3, TrackKept DEF SameJob
<1>6. CASE g = job.gen /\ ~(job.byok \/ job.status \in {"none"} \cup Terminal)
  <2>1. Waits
    <3>1. \A x \in Worker : ~(AtWork(x) /\ Serves(x))
      BY <1>3, <1>6 DEF InService, AtWork, Serves
    <3> QED
      BY <1>6, <3>1 DEF OnTrack
  <2>2. job.status = "queued" /\ \A x \in Worker : ~AtWork(x)
    BY <2>1 DEF Waits
  <2>3. CASE worker' = worker /\ lock # "free" /\ task' = Answered(g, task[g], FALSE)
    <3>1. task[g] \in 0 .. MaxAttempts - 1
      BY <1>3 DEF Pending
    <3>2. CASE task[g] = MaxAttempts - 1
      BY <2>3, <3>2 DEF DeliverTask, FaultIf, Fault
    <3>3. CASE task[g] # MaxAttempts - 1
      <4>1. task' = [task EXCEPT ![g] = task[g] + 1]
        BY <2>3 DEF Answered
      <4>2. task'[g] = task[g] + 1
        BY <1>0, <4>1
      <4>3. task'[g] \in 0 .. MaxAttempts - 1
        BY <3>1, <3>3, <4>2, FinalizationAssumption
      <4>4. Pending(job.gen)'
        BY <1>1, <1>6, <4>3 DEF Pending
      <4>5. Waits'
        BY <1>1, <2>2, <2>3, <4>4 DEF Waits, AtWork
      <4> QED
        BY <4>5 DEF OnTrack
    <3> QED
      BY <3>2, <3>3
  <2>4. CASE /\ Others(w) /\ worker[w].pc = "idle" /\ worker'[w].pc = "claim" /\ task' = task
             /\ worker'[w].lane = "task" /\ worker'[w].gen = g /\ worker'[w].retry = task[g]
    <3>1. AtWork(w)' /\ Pending(job.gen)'
      BY <1>1, <1>3, <1>6, <2>4 DEF AtWork, Pending
    <3>2. Serves(w)'
      BY <1>1, <1>6, <2>2, <2>4, <3>1 DEF Serves
    <3> QED
      BY <1>1, <2>2, <2>4, <3>1, <3>2, ServedOn
  <2> QED
    BY <1>2, <2>3, <2>4
<1> QED
  BY <1>4, <1>5, <1>6

\* The enqueue of the job's generation gives it a task that is due.
LEMMA EnqueueTrack ==
  ASSUME Counts, job.gen \in Gens, OnTrack,
         NEW g, task' = Enqueued(g), UNCHANGED <<job, worker, conv>>,
         task[job.gen] = Unused /\ g # job.gen =>
            /\ requeue = job.gen => requeue' = requeue
            /\ session.pc = "enqueue" /\ session.gen = job.gen => session' = session
  PROVE  OnTrack'
<1>0. task \in [Gens -> Unused .. Gone]
  BY DEF Counts
<1>1. CASE task[job.gen] = Unused /\ g = job.gen
  <2>1. task' = [task EXCEPT ![job.gen] = 0]
    BY <1>1 DEF Enqueued
  <2>2. task'[job'.gen] = 0
    BY <1>0, <2>1
  <2>3. Pending(job.gen)'
    BY <2>2, FinalizationAssumption DEF Pending
  <2>4. ~Pending(job.gen)
    BY <1>1, FinalizationAssumption DEF Pending, Unused
  <2>5. job.byok \/ job.status \in {"none"} \cup Terminal \/ Waits
    BY <2>4 DEF OnTrack, Serves
  <2>6. Waits => Waits'
    BY <2>3 DEF Waits, AtWork
  <2> QED
    BY <2>5, <2>6 DEF OnTrack
<1>2. CASE ~(task[job.gen] = Unused /\ g = job.gen)
  <2>1. task'[job.gen] = task[job.gen]
    <3>1. task' = task \/ (task[g] = Unused /\ task' = [task EXCEPT ![g] = 0])
      BY DEF Enqueued
    <3> QED
      BY <1>0, <1>2, <3>1
  <2>2. \A x \in Worker : (AtWork(x) => worker'[x] = worker[x]) /\ (AtWork(x)' => AtWork(x))
    BY DEF AtWork
  <2>3. SameJob
    BY DEF SameJob
  <2> QED
    BY <1>2, <2>1, <2>2, <2>3, TrackKept
<1> QED
  BY <1>1, <1>2

\* The sessions and the reconciler's enqueue are charged or keep the track.
LEMMA HandoffTrack ==
  ASSUME Types, JobComesFirst, Lanes, Counts, job.gen \in Gens, OnTrack, [Next]_vars,
         \/ \E k \in Keys : CreateIntent(k) \/ GetIntent(k)
         \/ ResumeBlockedByok \/ EnqueueIntent \/ SessionCrash \/ EnqueueReplay
         \/ \E w \in Worker : DispatchToPusher(w)
  PROVE  faults' = faults + 1 \/ OnTrack'
<1>0. 1 \in Gens
  BY FinalizationAssumption DEF Gens
<1>1. ASSUME NEW k \in Keys, CreateIntent(k) PROVE OnTrack'
  <2>1. /\ job'.byok = k /\ job'.status = IF k THEN "blocked_byok" ELSE "queued"
        /\ job'.gen = 1 /\ session' = [pc |-> IF k THEN "resume" ELSE "enqueue", gen |-> 1,
                                       keys |-> k]
        /\ job = NoJob
    BY <1>1, CreatedJob
  <2>2. task' = task /\ worker' = worker
    BY <1>1 DEF CreateIntent
  <2>3. task[1] = Unused /\ \A w \in Worker : worker[w].pc = "idle"
    BY <1>0, <2>1, ConstantTypes DEF JobComesFirst
  <2>4. CASE k
    BY <2>1, <2>4 DEF OnTrack
  <2>5. CASE ~k
    <3>1. session'.pc = "enqueue" /\ session'.gen = 1 /\ job'.status = "queued"
      BY <2>1, <2>5
    <3>2. Waits'
      BY <2>1, <2>2, <2>3, <3>1 DEF Waits, AtWork
    <3> QED
      BY <3>2 DEF OnTrack
  <2> QED
    BY <2>4, <2>5
<1>2. ASSUME NEW k \in Keys, GetIntent(k) PROVE OnTrack'
  <2>1. UNCHANGED <<job, task, worker, conv, requeue>> /\ session.pc = "idle"
    BY <1>2 DEF GetIntent
  <2>2. \A x \in Worker : (AtWork(x) => worker'[x] = worker[x]) /\ (AtWork(x)' => AtWork(x))
    BY <2>1 DEF AtWork
  <2> QED
    BY <2>1, <2>2, TrackKept DEF SameJob
<1>3. ASSUME \/ ResumeBlockedByok \/ \E w \in Worker : DispatchToPusher(w) PROVE OnTrack'
  <2>1. session.pc \in {"resume", "dispatch"}
    BY <1>3 DEF ResumeBlockedByok, DispatchToPusher
  <2>2. job.byok /\ ~\E k \in Keys : CreateIntent(k)
    BY <2>1 DEF Lanes, CreateIntent
  <2> QED
    BY <2>2, Settled
<1>4. ASSUME EnqueueIntent PROVE faults' = faults + 1 \/ OnTrack'
  <2>1. /\ faults' = faults + 1 \/ task' = Enqueued(session.gen)
        /\ UNCHANGED <<job, worker, conv>> /\ requeue' = requeue
    BY <1>4 DEF EnqueueIntent, Fault
  <2> QED
    BY <2>1, EnqueueTrack
<1>5. ASSUME EnqueueReplay PROVE faults' = faults + 1 \/ OnTrack'
  <2>1. /\ faults' = faults + 1 \/ task' = Enqueued(requeue)
        /\ UNCHANGED <<job, worker, conv>> /\ session' = session /\ requeue # 0
    BY <1>5 DEF EnqueueReplay, Fault, rowVars
  <2> QED
    BY <2>1, EnqueueTrack
<1>6. SessionCrash => faults' = faults + 1
  BY DEF SessionCrash, Fault
<1> QED
  BY <1>1, <1>2, <1>3, <1>4, <1>5, <1>6

\* Time and the sweeps are charged or keep the track.
LEMMA TimeTrack ==
  ASSUME Types, JobComesFirst, Lanes, OnTrack, [Next]_vars,
         \/ LeaseExpires \/ LockExpires \/ JobGrowsOld \/ ScanByok \/ AbandonByok
         \/ RouteAdmit \/ OpenDeferred \/ DirectProcess \/ StampAges \/ RenewLease
         \/ ScanOrphan \/ CloseOrphan \/ BeginMerge
  PROVE  faults' = faults + 1 \/ OnTrack'
<1>1. ASSUME UNCHANGED <<job, task, worker, session, requeue>>, conv.there => conv'.there
      PROVE  OnTrack'
  <2>1. \A x \in Worker : (AtWork(x) => worker'[x] = worker[x]) /\ (AtWork(x)' => AtWork(x))
    BY <1>1 DEF AtWork
  <2> QED
    BY <1>1, <2>1, TrackKept DEF SameJob
<1>2. CASE LeaseExpires
  <2>1. job.status = "leased" /\ job.live /\ (faults' = faults + 1 \/ ~LeaseOwned)
    BY <1>2 DEF LeaseExpires, FaultIf, Fault
  <2>2. ~LeaseOwned => job.byok
    <3>1. ASSUME ~LeaseOwned, NEW w \in Worker, AtWork(w), Serves(w) PROVE FALSE
      BY <2>1, <3>1 DEF LeaseOwned, AtWork, Serves
    <3> QED
      BY <2>1, <3>1 DEF OnTrack, Waits, Terminal
  <2>3. ~\E k \in Keys : CreateIntent(k)
    BY <2>1, ConstantTypes, CreatedJob
  <2> QED
    BY <2>1, <2>2, <2>3, Settled
<1>3. CASE LockExpires \/ ScanByok
  <2>1. UNCHANGED <<job, task, worker, session, requeue, conv>>
    BY <1>3 DEF LockExpires, ScanByok, rowVars
  <2> QED
    BY <1>1, <2>1
<1>4. CASE JobGrowsOld
  <2>1. job.byok /\ job.status \in {"queued", "leased"}
    BY <1>4 DEF JobGrowsOld
  <2>2. ~\E k \in Keys : CreateIntent(k)
    BY <2>1, ConstantTypes, CreatedJob
  <2> QED
    BY <2>1, <2>2, Settled
<1>5. CASE AbandonByok
  <2>1. UNCHANGED <<task, worker, session, requeue>>
    BY <1>5 DEF AbandonByok
  <2>2. conv.there => conv'.there
    BY <1>5, RowStaysThere
  <2>3. job' = job \/ job'.status = "dead_letter"
    BY <1>5, LaneEffect DEF JobBecomes
  <2> QED
    BY <1>1, <2>1, <2>2, <2>3 DEF OnTrack, Terminal
<1>6. CASE \/ RouteAdmit \/ OpenDeferred \/ DirectProcess \/ StampAges \/ RenewLease
           \/ ScanOrphan \/ CloseOrphan \/ BeginMerge
  <2>1. UNCHANGED <<job, task, worker, session, requeue>>
    BY <1>6 DEF RouteAdmit, OpenDeferred, DirectProcess, StampAges, RenewLease, ScanOrphan,
         CloseOrphan, BeginMerge, directRest, laneVars
  <2>2. conv.there => conv'.there
    BY <1>6, RowStaysThere
  <2> QED
    BY <1>1, <2>1, <2>2
<1> QED
  BY <1>2, <1>3, <1>4, <1>5, <1>6

\* Every step but a replay and the end of a merge is charged or keeps the track.
LEMMA TrackStep ==
  ASSUME Types, JobComesFirst, RowWays, Lanes, Counts, job.gen \in Gens, OnTrack, [Next]_vars,
         ~ClaimReplay, ~EndMerge
  PROVE  faults' = faults + 1 \/ touched' = touched + 1 \/ OnTrack'
<1>1. CASE \E w \in Worker : \/ WorkerFails(w) \/ WorkerCrash(w) \/ TaskTimesOut(w)
  BY <1>1 DEF WorkerFails, WorkerCrash, TaskTimesOut, Fault
<1>2. CASE DirectFails \/ DirectCrash \/ UserEvent
  BY <1>2 DEF DirectFails, DirectCrash, UserEvent, Fault, Touch
<1>3. CASE UNCHANGED vars
  <2>1. UNCHANGED <<job, task, worker, session, requeue, conv>>
    BY <1>3 DEF vars
  <2>2. \A x \in Worker : (AtWork(x) => worker'[x] = worker[x]) /\ (AtWork(x)' => AtWork(x))
    BY <2>1 DEF AtWork
  <2> QED
    BY <2>1, <2>2, TrackKept DEF SameJob
<1>4. CASE \E w \in Worker : WorkerStep(w)
  BY <1>4, WorkerTrack
<1>5. CASE \E w \in Worker, g \in Gens : DeliverTask(w, g)
  BY <1>5, DeliverTrack
<1>6. CASE \/ \E k \in Keys : CreateIntent(k) \/ GetIntent(k)
           \/ ResumeBlockedByok \/ EnqueueIntent \/ SessionCrash \/ EnqueueReplay
           \/ \E w \in Worker : DispatchToPusher(w)
  BY <1>6, HandoffTrack
<1>7. CASE \/ LeaseExpires \/ LockExpires \/ JobGrowsOld \/ ScanByok \/ AbandonByok
           \/ RouteAdmit \/ OpenDeferred \/ DirectProcess \/ StampAges \/ RenewLease
           \/ ScanOrphan \/ CloseOrphan \/ BeginMerge
  BY <1>7, TimeTrack
<1> QED
  BY <1>1, <1>2, <1>3, <1>4, <1>5, <1>6, <1>7 DEF Next

-----------------------------------------------------------------------------
\* A replay of a job that is on its track is early, and early replays are charged.
LEMMA EarlyReplay ==
  ASSUME Types, Lanes, OnTrack, ClaimReplay
  PROVE  faults' = faults + 1
<1>1. /\ job.due /\ job.status \in {"queued", "leased"} /\ requeue = 0
      /\ job.status = "leased" => ~job.live
      /\ (job.status = "queued" /\ UnderWay) => faults' = faults + 1
  BY DEF ClaimReplay, FaultIf, Fault
<1>2. ~job.byok /\ job.status \notin {"none"} \cup Terminal /\ requeue # job.gen
  BY <1>1 DEF Lanes, Terminal, Types, Jobs
<1>3. CASE Waits
  BY <1>1, <1>2, <1>3 DEF Waits, UnderWay
<1>4. ASSUME NEW w \in Worker, AtWork(w), Serves(w) PROVE faults' = faults + 1
  <2>1. job.status = "queued"
    BY <1>1, <1>4 DEF Serves, IsCurrentLease
  <2>2. UnderWay
    BY <1>4 DEF UnderWay, AtWork
  <2> QED
    BY <1>1, <2>1, <2>2
<1> QED
  BY <1>2, <1>3, <1>4 DEF OnTrack

\* A replay uses up what put the job off its track, or is charged itself, and
\* puts the job back on it.
LEMMA ReplayPaid ==
  ASSUME Types, Lanes, Counts, Counts', Paid, ClaimReplay, faults' \in {faults, faults + 1}
  PROVE  Paid'
<1> DEFINE u == Unit(~OnTrack) m == Unit(direct.pc = "merge")
<1>1. /\ job.gen \in Nat /\ job.gen >= 1 /\ faults \in Nat /\ touched \in Nat
      /\ faults' \in 0 .. MaxFaults /\ touched' \in 0 .. MaxTouches
  BY FinalizationAssumption DEF Types, Jobs, Lanes, Counts
<1>2. /\ job'.gen = job.gen + 1 /\ job'.status = "queued"
  BY LaneEffect DEF JobBecomes
<1>3. /\ UNCHANGED <<task, worker, touched, direct>> /\ requeue' = job.gen + 1
  BY DEF ClaimReplay, rowVars
<1>4. m \in 0 .. 1 /\ (~OnTrack => u = 1) /\ (OnTrack => u = 0 /\ faults' = faults + 1)
  BY EarlyReplay DEF Unit
<1>5. job.gen + u + m <= faults + touched + 1
  BY DEF Paid
<1>6. job'.gen + m <= faults' + touched' + 1
  <2> HIDE DEF u, m
  <2> QED
    BY <1>1, <1>2, <1>3, <1>4, <1>5
<1>7. job'.gen \in Gens
  <2>1. job'.gen <= faults' + touched' + 1
    <3> HIDE DEF m
    <3> QED
      BY <1>1, <1>2, <1>4, <1>6
  <2> QED
    BY <1>1, <1>2, <2>1, FinalizationAssumption DEF Gens
<1>8. task'[job'.gen] = Unused
  BY <1>1, <1>2, <1>3, <1>7 DEF Lanes
<1>9. \A w \in Worker : ~AtWork(w)'
  <2> SUFFICES ASSUME NEW w \in Worker, worker[w].pc # "idle" PROVE worker[w].gen # job.gen + 1
    BY <1>2, <1>3 DEF AtWork
  <2>1. worker[w].gen \in Nat /\ worker[w].gen <= job.gen
    BY DEF Types, Threads, Lanes
  <2> QED
    BY <1>1, <2>1
<1>10. OnTrack'
  <2>1. Waits'
    BY <1>2, <1>3, <1>8, <1>9 DEF Waits
  <2> QED
    BY <2>1 DEF OnTrack
<1>11. Unit(~OnTrack)' = 0 /\ Unit(direct.pc = "merge")' = m
  BY <1>3, <1>10 DEF Unit
<1> QED
  <2>1. job'.gen + 0 + m <= faults' + touched' + 1
    <3> HIDE DEF m
    <3> QED
      BY <1>1, <1>2, <1>4, <1>6
  <2> QED
    BY <1>11, <2>1 DEF Paid

\* Every generation stays paid for, on every step.
LEMMA PaidStep ==
  ASSUME TrackInv, [Next]_vars, Types', Counts'
  PROVE  Paid'
<1>0. Types /\ JobComesFirst /\ RowWays /\ Lanes /\ Counts /\ Paid
  BY DEF TrackInv
<1>1. faults' \in {faults, faults + 1} /\ touched' \in {touched, touched + 1}
  BY CountersGrow DEF Fault, Touch
<1>2. job.gen \in Gens
  BY <1>0, PaidGen
<1>3. CASE ClaimReplay
  BY <1>0, <1>1, <1>3, ReplayPaid
<1>4. ASSUME ~ClaimReplay PROVE job'.gen = job.gen
  BY <1>0, <1>4, GenStep
<1> DEFINE u == Unit(~OnTrack) m == Unit(direct.pc = "merge")
           v == Unit(~OnTrack)' n == Unit(direct.pc = "merge")'
<1>5. u \in 0 .. 1 /\ v \in 0 .. 1 /\ m \in 0 .. 1 /\ n \in 0 .. 1
  BY DEF Unit
<1>6. job.gen \in Nat /\ faults \in Nat /\ touched \in Nat
  BY <1>0, FinalizationAssumption DEF Types, Jobs, Counts
<1>7. job.gen + u + m <= faults + touched + 1
  BY <1>0 DEF Paid
<1>8. CASE EndMerge /\ ~ClaimReplay
  <2>1. m = 1 /\ n = 0
    BY <1>0, <1>8, MergeStep DEF Unit
  <2>2. job'.gen + v + n <= faults' + touched' + 1
    <3> HIDE DEF u, v, m, n
    <3> QED
      BY <1>1, <1>4, <1>5, <1>6, <1>7, <1>8, <2>1
  <2> QED
    BY <2>2 DEF Paid
<1>9. CASE BeginMerge /\ ~ClaimReplay
  <2>1. m = 0 /\ touched' = touched + 1
    BY <1>0, <1>9, MergeStep DEF Unit
  <2>2. v <= u
    <3>1. faults' = faults
      BY <1>9 DEF BeginMerge
    <3>2. faults' # faults + 1
      BY <1>6, <3>1
    <3>3. OnTrack => OnTrack'
      BY <1>0, <1>9, <3>2, TimeTrack
    <3> QED
      BY <3>3 DEF Unit
  <2>3. job'.gen + v + n <= faults' + touched' + 1
    <3> HIDE DEF u, v, m, n
    <3> QED
      BY <1>1, <1>4, <1>5, <1>6, <1>7, <1>9, <2>1, <2>2
  <2> QED
    BY <2>3 DEF Paid
<1>10. CASE ~EndMerge /\ ~BeginMerge /\ ~ClaimReplay
  <2>1. direct'.pc = "merge" => direct.pc = "merge"
    BY <1>0, <1>10, MergeStep
  <2>2. faults' = faults + 1 \/ touched' = touched + 1 \/ (OnTrack => OnTrack')
    BY <1>0, <1>2, <1>10, TrackStep
  <2> QED
    BY <1>0, <1>1, <1>4, <1>10, <2>1, <2>2, PaidKept
<1> QED
  BY <1>3, <1>8, <1>9, <1>10

\* The job starts on its track.
LEMMA TrackInit == Init => TrackInv
<1> SUFFICES ASSUME Init PROVE TrackInv
  OBVIOUS
<1>1. /\ job = NoJob /\ session = NoSession /\ requeue = 0 /\ direct = NoDirect
      /\ touched = 0 /\ faults = 0
      /\ worker = [w \in Worker |-> Idle] /\ task = [g \in Gens |-> Unused]
  BY DEF Init
<1>2. Types /\ JobComesFirst
  BY FinalizationInit DEF FinalizationInv
<1>3. RowWays
  <2>1. ~conv.bound /\ conv.status \in {"in_progress", "processing"}
    BY DEF Init
  <2> QED
    BY <1>1, <2>1, ConstantTypes DEF RowWays
<1>4. job.gen = 1 /\ job.byok = FALSE /\ job.status = "none" /\ session.pc = "idle"
  BY <1>1 DEF NoJob, NoSession
<1>5. Lanes
  <2>1. \A w \in Worker : worker[w].pc = "idle"
    BY <1>1, ConstantTypes
  <2>2. \A g \in Gens : task[g] = Unused
    BY <1>1
  <2> QED
    BY <1>1, <1>4, <2>1, <2>2 DEF Lanes
<1>6. Counts
  <2>1. Unused \in Unused .. Gone
    BY FinalizationAssumption DEF Unused, Gone
  <2> QED
    BY <1>1, <2>1, FinalizationAssumption DEF Counts
<1>7. Paid
  <2>1. Unit(~OnTrack) = 0 /\ Unit(direct.pc = "merge") = 0
    BY <1>1, <1>4, ConstantTypes DEF Unit, OnTrack
  <2> QED
    BY <1>1, <1>4, <2>1 DEF Paid
<1> QED
  BY <1>2, <1>3, <1>5, <1>6, <1>7 DEF TrackInv

\* Every step keeps the account of the generations.
LEMMA TrackInvStep == TrackInv /\ [Next]_vars => TrackInv'
<1> SUFFICES ASSUME TrackInv, [Next]_vars PROVE TrackInv'
  OBVIOUS
<1>0. Types /\ JobComesFirst /\ RowWays /\ Lanes /\ Counts /\ Paid
  BY DEF TrackInv
<1>1. Types' /\ JobComesFirst' /\ RowWays' /\ Lanes' /\ Counts'
  BY <1>0, TypesStep, JobComesFirstStep, RowWaysStep, LanesStep, CountsStep
<1>2. Paid'
  BY <1>1, PaidStep
<1> QED
  BY <1>1, <1>2 DEF TrackInv

\* The values that only the lock and the sweeps hold.
SweepTypes ==
    /\ lock \in Worker \cup {"free", "lost"}
    /\ orphan \in {"none", "aged", "legacy", "renewed"}
    /\ scanned \in [status : {"none", "queued", "leased"}, gen : Nat, epoch : Nat]

\* The lock and the sweeps keep their types, on every step.
LEMMA SweepTypesStep ==
  ASSUME Types, SweepTypes, [Next]_vars
  PROVE  SweepTypes'
<1>0. job.gen \in Nat /\ job.epoch \in Nat
  BY DEF Types, Jobs
<1>1. NoScan \in [status : {"none", "queued", "leased"}, gen : Nat, epoch : Nat]
  BY DEF NoScan
<1>2. ASSUME NEW w \in Worker, WorkerStep(w) \/ WorkerFails(w) PROVE SweepTypes'
  <2>1. ASSUME NEW ok, Finish(w, ok) PROVE lock' \in {lock, "free"}
    BY <2>1 DEF Finish
  <2>2. lock' \in {lock, "free"}
    <3>1. lock' = lock \/ \E ok : Finish(w, ok)
      BY <1>2 DEF WorkerStep, ClaimJob, CheckCutover, ReadConversation, EnsureProcessing,
         ProcessConversation, ClaimFanout, DeliverFanout, AckFanout, MarkCompleted, MarkFenced,
         RetryOrDeadLetter, WorkerFails, laneVars
    <3> QED
      BY <2>1, <3>1
  <2>3. scanned' = scanned /\ (orphan' = orphan \/ orphan' = "renewed")
    BY <1>2 DEF WorkerStep, ClaimJob, CheckCutover, ReadConversation, EnsureProcessing,
       ProcessConversation, ClaimFanout, DeliverFanout, AckFanout, MarkCompleted, MarkFenced,
       RetryOrDeadLetter, WorkerFails, laneVars, rowVars, Restamp
  <2> QED
    BY <2>2, <2>3 DEF SweepTypes
<1>3. ASSUME NEW w \in Worker,
             \/ WorkerCrash(w) \/ TaskTimesOut(w) \/ DispatchToPusher(w)
             \/ \E g \in Gens : DeliverTask(w, g)
      PROVE  SweepTypes'
  <2>1. lock' \in {lock, "lost", w} /\ scanned' = scanned /\ orphan' = orphan
    BY <1>3 DEF WorkerCrash, TaskTimesOut, DispatchToPusher, DeliverTask, rowVars
  <2> QED
    BY <2>1 DEF SweepTypes
<1>4. ASSUME \/ ScanByok \/ AbandonByok PROVE SweepTypes'
  <2>1. /\ lock' = lock /\ orphan' = orphan
        /\ \/ scanned' = NoScan
           \/ /\ scanned' = [status |-> job.status, gen |-> job.gen, epoch |-> job.epoch]
              /\ job.status \in {"queued", "leased"}
    BY <1>4 DEF ScanByok, AbandonByok, rowVars
  <2> QED
    BY <1>0, <1>1, <2>1 DEF SweepTypes
<1>5. ASSUME \/ RouteAdmit \/ OpenDeferred \/ RenewLease \/ ScanOrphan \/ CloseOrphan
             \/ DirectProcess \/ DirectFails \/ DirectCrash \/ StampAges
             \/ UserEvent \/ BeginMerge \/ EndMerge
      PROVE  SweepTypes'
  <2>1. lock' = lock /\ scanned' = scanned
    BY <1>5 DEF RouteAdmit, OpenDeferred, RenewLease, ScanOrphan, CloseOrphan, DirectProcess,
         DirectFails, DirectCrash, StampAges, UserEvent, BeginMerge, EndMerge, directRest, laneVars
  <2>2. orphan' \in {orphan, "renewed", "none", "aged", "legacy"}
    BY <1>5 DEF RouteAdmit, OpenDeferred, RenewLease, ScanOrphan, CloseOrphan, DirectProcess,
         DirectFails, DirectCrash, StampAges, UserEvent, BeginMerge, EndMerge, Restamp
  <2> QED
    BY <2>1, <2>2 DEF SweepTypes
<1>6. ASSUME \/ \E k \in Keys : CreateIntent(k) \/ GetIntent(k)
             \/ ResumeBlockedByok \/ EnqueueIntent \/ SessionCrash
             \/ LeaseExpires \/ LockExpires \/ ClaimReplay \/ EnqueueReplay
             \/ JobGrowsOld \/ UNCHANGED vars
      PROVE  SweepTypes'
  <2>1. lock' \in {lock, "free"} /\ scanned' = scanned /\ orphan' = orphan
    BY <1>6 DEF CreateIntent, GetIntent, ResumeBlockedByok, EnqueueIntent, SessionCrash,
       LeaseExpires, LockExpires, ClaimReplay, EnqueueReplay, JobGrowsOld, vars, rowVars, laneVars
  <2> QED
    BY <2>1 DEF SweepTypes
<1> QED
  BY <1>2, <1>3, <1>4, <1>5, <1>6 DEF Next

\* The account of the generations and the types of the sweeps always hold.
LEMMA AccountIsKept == Spec => [](TrackInv /\ SweepTypes)
<1>1. Init => TrackInv /\ SweepTypes
  <2>1. Init => SweepTypes
    BY DEF Init, SweepTypes, NoScan
  <2> QED
    BY <2>1, TrackInit
<1>2. TrackInv /\ SweepTypes /\ [Next]_vars => (TrackInv /\ SweepTypes)'
  <2>1. TrackInv => Types
    BY DEF TrackInv
  <2> QED
    BY <2>1, TrackInvStep, SweepTypesStep
<1> QED
  BY <1>1, <1>2, PTL DEF Spec

\* Every replay had a cause: the generations opened after the first are at most
\* the crashes, failures, late answers and interventions so far.
ReplaysHaveCauses == job.gen <= faults + touched + 1

\* The reconciler never replays a job for nothing: each generation that
\* claim_stale_job_for_replay opens was paid for by one crash, failure, lateness
\* or intervention of its own, so a job that nobody disturbed keeps its first
\* task, and no schedule of sweeps, retries and late workers replays it for ever.
THEOREM NoIdleReplay == Spec => []ReplaysHaveCauses
<1>1. TrackInv => ReplaysHaveCauses
  BY PaidGen DEF TrackInv, ReplaysHaveCauses
<1> QED
  BY <1>1, AccountIsKept, PTL

\* The types of the finalization, with the bound on the task generations that
\* the account of their causes gives.
THEOREM FinalizationTypesAreKept == Spec => []TypeOK
<1>1. TrackInv /\ SweepTypes => TypeOK
  <2> SUFFICES ASSUME TrackInv, SweepTypes PROVE TypeOK
    OBVIOUS
  <2>0. Types /\ Lanes /\ Counts /\ Paid
    BY DEF TrackInv
  <2>1. job.gen \in Gens
    BY <2>0, PaidGen
  <2>2. job \in Jobs /\ requeue \in Gens \cup {0}
    BY <2>0, <2>1 DEF Types, Lanes
  <2>3. job \in [status : JobStatuses, byok : BOOLEAN, gen : Gens, epoch : Nat,
                 attempts : Nat, fanout : {"pending", "leased", "completed", "fenced"},
                 fanoutEpoch : Nat,
                 outcome : {"none", "success", "fenced", "failure", "abandoned"},
                 due : BOOLEAN, live : BOOLEAN, old : BOOLEAN]
    BY <2>1, <2>2 DEF Jobs
  <2> QED
    BY <2>0, <2>2, <2>3 DEF TypeOK, Types, Rows, Threads, Counts, SweepTypes
<1> QED
  BY <1>1, AccountIsKept, PTL
===============================================================================
