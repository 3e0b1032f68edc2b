------------------------ MODULE TranscriptionProofs ------------------------
(***************************************************************************)
(* What Transcription guarantees for every set of recordings, results,     *)
(* engines and attempts.                                                   *)
(*                                                                         *)
(* The worker, the manual command and the deletion act on what they read   *)
(* before they held the lock.  The invariant says what the holder of the   *)
(* lock may rely on, and what a deletion that has begun still owes.        *)
(***************************************************************************)
EXTENDS Transcription, SequenceTheorems, TLAPS

Active   == {"inspect", "locking", "infer", "import"}
Deleting == {"database", "results", "audio", "metadata"}

\* A transcription has its recording and, once it looked at the audio, its key.
ProcsOK ==
  /\ \A t \in Transcriber :
       /\ proc[t].c # Free <=> proc[t].pc \in Active
       /\ proc[t].pc \in {"locking", "infer", "import"} =>
            proc[t].key \in Key /\ proc[t].key[1] = Audio[proc[t].c]
  /\ proc["manual"].pc \notin {"sleep", "scan"}

\* The lock is held exactly while the results are read or written.
LockOK ==
  /\ \A t \in Transcriber : lock = t <=> proc[t].pc \in {"infer", "import"}
  /\ lock = "delete" <=> del.pc \in Deleting
  /\ del.pc # "idle" => del.c \in Capture

Processing(i) == jobs[i].state = "processing"

\* A recording has one job, at most one job is in flight, and none is while the
\* worker sleeps or scans.
InFlight ==
  /\ \A i, j \in DOMAIN jobs : i # j => jobs[i].c # jobs[j].c
  /\ \A i, j \in DOMAIN jobs : Processing(i) /\ Processing(j) => i = j
  /\ proc["worker"].pc \in {"sleep", "scan"} => \A i \in DOMAIN jobs : ~Processing(i)
  /\ proc["worker"].pc \in Active =>
       \E i \in DOMAIN jobs : Processing(i) /\ jobs[i].c = proc["worker"].c

HasCopy(a) == \E c \in Capture : dir[c] = "complete" /\ Audio[c] = a

\* The conversations that no import child made after its process was killed.
Regular == conv \ late

\* A saved transcript has a recording it is the transcript of, and such a
\* conversation has a saved transcript.
ResultsOK ==
  /\ \A k \in Key : result[k].stage \in {"speech", "silence"} => HasCopy(k[1])
  /\ \A k \in Regular : result[k].stage = "speech"

\* What a deletion still owes.  It knows every result of the audio before it
\* takes the conversations, has taken those before it takes a result, and takes
\* the audio last, or another copy of it is there.
DeletionOK ==
  /\ \A k \in del.keys : k[1] = Audio[del.c]
  /\ del.pc \in {"database", "results"} =>
       /\ ~del.shared
       /\ \A k \in Key : result[k] # NoResult /\ k[1] = Audio[del.c] => k \in del.keys
  /\ del.pc = "results" => del.keys \cap Regular = {}
  /\ del.pc = "audio" =>
       IF del.shared
       THEN \E c \in Capture \ {del.c} : dir[c] = "complete" /\ Audio[c] = Audio[del.c]
       ELSE \A k \in Key : k[1] = Audio[del.c] => result[k] = NoResult
  /\ del.pc = "metadata" => dir[del.c] = "stripped"

\* A job whose recording was not deleted has its audio, and a deletion that is
\* about to take conversations takes none of another completed job.
JobsOK ==
  /\ \A i \in DOMAIN jobs : jobs[i].c \notin doomed => dir[jobs[i].c] = "complete"
  /\ del.pc = "database" =>
       \A i \in DOMAIN jobs :
         jobs[i].state = "completed" /\ jobs[i].c \notin doomed /\ jobs[i].c # del.c =>
           Audio[jobs[i].c] # Audio[del.c]

TranscriptionInv ==
  /\ TypeOK /\ AttemptsCountErrors /\ ProcsOK /\ LockOK /\ InFlight
  /\ ResultsOK /\ DeletionOK /\ JobsOK /\ CompletedIsImported

-----------------------------------------------------------------------------
(* Jobs. *)

\* One job's part of AttemptsCountErrors.
Counted(job) ==
  /\ job.attempts = job.errors + (IF job.state \in {"pending", "failed"} THEN 0 ELSE 1)
  /\ job.errors <= MaxAttempts /\ (job.state = "failed" <=> job.errors = MaxAttempts)

\* The invariant is the same of every job.
LEMMA AllCounted == AttemptsCountErrors <=> \A i \in DOMAIN jobs : Counted(jobs[i])
BY DEF AttemptsCountErrors, Counted

\* The job after a step is of the same recording and provider, and counted.
SameJob(job, new) ==
  new \in JobType /\ Counted(new) /\ new.c = job.c /\ new.provider = job.provider

\* The replay of a restart gives back the attempt that was in flight.
LEMMA ReplayedJob ==
  ASSUME NEW job \in JobType, Counted(job)
  PROVE  /\ SameJob(job, Replayed(job)) /\ Replayed(job).state # "processing"
         /\ Replayed(job).state = "completed" => job.state = "completed"
<1>1. CASE job.state # "processing"
  BY <1>1 DEF Replayed, SameJob
<1>2. CASE job.state = "processing"
  <2>1. job.attempts \in Nat /\ job.errors \in Nat /\ job.attempts = job.errors + 1
        /\ job.errors <= MaxAttempts /\ job.errors # MaxAttempts
    BY <1>2 DEF JobType, Counted
  <2>2. ASSUME NEW a \in Nat
        PROVE  LET new == [job EXCEPT !.state = "pending", !.due = TRUE, !.attempts = a]
               IN  /\ new \in JobType /\ new.c = job.c /\ new.provider = job.provider /\ new.state = "pending"
                   /\ new.attempts = a /\ new.errors = job.errors
    BY <2>2 DEF JobType
  <2>3. (IF job.attempts > 0 THEN job.attempts - 1 ELSE 0) = job.errors
    BY <2>1
  <2>4. Replayed(job) = [job EXCEPT !.state = "pending", !.due = TRUE, !.attempts = job.errors]
    BY <1>2, <2>3 DEF Replayed
  <2>5. /\ Replayed(job) \in JobType /\ Replayed(job).c = job.c
        /\ Replayed(job).provider = job.provider
        /\ Replayed(job).state = "pending" /\ Replayed(job).attempts = job.errors
        /\ Replayed(job).errors = job.errors
    BY <2>1, <2>2, <2>4
  <2> QED
    BY <2>1, <2>5 DEF SameJob, Counted
<1> QED
  BY <1>1, <1>2

\* What the end of transcribe() makes of the job in flight.
LEMMA ConcludedJob ==
  ASSUME NEW job \in JobType, Counted(job), job.state = "processing",
         NEW outcome \in {"completed", "no_speech", "busy", "error"}
  PROVE  /\ SameJob(job, Concluded(job, outcome))
         /\ Concluded(job, outcome).state # "processing"
         /\ Concluded(job, outcome).state = "completed" => outcome = "completed"
<1>1. job.attempts \in Nat /\ job.errors \in Nat /\ job.attempts = job.errors + 1
      /\ job.errors <= MaxAttempts /\ job.errors # MaxAttempts /\ MaxAttempts \in Nat
  BY TranscriptionAssumption DEF JobType, Counted
<1>2. CASE outcome \in {"completed", "no_speech"}
  <2>1. Concluded(job, outcome) = [job EXCEPT !.state = outcome, !.due = TRUE]
    BY <1>2 DEF Concluded
  <2>2. LET new == [job EXCEPT !.state = outcome, !.due = TRUE]
        IN  /\ new \in JobType /\ new.c = job.c /\ new.provider = job.provider /\ new.state = outcome
            /\ new.attempts = job.attempts /\ new.errors = job.errors
    BY <1>2 DEF JobType
  <2> QED
    BY <1>1, <1>2, <2>1, <2>2 DEF SameJob, Counted
<1>3. CASE outcome = "busy"
  <2>1. Concluded(job, outcome) = [job EXCEPT !.state = "pending", !.attempts = job.errors, !.due = FALSE]
    <3>1. job.attempts - 1 = job.errors
      BY <1>1
    <3> QED
      BY <1>3, <3>1 DEF Concluded
  <2>2. LET new == [job EXCEPT !.state = "pending", !.attempts = job.errors, !.due = FALSE]
        IN  /\ new \in JobType /\ new.c = job.c /\ new.provider = job.provider /\ new.state = "pending"
            /\ new.attempts = job.errors /\ new.errors = job.errors
    BY <1>1 DEF JobType
  <2>3. LET new == Concluded(job, outcome)
        IN  /\ new \in JobType /\ new.c = job.c /\ new.provider = job.provider /\ new.state = "pending"
            /\ new.attempts = job.errors /\ new.errors = job.errors
    BY <2>1, <2>2
  <2> QED
    BY <1>1, <2>3 DEF SameJob, Counted
<1>4. CASE outcome = "error"
  <2> DEFINE s == IF job.attempts >= MaxAttempts THEN "failed" ELSE "pending"
  <2>1. Concluded(job, outcome)
          = [job EXCEPT !.state = s, !.due = FALSE, !.errors = job.attempts]
    BY <1>1, <1>4 DEF Concluded
  <2>2. ASSUME NEW x \in {"failed", "pending"}
        PROVE  LET new == [job EXCEPT !.state = x, !.due = FALSE, !.errors = job.attempts]
               IN  /\ new \in JobType /\ new.c = job.c /\ new.provider = job.provider /\ new.state = x
                   /\ new.attempts = job.attempts /\ new.errors = job.attempts
    BY <1>1, <2>2 DEF JobType
  <2>3. s \in {"failed", "pending"} /\ (s = "failed" <=> job.attempts = MaxAttempts)
    BY <1>1
  <2> HIDE DEF s
  <2>4. LET new == Concluded(job, outcome)
        IN  /\ new \in JobType /\ new.c = job.c /\ new.provider = job.provider /\ new.state = s
            /\ new.attempts = job.attempts /\ new.errors = job.attempts
    BY <2>1, <2>2, <2>3
  <2> QED
    BY <1>1, <2>3, <2>4 DEF SameJob, Counted
<1> QED
  BY <1>2, <1>3, <1>4

\* A job that starts, and one whose back-off ends.
LEMMA StartedJob ==
  ASSUME NEW job \in JobType, Counted(job), job.state = "pending"
  PROVE  /\ SameJob(job, [job EXCEPT !.state = "processing", !.attempts = @ + 1])
         /\ [job EXCEPT !.state = "processing", !.attempts = @ + 1].state = "processing"
         /\ SameJob(job, [job EXCEPT !.due = TRUE]) /\ [job EXCEPT !.due = TRUE].state = "pending"
<1>1. job.attempts \in Nat /\ job.errors \in Nat /\ job.attempts = job.errors
  BY DEF JobType, Counted
<1>2. ASSUME NEW a \in Nat
      PROVE  LET new == [job EXCEPT !.state = "processing", !.attempts = a]
             IN  /\ new \in JobType /\ new.c = job.c /\ new.provider = job.provider /\ new.state = "processing"
                 /\ new.attempts = a /\ new.errors = job.errors
  BY <1>2 DEF JobType
<1>3. LET new == [job EXCEPT !.due = TRUE]
      IN  /\ new \in JobType /\ new.c = job.c /\ new.provider = job.provider /\ new.state = job.state
          /\ new.attempts = job.attempts /\ new.errors = job.errors
  BY DEF JobType
<1>4. LET new == [job EXCEPT !.state = "processing", !.attempts = @ + 1]
      IN  /\ new \in JobType /\ new.c = job.c /\ new.provider = job.provider /\ new.state = "processing"
          /\ new.attempts = job.attempts + 1 /\ new.errors = job.errors
  <2>1. job.attempts + 1 \in Nat
    BY <1>1
  <2> QED
    BY <1>2, <2>1
<1>5. /\ SameJob(job, [job EXCEPT !.state = "processing", !.attempts = @ + 1])
      /\ [job EXCEPT !.state = "processing", !.attempts = @ + 1].state = "processing"
  BY <1>1, <1>4 DEF SameJob, Counted
<1>6. SameJob(job, [job EXCEPT !.due = TRUE]) /\ [job EXCEPT !.due = TRUE].state = "pending"
  BY <1>3 DEF SameJob, Counted
<1> QED
  BY <1>5, <1>6

-----------------------------------------------------------------------------
(* The queue. *)

\* The types that the queue's steps rely on.
QueueOK == jobs \in Seq(JobType) /\ \A i \in DOMAIN jobs : Counted(jobs[i])

\* The invariant gives them.
LEMMA QueueIsOK == TypeOK /\ AttemptsCountErrors => QueueOK
BY AllCounted DEF TypeOK, QueueOK

\* Every job stays in its place.
Mapped ==
  /\ jobs' \in Seq(JobType) /\ DOMAIN jobs' = DOMAIN jobs
  /\ \A i \in DOMAIN jobs : SameJob(jobs[i], jobs'[i])

\* A queue that is rewritten job by job.
LEMMA MappedQueue ==
  ASSUME QueueOK, NEW f, jobs' = [i \in DOMAIN jobs |-> f[i]],
         \A i \in DOMAIN jobs : SameJob(jobs[i], f[i])
  PROVE  Mapped
<1>1. Len(jobs) \in Nat /\ DOMAIN jobs = 1 .. Len(jobs)
  BY LenProperties DEF QueueOK
<1>2. jobs' \in Seq(JobType)
  BY <1>1 DEF SameJob
<1> QED
  BY <1>2 DEF Mapped

\* An end that concludes the job in flight.
Concludes(outcome) ==
  jobs' = [i \in DOMAIN jobs |-> IF jobs[i].state = "processing"
                                 THEN Concluded(jobs[i], outcome) ELSE jobs[i]]

\* The job in flight is concluded, and no other.
LEMMA ConcludedQueue ==
  ASSUME QueueOK, NEW outcome \in {"completed", "no_speech", "busy", "error"},
         Concludes(outcome)
  PROVE  /\ Mapped
         /\ \A i \in DOMAIN jobs :
              /\ jobs'[i].state # "processing"
              /\ jobs'[i].state = "completed" =>
                   jobs[i].state = "completed" \/ (Processing(i) /\ outcome = "completed")
<1> DEFINE f == [i \in DOMAIN jobs |-> IF jobs[i].state = "processing"
                                      THEN Concluded(jobs[i], outcome) ELSE jobs[i]]
<1>1. ASSUME NEW i \in DOMAIN jobs
      PROVE  /\ SameJob(jobs[i], f[i]) /\ f[i].state # "processing"
             /\ f[i].state = "completed" =>
                  jobs[i].state = "completed" \/ (Processing(i) /\ outcome = "completed")
  <2>1. jobs[i] \in JobType /\ Counted(jobs[i])
    BY ElementOfSeq, LenProperties DEF QueueOK
  <2>2. CASE Processing(i)
    BY <2>1, <2>2, ConcludedJob DEF Processing
  <2>3. CASE ~Processing(i)
    BY <2>1, <2>3 DEF Processing, SameJob
  <2> QED
    BY <2>2, <2>3
<1>2. jobs' = f /\ jobs' = [i \in DOMAIN jobs |-> f[i]]
  BY DEF Concludes
<1> HIDE DEF f
<1>3. Mapped
  BY <1>1, <1>2, MappedQueue
<1> QED
  BY <1>1, <1>2, <1>3

\* A restart replays the job that was in flight.
LEMMA ReplayedQueue ==
  ASSUME QueueOK, WorkerStart
  PROVE  /\ Mapped
         /\ \A i \in DOMAIN jobs :
              /\ jobs'[i].state # "processing"
              /\ jobs'[i].state = "completed" => jobs[i].state = "completed"
<1> DEFINE f == [i \in DOMAIN jobs |-> Replayed(jobs[i])]
<1>1. ASSUME NEW i \in DOMAIN jobs
      PROVE  /\ SameJob(jobs[i], f[i]) /\ f[i].state # "processing"
             /\ f[i].state = "completed" => jobs[i].state = "completed"
  <2>1. jobs[i] \in JobType /\ Counted(jobs[i])
    BY ElementOfSeq, LenProperties DEF QueueOK
  <2> QED
    BY <2>1, ReplayedJob
<1>2. jobs' = f /\ jobs' = [i \in DOMAIN jobs |-> f[i]]
  BY DEF WorkerStart
<1> HIDE DEF f
<1>3. Mapped
  BY <1>1, <1>2, MappedQueue
<1> QED
  BY <1>1, <1>2, <1>3

\* One job changes, and no other.
LEMMA ChangedQueue ==
  ASSUME QueueOK, NEW n \in DOMAIN jobs, NEW new, SameJob(jobs[n], new),
         jobs' = [jobs EXCEPT ![n] = new]
  PROVE  Mapped /\ (\A i \in DOMAIN jobs : i # n => jobs'[i] = jobs[i]) /\ jobs'[n] = new
<1>0. /\ Len(jobs) \in Nat /\ DOMAIN jobs = 1 .. Len(jobs) /\ jobs \in [1 .. Len(jobs) -> JobType]
      /\ \A i \in DOMAIN jobs : jobs[i] \in JobType /\ Counted(jobs[i])
  BY ElementOfSeq, LenProperties DEF QueueOK
<1>1. /\ DOMAIN jobs' = DOMAIN jobs /\ jobs'[n] = new
      /\ \A i \in DOMAIN jobs : i # n => jobs'[i] = jobs[i]
  BY <1>0
<1>2. \A i \in DOMAIN jobs : SameJob(jobs[i], jobs'[i])
  BY <1>0, <1>1 DEF SameJob
<1>3. jobs' \in Seq(JobType)
  BY ExceptSeq DEF QueueOK, SameJob
<1> QED
  BY <1>1, <1>2, <1>3 DEF Mapped

\* A job that starts.
LEMMA StartedQueue ==
  ASSUME QueueOK, NEW n \in DOMAIN jobs, jobs[n].state = "pending",
         jobs' = [jobs EXCEPT ![n].state = "processing", ![n].attempts = @ + 1]
  PROVE  /\ Mapped
         /\ \A i \in DOMAIN jobs : i # n => jobs'[i] = jobs[i]
         /\ jobs'[n].state = "processing"
<1> DEFINE new == [jobs[n] EXCEPT !.state = "processing", !.attempts = @ + 1]
<1>0. jobs[n] \in JobType /\ Counted(jobs[n])
  BY ElementOfSeq, LenProperties DEF QueueOK
<1>1. jobs' = [jobs EXCEPT ![n] = new]
  BY <1>0
<1>2. SameJob(jobs[n], new) /\ new.state = "processing"
  BY <1>0, StartedJob
<1> HIDE DEF new
<1>3. Mapped /\ (\A i \in DOMAIN jobs : i # n => jobs'[i] = jobs[i]) /\ jobs'[n] = new
  BY <1>1, <1>2, ChangedQueue
<1> QED
  BY <1>2, <1>3

\* A job whose back-off ends.
LEMMA DueQueue ==
  ASSUME QueueOK, Due
  PROVE  Mapped /\ \A i \in DOMAIN jobs : jobs'[i].state = jobs[i].state
<1>n. PICK n \in DOMAIN jobs : jobs[n].state = "pending" /\ jobs' = [jobs EXCEPT ![n].due = TRUE]
  BY DEF Due
<1> DEFINE new == [jobs[n] EXCEPT !.due = TRUE]
<1>0. jobs[n] \in JobType /\ Counted(jobs[n])
  BY ElementOfSeq, LenProperties DEF QueueOK
<1>1. jobs' = [jobs EXCEPT ![n] = new]
  BY <1>0, <1>n
<1>2. SameJob(jobs[n], new) /\ new.state = "pending"
  BY <1>0, <1>n, StartedJob
<1> HIDE DEF new
<1>3. Mapped /\ (\A i \in DOMAIN jobs : i # n => jobs'[i] = jobs[i]) /\ jobs'[n] = new
  BY <1>1, <1>2, ChangedQueue
<1> QED
  BY <1>2, <1>3, <1>n

\* A tick drops jobs without audio and leaves the others as they are.
LEMMA PrunedQueue ==
  ASSUME QueueOK, Prune
  PROVE  /\ jobs' \in Seq(JobType)
         /\ \E at \in [DOMAIN jobs' -> DOMAIN jobs] :
              /\ \A i \in DOMAIN jobs' : jobs'[i] = jobs[at[i]]
              /\ \A i \in DOMAIN jobs : HasAudio(jobs[i]) => \E j \in DOMAIN jobs' : at[j] = i
              /\ \A i, j \in DOMAIN jobs' : i # j => at[i] # at[j]
<1>0. /\ Len(jobs) \in Nat /\ DOMAIN jobs = 1 .. Len(jobs)
      /\ \A i \in DOMAIN jobs : jobs[i] \in JobType
  BY ElementOfSeq, LenProperties DEF QueueOK
<1>n. PICK n \in 0 .. Len(jobs) : \E at \in [1 .. n -> DOMAIN jobs] :
         /\ \A i, j \in 1 .. n : i < j => at[i] < at[j]
         /\ {at[i] : i \in 1 .. n} = {i \in DOMAIN jobs : HasAudio(jobs[i])}
         /\ jobs' = [i \in 1 .. n |-> jobs[at[i]]]
  BY DEF Prune
<1>1. PICK at \in [1 .. n -> DOMAIN jobs] :
         /\ \A i, j \in 1 .. n : i < j => at[i] < at[j]
         /\ {at[i] : i \in 1 .. n} = {i \in DOMAIN jobs : HasAudio(jobs[i])}
         /\ jobs' = [i \in 1 .. n |-> jobs[at[i]]]
  BY <1>n
<1>2. n \in Nat /\ DOMAIN jobs' = 1 .. n
  BY <1>0, <1>1
<1>3. jobs' \in Seq(JobType)
  <2>1. \A i \in 1 .. n : jobs[at[i]] \in JobType
    BY <1>0, <1>1
  <2> QED
    BY <1>1, <1>2, <2>1
<1>4. \A i, j \in 1 .. n : i # j => at[i] # at[j]
  <2> SUFFICES ASSUME NEW i \in 1 .. n, NEW j \in 1 .. n, i # j PROVE at[i] # at[j]
    OBVIOUS
  <2>1. at[i] \in Int /\ at[j] \in Int
    BY <1>0, <1>1
  <2>2. i < j \/ j < i
    OBVIOUS
  <2> QED
    BY <1>1, <2>1, <2>2
<1>5. \A i \in DOMAIN jobs' : jobs'[i] = jobs[at[i]]
  BY <1>1, <1>2
<1>6. \A i \in DOMAIN jobs : HasAudio(jobs[i]) => \E j \in DOMAIN jobs' : at[j] = i
  BY <1>1, <1>2
<1> QED
  BY <1>1, <1>2, <1>3, <1>4, <1>5, <1>6

\* A new job is the last.
LEMMA AdmittedQueue ==
  ASSUME TypeOK, QueueOK, NEW c \in Capture, Admit(c)
  PROVE  /\ jobs' \in Seq(JobType)
         /\ \E n \in DOMAIN jobs' :
              /\ n \notin DOMAIN jobs /\ DOMAIN jobs' = DOMAIN jobs \cup {n}
              /\ \A i \in DOMAIN jobs : jobs'[i] = jobs[i]
              /\ jobs'[n].c = c /\ jobs'[n].state = "pending" /\ Counted(jobs'[n])
<1>0. Len(jobs) \in Nat /\ DOMAIN jobs = 1 .. Len(jobs) /\ jobs \in Seq(JobType)
  BY LenProperties DEF QueueOK
<1>1. engine.provider \in Provider
  BY DEF Admit, Admissible, TypeOK
<1>2. /\ NewJob(c) \in JobType /\ NewJob(c).c = c /\ NewJob(c).state = "pending"
      /\ NewJob(c).attempts = 0 /\ NewJob(c).errors = 0
  BY <1>1 DEF NewJob, JobType
<1>3. Counted(NewJob(c))
  BY <1>2, TranscriptionAssumption DEF Counted
<1>4. jobs' = Append(jobs, NewJob(c))
  BY DEF Admit
<1>5. /\ jobs' \in Seq(JobType) /\ Len(jobs') = Len(jobs) + 1
      /\ \A i \in 1 .. Len(jobs) : jobs'[i] = jobs[i] /\ jobs'[Len(jobs) + 1] = NewJob(c)
      /\ jobs'[Len(jobs) + 1] = NewJob(c)
  BY <1>0, <1>2, <1>4, AppendProperties
<1>6. DOMAIN jobs' = 1 .. Len(jobs) + 1
  BY <1>5, LenProperties
<1>7. /\ Len(jobs) + 1 \in DOMAIN jobs' /\ Len(jobs) + 1 \notin DOMAIN jobs
      /\ DOMAIN jobs' = DOMAIN jobs \cup {Len(jobs) + 1}
  BY <1>0, <1>6
<1> QED
  BY <1>0, <1>2, <1>3, <1>5, <1>7

\* No recording gets a second job, none with its audio loses its job, no job is
\* recounted, and a job is completed only by the import of the worker.
Kept ==
  /\ jobs' \in Seq(JobType)
  /\ \E at \in [DOMAIN jobs' -> DOMAIN jobs] :
       /\ \A i, j \in DOMAIN jobs' : i # j => at[i] # at[j]
       /\ \A i \in DOMAIN jobs : HasAudio(jobs[i]) => \E j \in DOMAIN jobs' : at[j] = i
       /\ \A i \in DOMAIN jobs' :
            /\ SameJob(jobs[at[i]], jobs'[i])
            /\ jobs'[i].state = "completed" =>
                 jobs[at[i]].state = "completed" \/ (Processing(at[i]) /\ Import("worker"))

\* A queue that changes in place is kept.
LEMMA MappedIsKept ==
  ASSUME Mapped,
         \A i \in DOMAIN jobs : jobs'[i].state = "completed" =>
           jobs[i].state = "completed" \/ (Processing(i) /\ Import("worker"))
  PROVE  Kept
<1> DEFINE id == [i \in DOMAIN jobs |-> i]
<1>1. id \in [DOMAIN jobs' -> DOMAIN jobs] /\ \A i \in DOMAIN jobs : id[i] = i
  BY DEF Mapped
<1> HIDE DEF id
<1>2. DOMAIN jobs' = DOMAIN jobs /\ jobs' \in Seq(JobType)
  BY DEF Mapped
<1>3. /\ \A i, j \in DOMAIN jobs' : i # j => id[i] # id[j]
      /\ \A i \in DOMAIN jobs : HasAudio(jobs[i]) => \E j \in DOMAIN jobs' : id[j] = i
  BY <1>1, <1>2
<1>4. ASSUME NEW i \in DOMAIN jobs'
      PROVE  /\ SameJob(jobs[id[i]], jobs'[i])
             /\ jobs'[i].state = "completed" =>
                  jobs[id[i]].state = "completed" \/ (Processing(id[i]) /\ Import("worker"))
  <2>1. id[i] = i /\ i \in DOMAIN jobs
    BY <1>1, <1>2
  <2> QED
    BY <2>1 DEF Mapped
<1> QED
  BY <1>1, <1>2, <1>3, <1>4 DEF Kept

\* A queue that is left alone is kept.
LEMMA SameIsKept ==
  ASSUME QueueOK, UNCHANGED jobs
  PROVE  Mapped /\ Kept
<1>1. \A i \in DOMAIN jobs : jobs[i] \in JobType /\ Counted(jobs[i])
  BY ElementOfSeq, LenProperties DEF QueueOK
<1>2. Mapped
  BY <1>1 DEF Mapped, SameJob, QueueOK
<1> QED
  BY <1>2, MappedIsKept

\* The end of a transcription.
LEMMA EndedQueue ==
  ASSUME QueueOK, NEW t \in Transcriber,
         NEW outcome \in {"completed", "no_speech", "busy", "error"},
         End(t, outcome), outcome = "completed" => Import(t)
  PROVE  Kept
<1>1. CASE t = "worker"
  <2>1. Concludes(outcome)
    BY <1>1 DEF End, Concludes
  <2>2. /\ Mapped
        /\ \A i \in DOMAIN jobs : jobs'[i].state = "completed" =>
             jobs[i].state = "completed" \/ (Processing(i) /\ outcome = "completed")
    BY <2>1, ConcludedQueue
  <2> QED
    BY <1>1, <2>2, MappedIsKept
<1>2. CASE t # "worker"
  BY <1>2, SameIsKept DEF End
<1> QED
  BY <1>1, <1>2

\* Every step keeps the queue or admits a recording.
LEMMA QueueStep ==
  ASSUME QueueOK, Next, ~(\E c \in Capture : Admit(c))
  PROVE  Kept
<1>1. CASE Settings \/ Delete \/ Stray
  BY <1>1, SameIsKept DEF Settings, Enable, Disable, SetEngine, Stray, LateImport, LateDelete, Delete, DeleteLock, DeleteDatabase,
                          DeleteResults, DeleteAudio, DeleteMetadata, DeleteStops
<1>2. CASE Due
  BY <1>2, DueQueue, MappedIsKept
<1>3. CASE WorkerStart
  BY <1>3, ReplayedQueue, MappedIsKept
<1>4. CASE WorkerExit
  BY <1>4, SameIsKept DEF WorkerExit
<1>5. CASE Tick
  <2>0. \A i \in DOMAIN jobs : jobs[i] \in JobType /\ Counted(jobs[i])
    BY ElementOfSeq, LenProperties DEF QueueOK
  <2>1. /\ jobs' \in Seq(JobType)
        /\ \E at \in [DOMAIN jobs' -> DOMAIN jobs] :
              /\ \A i \in DOMAIN jobs' : jobs'[i] = jobs[at[i]]
              /\ \A i \in DOMAIN jobs : HasAudio(jobs[i]) => \E j \in DOMAIN jobs' : at[j] = i
              /\ \A i, j \in DOMAIN jobs' : i # j => at[i] # at[j]
    BY <1>5, PrunedQueue DEF Tick
  <2>2. PICK at \in [DOMAIN jobs' -> DOMAIN jobs] :
              /\ \A i \in DOMAIN jobs' : jobs'[i] = jobs[at[i]]
              /\ \A i \in DOMAIN jobs : HasAudio(jobs[i]) => \E j \in DOMAIN jobs' : at[j] = i
              /\ \A i, j \in DOMAIN jobs' : i # j => at[i] # at[j]
    BY <2>1
  <2>3. \A i \in DOMAIN jobs' :
            /\ SameJob(jobs[at[i]], jobs'[i])
            /\ jobs'[i].state = "completed" => jobs[at[i]].state = "completed"
    BY <2>0, <2>2 DEF SameJob
  <2> QED
    BY <2>1, <2>2, <2>3 DEF Kept
<1>6. CASE Take
  <2>1. CASE UNCHANGED jobs
    BY <2>1, SameIsKept
  <2>2. CASE \E i \in DOMAIN jobs :
               /\ Waiting(i)
               /\ jobs' = [jobs EXCEPT ![i].state = "processing", ![i].attempts = @ + 1]
    <3>1. PICK n \in DOMAIN jobs :
               /\ Waiting(n)
               /\ jobs' = [jobs EXCEPT ![n].state = "processing", ![n].attempts = @ + 1]
      BY <2>2
    <3>2. /\ Mapped /\ jobs'[n].state = "processing"
          /\ \A i \in DOMAIN jobs : i # n => jobs'[i] = jobs[i]
      BY <3>1, StartedQueue DEF Waiting
    <3> QED
      BY <3>2, MappedIsKept
  <2> QED
    BY <1>6, <2>1, <2>2 DEF Take
<1>7. CASE Interrupt
  <2>1. Concludes("busy")
    BY <1>7 DEF Interrupt, Concludes
  <2> QED
    BY <2>1, ConcludedQueue, MappedIsKept
<1>8. CASE \E c \in Capture : Publish(c) \/ ManualStart(c) \/ DeleteAsk(c)
  BY <1>8, SameIsKept DEF Publish, ManualStart, DeleteAsk
<1>9. ASSUME NEW t \in Transcriber, Transcribe(t) \/ TranscribeFails(t) \/ Dies(t)
      PROVE  Kept
  <2>1. CASE Inspect(t) \/ TakeLock(t) \/ Infer(t) \/ Dies(t)
    BY <2>1, SameIsKept DEF Inspect, TakeLock, Infer, Dies
  <2>2. CASE Busy(t)
    BY <2>2, EndedQueue DEF Busy
  <2>3. CASE NoSpeech(t)
    BY <2>3, EndedQueue DEF NoSpeech
  <2>4. CASE Import(t)
    <3>1. End(t, "completed")
      BY <2>4 DEF Import
    <3> QED
      BY <2>4, <3>1, EndedQueue
  <2>5. CASE TranscribeFails(t)
    BY <2>5, EndedQueue DEF TranscribeFails
  <2> QED
    BY <1>9, <2>1, <2>2, <2>3, <2>4, <2>5 DEF Transcribe
<1> QED
  BY <1>1, <1>2, <1>3, <1>4, <1>5, <1>6, <1>7, <1>8, <1>9 DEF Next, Worker

\* The counts of the jobs are kept.
LEMMA CountsStep ==
  ASSUME TypeOK, AttemptsCountErrors, Next
  PROVE  QueueOK'
<1>0. QueueOK
  BY QueueIsOK
<1>1. CASE \E c \in Capture : Admit(c)
  <2>0. \A i \in DOMAIN jobs : jobs[i] \in JobType /\ Counted(jobs[i])
    BY <1>0, ElementOfSeq, LenProperties DEF QueueOK
  <2>1. PICK c \in Capture : Admit(c)
    BY <1>1
  <2>2. /\ jobs' \in Seq(JobType)
        /\ \E n \in DOMAIN jobs' :
              /\ n \notin DOMAIN jobs /\ DOMAIN jobs' = DOMAIN jobs \cup {n}
              /\ \A i \in DOMAIN jobs : jobs'[i] = jobs[i]
              /\ jobs'[n].c = c /\ jobs'[n].state = "pending" /\ Counted(jobs'[n])
    BY <1>0, <2>1, AdmittedQueue
  <2>3. \A i \in DOMAIN jobs' : Counted(jobs'[i])
    BY <2>0, <2>2
  <2> QED
    BY <2>2, <2>3 DEF QueueOK, Counted
<1>2. CASE ~(\E c \in Capture : Admit(c))
  <2>1. Kept
    BY <1>0, <1>2, QueueStep
  <2>2. \A i \in DOMAIN jobs' : Counted(jobs'[i])
    BY <2>1 DEF Kept, SameJob
  <2> QED
    BY <2>1, <2>2 DEF QueueOK, Counted, Kept
<1> QED
  BY <1>1, <1>2

-----------------------------------------------------------------------------
(* The processes and the lock. *)

PCs      == {"down", "sleep", "scan", "inspect", "locking", "infer", "import"}
ProcType == [pc : PCs, c : Capture \cup {Free}, key : Key \cup {Free}]

\* Process t is now at pc with recording c and key k; the other did not move.
ProcIs(t, pc, c, k) ==
  /\ proc' \in [Transcriber -> ProcType]
  /\ \A u \in Transcriber : u # t => proc'[u] = proc[u]
  /\ proc'[t].pc = pc /\ proc'[t].c = c /\ proc'[t].key = k

\* A process that is given a new record.
LEMMA PlacedProc ==
  ASSUME TypeOK, NEW t \in Transcriber, NEW new \in ProcType, proc' = [proc EXCEPT ![t] = new]
  PROVE  ProcIs(t, new.pc, new.c, new.key)
<1>1. proc \in [Transcriber -> ProcType]
  BY DEF TypeOK, ProcType, PCs
<1> QED
  BY <1>1 DEF ProcIs

\* A process that only moves on.
LEMMA GoneProc ==
  ASSUME TypeOK, NEW t \in Transcriber, NEW pc \in PCs, Goto(t, pc)
  PROVE  ProcIs(t, pc, proc[t].c, proc[t].key)
<1>1. proc \in [Transcriber -> ProcType]
  BY DEF TypeOK, ProcType, PCs
<1>2. proc[t] \in ProcType
  BY <1>1
<1>3. LET new == [proc[t] EXCEPT !.pc = pc]
      IN  new \in ProcType /\ new.pc = pc /\ new.c = proc[t].c /\ new.key = proc[t].key
  BY <1>2 DEF ProcType
<1>4. proc' = [proc EXCEPT ![t] = [proc[t] EXCEPT !.pc = pc]]
  BY <1>1 DEF Goto
<1> QED
  BY <1>3, <1>4, PlacedProc

\* A transcriber stops, sleeps or scans, and has given up the lock.
Rests(t) ==
  /\ \E pc \in {"down", "sleep", "scan"}, k \in Key \cup {Free} :
       ProcIs(t, pc, Free, k) /\ (t = "manual" => pc = "down")
  /\ lock' = IF lock = t THEN Free ELSE lock

\* A transcriber begins with a recording.
Begins(t, c) ==
  /\ proc[t].pc \in {"down", "scan"}
  /\ c \in Capture /\ ProcIs(t, "inspect", c, Free)
  /\ UNCHANGED lock

\* A transcriber has its key.
Inspects(t) ==
  /\ proc[t].pc = "inspect"
  /\ \E k \in Key : /\ k[1] = Audio[proc[t].c] /\ k[2] = ProviderOf(t)
                     /\ ProcIs(t, "locking", proc[t].c, k)
  /\ UNCHANGED lock

\* A transcriber takes the lock.
Locks(t) ==
  /\ proc[t].pc = "locking" /\ lock = Free /\ lock' = t
  /\ ProcIs(t, "infer", proc[t].c, proc[t].key)

\* A transcriber goes on to the import.
Proceeds(t) ==
  /\ proc[t].pc = "infer" /\ ProcIs(t, "import", proc[t].c, proc[t].key)
  /\ UNCHANGED lock

Moves(t) == Rests(t) \/ (\E c \in Capture : Begins(t, c)) \/ Inspects(t) \/ Locks(t) \/ Proceeds(t)

\* A process that stops or sleeps.
LEMMA StoppedProc ==
  ASSUME TypeOK, NEW t \in Transcriber, NEW pc \in {"down", "sleep"},
         proc' = [proc EXCEPT ![t] = [Stopped EXCEPT !.pc = pc]]
  PROVE  ProcIs(t, pc, Free, Free)
<1>1. LET new == [Stopped EXCEPT !.pc = pc]
      IN  new \in ProcType /\ new.pc = pc /\ new.c = Free /\ new.key = Free
  BY DEF Stopped, ProcType, PCs
<1> QED
  BY <1>1, PlacedProc

\* The end of transcribe().
LEMMA EndedProc ==
  ASSUME TypeOK, NEW t \in Transcriber, NEW outcome, End(t, outcome)
  PROVE  Rests(t)
<1> DEFINE pc == IF t = "worker" THEN "sleep" ELSE "down"
<1>1. pc \in {"down", "sleep"} /\ (t = "manual" => pc = "down")
  OBVIOUS
<1>2. proc' = [proc EXCEPT ![t] = [Stopped EXCEPT !.pc = pc]]
  BY DEF End
<1> HIDE DEF pc
<1>3. ProcIs(t, pc, Free, Free)
  BY <1>1, <1>2, StoppedProc
<1> QED
  BY <1>1, <1>3 DEF Rests, End

\* A process that dies.
LEMMA DeadProc ==
  ASSUME TypeOK, NEW t \in Transcriber, proc' = [proc EXCEPT ![t] = Stopped],
         lock' = IF lock = t THEN Free ELSE lock
  PROVE  Rests(t)
<1>1. Stopped \in ProcType /\ Stopped.pc = "down" /\ Stopped.c = Free /\ Stopped.key = Free
  BY DEF Stopped, ProcType, PCs
<1>2. ProcIs(t, "down", Free, Free)
  BY <1>1, PlacedProc
<1> QED
  BY <1>2 DEF Rests

\* The worker between its jobs.
LEMMA IdleProc ==
  ASSUME TypeOK, ProcsOK, LockOK, NEW pc \in {"down", "sleep", "scan"}, Goto("worker", pc),
         proc["worker"].pc \in {"down", "sleep", "scan"}, UNCHANGED lock
  PROVE  Rests("worker")
<1>1. "worker" \in Transcriber /\ proc["worker"].key \in Key \cup {Free} /\ pc \in PCs
  BY DEF Transcriber, TypeOK, PCs
<1>2. proc["worker"].c = Free /\ lock # "worker"
  BY <1>1 DEF ProcsOK, LockOK, Active
<1>3. ProcIs("worker", pc, Free, proc["worker"].key)
  BY <1>1, <1>2, GoneProc
<1> QED
  BY <1>1, <1>2, <1>3 DEF Rests

\* The provider of a transcription is known when its key is computed.
LEMMA ProviderIsSet ==
  ASSUME TypeOK, InFlight, NEW t \in Transcriber, Inspect(t)
  PROVE  ProviderOf(t) \in Provider
<1>1. CASE t = "worker"
  <2>1. PICK i \in DOMAIN jobs : jobs[i].state = "processing"
    BY <1>1 DEF InFlight, Active, Processing, Inspect, At
  <2>2. jobs[i] \in Range(jobs)
    BY DEF Range
  <2>3. \A job \in Range(jobs) : job \in JobType
    BY ElementOfSeq, LenProperties DEF Range, TypeOK
  <2> DEFINE P(job) == job.state = "processing"
  <2>4. (CHOOSE job \in Range(jobs) : P(job)) \in Range(jobs)
    BY <2>1, <2>2
  <2> QED
    BY <1>1, <2>3, <2>4 DEF ProviderOf, JobType
<1>2. CASE t # "worker"
  BY <1>2 DEF ProviderOf, Inspect, TypeOK
<1> QED
  BY <1>1, <1>2

\* The process that computes its key.
LEMMA InspectedProc ==
  ASSUME TypeOK, ProcsOK, InFlight, NEW t \in Transcriber, Inspect(t)
  PROVE  Inspects(t)
<1> DEFINE k == <<Audio[proc[t].c], ProviderOf(t), engine.revision>>
           new == [proc[t] EXCEPT !.pc = "locking", !.key = k]
<1>1. proc \in [Transcriber -> ProcType] /\ proc[t] \in ProcType
  BY DEF TypeOK, ProcType, PCs
<1>2. proc[t].c \in Capture /\ proc[t].pc = "inspect"
  BY <1>1 DEF ProcsOK, Active, Inspect, At, ProcType
<1>3. k \in Key /\ k[1] = Audio[proc[t].c] /\ k[2] = ProviderOf(t)
  <2>1. Audio[proc[t].c] \in Digest
    BY <1>2, TranscriptionAssumption
  <2>2. engine.revision \in 0 .. MaxRevision
    BY DEF TypeOK
  <2> QED
    BY <2>1, <2>2, ProviderIsSet DEF Key
<1>4. proc' = [proc EXCEPT ![t] = new]
  BY <1>1 DEF Inspect
<1> HIDE DEF k
<1>5. new \in ProcType /\ new.pc = "locking" /\ new.c = proc[t].c /\ new.key = k
  BY <1>1, <1>3 DEF ProcType, PCs
<1> HIDE DEF new
<1>6. ProcIs(t, "locking", proc[t].c, k)
  BY <1>4, <1>5, PlacedProc
<1> QED
  BY <1>2, <1>3, <1>6 DEF Inspects, Inspect

\* A transcriber that is given a recording.
LEMMA BegunProc ==
  ASSUME TypeOK, NEW t \in Transcriber, NEW c \in Capture,
         proc' = [proc EXCEPT ![t] = [pc |-> "inspect", c |-> c, key |-> Free]],
         proc[t].pc \in {"down", "scan"}, UNCHANGED lock
  PROVE  Begins(t, c)
<1>1. LET new == [pc |-> "inspect", c |-> c, key |-> Free]
      IN  new \in ProcType /\ new.pc = "inspect" /\ new.c = c /\ new.key = Free
  BY DEF ProcType, PCs
<1> QED
  BY <1>1, PlacedProc DEF Begins

\* What Take does to the queue and to the worker.
LEMMA TakenJob ==
  ASSUME TypeOK, QueueOK, ProcsOK, LockOK, Take
  PROVE  \/ Rests("worker") /\ UNCHANGED jobs
         \/ \E n \in DOMAIN jobs :
              /\ Begins("worker", jobs[n].c) /\ Mapped /\ jobs'[n].state = "processing"
              /\ \A i \in DOMAIN jobs : i # n => jobs'[i] = jobs[i]
<1>0. UNCHANGED lock /\ proc["worker"].pc = "scan" /\ "worker" \in Transcriber
  BY DEF Take, At, Transcriber
<1>1. CASE Goto("worker", "sleep") /\ UNCHANGED jobs
  BY <1>0, <1>1, IdleProc
<1>2. CASE \E i \in DOMAIN jobs :
             /\ Waiting(i)
             /\ jobs' = [jobs EXCEPT ![i].state = "processing", ![i].attempts = @ + 1]
             /\ proc' = [proc EXCEPT !["worker"] = [pc |-> "inspect", c |-> jobs[i].c, key |-> Free]]
  <2>1. PICK n \in DOMAIN jobs :
             /\ Waiting(n)
             /\ jobs' = [jobs EXCEPT ![n].state = "processing", ![n].attempts = @ + 1]
             /\ proc' = [proc EXCEPT !["worker"] = [pc |-> "inspect", c |-> jobs[n].c, key |-> Free]]
    BY <1>2
  <2>2. /\ Mapped /\ jobs'[n].state = "processing"
        /\ \A i \in DOMAIN jobs : i # n => jobs'[i] = jobs[i]
    BY <2>1, StartedQueue DEF Waiting
  <2>3. jobs[n].c \in Capture
    <3>1. jobs[n] \in JobType
      BY ElementOfSeq, LenProperties DEF QueueOK
    <3> QED
      BY <3>1 DEF JobType
  <2>4. Begins("worker", jobs[n].c)
    BY <1>0, <2>1, <2>3, BegunProc
  <2> QED
    BY <2>2, <2>4
<1> QED
  BY <1>1, <1>2 DEF Take

\* The deletion is now at pc with recording c, results ks, and another copy or not.
DelIs(pc, c, ks, sh) == del'.pc = pc /\ del'.c = c /\ del'.keys = ks /\ del'.shared = sh

\* The deletion ends, or begins to ask.
LEMMA NoDel ==
  ASSUME del' = NoDeletion
  PROVE  DelIs("idle", Free, {}, FALSE)
BY DEF DelIs, NoDeletion

\* The deletion of c waits for the lock.
LEMMA AskedDel ==
  ASSUME NEW c \in Capture, DeleteAsk(c)
  PROVE  DelIs("locking", c, {}, FALSE) /\ UNCHANGED lock /\ del.pc = "idle"
BY DEF DeleteAsk, DelIs, NoDeletion, DeleteAt

Shared(c) == \E d \in Capture \ {c} : dir[d] = "complete" /\ Audio[d] = Audio[c]

\* The deletion has the lock and knows the results of its audio.
LEMMA LockedDel ==
  ASSUME TypeOK, DeleteLock
  PROVE  /\ del.pc = "locking" /\ lock = Free /\ lock' = "delete" /\ dir[del.c] = "complete"
         /\ DelIs(IF Shared(del.c) THEN "audio" ELSE "database", del.c,
                  {k \in Key : result[k] # NoResult /\ k[1] = Audio[del.c]}, Shared(del.c))
<1>1. ASSUME NEW sh, NEW p, NEW ks, del' = [del EXCEPT !.pc = p, !.shared = sh, !.keys = ks]
      PROVE  DelIs(p, del.c, ks, sh)
  BY <1>1 DEF TypeOK, DelIs
<1> DEFINE ks == {k \in Key : result[k] # NoResult /\ k[1] = Audio[del.c]}
           p  == IF Shared(del.c) THEN "audio" ELSE "database"
<1>2. del' = [del EXCEPT !.pc = p, !.shared = Shared(del.c), !.keys = ks]
  BY DEF DeleteLock, Shared
<1> HIDE DEF ks, p
<1>3. DelIs(p, del.c, ks, Shared(del.c))
  BY <1>1, <1>2
<1> QED
  BY <1>3 DEF DeleteLock, DeleteAt, ks, p

\* The deletion goes on to pc.
LEMMA GoneDel ==
  ASSUME TypeOK, NEW pc, del' = [del EXCEPT !.pc = pc]
  PROVE  DelIs(pc, del.c, del.keys, del.shared)
BY DEF TypeOK, DelIs

\* A result folder is gone.
LEMMA DroppedDel ==
  ASSUME TypeOK, NEW k, del' = [del EXCEPT !.keys = @ \ {k}]
  PROVE  DelIs(del.pc, del.c, del.keys \ {k}, del.shared)
BY DEF TypeOK, DelIs

\* A deletion holds the lock from DeleteLock until it ends.
DeletionMoves ==
  \/ /\ UNCHANGED lock
     /\ del'.pc \in Deleting <=> del.pc \in Deleting
     /\ del'.pc # "idle" => del'.c \in Capture
  \/ /\ lock = Free /\ lock' = "delete"
     /\ del'.pc \in Deleting /\ del'.c \in Capture
  \/ del'.pc = "idle" /\ lock' = (IF lock = "delete" THEN Free ELSE lock)

\* Every step of a deletion.
LEMMA DeletionStep ==
  ASSUME TypeOK, LockOK, Delete \/ \E c \in Capture : DeleteAsk(c)
  PROVE  DeletionMoves /\ UNCHANGED proc
<1>0. UNCHANGED proc
  BY DEF Delete, DeleteAsk, DeleteLock, DeleteDatabase, DeleteResults, DeleteAudio,
         DeleteMetadata, DeleteStops
<1>1. CASE \E c \in Capture : DeleteAsk(c)
  BY <1>0, <1>1, AskedDel DEF DeletionMoves, DelIs, Deleting
<1>2. CASE DeleteLock
  BY <1>0, <1>2, LockedDel DEF DeletionMoves, DelIs, Deleting, LockOK
<1>3. CASE DeleteDatabase
  <2>0. del.pc = "database" /\ del.c \in Capture /\ lock = "delete"
    BY <1>3 DEF DeleteDatabase, DeleteAt, LockOK, Deleting
  <2>1. CASE del' = [del EXCEPT !.pc = "results"] /\ UNCHANGED lock
    BY <1>0, <2>0, <2>1, GoneDel DEF DeletionMoves, DelIs, Deleting
  <2>2. CASE del' = NoDeletion /\ lock' = Free
    BY <1>0, <2>0, <2>2, NoDel DEF DeletionMoves, DelIs
  <2> QED
    BY <1>3, <2>1, <2>2 DEF DeleteDatabase
<1>4. CASE DeleteResults
  <2>0. del.pc = "results" /\ del.c \in Capture /\ UNCHANGED lock
    BY <1>4 DEF DeleteResults, DeleteAt, LockOK
  <2>1. CASE del' = [del EXCEPT !.pc = "audio"]
    BY <1>0, <2>0, <2>1, GoneDel DEF DeletionMoves, DelIs, Deleting
  <2>2. CASE \E k \in del.keys : del' = [del EXCEPT !.keys = @ \ {k}]
    BY <1>0, <2>0, <2>2, DroppedDel DEF DeletionMoves, DelIs, Deleting
  <2> QED
    BY <1>4, <2>1, <2>2 DEF DeleteResults
<1>5. CASE DeleteAudio
  <2>0. del.pc = "audio" /\ del.c \in Capture /\ UNCHANGED lock /\ del' = [del EXCEPT !.pc = "metadata"]
    BY <1>5 DEF DeleteAudio, DeleteAt, LockOK
  <2> QED
    BY <1>0, <2>0, GoneDel DEF DeletionMoves, DelIs, Deleting
<1>6. CASE DeleteMetadata
  <2>0. del.pc = "metadata" /\ lock = "delete" /\ lock' = Free /\ del' = NoDeletion
    BY <1>6 DEF DeleteMetadata, DeleteAt, LockOK, Deleting
  <2> QED
    BY <1>0, <2>0, NoDel DEF DeletionMoves, DelIs
<1>7. CASE DeleteStops
  BY <1>0, <1>7, NoDel DEF DeleteStops, DeletionMoves, DelIs
<1> QED
  BY <1>0, <1>1, <1>2, <1>3, <1>4, <1>5, <1>6, <1>7 DEF Delete

\* Every step is one of a transcriber, one of the deletion, or neither's.
LEMMA ProcStep ==
  ASSUME TypeOK, QueueOK, ProcsOK, LockOK, InFlight, Next
  PROVE  \/ \E t \in Transcriber : Moves(t) /\ UNCHANGED del
         \/ DeletionMoves /\ UNCHANGED proc
         \/ UNCHANGED <<proc, lock, del>>
<1>0. "worker" \in Transcriber /\ "manual" \in Transcriber
  BY DEF Transcriber
<1>1. CASE Settings \/ Due \/ Stray \/ \E c \in Capture : Publish(c) \/ Admit(c)
  BY <1>1 DEF Settings, Enable, Disable, SetEngine, Stray, LateImport, LateDelete, Due, Publish, Admit
<1>2. CASE Delete \/ \E c \in Capture : DeleteAsk(c)
  BY <1>2, DeletionStep
<1>3. CASE WorkerStart \/ WorkerExit \/ Tick
  <2>1. /\ UNCHANGED lock /\ UNCHANGED del
        /\ proc["worker"].pc \in {"down", "sleep", "scan"}
        /\ \E pc \in {"down", "sleep", "scan"} : Goto("worker", pc)
    BY <1>3 DEF WorkerStart, WorkerExit, Tick, At
  <2>2. Rests("worker")
    BY <2>1, IdleProc
  <2> QED
    BY <1>0, <2>1, <2>2 DEF Moves
<1>4. CASE Take
  <2>1. UNCHANGED del
    BY <1>4 DEF Take
  <2>2. Moves("worker")
    BY <1>4, TakenJob DEF Moves, Begins
  <2> QED
    BY <1>0, <2>1, <2>2
<1>5. CASE Interrupt
  <2>1. Rests("worker") /\ UNCHANGED del
    BY <1>0, <1>5, DeadProc DEF Interrupt
  <2> QED
    BY <1>0, <2>1 DEF Moves
<1>6. CASE \E c \in Capture : ManualStart(c)
  <2>1. PICK c \in Capture : ManualStart(c)
    BY <1>6
  <2>2. Begins("manual", c) /\ UNCHANGED del
    BY <1>0, <2>1, BegunProc DEF ManualStart, At
  <2> QED
    BY <1>0, <2>2 DEF Moves
<1>7. ASSUME NEW t \in Transcriber, Transcribe(t) \/ TranscribeFails(t) \/ Dies(t)
      PROVE  Moves(t) /\ UNCHANGED del
  <2>0. UNCHANGED del
    BY <1>7 DEF Transcribe, TranscribeFails, Dies, Inspect, TakeLock, Busy, Infer, NoSpeech, Import
  <2>1. CASE Inspect(t)
    BY <2>0, <2>1, InspectedProc DEF Moves
  <2>2. CASE TakeLock(t)
    BY <2>0, <2>2, GoneProc DEF Moves, Locks, TakeLock, At, PCs
  <2>3. CASE Infer(t)
    BY <2>0, <2>3, GoneProc DEF Moves, Proceeds, Infer, At, PCs
  <2>4. CASE \E outcome \in {"completed", "no_speech", "busy", "error"} : End(t, outcome)
    BY <2>0, <2>4, EndedProc DEF Moves
  <2>5. CASE Dies(t)
    BY <2>0, <2>5, DeadProc DEF Moves, Dies
  <2> QED
    BY <1>7, <2>1, <2>2, <2>3, <2>4, <2>5 DEF Transcribe, TranscribeFails, Busy, NoSpeech, Import
<1> QED
  BY <1>1, <1>2, <1>3, <1>4, <1>5, <1>6, <1>7 DEF Next, Worker

\* The processes keep what they rely on.
LEMMA ProcsStep ==
  ASSUME TypeOK, QueueOK, ProcsOK, LockOK, InFlight, Next
  PROVE  ProcsOK' /\ LockOK' /\ proc' \in [Transcriber -> ProcType]
<1>0. proc \in [Transcriber -> ProcType] /\ Free \notin Capture
      /\ Free \notin {"worker", "manual", "delete"} /\ Transcriber = {"worker", "manual"}
  BY TranscriptionAssumption DEF TypeOK, ProcType, PCs, Transcriber
<1>1. CASE UNCHANGED <<proc, lock, del>>
  BY <1>0, <1>1 DEF ProcsOK, LockOK
<1>2. CASE DeletionMoves /\ UNCHANGED proc
  <2>1. ProcsOK'
    BY <1>2 DEF ProcsOK
  <2>2. LockOK'
    BY <1>0, <1>2 DEF DeletionMoves, LockOK, Deleting
  <2> QED
    BY <1>0, <1>2, <2>1, <2>2
<1>3. ASSUME NEW t \in Transcriber, Moves(t), UNCHANGED del
      PROVE  ProcsOK' /\ LockOK' /\ proc' \in [Transcriber -> ProcType]
  <2>1. CASE Rests(t)
    <3>1. PICK pc \in {"down", "sleep", "scan"}, k \in Key \cup {Free} :
             ProcIs(t, pc, Free, k) /\ (t = "manual" => pc = "down")
      BY <2>1 DEF Rests
    <3>2. ProcsOK'
      BY <1>0, <3>1 DEF ProcsOK, ProcIs, Active
    <3>3. LockOK'
      BY <1>0, <1>3, <2>1, <3>1 DEF LockOK, ProcIs, Rests
    <3> QED
      BY <3>1, <3>2, <3>3 DEF ProcIs
  <2>2. CASE \E c \in Capture : Begins(t, c)
    <3>1. PICK c \in Capture : Begins(t, c)
      BY <2>2
    <3>2. ProcsOK'
      BY <1>0, <3>1 DEF ProcsOK, ProcIs, Active, Begins
    <3>3. LockOK'
      BY <1>0, <1>3, <3>1 DEF LockOK, ProcIs, Begins
    <3> QED
      BY <3>1, <3>2, <3>3 DEF ProcIs, Begins
  <2>3. CASE Inspects(t)
    <3>1. PICK k \in Key : k[1] = Audio[proc[t].c] /\ ProcIs(t, "locking", proc[t].c, k)
      BY <2>3 DEF Inspects
    <3>2. ProcsOK'
      BY <1>0, <2>3, <3>1 DEF ProcsOK, ProcIs, Active, Inspects
    <3>3. LockOK'
      BY <1>0, <1>3, <2>3, <3>1 DEF LockOK, ProcIs, Inspects
    <3> QED
      BY <3>1, <3>2, <3>3 DEF ProcIs
  <2>4. CASE Locks(t)
    <3>2. ProcsOK'
      BY <1>0, <2>4 DEF ProcsOK, ProcIs, Active, Locks
    <3>3. LockOK'
      BY <1>0, <1>3, <2>4 DEF LockOK, ProcIs, Locks
    <3> QED
      BY <2>4, <3>2, <3>3 DEF ProcIs, Locks
  <2>5. CASE Proceeds(t)
    <3>2. ProcsOK'
      BY <1>0, <2>5 DEF ProcsOK, ProcIs, Active, Proceeds
    <3>3. LockOK'
      BY <1>0, <1>3, <2>5 DEF LockOK, ProcIs, Proceeds
    <3> QED
      BY <2>5, <3>2, <3>3 DEF ProcIs, Proceeds
  <2> QED
    BY <1>3, <2>1, <2>2, <2>3, <2>4, <2>5 DEF Moves
<1> QED
  BY <1>1, <1>2, <1>3, ProcStep

-----------------------------------------------------------------------------
(* The job in flight. *)

\* The part of InFlight that says which job is processing.
WorkersJob ==
  /\ \A i, j \in DOMAIN jobs : Processing(i) /\ Processing(j) => i = j
  /\ proc["worker"].pc \in {"sleep", "scan"} => \A i \in DOMAIN jobs : ~Processing(i)
  /\ proc["worker"].pc \in Active =>
       \E i \in DOMAIN jobs : Processing(i) /\ jobs[i].c = proc["worker"].c

\* The worker rests and no job is in flight any more.
LEMMA NothingInFlight ==
  ASSUME Rests("worker"), \A i \in DOMAIN jobs' : jobs'[i].state # "processing"
  PROVE  WorkersJob'
<1>1. proc'["worker"].pc \in {"down", "sleep", "scan"}
  BY DEF Rests, ProcIs
<1> QED
  BY <1>1 DEF WorkersJob, Processing, Active

\* The worker goes on with its job, or stays where it is.
LEMMA StillInFlight ==
  ASSUME InFlight, Mapped, \A i \in DOMAIN jobs : jobs'[i].state = jobs[i].state,
         \/ proc'["worker"] = proc["worker"]
         \/ /\ proc["worker"].pc \in Active /\ proc'["worker"].pc \in Active
            /\ proc'["worker"].c = proc["worker"].c
  PROVE  WorkersJob'
<1>1. /\ DOMAIN jobs' = DOMAIN jobs
      /\ \A i \in DOMAIN jobs : jobs'[i].c = jobs[i].c
  BY DEF Mapped, SameJob
<1>2. \A i, j \in DOMAIN jobs' : jobs'[i].state = "processing" /\ jobs'[j].state = "processing" => i = j
  BY <1>1 DEF InFlight, Processing
<1>3. proc'["worker"].pc \in {"sleep", "scan"} =>
        \A i \in DOMAIN jobs' : jobs'[i].state # "processing"
  BY <1>1 DEF InFlight, Processing, Active
<1>4. proc'["worker"].pc \in Active =>
        \E i \in DOMAIN jobs' : jobs'[i].state = "processing" /\ jobs'[i].c = proc'["worker"].c
  BY <1>1 DEF InFlight, Processing
<1> QED
  BY <1>2, <1>3, <1>4 DEF WorkersJob, Processing

\* A step of the worker's transcription.
LEMMA WorkerTranscribes ==
  ASSUME TypeOK, QueueOK, ProcsOK, LockOK, InFlight,
         Transcribe("worker") \/ TranscribeFails("worker") \/ Dies("worker") \/ Interrupt
  PROVE  WorkersJob'
<1>0. "worker" \in Transcriber
  BY DEF Transcriber
<1>1. CASE Inspect("worker")
  <2>1. UNCHANGED jobs /\ Inspects("worker")
    BY <1>0, <1>1, InspectedProc DEF Inspect
  <2> QED
    BY <2>1, SameIsKept, StillInFlight DEF Inspects, ProcIs, Active
<1>2. CASE TakeLock("worker")
  <2>1. UNCHANGED jobs /\ proc["worker"].pc = "locking"
        /\ ProcIs("worker", "infer", proc["worker"].c, proc["worker"].key)
    BY <1>0, <1>2, GoneProc DEF TakeLock, PCs, At
  <2> QED
    BY <2>1, SameIsKept, StillInFlight DEF ProcIs, Active
<1>3. CASE Infer("worker")
  <2>1. UNCHANGED jobs /\ proc["worker"].pc = "infer"
        /\ ProcIs("worker", "import", proc["worker"].c, proc["worker"].key)
    BY <1>0, <1>3, GoneProc DEF Infer, PCs, At
  <2> QED
    BY <2>1, SameIsKept, StillInFlight DEF ProcIs, Active
<1>4. CASE \E outcome \in {"completed", "no_speech", "busy", "error"} : End("worker", outcome)
  <2>1. PICK outcome \in {"completed", "no_speech", "busy", "error"} : End("worker", outcome)
    BY <1>4
  <2>2. Concludes(outcome)
    BY <2>1 DEF End, Concludes
  <2>3. Mapped /\ \A i \in DOMAIN jobs : jobs'[i].state # "processing"
    BY <2>2, ConcludedQueue
  <2>4. Rests("worker")
    BY <1>0, <2>1, EndedProc
  <2> QED
    BY <2>3, <2>4, NothingInFlight DEF Mapped
<1>5. CASE Interrupt
  <2>1. Concludes("busy") /\ Rests("worker")
    BY <1>0, <1>5, DeadProc DEF Interrupt, Concludes
  <2>2. Mapped /\ \A i \in DOMAIN jobs : jobs'[i].state # "processing"
    BY <2>1, ConcludedQueue
  <2> QED
    BY <2>1, <2>2, NothingInFlight DEF Mapped
<1>6. CASE Dies("worker")
  <2>1. UNCHANGED jobs /\ proc' = [proc EXCEPT !["worker"] = Stopped]
    BY <1>6 DEF Dies
  <2>2. proc'["worker"].pc = "down"
    BY <1>0, <2>1 DEF TypeOK, Stopped
  <2> QED
    BY <2>1, <2>2 DEF WorkersJob, InFlight, Processing, Active
<1> QED
  BY <1>1, <1>2, <1>3, <1>4, <1>5, <1>6 DEF Transcribe, TranscribeFails, Busy, NoSpeech, Import

\* Which job is in flight, after any step.
LEMMA WorkersJobStep ==
  ASSUME TypeOK, QueueOK, ProcsOK, LockOK, InFlight, Next
  PROVE  WorkersJob'
<1>0. "worker" \in Transcriber
  BY DEF Transcriber
<1>1. CASE UNCHANGED jobs /\ proc'["worker"] = proc["worker"]
  BY <1>1, SameIsKept, StillInFlight
<1>2. CASE Settings \/ Delete \/ Stray
  BY <1>1, <1>2 DEF Settings, Enable, Disable, SetEngine, Stray, LateImport, LateDelete, Delete, DeleteLock, DeleteDatabase,
                    DeleteResults, DeleteAudio, DeleteMetadata, DeleteStops
<1>3. CASE \E c \in Capture : Publish(c) \/ ManualStart(c) \/ DeleteAsk(c)
  BY <1>0, <1>1, <1>3 DEF Publish, ManualStart, DeleteAsk, TypeOK
<1>4. CASE Due
  BY <1>4, DueQueue, StillInFlight DEF Due
<1>5. CASE WorkerStart
  <2>1. Rests("worker")
    BY <1>5, IdleProc DEF WorkerStart, At
  <2>2. Mapped /\ \A i \in DOMAIN jobs : jobs'[i].state # "processing"
    BY <1>5, ReplayedQueue
  <2> QED
    BY <2>1, <2>2, NothingInFlight DEF Mapped
<1>6. CASE WorkerExit
  <2>1. Rests("worker") /\ UNCHANGED jobs
    BY <1>6, IdleProc DEF WorkerExit, At
  <2>2. \A i \in DOMAIN jobs : jobs[i].state # "processing"
    BY <1>6 DEF InFlight, WorkerExit, At, Processing
  <2> QED
    BY <2>1, <2>2, NothingInFlight
<1>7. CASE Tick
  <2>1. Rests("worker")
    BY <1>7, IdleProc DEF Tick, At
  <2>2. \A i \in DOMAIN jobs : jobs[i].state # "processing"
    BY <1>7 DEF InFlight, Tick, At, Processing
  <2>3. \E at \in [DOMAIN jobs' -> DOMAIN jobs] : \A i \in DOMAIN jobs' : jobs'[i] = jobs[at[i]]
    BY <1>7, PrunedQueue DEF Tick
  <2>4. \A i \in DOMAIN jobs' : jobs'[i].state # "processing"
    BY <2>2, <2>3
  <2> QED
    BY <2>1, <2>4, NothingInFlight
<1>8. CASE Take
  <2>0. \A i \in DOMAIN jobs : jobs[i].state # "processing"
    BY <1>8 DEF InFlight, Take, At, Processing
  <2>1. CASE Rests("worker") /\ UNCHANGED jobs
    BY <2>0, <2>1, NothingInFlight
  <2>2. CASE \E n \in DOMAIN jobs :
              /\ Begins("worker", jobs[n].c) /\ Mapped /\ jobs'[n].state = "processing"
              /\ \A i \in DOMAIN jobs : i # n => jobs'[i] = jobs[i]
    <3>1. PICK n \in DOMAIN jobs :
              /\ Begins("worker", jobs[n].c) /\ Mapped /\ jobs'[n].state = "processing"
              /\ \A i \in DOMAIN jobs : i # n => jobs'[i] = jobs[i]
      BY <2>2
    <3>2. /\ proc'["worker"].pc = "inspect" /\ proc'["worker"].c = jobs[n].c
          /\ n \in DOMAIN jobs' /\ jobs'[n].c = jobs[n].c
          /\ \A i \in DOMAIN jobs' : jobs'[i].state = "processing" => i = n
      BY <2>0, <3>1 DEF Begins, ProcIs, Mapped, SameJob
    <3> QED
      BY <3>1, <3>2 DEF WorkersJob, Processing, Active
  <2> QED
    BY <1>8, <2>1, <2>2, TakenJob
<1>9. CASE \E c \in Capture : Admit(c)
  <2>1. PICK c \in Capture : Admit(c)
    BY <1>9
  <2>2. PICK n \in DOMAIN jobs' :
              /\ n \notin DOMAIN jobs /\ DOMAIN jobs' = DOMAIN jobs \cup {n}
              /\ \A i \in DOMAIN jobs : jobs'[i] = jobs[i]
              /\ jobs'[n].c = c /\ jobs'[n].state = "pending" /\ Counted(jobs'[n])
    BY <2>1, AdmittedQueue
  <2>3. proc' = proc
    BY <2>1 DEF Admit
  <2> QED
    BY <2>2, <2>3 DEF WorkersJob, InFlight, Processing
<1>10. CASE Transcribe("worker") \/ TranscribeFails("worker") \/ Dies("worker") \/ Interrupt
  BY <1>10, WorkerTranscribes
<1>11. CASE Transcribe("manual") \/ TranscribeFails("manual") \/ Dies("manual")
  <2>1. UNCHANGED jobs
    BY <1>11 DEF Transcribe, TranscribeFails, Busy, NoSpeech, Import, Inspect, TakeLock, Infer, Dies, End
  <2>2. proc'["worker"] = proc["worker"]
    BY <1>0, <1>11 DEF Transcribe, TranscribeFails, Busy, NoSpeech, Import, Inspect, TakeLock, Infer,
                       Dies, End, Goto, TypeOK
  <2> QED
    BY <1>1, <2>1, <2>2
<1> QED
  BY <1>2, <1>3, <1>4, <1>5, <1>6, <1>7, <1>8, <1>9, <1>10, <1>11 DEF Next, Worker, Transcriber

\* At most one job is in flight, and a recording has one job.
LEMMA InFlightStep ==
  ASSUME TypeOK, QueueOK, ProcsOK, LockOK, InFlight, Next
  PROVE  InFlight'
<1>1. \A i, j \in DOMAIN jobs' : i # j => jobs'[i].c # jobs'[j].c
  <2>1. CASE \E c \in Capture : Admit(c)
    <3>1. PICK c \in Capture : Admit(c)
      BY <2>1
    <3>2. PICK n \in DOMAIN jobs' :
              /\ n \notin DOMAIN jobs /\ DOMAIN jobs' = DOMAIN jobs \cup {n}
              /\ \A i \in DOMAIN jobs : jobs'[i] = jobs[i]
              /\ jobs'[n].c = c /\ jobs'[n].state = "pending" /\ Counted(jobs'[n])
      BY <3>1, AdmittedQueue
    <3>3. \A i \in DOMAIN jobs : jobs[i].c # c
      BY <3>1 DEF Admit, Admissible, Queued
    <3> QED
      BY <3>2, <3>3 DEF InFlight
  <2>2. CASE ~(\E c \in Capture : Admit(c))
    <3>1. Kept
      BY <2>2, QueueStep
    <3>2. PICK at \in [DOMAIN jobs' -> DOMAIN jobs] :
            /\ \A i, j \in DOMAIN jobs' : i # j => at[i] # at[j]
            /\ \A i \in DOMAIN jobs' : SameJob(jobs[at[i]], jobs'[i])
      BY <3>1 DEF Kept
    <3> QED
      BY <3>2 DEF InFlight, SameJob
  <2> QED
    BY <2>1, <2>2
<1> QED
  BY <1>1, WorkersJobStep DEF InFlight, WorkersJob

-----------------------------------------------------------------------------
(* The results and the conversations. *)

ResultType ==
  [stage : {"none", "manifest", "speech", "silence"}, c : Capture \cup {Free}, imported : BOOLEAN]

\* Only the result of k changes; its stage is now s.
ResultIs(k, s) ==
  /\ result' \in [Key -> ResultType]
  /\ \A l \in Key : l # k => result'[l] = result[l]
  /\ result'[k].stage = s

\* One result is replaced.
LEMMA PlacedResult ==
  ASSUME TypeOK, NEW k \in Key, NEW new \in ResultType, result' = [result EXCEPT ![k] = new]
  PROVE  ResultIs(k, new.stage) /\ result'[k] = new
<1>1. result \in [Key -> ResultType]
  BY DEF TypeOK, ResultType
<1> QED
  BY <1>1 DEF ResultIs

\* A transcriber that holds the lock, or is about to take it.
LEMMA KeyIsSet ==
  ASSUME TypeOK, ProcsOK, NEW t \in Transcriber, proc[t].pc \in {"locking", "infer", "import"}
  PROVE  /\ proc[t].key \in Key /\ proc[t].c \in Capture /\ proc[t].key[1] = Audio[proc[t].c]
         /\ result[proc[t].key] \in ResultType
<1>1. proc[t].key \in Key /\ proc[t].c # Free /\ proc[t].key[1] = Audio[proc[t].c]
  BY DEF ProcsOK, Active
<1>2. result \in [Key -> ResultType] /\ proc[t].c \in Capture \cup {Free}
  BY DEF TypeOK, ResultType
<1> QED
  BY <1>1, <1>2

\* What taking the lock does to the results.
LEMMA TakenResult ==
  ASSUME TypeOK, ProcsOK, NEW t \in Transcriber, TakeLock(t)
  PROVE  \/ UNCHANGED result
         \/ ResultIs(proc[t].key, "manifest") /\ result[proc[t].key] = NoResult
<1> DEFINE k   == proc[t].key
           new == [NoResult EXCEPT !.stage = "manifest", !.c = proc[t].c]
<1>1. k \in Key /\ proc[t].c \in Capture /\ result[k] \in ResultType
  BY KeyIsSet DEF TakeLock, At
<1>2. result \in [Key -> ResultType]
  BY DEF TypeOK, ResultType
<1>3. CASE result[k] = NoResult
  <2>1. result' = [result EXCEPT ![k] = new]
    BY <1>1, <1>2, <1>3 DEF TakeLock
  <2>2. new \in ResultType /\ new.stage = "manifest"
    BY <1>1 DEF ResultType, NoResult
  <2> HIDE DEF new
  <2>3. ResultIs(k, new.stage)
    BY <1>1, <2>1, <2>2, PlacedResult
  <2> QED
    BY <1>3, <2>2, <2>3
<1>4. CASE result[k] # NoResult
  <2>1. result' = [result EXCEPT ![k] = result[k]]
    BY <1>1, <1>2, <1>4 DEF TakeLock
  <2> QED
    BY <1>1, <1>2, <2>1
<1> QED
  BY <1>3, <1>4

\* What an inference does to the results.
LEMMA InferredResult ==
  ASSUME TypeOK, ProcsOK, NEW t \in Transcriber, Infer(t)
  PROVE  \/ UNCHANGED result
         \/ /\ Stage(t) = "manifest" /\ dir[proc[t].c] = "complete"
            /\ \E s \in {"speech", "silence"} : ResultIs(proc[t].key, s)
<1> DEFINE k == proc[t].key
<1>1. k \in Key /\ result[k] \in ResultType
  BY KeyIsSet DEF Infer, At
<1>2. result \in [Key -> ResultType]
  BY DEF TypeOK, ResultType
<1>3. CASE Stage(t) = "manifest" /\ dir[proc[t].c] = "complete"
           /\ \E s \in {"speech", "silence"} : result' = [result EXCEPT ![k].stage = s]
  <2>1. PICK s \in {"speech", "silence"} : result' = [result EXCEPT ![k].stage = s]
    BY <1>3
  <2> DEFINE new == [result[k] EXCEPT !.stage = s]
  <2>2. result' = [result EXCEPT ![k] = new]
    BY <1>1, <1>2, <2>1
  <2>3. new \in ResultType /\ new.stage = s
    BY <1>1 DEF ResultType
  <2> HIDE DEF new
  <2>4. ResultIs(k, s)
    BY <1>1, <2>2, <2>3, PlacedResult
  <2> QED
    BY <1>3, <2>4
<1> QED
  BY <1>3 DEF Infer

\* An import leaves the stage of the result.
LEMMA ImportedResult ==
  ASSUME TypeOK, ProcsOK, NEW t \in Transcriber, Import(t)
  PROVE  /\ ResultIs(proc[t].key, "speech") /\ result[proc[t].key].stage = "speech"
         /\ conv' = conv \cup {proc[t].key}
<1> DEFINE k   == proc[t].key
           new == [result[k] EXCEPT !.imported = TRUE]
<1>1. k \in Key /\ result[k] \in ResultType
  BY KeyIsSet DEF Import, At
<1>2. result \in [Key -> ResultType] /\ result[k].stage = "speech" /\ conv' = conv \cup {k}
  BY DEF TypeOK, ResultType, Import, Stage, Committed
<1>3. result' = [result EXCEPT ![k] = new]
  BY <1>1, <1>2 DEF Import
<1>4. new \in ResultType /\ new.stage = "speech"
  BY <1>1, <1>2 DEF ResultType
<1> HIDE DEF new
<1>5. ResultIs(k, new.stage)
  BY <1>1, <1>3, <1>4, PlacedResult
<1> QED
  BY <1>2, <1>4, <1>5

\* A deleted result.
LEMMA DroppedResult ==
  ASSUME TypeOK, NEW k \in Key, result' = [result EXCEPT ![k] = NoResult]
  PROVE  ResultIs(k, "none") /\ result'[k] = NoResult
<1>1. NoResult \in ResultType /\ NoResult.stage = "none"
  BY DEF NoResult, ResultType
<1> QED
  BY <1>1, PlacedResult

\* The results in every step: only the holder of the lock writes them.
ResultMoves ==
  \/ UNCHANGED result
  \/ \E t \in Transcriber :
       /\ lock \in {Free, t} /\ proc[t].key \in Key /\ proc[t].c \in Capture
       /\ proc[t].key[1] = Audio[proc[t].c]
       /\ \/ ResultIs(proc[t].key, "manifest") /\ result[proc[t].key] = NoResult
          \/ /\ Stage(t) = "manifest" /\ dir[proc[t].c] = "complete"
             /\ \E s \in {"speech", "silence"} : ResultIs(proc[t].key, s)
          \/ ResultIs(proc[t].key, "speech") /\ result[proc[t].key].stage = "speech"
  \/ /\ DeleteResults
     /\ \E k \in del.keys : /\ ResultIs(k, "none") /\ result'[k] = NoResult
                            /\ del' = [del EXCEPT !.keys = @ \ {k}]

\* The conversations in every step.
ConvMoves ==
  \/ conv \subseteq conv' /\ Regular' = Regular /\ conv' \ conv \subseteq imports
  \/ \E t \in Transcriber :
       /\ lock = t /\ proc[t].key \in Key /\ proc[t].c \in Capture
       /\ proc[t].key[1] = Audio[proc[t].c]
       /\ result[proc[t].key].stage = "speech"
       /\ conv' = conv \cup {proc[t].key} /\ Regular' = Regular \cup {proc[t].key}
  \/ /\ DeleteDatabase /\ conv' \subseteq conv /\ conv \ conv' \subseteq del.keys
     /\ Regular' \subseteq Regular
  \/ \E k \in Key : LateDelete(k) /\ conv' \subseteq conv /\ Regular' \subseteq Regular

\* A transcriber that holds the lock.
LEMMA HolderOf ==
  ASSUME LockOK, NEW t \in Transcriber, proc[t].pc \in {"infer", "import"}
  PROVE  lock = t
BY DEF LockOK

\* Every step moves the results as above.
LEMMA ResultStep ==
  ASSUME TypeOK, ProcsOK, LockOK, Next
  PROVE  ResultMoves
<1>1. CASE Settings \/ Worker \/ Due \/ Stray
           \/ \E c \in Capture : Publish(c) \/ ManualStart(c) \/ DeleteAsk(c)
  BY <1>1 DEF Settings, Enable, Disable, SetEngine, Stray, LateImport, LateDelete, Worker, WorkerStart, WorkerExit, Tick, Take,
              Interrupt, Admit, Due, Publish, ManualStart, DeleteAsk, ResultMoves
<1>2. CASE Delete
  <2>1. CASE DeleteResults
    <3>1. CASE \E k \in del.keys : /\ result' = [result EXCEPT ![k] = NoResult]
                                   /\ del' = [del EXCEPT !.keys = @ \ {k}]
      <4>1. PICK k \in del.keys : /\ result' = [result EXCEPT ![k] = NoResult]
                                  /\ del' = [del EXCEPT !.keys = @ \ {k}]
        BY <3>1
      <4>2. k \in Key
        BY DEF TypeOK
      <4>3. ResultIs(k, "none") /\ result'[k] = NoResult
        BY <4>1, <4>2, DroppedResult
      <4> QED
        BY <2>1, <4>1, <4>3 DEF ResultMoves
    <3> QED
      BY <2>1, <3>1 DEF DeleteResults, ResultMoves
  <2> QED
    BY <1>2, <2>1 DEF Delete, DeleteLock, DeleteDatabase, DeleteAudio, DeleteMetadata, DeleteStops,
                      ResultMoves
<1>3. ASSUME NEW t \in Transcriber, Transcribe(t) \/ TranscribeFails(t) \/ Dies(t)
      PROVE  ResultMoves
  <2>1. CASE UNCHANGED result
    BY <2>1 DEF ResultMoves
  <2>2. CASE TakeLock(t)
    <3>1. /\ proc[t].key \in Key /\ proc[t].c \in Capture /\ lock = Free
          /\ proc[t].key[1] = Audio[proc[t].c]
      BY <2>2, KeyIsSet DEF TakeLock, At
    <3> QED
      BY <2>1, <2>2, <3>1, TakenResult DEF ResultMoves
  <2>3. CASE Infer(t)
    <3>1. /\ proc[t].key \in Key /\ proc[t].c \in Capture /\ lock = t
          /\ proc[t].key[1] = Audio[proc[t].c]
      BY <2>3, KeyIsSet, HolderOf DEF Infer, At
    <3> QED
      BY <2>1, <2>3, <3>1, InferredResult DEF ResultMoves
  <2>4. CASE Import(t)
    <3>1. /\ proc[t].key \in Key /\ proc[t].c \in Capture /\ lock = t
          /\ proc[t].key[1] = Audio[proc[t].c]
      BY <2>4, KeyIsSet, HolderOf DEF Import, At
    <3> QED
      BY <2>4, <3>1, ImportedResult DEF ResultMoves
  <2> QED
    BY <1>3, <2>1, <2>2, <2>3, <2>4 DEF Transcribe, TranscribeFails, Dies, Busy, NoSpeech, Inspect
<1> QED
  BY <1>1, <1>2, <1>3 DEF Next

\* No conversation comes or goes.
LEMMA SameConv ==
  ASSUME UNCHANGED <<conv, late>>
  PROVE  ConvMoves
BY DEF ConvMoves, Regular

\* An import that may or may not have been committed.
LEMMA MaybeConv ==
  ASSUME TypeOK, ProcsOK, LockOK, NEW t \in Transcriber,
         \/ MaybeImported(t)
         \/ At(t, "import") /\ Stage(t) = "speech" /\ Committed(proc[t].key)
  PROVE  ConvMoves
<1>1. CASE UNCHANGED <<conv, late>>
  BY <1>1, SameConv
<1>2. CASE At(t, "import") /\ Stage(t) = "speech" /\ Committed(proc[t].key)
  <2>1. /\ proc[t].key \in Key /\ proc[t].c \in Capture /\ lock = t
        /\ proc[t].key[1] = Audio[proc[t].c]
    BY <1>2, KeyIsSet, HolderOf DEF At
  <2>2. conv' = conv \cup {proc[t].key} /\ Regular' = Regular \cup {proc[t].key}
    BY <1>2 DEF Committed, Regular
  <2> QED
    BY <1>2, <2>1, <2>2 DEF ConvMoves, Stage
<1> QED
  BY <1>1, <1>2 DEF MaybeImported

\* Every step moves the conversations as above.
LEMMA ConvStep ==
  ASSUME TypeOK, ProcsOK, LockOK, Next
  PROVE  ConvMoves
<1>1. CASE Settings \/ Due \/ WorkerStart \/ WorkerExit \/ Tick \/ Take
           \/ \E c \in Capture : Publish(c) \/ ManualStart(c) \/ DeleteAsk(c) \/ Admit(c)
  <2>1. UNCHANGED <<conv, late>>
    BY <1>1 DEF Settings, Enable, Disable, SetEngine, WorkerStart, WorkerExit, Tick, Take,
                Admit, Due, Publish, ManualStart, DeleteAsk, strays
  <2> QED
    BY <2>1, SameConv
<1>2. CASE Delete
  <2>1. CASE DeleteDatabase
    <3>1. \/ conv' = conv \ del.keys
          \/ \E some \in SUBSET del.keys : conv' = conv \ some
      BY <2>1 DEF DeleteDatabase
    <3>2. conv' \subseteq conv /\ conv \ conv' \subseteq del.keys
      BY <3>1
    <3>3. late' = late \cap conv'
      BY <2>1 DEF DeleteDatabase
    <3>4. Regular' \subseteq Regular
      BY <3>2, <3>3 DEF Regular
    <3> QED
      BY <2>1, <3>2, <3>4 DEF ConvMoves
  <2>2. CASE ~DeleteDatabase
    <3>1. UNCHANGED <<conv, late>>
      BY <1>2, <2>2 DEF Delete, DeleteLock, DeleteResults, DeleteAudio, DeleteMetadata, DeleteStops,
                        strays
    <3> QED
      BY <3>1, SameConv
  <2> QED
    BY <2>1, <2>2
<1>3. CASE Interrupt
  <2>1. "worker" \in Transcriber
    BY DEF Transcriber
  <2> QED
    BY <1>3, <2>1, MaybeConv DEF Interrupt
<1>4. ASSUME NEW t \in Transcriber, Transcribe(t) \/ TranscribeFails(t) \/ Dies(t)
      PROVE  ConvMoves
  <2>1. CASE UNCHANGED <<conv, late>>
    BY <2>1, SameConv
  <2>2. CASE Import(t)
    BY <2>2, MaybeConv DEF Import
  <2>3. CASE TranscribeFails(t) \/ Dies(t)
    BY <2>1, <2>3, MaybeConv DEF TranscribeFails, Dies
  <2> QED
    BY <1>4, <2>1, <2>2, <2>3 DEF Transcribe, Busy, NoSpeech, Inspect, TakeLock, Infer, strays
<1>5. CASE Stray
  <2>1. PICK k \in Key : LateImport(k) \/ LateDelete(k)
    BY <1>5 DEF Stray
  <2>2. CASE LateImport(k)
    <3>1. conv' = conv \cup {k} /\ late' = late \cup {k} /\ k \notin conv /\ k \in imports
      BY <2>2 DEF LateImport
    <3>2. Regular' = Regular
      BY <3>1 DEF Regular
    <3> QED
      BY <3>1, <3>2 DEF ConvMoves
  <2>3. CASE LateDelete(k)
    <3>1. conv' = conv \ {k} /\ late' = late \ {k}
      BY <2>3 DEF LateDelete
    <3>2. Regular' \subseteq Regular
      BY <3>1 DEF Regular
    <3> QED
      BY <2>3, <3>1, <3>2 DEF ConvMoves
  <2> QED
    BY <2>1, <2>2, <2>3
<1> QED
  BY <1>1, <1>2, <1>3, <1>4, <1>5 DEF Next, Worker

\* The strays keep their types.
LEMMA StrayStep ==
  ASSUME TypeOK, ProcsOK, LockOK, Next
  PROVE  imports' \subseteq Key /\ deletes' \subseteq Key /\ late' \subseteq Key
<1>0. imports \subseteq Key /\ deletes \subseteq Key /\ late \subseteq Key /\ del.keys \subseteq Key
  BY DEF TypeOK
<1>1. CASE UNCHANGED strays
  BY <1>0, <1>1 DEF strays
<1>2. CASE Settings \/ Due \/ WorkerStart \/ WorkerExit \/ Tick \/ Take
           \/ \E c \in Capture : Publish(c) \/ ManualStart(c) \/ DeleteAsk(c) \/ Admit(c)
  BY <1>1, <1>2 DEF Settings, Enable, Disable, SetEngine, WorkerStart, WorkerExit, Tick, Take,
                    Admit, Due, Publish, ManualStart, DeleteAsk
<1>3. CASE Delete
  <2>1. CASE DeleteDatabase
    BY <1>0, <2>1 DEF DeleteDatabase
  <2>2. CASE DeleteStops
    BY <1>0, <2>2 DEF DeleteStops
  <2> QED
    BY <1>1, <1>3, <2>1, <2>2 DEF Delete, DeleteLock, DeleteResults, DeleteAudio, DeleteMetadata
<1>4. CASE Interrupt
  BY <1>0, <1>4 DEF Interrupt, MaybeImported, Committed
<1>5. ASSUME NEW t \in Transcriber, Transcribe(t) \/ TranscribeFails(t) \/ Dies(t)
      PROVE  imports' \subseteq Key /\ deletes' \subseteq Key /\ late' \subseteq Key
  <2>1. CASE Import(t) \/ TranscribeFails(t)
    BY <1>0, <2>1 DEF Import, TranscribeFails, MaybeImported, Committed
  <2>2. CASE Dies(t)
    <3>1. At(t, "import") => proc[t].key \in Key
      BY KeyIsSet DEF At
    <3> QED
      BY <1>0, <2>2, <3>1 DEF Dies, MaybeImported, Committed
  <2> QED
    BY <1>1, <1>5, <2>1, <2>2 DEF Transcribe, Busy, NoSpeech, Inspect, TakeLock, Infer
<1>6. CASE Stray
  BY <1>0, <1>6 DEF Stray, LateImport, LateDelete
<1> QED
  BY <1>2, <1>3, <1>4, <1>5, <1>6 DEF Next, Worker

-----------------------------------------------------------------------------
(* The directories, the deletion and the types. *)

\* Only a deletion takes a complete recording away.
DirMoves ==
  \/ \A c \in Capture : dir[c] \in {"complete", "stripped"} => dir'[c] = dir[c]
  \/ /\ DeleteAudio /\ del.c \in Capture /\ dir'[del.c] = "stripped"
     /\ \A c \in Capture : c # del.c => dir'[c] = dir[c]
  \/ /\ DeleteMetadata /\ del.c \in Capture
     /\ \A c \in Capture : c # del.c => dir'[c] = dir[c]

\* Every step moves the directories as above.
LEMMA DirStep ==
  ASSUME TypeOK, LockOK, Next
  PROVE  DirMoves /\ dir' \in [Capture -> {"absent", "recording", "complete", "stripped"}]
<1>0. dir \in [Capture -> {"absent", "recording", "complete", "stripped"}]
  BY DEF TypeOK
<1>1. CASE UNCHANGED dir
  BY <1>0, <1>1 DEF DirMoves
<1>2. ASSUME NEW c \in Capture, Publish(c)
      PROVE  DirMoves /\ dir' \in [Capture -> {"absent", "recording", "complete", "stripped"}]
  <2>1. dir[c] \in {"absent", "recording"}
        /\ \E x \in {"complete", "recording"} : dir' = [dir EXCEPT ![c] = x]
    BY <1>2 DEF Publish
  <2> QED
    BY <1>0, <2>1 DEF DirMoves
<1>3. CASE DeleteAudio \/ DeleteMetadata
  <2>1. del.c \in Capture
    BY <1>3 DEF LockOK, DeleteAudio, DeleteMetadata, DeleteAt
  <2>2. CASE DeleteAudio
    <3>1. dir' = [dir EXCEPT ![del.c] = "stripped"]
      BY <2>2 DEF DeleteAudio
    <3> QED
      BY <1>0, <2>1, <2>2, <3>1 DEF DirMoves
  <2>3. CASE DeleteMetadata
    <3>1. dir' = [dir EXCEPT ![del.c] = "absent"]
      BY <2>3 DEF DeleteMetadata
    <3> QED
      BY <1>0, <2>1, <2>3, <3>1 DEF DirMoves
  <2> QED
    BY <1>3, <2>2, <2>3
<1>4. CASE Settings \/ Worker \/ Due \/ Stray
  BY <1>1, <1>4 DEF Settings, Enable, Disable, SetEngine, Stray, LateImport, LateDelete, Worker, WorkerStart, WorkerExit, Tick, Take,
                    Interrupt, Admit, Due
<1>5. CASE Delete
  BY <1>1, <1>3, <1>5 DEF Delete, DeleteLock, DeleteDatabase, DeleteResults, DeleteStops
<1>6. CASE \E c \in Capture : Publish(c) \/ ManualStart(c) \/ DeleteAsk(c)
  BY <1>1, <1>2, <1>6 DEF ManualStart, DeleteAsk
<1>7. CASE \E t \in Transcriber : Transcribe(t) \/ TranscribeFails(t) \/ Dies(t)
  BY <1>1, <1>7 DEF Transcribe, TranscribeFails, Dies, Inspect, TakeLock, Busy, Infer, NoSpeech, Import
<1> QED
  BY <1>4, <1>5, <1>6, <1>7 DEF Next

\* A recording is doomed by its deletion, and until it is admitted again.
LEMMA DoomedStep ==
  ASSUME TypeOK, LockOK, Next, ~(\E c \in Capture : Admit(c))
  PROVE  doomed \subseteq doomed' /\ doomed' \subseteq Capture
<1>1. CASE UNCHANGED doomed
  BY <1>1 DEF TypeOK
<1>2. CASE DeleteAudio \/ DeleteDatabase
  <2>1. del.c \in Capture /\ doomed' = doomed \cup {del.c}
    BY <1>2 DEF LockOK, DeleteAudio, DeleteDatabase, DeleteAt
  <2> QED
    BY <2>1 DEF TypeOK
<1>7. CASE Stray
  BY <1>1, <1>7 DEF Stray, LateImport, LateDelete, TypeOK
<1>3. CASE Settings \/ Worker \/ Due
  BY <1>1, <1>3 DEF Settings, Enable, Disable, SetEngine, Worker, WorkerStart, WorkerExit, Tick, Take,
                    Interrupt, Due
<1>4. CASE Delete
  BY <1>1, <1>2, <1>4 DEF Delete, DeleteLock, DeleteMetadata, DeleteResults, DeleteStops
<1>5. CASE \E c \in Capture : Publish(c) \/ ManualStart(c) \/ DeleteAsk(c)
  BY <1>1, <1>5 DEF Publish, ManualStart, DeleteAsk
<1>6. CASE \E t \in Transcriber : Transcribe(t) \/ TranscribeFails(t) \/ Dies(t)
  BY <1>1, <1>6 DEF Transcribe, TranscribeFails, Dies, Inspect, TakeLock, Busy, Infer, NoSpeech, Import
<1> QED
  BY <1>3, <1>4, <1>5, <1>6, <1>7 DEF Next

DelType ==
  [pc : {"idle", "locking", "database", "results", "audio", "metadata"},
   c : Capture \cup {Free}, keys : SUBSET Key, shared : BOOLEAN]

\* The deletion keeps its type, and moves only in steps of its own.
LEMMA DelStep ==
  ASSUME TypeOK, Next
  PROVE  del' \in DelType /\ (UNCHANGED del \/ Delete \/ \E c \in Capture : DeleteAsk(c))
<1>0. del \in DelType
  BY DEF TypeOK, DelType
<1>1. ASSUME del' = NoDeletion PROVE del' \in DelType
  BY <1>1 DEF NoDeletion, DelType
<1>2. ASSUME NEW c \in Capture, DeleteAsk(c)
      PROVE  del' \in DelType
  BY <1>2 DEF DeleteAsk, NoDeletion, DelType
<1>3. ASSUME NEW pc \in {"results", "audio", "metadata"}, del' = [del EXCEPT !.pc = pc]
      PROVE  del' \in DelType
  BY <1>0, <1>3 DEF DelType
<1>4. ASSUME NEW k \in del.keys, del' = [del EXCEPT !.keys = @ \ {k}]
      PROVE  del' \in DelType
  BY <1>0, <1>4 DEF DelType
<1>5. ASSUME DeleteLock PROVE del' \in DelType
  <2>1. ASSUME NEW sh \in BOOLEAN, NEW p \in {"audio", "database"}, NEW ks \in SUBSET Key,
               del' = [del EXCEPT !.pc = p, !.shared = sh, !.keys = ks]
        PROVE  del' \in DelType
    BY <1>0, <2>1 DEF DelType
  <2> DEFINE ks == {k \in Key : result[k] # NoResult /\ k[1] = Audio[del.c]}
             p  == IF Shared(del.c) THEN "audio" ELSE "database"
  <2>2. del' = [del EXCEPT !.pc = p, !.shared = Shared(del.c), !.keys = ks]
    BY <1>5 DEF DeleteLock, Shared
  <2>3. Shared(del.c) \in BOOLEAN /\ p \in {"audio", "database"} /\ ks \in SUBSET Key
    BY DEF Shared
  <2> HIDE DEF p, ks
  <2> QED
    BY <2>1, <2>2, <2>3
<1>6. CASE Delete
  BY <1>1, <1>3, <1>4, <1>5, <1>6 DEF Delete, DeleteDatabase, DeleteResults, DeleteAudio,
                                      DeleteMetadata, DeleteStops
<1>7. CASE UNCHANGED del
  BY <1>0, <1>7
<1>8. CASE Settings \/ Worker \/ Due \/ Stray
  BY <1>7, <1>8 DEF Settings, Enable, Disable, SetEngine, Stray, LateImport, LateDelete, Worker, WorkerStart, WorkerExit, Tick, Take,
                    Interrupt, Admit, Due
<1>9. CASE \E c \in Capture : Publish(c) \/ ManualStart(c) \/ DeleteAsk(c)
  BY <1>2, <1>7, <1>9 DEF Publish, ManualStart
<1>10. CASE \E t \in Transcriber : Transcribe(t) \/ TranscribeFails(t) \/ Dies(t)
  BY <1>7, <1>10 DEF Transcribe, TranscribeFails, Dies, Inspect, TakeLock, Busy, Infer, NoSpeech, Import
<1> QED
  BY <1>6, <1>8, <1>9, <1>10 DEF Next

\* The settings keep their types.
LEMMA SettingsStep ==
  ASSUME TypeOK, Next
  PROVE  /\ watch' \in [enabled : BOOLEAN, opted : BOOLEAN, excluded : SUBSET Capture]
         /\ engine' \in [provider : Provider \cup {Off}, revision : 0 .. MaxRevision]
<1>0. /\ watch \in [enabled : BOOLEAN, opted : BOOLEAN, excluded : SUBSET Capture]
      /\ engine \in [provider : Provider \cup {Off}, revision : 0 .. MaxRevision]
  BY DEF TypeOK
<1>1. CASE UNCHANGED <<watch, engine>>
  BY <1>0, <1>1
<1>2. CASE Enable
  <2>1. ASSUME NEW ex \in SUBSET Capture, watch' = [enabled |-> TRUE, opted |-> TRUE, excluded |-> ex]
        PROVE  watch' \in [enabled : BOOLEAN, opted : BOOLEAN, excluded : SUBSET Capture]
    BY <2>1
  <2> DEFINE ex == IF watch.opted THEN watch.excluded ELSE {c \in Capture : dir[c] # "absent"}
  <2>2. ex \in SUBSET Capture
    BY <1>0
  <2>3. watch' = [enabled |-> TRUE, opted |-> TRUE, excluded |-> ex]
    BY <1>2 DEF Enable
  <2> HIDE DEF ex
  <2>4. UNCHANGED engine
    BY <1>2 DEF Enable
  <2> QED
    BY <1>0, <2>1, <2>2, <2>3, <2>4
<1>3. CASE Disable
  <2>1. UNCHANGED engine /\ watch' = [watch EXCEPT !.enabled = FALSE]
    BY <1>3 DEF Disable
  <2> QED
    BY <1>0, <2>1
<1>4. CASE SetEngine
  <2>0. UNCHANGED watch
    BY <1>4 DEF SetEngine
  <2>1. CASE engine' \in [provider : (Provider \cup {Off}) \ {engine.provider},
                          revision : {engine.revision}]
    BY <1>0, <2>0, <2>1
  <2>2. CASE engine.revision < MaxRevision /\ engine' = [engine EXCEPT !.revision = @ + 1]
    <3>1. engine.revision + 1 \in 0 .. MaxRevision
      BY <1>0, <2>2, TranscriptionAssumption
    <3>2. ASSUME NEW r \in 0 .. MaxRevision, engine' = [engine EXCEPT !.revision = r]
          PROVE  engine' \in [provider : Provider \cup {Off}, revision : 0 .. MaxRevision]
      BY <1>0, <3>2
    <3>3. engine' \in [provider : Provider \cup {Off}, revision : 0 .. MaxRevision]
      BY <2>2, <3>1, <3>2
    <3> QED
      BY <1>0, <2>0, <3>3
  <2> QED
    BY <1>4, <2>1, <2>2 DEF SetEngine
<1>5. CASE Worker \/ Due \/ Delete \/ Stray
  BY <1>1, <1>5 DEF Stray, LateImport, LateDelete, Worker, WorkerStart, WorkerExit, Tick, Take, Interrupt, Admit, Due, Delete, DeleteLock,
                    DeleteDatabase, DeleteResults, DeleteAudio, DeleteMetadata, DeleteStops
<1>6. CASE \E c \in Capture : Publish(c) \/ ManualStart(c) \/ DeleteAsk(c)
  BY <1>1, <1>6 DEF Publish, ManualStart, DeleteAsk
<1>7. CASE \E t \in Transcriber : Transcribe(t) \/ TranscribeFails(t) \/ Dies(t)
  BY <1>1, <1>7 DEF Transcribe, TranscribeFails, Dies, Inspect, TakeLock, Busy, Infer, NoSpeech, Import
<1> QED
  BY <1>2, <1>3, <1>4, <1>5, <1>6, <1>7 DEF Next, Settings

\* The types are kept.
LEMMA TypeStep ==
  ASSUME TranscriptionInv, Next
  PROVE  TypeOK'
<1>0. TypeOK /\ AttemptsCountErrors /\ ProcsOK /\ LockOK /\ InFlight /\ QueueOK
  BY QueueIsOK DEF TranscriptionInv
<1>1. jobs' \in Seq(JobType)
  BY <1>0, CountsStep DEF QueueOK
<1>2. proc' \in [Transcriber -> ProcType] /\ LockOK'
  BY <1>0, ProcsStep
<1>3. lock' \in {Free, "worker", "manual", "delete"}
  <2>1. lock \in {Free, "worker", "manual", "delete"}
    BY <1>0 DEF TypeOK
  <2>2. CASE UNCHANGED lock
    BY <2>1, <2>2
  <2>3. CASE \E t \in Transcriber : Moves(t)
    BY <2>1, <2>3 DEF Moves, Rests, Begins, Inspects, Locks, Proceeds, Transcriber
  <2>4. CASE DeletionMoves
    BY <2>1, <2>4 DEF DeletionMoves
  <2> QED
    BY <1>0, <2>2, <2>3, <2>4, ProcStep
<1>4. result' \in [Key -> ResultType]
  <2>1. result \in [Key -> ResultType] /\ ResultMoves
    BY <1>0, ResultStep DEF TypeOK, ResultType
  <2> QED
    BY <2>1 DEF ResultMoves, ResultIs
<1>5. conv' \subseteq Key
  <2>1. conv \subseteq Key /\ imports \subseteq Key /\ ConvMoves
    BY <1>0, ConvStep DEF TypeOK
  <2> QED
    BY <2>1 DEF ConvMoves
<1>6. doomed' \subseteq Capture
  <2>1. CASE \E c \in Capture : Admit(c)
    BY <1>0, <2>1 DEF Admit, TypeOK
  <2> QED
    BY <1>0, <2>1, DoomedStep
<1>7. dir' \in [Capture -> {"absent", "recording", "complete", "stripped"}]
  BY <1>0, DirStep
<1>8. del' \in DelType
  BY <1>0, DelStep
<1> QED
  BY <1>0, <1>1, <1>2, <1>3, <1>4, <1>5, <1>6, <1>7, <1>8, SettingsStep, StrayStep
     DEF TypeOK, ProcType, PCs, ResultType, DelType

-----------------------------------------------------------------------------
(* Recordings, transcripts and conversations. *)

\* The parts of the invariant that the rest of the argument uses.
LEMMA Parts ==
  ASSUME TranscriptionInv
  PROVE  /\ TypeOK /\ AttemptsCountErrors /\ ProcsOK /\ LockOK /\ InFlight /\ QueueOK
         /\ ResultsOK /\ DeletionOK /\ JobsOK /\ CompletedIsImported
BY QueueIsOK DEF TranscriptionInv

\* A transcript that is kept keeps a recording.
LEMMA CopiesStay ==
  ASSUME TranscriptionInv, Next, NEW k \in Key, result[k].stage \in {"speech", "silence"}
  PROVE  HasCopy(k[1])'
<1>0. /\ TypeOK /\ LockOK /\ DirMoves
      /\ \E c \in Capture : dir[c] = "complete" /\ Audio[c] = k[1]
  BY Parts, DirStep DEF ResultsOK, HasCopy
<1>1. PICK c \in Capture : dir[c] = "complete" /\ Audio[c] = k[1]
  BY <1>0
<1>2. CASE DeleteAudio
  <2>0. del.pc = "audio" /\ DeletionOK
    BY <1>2, Parts DEF DeleteAudio, DeleteAt
  <2>1. del.c \in Capture /\ \A d \in Capture : d # del.c => dir'[d] = dir[d]
    BY <1>2, <1>0 DEF DeleteAudio, DeleteAt, LockOK, TypeOK
  <2>2. CASE k[1] # Audio[del.c]
    BY <1>1, <2>1, <2>2 DEF HasCopy
  <2>3. CASE k[1] = Audio[del.c] /\ del.shared
    BY <2>0, <2>1, <2>3 DEF HasCopy, DeletionOK
  <2>4. CASE k[1] = Audio[del.c] /\ ~del.shared
    <3>1. result[k] = NoResult
      BY <2>0, <2>4 DEF DeletionOK
    <3> QED
      BY <3>1 DEF NoResult
  <2> QED
    BY <2>2, <2>3, <2>4
<1>3. CASE DeleteMetadata
  <2>1. dir[del.c] = "stripped"
    BY <1>3, Parts DEF DeleteMetadata, DeleteAt, DeletionOK
  <2>2. \A d \in Capture : d # del.c => dir'[d] = dir[d]
    BY <1>3, <1>0 DEF DeleteMetadata, TypeOK
  <2> QED
    BY <1>1, <2>1, <2>2 DEF HasCopy
<1> QED
  BY <1>0, <1>1, <1>2, <1>3 DEF DirMoves, HasCopy

\* A saved transcript has a recording, and a conversation a transcript.
LEMMA ResultsOKStep ==
  ASSUME TranscriptionInv, Next
  PROVE  ResultsOK'
<1>0. /\ TypeOK /\ ProcsOK /\ LockOK /\ ResultsOK /\ DeletionOK
      /\ ResultMoves /\ ConvMoves /\ DirMoves
  BY Parts, ResultStep, ConvStep, DirStep
<1>1. ASSUME NEW k \in Key, result'[k].stage \in {"speech", "silence"}
      PROVE  HasCopy(k[1])'
  <2>1. CASE result[k].stage \in {"speech", "silence"}
    BY <2>1, CopiesStay
  <2>2. CASE result[k].stage \notin {"speech", "silence"}
    <3>1. PICK t \in Transcriber : /\ proc[t].key = k /\ proc[t].c \in Capture
                                   /\ proc[t].key[1] = Audio[proc[t].c] /\ lock \in {Free, t}
                                   /\ dir[proc[t].c] = "complete"
      BY <1>0, <1>1, <2>2 DEF ResultMoves, ResultIs
    <3>2. lock # "delete"
      BY <3>1, TranscriptionAssumption DEF Transcriber
    <3>3. dir'[proc[t].c] = "complete"
      BY <1>0, <3>1, <3>2 DEF DirMoves, DeleteAudio, DeleteMetadata, DeleteAt, LockOK, Deleting
    <3> QED
      BY <3>1, <3>3 DEF HasCopy
  <2> QED
    BY <2>1, <2>2
<1>2. ASSUME NEW k \in Regular', k \notin Regular
      PROVE  k \in Key /\ result[k].stage = "speech" /\ lock \in Transcriber
  BY <1>0, <1>2 DEF ConvMoves
<1>3. ASSUME NEW k \in Regular'
      PROVE  result'[k].stage = "speech"
  <2>1. k \in Key /\ result[k].stage = "speech"
    BY <1>0, <1>2, <1>3 DEF ResultsOK, TypeOK, Regular
  <2>2. CASE UNCHANGED result
    BY <2>1, <2>2
  <2>3. CASE DeleteResults
    <3>1. UNCHANGED Regular /\ del.pc = "results" /\ del.keys \cap Regular = {}
      BY <1>0, <2>3 DEF DeleteResults, DeleteAt, DeletionOK, Regular, strays
    <3>2. k \notin del.keys
      BY <3>1
    <3> QED
      BY <1>0, <2>1, <2>2, <2>3, <3>2 DEF DeleteResults, TypeOK
  <2>4. ASSUME NEW t \in Transcriber, proc[t].key \in Key,
               \/ ResultIs(proc[t].key, "manifest") /\ result[proc[t].key] = NoResult
               \/ Stage(t) = "manifest" /\ \E s \in {"speech", "silence"} : ResultIs(proc[t].key, s)
               \/ ResultIs(proc[t].key, "speech") /\ result[proc[t].key].stage = "speech"
        PROVE  result'[k].stage = "speech"
    <3>1. CASE k # proc[t].key
      BY <2>1, <2>4, <3>1 DEF ResultIs
    <3>2. CASE k = proc[t].key
      BY <2>1, <2>4, <3>2 DEF ResultIs, NoResult, Stage
    <3> QED
      BY <3>1, <3>2
  <2> QED
    BY <1>0, <2>2, <2>3, <2>4 DEF ResultMoves
<1> QED
  BY <1>1, <1>3 DEF ResultsOK, HasCopy

\* While a deletion holds the lock nobody else writes results or conversations.
LEMMA DeletionIsAlone ==
  ASSUME TranscriptionInv, Next, lock = "delete", UNCHANGED del
  PROVE  UNCHANGED result /\ Regular' \subseteq Regular /\ ~Import("worker")
         /\ \A c \in Capture : dir[c] \in {"complete", "stripped"} => dir'[c] = dir[c]
<1>0. /\ TypeOK /\ ProcsOK /\ LockOK /\ ResultMoves /\ ConvMoves /\ DirMoves
      /\ \A t \in Transcriber : lock \notin {Free, t}
  BY Parts, ResultStep, ConvStep, DirStep, TranscriptionAssumption DEF Transcriber
<1>1. ~DeleteDatabase /\ ~DeleteAudio /\ ~DeleteMetadata
  BY <1>0 DEF DeleteDatabase, DeleteAudio, DeleteMetadata, NoDeletion, DeleteAt, TypeOK
<1>2. ASSUME NEW k \in del.keys, del' = [del EXCEPT !.keys = @ \ {k}] PROVE FALSE
  <2>1. del'.keys = del.keys \ {k}
    BY <1>0, <1>2, DroppedDel DEF DelIs
  <2> QED
    BY <1>2, <2>1
<1>3. ~Import("worker")
  BY <1>0 DEF Import, At, LockOK, Transcriber
<1> QED
  BY <1>0, <1>1, <1>2, <1>3 DEF ResultMoves, ConvMoves, DirMoves

\* What a deletion still owes, after any step.
LEMMA DeletionOKStep ==
  ASSUME TranscriptionInv, Next
  PROVE  DeletionOK'
<1>0. TypeOK /\ ProcsOK /\ LockOK /\ ResultsOK /\ DeletionOK
  BY Parts
<1>1. CASE UNCHANGED del
  <2>1. CASE lock = "delete"
    <3>1. /\ UNCHANGED result /\ Regular' \subseteq Regular
          /\ \A c \in Capture : dir[c] \in {"complete", "stripped"} => dir'[c] = dir[c]
      BY <1>1, <2>1, DeletionIsAlone
    <3>2. del.c \in Capture
      BY <1>0, <2>1 DEF LockOK, Deleting
    <3>3. del.pc = "audio" /\ del.shared =>
            \E c \in Capture \ {del.c} : dir'[c] = "complete" /\ Audio[c] = Audio[del.c]
      BY <1>0, <3>1 DEF DeletionOK
    <3> QED
      BY <1>0, <1>1, <3>1, <3>2, <3>3 DEF DeletionOK
  <2>2. CASE lock # "delete"
    <3>1. del.pc \notin {"database", "results", "audio", "metadata"}
      BY <1>0, <2>2 DEF LockOK, Deleting
    <3> QED
      BY <1>0, <1>1, <3>1 DEF DeletionOK
  <2> QED
    BY <2>1, <2>2
<1>2. CASE del' = NoDeletion
  BY <1>2 DEF DeletionOK, NoDeletion
<1>3. CASE \E c \in Capture : DeleteAsk(c)
  BY <1>3, AskedDel DEF DelIs, DeletionOK
<1>4. CASE DeleteLock
  <2>1. /\ DelIs(IF Shared(del.c) THEN "audio" ELSE "database", del.c,
                 {k \in Key : result[k] # NoResult /\ k[1] = Audio[del.c]}, Shared(del.c))
        /\ UNCHANGED <<dir, result>>
    BY <1>0, <1>4, LockedDel DEF DeleteLock
  <2>2. /\ del'.c = del.c /\ del'.shared = Shared(del.c)
        /\ del'.keys = {k \in Key : result[k] # NoResult /\ k[1] = Audio[del.c]}
        /\ del'.pc = IF Shared(del.c) THEN "audio" ELSE "database"
    BY <2>1 DEF DelIs
  <2>3. CASE Shared(del.c)
    <3>1. del'.pc = "audio" /\ del'.shared
      BY <2>2, <2>3
    <3>2. \E c \in Capture \ {del'.c} : dir'[c] = "complete" /\ Audio[c] = Audio[del'.c]
      BY <2>1, <2>2, <2>3 DEF Shared
    <3> QED
      BY <2>2, <3>1, <3>2 DEF DeletionOK
  <2>4. CASE ~Shared(del.c)
    <3>1. del'.pc = "database" /\ ~del'.shared
      BY <2>2, <2>4
    <3> QED
      BY <2>1, <2>2, <3>1 DEF DeletionOK
  <2> QED
    BY <2>3, <2>4
<1>5. CASE DeleteDatabase
  <2>1. CASE conv' = conv \ del.keys /\ del' = [del EXCEPT !.pc = "results"]
    <3>1. DelIs("results", del.c, del.keys, del.shared)
      BY <1>0, <2>1, GoneDel
    <3>2. UNCHANGED result /\ del.pc = "database" /\ del.keys \cap Regular' = {}
      BY <1>5, <2>1 DEF DeleteDatabase, DeleteAt, Regular
    <3> QED
      BY <1>0, <2>1, <3>1, <3>2 DEF DelIs, DeletionOK
  <2> QED
    BY <1>2, <1>5, <2>1 DEF DeleteDatabase
<1>6. CASE DeleteResults
  <2>0. UNCHANGED Regular /\ del.pc = "results"
    BY <1>6 DEF DeleteResults, DeleteAt, Regular, strays
  <2>1. CASE del.keys = {} /\ del' = [del EXCEPT !.pc = "audio"] /\ UNCHANGED result
    <3>1. DelIs("audio", del.c, del.keys, del.shared)
      BY <1>0, <2>1, GoneDel
    <3>2. ~del.shared /\ \A k \in Key : k[1] = Audio[del.c] => result[k] = NoResult
      BY <1>0, <2>0, <2>1 DEF DeletionOK
    <3> QED
      BY <1>0, <2>0, <2>1, <3>1, <3>2 DEF DelIs, DeletionOK
  <2>2. ASSUME NEW k \in del.keys, result' = [result EXCEPT ![k] = NoResult],
               del' = [del EXCEPT !.keys = @ \ {k}]
        PROVE  DeletionOK'
    <3>1. DelIs("results", del.c, del.keys \ {k}, del.shared)
      BY <1>0, <2>0, <2>2, DroppedDel
    <3>2. k \in Key /\ result'[k] = NoResult /\ \A l \in Key : l # k => result'[l] = result[l]
      BY <1>0, <2>2, DroppedResult DEF TypeOK, ResultIs
    <3> QED
      BY <1>0, <2>0, <3>1, <3>2 DEF DelIs, DeletionOK
  <2> QED
    BY <1>6, <2>1, <2>2 DEF DeleteResults
<1>7. CASE DeleteAudio
  <2>1. /\ DelIs("metadata", del.c, del.keys, del.shared)
        /\ del.c \in Capture /\ dir' = [dir EXCEPT ![del.c] = "stripped"]
    BY <1>0, <1>7, GoneDel DEF DeleteAudio, DeleteAt, LockOK
  <2>2. dir'[del.c] = "stripped"
    BY <1>0, <2>1 DEF TypeOK
  <2> QED
    BY <1>0, <2>1, <2>2 DEF DelIs, DeletionOK
<1>8. CASE DeleteMetadata \/ DeleteStops
  BY <1>2, <1>8 DEF DeleteMetadata, DeleteStops
<1> QED
  BY <1>0, <1>1, <1>3, <1>4, <1>5, <1>6, <1>7, <1>8, DelStep DEF Delete

\* A deletion comes to the database only with the lock.
LEMMA AtDatabase ==
  ASSUME TypeOK, Next, del'.pc = "database"
  PROVE  DeleteLock \/ UNCHANGED del
<1>1. CASE del' = NoDeletion
  BY <1>1 DEF NoDeletion
<1>2. CASE \E c \in Capture : DeleteAsk(c)
  BY <1>2, AskedDel DEF DelIs
<1>3. ASSUME NEW pc \in {"results", "audio", "metadata"}, del' = [del EXCEPT !.pc = pc] PROVE FALSE
  BY <1>3, GoneDel DEF DelIs
<1>4. ASSUME NEW k, DeleteAt("results"), del' = [del EXCEPT !.keys = @ \ {k}] PROVE FALSE
  BY <1>4, DroppedDel DEF DelIs, DeleteAt
<1> QED
  BY <1>1, <1>2, <1>3, <1>4, DelStep DEF Delete, DeleteDatabase, DeleteResults, DeleteAudio,
                                         DeleteMetadata, DeleteStops

\* What admitting a recording does to the jobs and their recordings.
LEMMA AdmittedJobs ==
  ASSUME TranscriptionInv, NEW c \in Capture, Admit(c), NEW i \in DOMAIN jobs'
  PROVE  \/ jobs'[i].c = c /\ jobs'[i].state = "pending" /\ dir[c] = "complete"
         \/ /\ i \in DOMAIN jobs /\ jobs'[i] = jobs[i]
            /\ jobs[i].c \in doomed' <=> jobs[i].c \in doomed
<1>1. PICK n \in DOMAIN jobs' :
              /\ n \notin DOMAIN jobs /\ DOMAIN jobs' = DOMAIN jobs \cup {n}
              /\ \A j \in DOMAIN jobs : jobs'[j] = jobs[j]
              /\ jobs'[n].c = c /\ jobs'[n].state = "pending" /\ Counted(jobs'[n])
  BY Parts, AdmittedQueue
<1>2. dir[c] = "complete" /\ doomed' = doomed \ {c} /\ \A j \in DOMAIN jobs : jobs[j].c # c
  BY DEF Admit, Admissible, Queued
<1> QED
  BY <1>1, <1>2

\* Where a job comes from, in every other step.
LEMMA KeptJobs ==
  ASSUME TranscriptionInv, Next, ~(\E c \in Capture : Admit(c)), NEW i \in DOMAIN jobs'
  PROVE  /\ doomed \subseteq doomed'
         /\ \E j \in DOMAIN jobs :
              /\ jobs'[i].c = jobs[j].c /\ jobs[j].c \in Capture
              /\ jobs'[i].state = "completed" =>
                   jobs[j].state = "completed" \/ (Processing(j) /\ Import("worker"))
<1>0. TypeOK /\ LockOK /\ QueueOK /\ Kept /\ doomed \subseteq doomed'
  BY Parts, QueueStep, DoomedStep
<1>1. PICK at \in [DOMAIN jobs' -> DOMAIN jobs] : \A j \in DOMAIN jobs' :
            /\ SameJob(jobs[at[j]], jobs'[j])
            /\ jobs'[j].state = "completed" =>
                 jobs[at[j]].state = "completed" \/ (Processing(at[j]) /\ Import("worker"))
  BY <1>0 DEF Kept
<1>2. at[i] \in DOMAIN jobs /\ jobs'[i].c = jobs[at[i]].c
  BY <1>1 DEF SameJob
<1>3. jobs[at[i]] \in JobType
  BY <1>0, <1>2, ElementOfSeq, LenProperties DEF QueueOK
<1>4. jobs[at[i]].c \in Capture
  BY <1>3 DEF JobType
<1> QED
  BY <1>0, <1>1, <1>2, <1>4

\* A job whose recording was not deleted has its audio, after any step.
LEMMA JobsOKStep ==
  ASSUME TranscriptionInv, Next
  PROVE  JobsOK'
<1>0. TypeOK /\ ProcsOK /\ LockOK /\ JobsOK /\ DeletionOK /\ DirMoves
  BY Parts, DirStep
<1>1. ASSUME NEW i \in DOMAIN jobs', jobs'[i].c \notin doomed'
      PROVE  dir'[jobs'[i].c] = "complete"
  <2>1. CASE \E c \in Capture : Admit(c)
    <3>1. PICK c \in Capture : Admit(c)
      BY <2>1
    <3>2. UNCHANGED dir
      BY <3>1 DEF Admit
    <3> QED
      BY <1>0, <1>1, <3>1, <3>2, AdmittedJobs DEF JobsOK
  <2>2. CASE ~(\E c \in Capture : Admit(c))
    <3>1. PICK j \in DOMAIN jobs : jobs'[i].c = jobs[j].c /\ jobs[j].c \in Capture
      BY <2>2, KeptJobs
    <3>2. jobs[j].c \notin doomed
      BY <1>1, <2>2, <3>1, KeptJobs
    <3>3. dir[jobs[j].c] = "complete"
      BY <1>0, <3>2 DEF JobsOK
    <3>4. CASE DeleteAudio
      <4>1. del.c \in doomed' /\ \A c \in Capture : c # del.c => dir'[c] = dir[c]
        BY <1>0, <3>4 DEF DeleteAudio, TypeOK
      <4> QED
        BY <1>1, <3>1, <3>3, <4>1
    <3>5. CASE DeleteMetadata
      <4>1. dir[del.c] = "stripped" /\ \A c \in Capture : c # del.c => dir'[c] = dir[c]
        BY <1>0, <3>5 DEF DeleteMetadata, DeleteAt, DeletionOK, TypeOK
      <4> QED
        BY <3>1, <3>3, <4>1
    <3> QED
      BY <1>0, <3>1, <3>3, <3>4, <3>5 DEF DirMoves
  <2> QED
    BY <2>1, <2>2
<1>2. ASSUME del'.pc = "database", NEW i \in DOMAIN jobs', jobs'[i].state = "completed",
             jobs'[i].c \notin doomed', jobs'[i].c # del'.c
      PROVE  Audio[jobs'[i].c] # Audio[del'.c]
  <2>1. CASE DeleteLock
    <3>1. UNCHANGED <<jobs, doomed, dir>> /\ del'.c = del.c /\ ~Shared(del.c)
      BY <1>0, <1>2, <2>1, LockedDel DEF DeleteLock, DelIs
    <3>2. dir[jobs[i].c] = "complete" /\ jobs[i].c \in Capture
      <4>1. dir[jobs[i].c] = "complete"
        BY <1>0, <1>2, <3>1 DEF JobsOK
      <4>2. jobs[i] \in JobType
        BY <3>1, Parts, ElementOfSeq, LenProperties DEF QueueOK
      <4> QED
        BY <4>1, <4>2 DEF JobType
    <3> QED
      BY <1>2, <3>1, <3>2 DEF Shared
  <2>2. CASE UNCHANGED del
    <3>1. del.pc = "database" /\ del'.c = del.c /\ lock = "delete"
      BY <1>0, <1>2, <2>2 DEF LockOK, Deleting
    <3>2. CASE \E c \in Capture : Admit(c)
      BY <1>0, <1>2, <3>1, <3>2, AdmittedJobs DEF JobsOK
    <3>3. CASE ~(\E c \in Capture : Admit(c))
      <4>1. ~Import("worker")
        BY <2>2, <3>1, DeletionIsAlone
      <4>2. PICK j \in DOMAIN jobs : jobs'[i].c = jobs[j].c /\ jobs[j].state = "completed"
        BY <1>2, <3>3, <4>1, KeptJobs
      <4>3. jobs[j].c \notin doomed
        BY <1>2, <3>3, <4>2, KeptJobs
      <4> QED
        BY <1>0, <1>2, <3>1, <4>2, <4>3 DEF JobsOK
    <3> QED
      BY <3>2, <3>3
  <2> QED
    BY <1>0, <1>2, <2>1, <2>2, AtDatabase
<1> QED
  BY <1>1, <1>2 DEF JobsOK

\* A completed job has its conversation, after any step.
LEMMA CompletedStep ==
  ASSUME TranscriptionInv, Next
  PROVE  CompletedIsImported'
<1>0. /\ TypeOK /\ ProcsOK /\ LockOK /\ InFlight /\ JobsOK /\ DeletionOK /\ CompletedIsImported
      /\ ConvMoves
  BY Parts, ConvStep
<1> SUFFICES ASSUME NEW i \in DOMAIN jobs', jobs'[i].state = "completed", jobs'[i].c \notin doomed'
             PROVE  \E k \in conv' : k[1] = Audio[jobs'[i].c]
  BY DEF CompletedIsImported, Converted
<1>1. CASE \E c \in Capture : Admit(c)
  <2>1. PICK c \in Capture : Admit(c)
    BY <1>1
  <2>2. UNCHANGED conv
    BY <2>1 DEF Admit
  <2>3. i \in DOMAIN jobs /\ jobs'[i] = jobs[i] /\ jobs[i].c \notin doomed
    BY <2>1, AdmittedJobs
  <2> QED
    BY <1>0, <2>2, <2>3 DEF CompletedIsImported, Converted
<1>2. CASE ~(\E c \in Capture : Admit(c))
  <2>1. PICK j \in DOMAIN jobs :
              /\ jobs'[i].c = jobs[j].c
              /\ jobs[j].state = "completed" \/ (Processing(j) /\ Import("worker"))
    BY <1>2, KeptJobs
  <2>2. jobs[j].c \notin doomed
    BY <1>2, <2>1, KeptJobs
  <2>3. CASE Processing(j) /\ Import("worker")
    <3>1. conv' = conv \cup {proc["worker"].key} /\ proc["worker"].pc = "import"
      BY <2>3 DEF Import, At, Committed
    <3>2. proc["worker"].key[1] = Audio[proc["worker"].c]
      BY <1>0, <3>1 DEF ProcsOK, Transcriber
    <3>3. jobs[j].c = proc["worker"].c
      BY <1>0, <2>3, <3>1 DEF InFlight, Active
    <3> QED
      BY <2>1, <3>1, <3>2, <3>3
  <2>4. CASE jobs[j].state = "completed"
    <3>1. PICK k \in conv : k[1] = Audio[jobs[j].c]
      BY <1>0, <2>2, <2>4 DEF CompletedIsImported, Converted
    <3>2. CASE DeleteDatabase
      <4>1. del.pc = "database" /\ del.c \in doomed'
        BY <3>2 DEF DeleteDatabase, DeleteAt
      <4>2. Audio[jobs[j].c] # Audio[del.c]
        BY <1>0, <2>1, <2>2, <2>4, <4>1 DEF JobsOK
      <4>3. k \notin del.keys
        BY <1>0, <3>1, <4>2 DEF DeletionOK
      <4>4. conv \ conv' \subseteq del.keys
        BY <3>2 DEF DeleteDatabase
      <4> QED
        BY <2>1, <3>1, <4>3, <4>4
    <3>3. ASSUME NEW l \in Key, LateDelete(l)
          PROVE  \E m \in conv' : m[1] = Audio[jobs'[i].c]
      <4>1. conv' = conv \ {l} /\ \A c \in Capture : Audio[c] = l[1] => c \in doomed'
        BY <3>3 DEF LateDelete
      <4>2. jobs'[i].c \in Capture
        BY <1>2, <2>1, KeptJobs
      <4>3. k # l
        BY <2>1, <3>1, <4>1, <4>2
      <4> QED
        BY <2>1, <3>1, <4>1, <4>3
    <3> QED
      BY <1>0, <2>1, <3>1, <3>2, <3>3 DEF ConvMoves
  <2> QED
    BY <2>1, <2>3, <2>4
<1> QED
  BY <1>1, <1>2

-----------------------------------------------------------------------------
(* The theorems. *)

\* Nothing is queued, held, saved or imported before the first step.
LEMMA InitTranscription == Init => TranscriptionInv
<1> SUFFICES ASSUME Init PROVE TranscriptionInv
  OBVIOUS
<1>0. Free \notin Capture /\ Free \notin {"worker", "manual", "delete"} /\ MaxRevision \in Nat
  BY TranscriptionAssumption
<1>1. jobs = <<>> /\ DOMAIN jobs = {} /\ jobs \in Seq(JobType)
  BY DEF Init
<1>2. proc = [t \in Transcriber |-> Stopped] /\ Stopped.pc = "down" /\ Stopped.c = Free
      /\ Stopped \in ProcType
  BY DEF Init, Stopped, ProcType, PCs
<1>3. /\ del = NoDeletion /\ NoDeletion.pc = "idle" /\ NoDeletion.keys = {}
      /\ NoDeletion \in DelType
  BY DEF Init, NoDeletion, DelType
<1>4. result = [k \in Key |-> NoResult] /\ NoResult.stage = "none" /\ NoResult \in ResultType
  BY DEF Init, NoResult, ResultType
<1>5. TypeOK
  <2>1. dir \in [Capture -> {"absent", "recording", "complete", "stripped"}]
    BY DEF Init
  <2>2. engine \in [provider : Provider \cup {Off}, revision : 0 .. MaxRevision]
    BY <1>0 DEF Init
  <2>3. watch \in [enabled : BOOLEAN, opted : BOOLEAN, excluded : SUBSET Capture]
    BY DEF Init
  <2>4. proc \in [Transcriber -> ProcType] /\ del \in DelType /\ result \in [Key -> ResultType]
    BY <1>2, <1>3, <1>4
  <2>5. /\ lock = Free /\ conv = {} /\ doomed = {}
        /\ imports = {} /\ deletes = {} /\ late = {}
    BY DEF Init
  <2> QED
    BY <1>1, <2>1, <2>2, <2>3, <2>4, <2>5 DEF TypeOK, ProcType, PCs, DelType, ResultType
<1>6. ProcsOK
  BY <1>0, <1>2 DEF ProcsOK, Active, Transcriber
<1>7. LockOK
  BY <1>0, <1>2, <1>3 DEF Init, LockOK, Deleting, Transcriber
<1>8. AttemptsCountErrors /\ InFlight /\ JobsOK /\ CompletedIsImported
  BY <1>1, <1>2, <1>3 DEF AttemptsCountErrors, InFlight, JobsOK, CompletedIsImported, Active, Transcriber
<1>9. ResultsOK /\ DeletionOK
  BY <1>3, <1>4 DEF Init, ResultsOK, DeletionOK, Regular
<1> QED
  BY <1>5, <1>6, <1>7, <1>8, <1>9 DEF TranscriptionInv

\* Every step keeps the invariant.
LEMMA NextTranscription == TranscriptionInv /\ [Next]_vars => TranscriptionInv'
<1> SUFFICES ASSUME TranscriptionInv, [Next]_vars PROVE TranscriptionInv'
  OBVIOUS
<1>1. CASE UNCHANGED vars
  BY <1>1 DEF vars, strays, Regular, TranscriptionInv, TypeOK, AttemptsCountErrors, ProcsOK, LockOK, InFlight, Processing,
              ResultsOK, HasCopy, DeletionOK, JobsOK, CompletedIsImported, Converted
<1>2. CASE Next
  <2>0. TypeOK /\ AttemptsCountErrors /\ ProcsOK /\ LockOK /\ InFlight /\ QueueOK
    BY Parts
  <2>1. TypeOK'
    BY <1>2, TypeStep
  <2>2. AttemptsCountErrors'
    <3>1. \A i \in DOMAIN jobs' : Counted(jobs'[i])
      BY <1>2, <2>0, CountsStep DEF QueueOK, Counted
    <3> QED
      BY <3>1 DEF AttemptsCountErrors, Counted
  <2>3. ProcsOK' /\ LockOK'
    BY <1>2, <2>0, ProcsStep
  <2>4. InFlight'
    BY <1>2, <2>0, InFlightStep
  <2> QED
    BY <1>2, <2>1, <2>2, <2>3, <2>4, ResultsOKStep, DeletionOKStep, JobsOKStep, CompletedStep
       DEF TranscriptionInv
<1> QED
  BY <1>1, <1>2

\* The invariant holds for every number of recordings, engines, runtime
\* updates and attempts, whatever crashes, is deleted or is run by hand.
THEOREM TranscriptionIsSound == Spec => []TranscriptionInv
BY InitTranscription, NextTranscription, PTL DEF Spec

\* The queue file, the processes, the results and the deletion keep their types.
THEOREM TranscriptionTypes == Spec => []TypeOK
<1>1. TranscriptionInv => TypeOK
  BY DEF TranscriptionInv
<1> QED
  BY <1>1, TranscriptionIsSound, PTL

\* Only failed transcriptions use up attempts: not a busy lock, a shutdown or a
\* crash, and a job fails for good after exactly MAX_ATTEMPTS.
THEOREM OnlyErrorsUseAttempts == Spec => []AttemptsCountErrors
<1>1. TranscriptionInv => AttemptsCountErrors
  BY DEF TranscriptionInv
<1> QED
  BY <1>1, TranscriptionIsSound, PTL

\* A recording has one job, and the job in flight is the worker's.
THEOREM AtMostOneInFlight == Spec => []OneJobInFlight
<1>1. TranscriptionInv => OneJobInFlight
  <2> SUFFICES ASSUME TranscriptionInv PROVE OneJobInFlight
    OBVIOUS
  <2>1. proc["worker"].c # Free => proc["worker"].pc \in Active
    BY DEF TranscriptionInv, ProcsOK, Transcriber
  <2> QED
    BY <2>1 DEF TranscriptionInv, InFlight, Processing, OneJobInFlight
<1> QED
  BY <1>1, TranscriptionIsSound, PTL

\* A conversation never outlives the last copy of its audio, unless an import
\* child made it after its process was killed.
THEOREM ConversationsKeepTheirAudio == Spec => []ConversationHasAudio
<1>1. TranscriptionInv => ConversationHasAudio
  <2> SUFFICES ASSUME TranscriptionInv, NEW k \in conv \ late PROVE HasRecording(k)
    BY DEF ConversationHasAudio
  <2>1. k \in Key /\ result[k].stage = "speech"
    BY DEF TranscriptionInv, TypeOK, ResultsOK, Regular
  <2> QED
    BY <2>1 DEF TranscriptionInv, ResultsOK, HasCopy, HasRecording
<1> QED
  BY <1>1, TranscriptionIsSound, PTL

\* A completed job has its conversation until its own recording is deleted.
THEOREM CompletedJobsAreImported == Spec => []CompletedIsImported
<1>1. TranscriptionInv => CompletedIsImported
  BY DEF TranscriptionInv
<1> QED
  BY <1>1, TranscriptionIsSound, PTL
-----------------------------------------------------------------------------
(* One conversation of a recording, where nothing but the worker transcribes *)
(* and the runtime stays what it is.                                         *)

\* Key k is the one of job i: its audio, and the provider it was admitted with.
KeyOf(i, k) == k[1] = Audio[jobs[i].c] /\ k[2] = jobs[i].provider

\* Every conversation, and the one that the worker or a child that it left
\* behind is about to make, has the key of a job in the queue.
KeysAreJobs ==
  /\ proc["manual"].pc = "down"
  /\ \A k \in conv \cup imports : \E i \in DOMAIN jobs : KeyOf(i, k)
  /\ proc["worker"].pc \in {"locking", "infer", "import"} =>
       \E i \in DOMAIN jobs :
         jobs[i].c = proc["worker"].c /\ jobs[i].provider = proc["worker"].key[2]

\* Without crashes no child is left behind, and without deletions no recording
\* goes.
Apart ==
  /\ "crash" \notin Env => imports = {} /\ late = {}
  /\ "delete" \notin Env => del.pc = "idle" /\ doomed = {} /\ deletes = {}

\* Only a process that dies while it imports leaves a child behind.
LEMMA LeftBehind ==
  ASSUME Next
  PROVE  \/ imports' \subseteq imports
         \/ \E t \in Transcriber :
              /\ "crash" \in Env /\ At(t, "import") /\ Stage(t) = "speech"
              /\ imports' = imports \cup {proc[t].key}
<1>1. CASE Settings \/ Due \/ WorkerStart \/ WorkerExit \/ Tick \/ Take \/ Interrupt
           \/ \E c \in Capture : Publish(c) \/ ManualStart(c) \/ DeleteAsk(c) \/ Admit(c)
  BY <1>1 DEF Settings, Enable, Disable, SetEngine, WorkerStart, WorkerExit, Tick, Take,
              Admit, Due, Publish, ManualStart, DeleteAsk, Interrupt, strays
<1>2. CASE Delete
  BY <1>2 DEF Delete, DeleteLock, DeleteDatabase, DeleteResults, DeleteAudio, DeleteMetadata,
              DeleteStops, strays
<1>3. CASE Stray
  BY <1>3 DEF Stray, LateImport, LateDelete
<1>4. ASSUME NEW t \in Transcriber, Transcribe(t) \/ TranscribeFails(t) \/ Dies(t)
      PROVE  \/ imports' \subseteq imports
             \/ /\ "crash" \in Env /\ At(t, "import") /\ Stage(t) = "speech"
                /\ imports' = imports \cup {proc[t].key}
  <2>1. CASE Dies(t)
    BY <2>1 DEF Dies
  <2> QED
    BY <1>4, <2>1 DEF Transcribe, TranscribeFails, Busy, NoSpeech, Inspect, TakeLock, Infer, Import, strays
<1> QED
  BY <1>1, <1>2, <1>3, <1>4 DEF Next, Worker

\* Without crashes nothing is late.
LEMMA NothingIsLate ==
  ASSUME Next, imports = {}, late = {}
  PROVE  late' = {}
<1>1. CASE Settings \/ Due \/ WorkerStart \/ WorkerExit \/ Tick \/ Take
           \/ \E c \in Capture : Publish(c) \/ ManualStart(c) \/ DeleteAsk(c) \/ Admit(c)
  BY <1>1 DEF Settings, Enable, Disable, SetEngine, WorkerStart, WorkerExit, Tick, Take,
              Admit, Due, Publish, ManualStart, DeleteAsk, strays
<1>2. CASE Delete
  BY <1>2 DEF Delete, DeleteLock, DeleteDatabase, DeleteResults, DeleteAudio, DeleteMetadata,
              DeleteStops, strays
<1>3. CASE Stray \/ Interrupt
  BY <1>3 DEF Stray, LateImport, LateDelete, Interrupt, MaybeImported, Committed
<1>4. ASSUME NEW t \in Transcriber, Transcribe(t) \/ TranscribeFails(t) \/ Dies(t)
      PROVE  late' = {}
  <2>1. CASE Dies(t) \/ TranscribeFails(t) \/ Import(t)
    BY <2>1 DEF Dies, TranscribeFails, Import, MaybeImported, Committed
  <2> QED
    BY <1>4, <2>1 DEF Transcribe, Busy, NoSpeech, Inspect, TakeLock, Infer, strays
<1> QED
  BY <1>1, <1>2, <1>3, <1>4 DEF Next, Worker

\* Without deletions nothing is doomed.
LEMMA NothingIsDoomed ==
  ASSUME TypeOK, Next, "delete" \notin Env, del.pc = "idle", doomed = {}, deletes = {}
  PROVE  del'.pc = "idle" /\ doomed' = {} /\ deletes' = {}
<1>0. ~Delete /\ \A c \in Capture : ~DeleteAsk(c)
  BY DEF Delete, DeleteAsk, DeleteLock, DeleteDatabase, DeleteResults, DeleteAudio, DeleteMetadata,
         DeleteStops, DeleteAt
<1>1. UNCHANGED del
  BY <1>0, DelStep
<1>2. CASE Settings \/ Due \/ WorkerStart \/ WorkerExit \/ Tick \/ Take \/ Interrupt
           \/ \E c \in Capture : Publish(c) \/ ManualStart(c) \/ Admit(c)
  BY <1>1, <1>2 DEF Settings, Enable, Disable, SetEngine, WorkerStart, WorkerExit, Tick, Take,
                    Admit, Due, Publish, ManualStart, Interrupt, strays
<1>3. CASE Stray
  BY <1>1, <1>3 DEF Stray, LateImport, LateDelete
<1>4. CASE \E t \in Transcriber : Transcribe(t) \/ TranscribeFails(t) \/ Dies(t)
  BY <1>1, <1>4 DEF Transcribe, TranscribeFails, Dies, Busy, NoSpeech, Inspect, TakeLock, Infer, Import,
                    strays
<1> QED
  BY <1>0, <1>2, <1>3, <1>4 DEF Next, Worker

\* Crashes and deletions stay apart.
LEMMA ApartStep ==
  ASSUME TypeOK, Apart, [Next]_vars
  PROVE  Apart'
<1>1. CASE UNCHANGED vars
  BY <1>1 DEF vars, strays, Apart
<1>2. CASE Next
  <2>1. "crash" \notin Env => imports' = {}
    BY <1>2, LeftBehind DEF Apart
  <2>2. "crash" \notin Env => late' = {}
    BY <1>2, NothingIsLate DEF Apart
  <2> QED
    BY <1>2, <2>1, <2>2, NothingIsDoomed DEF Apart
<1> QED
  BY <1>1, <1>2

\* Nobody runs the command by hand.
LEMMA ManualStaysDown ==
  ASSUME TypeOK, Next, "manual" \notin Env, proc["manual"].pc = "down"
  PROVE  proc'["manual"].pc = "down"
<1>0. DOMAIN proc = Transcriber /\ "manual" \in Transcriber /\ "manual" # "worker"
  BY DEF TypeOK, Transcriber
<1>1. CASE Settings \/ Due \/ Delete \/ Stray
  BY <1>1 DEF Settings, Enable, Disable, SetEngine, Stray, LateImport, LateDelete, Due, Delete, DeleteLock, DeleteDatabase,
              DeleteResults, DeleteAudio, DeleteMetadata, DeleteStops
<1>2. CASE \E c \in Capture : Publish(c) \/ ManualStart(c) \/ DeleteAsk(c) \/ Admit(c)
  BY <1>2 DEF Publish, ManualStart, DeleteAsk, Admit
<1>3. CASE WorkerStart \/ WorkerExit \/ Tick \/ Take \/ Interrupt
  BY <1>0, <1>3 DEF WorkerStart, WorkerExit, Tick, Take, Interrupt, Goto
<1>4. ASSUME NEW t \in Transcriber, Transcribe(t) \/ TranscribeFails(t) \/ Dies(t)
      PROVE  proc'["manual"].pc = "down"
  <2>1. t = "worker"
    BY <1>4 DEF Transcriber, Transcribe, TranscribeFails, Dies, Inspect, TakeLock, Busy, Infer,
                NoSpeech, Import, At
  <2>2. proc'["manual"] = proc["manual"]
    BY <1>0, <1>4, <2>1 DEF Transcribe, TranscribeFails, Dies, Inspect, TakeLock, Busy, Infer,
                            NoSpeech, Import, Goto, End
  <2> QED
    BY <2>2
<1> QED
  BY <1>1, <1>2, <1>3, <1>4 DEF Next, Worker

\* A queue that is kept has, for a job whose recording has its audio, the same
\* job again.
LEMMA JobIsKept ==
  ASSUME Kept, NEW i \in DOMAIN jobs, HasAudio(jobs[i])
  PROVE  \E j \in DOMAIN jobs' : jobs'[j].c = jobs[i].c /\ jobs'[j].provider = jobs[i].provider
BY DEF Kept, SameJob

\* So has one that is extended.
LEMMA JobIsAdmitted ==
  ASSUME TypeOK, QueueOK, NEW c \in Capture, Admit(c), NEW i \in DOMAIN jobs
  PROVE  i \in DOMAIN jobs' /\ jobs'[i] = jobs[i]
BY AdmittedQueue

\* The recording of a job with a saved transcript has its audio, if no other
\* recording has the same.
LEMMA SavedHasAudio ==
  ASSUME TypeOK, ResultsOK, \A c, d \in Capture : Audio[c] = Audio[d] => c = d,
         NEW k \in Key, result[k].stage = "speech", NEW i \in DOMAIN jobs, KeyOf(i, k)
  PROVE  HasAudio(jobs[i])
<1>1. jobs[i].c \in Capture
  <2>1. jobs[i] \in JobType
    BY ElementOfSeq, LenProperties DEF TypeOK
  <2> QED
    BY <2>1 DEF JobType
<1>2. PICK c \in Capture : dir[c] = "complete" /\ Audio[c] = k[1]
  BY DEF ResultsOK, HasCopy
<1>3. c = jobs[i].c
  BY <1>1, <1>2 DEF KeyOf
<1> QED
  BY <1>2, <1>3 DEF HasAudio

\* A job of the worker that stays at its recording is still the one it was.
LEMMA WorkerKeepsJob ==
  ASSUME InFlight, InFlight', Kept, proc'["worker"].pc \in Active,
         NEW i \in DOMAIN jobs, jobs[i].c = proc'["worker"].c
  PROVE  \E j \in DOMAIN jobs' :
           jobs'[j].c = proc'["worker"].c /\ jobs'[j].provider = jobs[i].provider
<1>1. PICK j \in DOMAIN jobs' : jobs'[j].c = proc'["worker"].c
  BY DEF InFlight, Active
<1>2. PICK n \in DOMAIN jobs : SameJob(jobs[n], jobs'[j])
  BY DEF Kept
<1>3. n = i
  BY <1>1, <1>2 DEF InFlight, SameJob
<1> QED
  BY <1>1, <1>2, <1>3 DEF SameJob

\* The worker's key has the provider of the job in flight.
LEMMA WorkersProvider ==
  ASSUME TypeOK, InFlight, NEW i \in DOMAIN jobs, Processing(i)
  PROVE  ProviderOf("worker") = jobs[i].provider
<1> DEFINE P(job) == job.state = "processing"
<1>1. jobs[i] \in Range(jobs) /\ P(jobs[i])
  BY DEF Range, Processing
<1>2. ASSUME NEW job \in Range(jobs), P(job) PROVE job = jobs[i]
  <2>1. PICK n \in DOMAIN jobs : job = jobs[n]
    BY DEF Range
  <2> QED
    BY <1>2, <2>1 DEF InFlight, Processing
<1>3. (CHOOSE job \in Range(jobs) : P(job)) = jobs[i]
  BY <1>1, <1>2
<1> QED
  BY <1>3 DEF ProviderOf

\* The worker's key stays the one of its job.
LEMMA WorkerKeyStep ==
  ASSUME TranscriptionInv, TranscriptionInv', KeysAreJobs, Next,
         proc'["worker"].pc \in {"locking", "infer", "import"}
  PROVE  \E j \in DOMAIN jobs' :
           jobs'[j].c = proc'["worker"].c /\ jobs'[j].provider = proc'["worker"].key[2]
<1>0. TypeOK /\ ProcsOK /\ LockOK /\ InFlight /\ QueueOK /\ InFlight'
      /\ proc'["worker"].pc \in Active
  BY Parts DEF TranscriptionInv, Active
<1>1. CASE \E c \in Capture : Admit(c)
  BY <1>1 DEF Admit, At
<1>2. CASE ~(\E c \in Capture : Admit(c))
  <2>0. Kept
    BY <1>0, <1>2, QueueStep
  <2>1. \E i \in DOMAIN jobs :
          jobs[i].c = proc'["worker"].c /\ jobs[i].provider = proc'["worker"].key[2]
    <3>1. CASE Inspects("worker")
      <4>1. /\ proc["worker"].pc = "inspect" /\ proc'["worker"].c = proc["worker"].c
            /\ proc'["worker"].key[2] = ProviderOf("worker")
        BY <3>1 DEF Inspects, ProcIs
      <4>2. PICK i \in DOMAIN jobs : Processing(i) /\ jobs[i].c = proc["worker"].c
        BY <1>0, <4>1 DEF InFlight, Active
      <4> QED
        BY <1>0, <4>1, <4>2, WorkersProvider
    <3>2. CASE /\ proc["worker"].pc \in {"locking", "infer", "import"}
               /\ proc'["worker"].c = proc["worker"].c /\ proc'["worker"].key = proc["worker"].key
      BY <3>2 DEF KeysAreJobs
    <3>3. CASE Moves("worker")
      BY <3>1, <3>2, <3>3 DEF Moves, Rests, Begins, Locks, Proceeds, ProcIs
    <3>4. CASE proc'["worker"] = proc["worker"]
      BY <3>2, <3>4
    <3>5. Moves("manual") => proc'["worker"] = proc["worker"]
      BY DEF Moves, Rests, Begins, Inspects, Locks, Proceeds, ProcIs, Transcriber
    <3> QED
      BY <1>0, <3>3, <3>4, <3>5, ProcStep DEF Transcriber
  <2> QED
    BY <1>0, <2>0, <2>1, WorkerKeepsJob
<1> QED
  BY <1>1, <1>2

\* Every step keeps the keys.
LEMMA KeysStep ==
  ASSUME TranscriptionInv, TranscriptionInv', KeysAreJobs, Apart, [Next]_vars,
         "manual" \notin Env, ~({"delete", "crash"} \subseteq Env),
         \A c, d \in Capture : Audio[c] = Audio[d] => c = d
  PROVE  KeysAreJobs'
<1>1. CASE UNCHANGED vars
  BY <1>1 DEF vars, strays, KeysAreJobs, KeyOf
<1>2. CASE Next
  <2>0. TypeOK /\ ProcsOK /\ LockOK /\ InFlight /\ QueueOK /\ ResultsOK /\ JobsOK
    BY Parts DEF TranscriptionInv
  <2>1. proc'["manual"].pc = "down"
    BY <1>2, <2>0, ManualStaysDown DEF KeysAreJobs
  <2>2. ASSUME NEW k \in Key, result[k].stage = "speech" \/ doomed = {},
               NEW i \in DOMAIN jobs, KeyOf(i, k)
        PROVE  \E j \in DOMAIN jobs' : k[1] = Audio[jobs'[j].c] /\ k[2] = jobs'[j].provider
    <3>1. CASE \E c \in Capture : Admit(c)
      BY <2>0, <2>2, <3>1, JobIsAdmitted DEF KeyOf
    <3>2. CASE ~(\E c \in Capture : Admit(c))
      <4>1. result[k].stage = "speech" => HasAudio(jobs[i])
        BY <2>0, <2>2, SavedHasAudio
      <4>2. doomed = {} => HasAudio(jobs[i])
        BY <2>0, <2>2 DEF JobsOK, HasAudio
      <4>3. HasAudio(jobs[i])
        BY <2>2, <4>1, <4>2
      <4>4. Kept
        BY <1>2, <2>0, <3>2, QueueStep
      <4> QED
        BY <2>2, <4>3, <4>4, JobIsKept DEF KeyOf
    <3> QED
      BY <3>1, <3>2
  <2>3. ASSUME NEW k \in conv \cup imports
        PROVE  k \in Key /\ (result[k].stage = "speech" \/ doomed = {})
    BY <2>0 DEF TypeOK, ResultsOK, Regular, Apart
  <2>4. ASSUME NEW t \in Transcriber, proc[t].pc \in {"infer", "import"}, Stage(t) = "speech"
        PROVE  /\ proc[t].key \in Key /\ result[proc[t].key].stage = "speech"
               /\ \E i \in DOMAIN jobs : KeyOf(i, proc[t].key)
    <3>1. t = "worker"
      BY <2>4 DEF KeysAreJobs, Transcriber
    <3>2. PICK i \in DOMAIN jobs :
            jobs[i].c = proc["worker"].c /\ jobs[i].provider = proc["worker"].key[2]
      BY <2>4, <3>1 DEF KeysAreJobs
    <3>3. proc[t].key \in Key /\ proc[t].key[1] = Audio[proc[t].c]
      BY <2>0, <2>4 DEF ProcsOK
    <3> QED
      BY <2>4, <3>1, <3>2, <3>3 DEF KeyOf, Stage
  <2>5. ASSUME NEW k \in conv' \cup imports'
        PROVE  \/ k \in conv \cup imports
               \/ \E t \in Transcriber : /\ proc[t].pc \in {"infer", "import"} /\ Stage(t) = "speech"
                                        /\ k = proc[t].key
    <3>1. CASE k \in imports'
      BY <1>2, <3>1, LeftBehind DEF At
    <3>2. CASE k \in conv' /\ k \notin conv /\ k \notin imports
      <4>1. PICK t \in Transcriber :
              /\ lock = t /\ result[proc[t].key].stage = "speech" /\ conv' = conv \cup {proc[t].key}
        BY <1>2, <2>0, <3>2, ConvStep DEF ConvMoves
      <4>2. proc[t].pc \in {"infer", "import"}
        BY <2>0, <4>1 DEF LockOK
      <4> QED
        BY <3>2, <4>1, <4>2 DEF Stage
    <3> QED
      BY <2>5, <3>1, <3>2
  <2>6. ASSUME NEW k \in conv' \cup imports'
        PROVE  \E j \in DOMAIN jobs' : k[1] = Audio[jobs'[j].c] /\ k[2] = jobs'[j].provider
    <3>1. k \in Key /\ (result[k].stage = "speech" \/ doomed = {}) /\ \E i \in DOMAIN jobs : KeyOf(i, k)
      BY <2>3, <2>4, <2>5, <2>6 DEF KeysAreJobs
    <3> QED
      BY <2>2, <3>1
  <2> QED
    BY <1>2, <2>1, <2>6, WorkerKeyStep DEF KeysAreJobs, KeyOf
<1> QED
  BY <1>1, <1>2

\* Automatic processing makes one conversation of a recording, whatever crashes,
\* retries, changes of the provider and deletions come between: as long as the
\* runtime is not updated, nobody transcribes by hand, no two recordings have
\* the same audio, and there are not both crashes and deletions (an import child
\* left behind may bring back a recording that was deleted and saved again).
THEOREM OneConversationEach ==
  ASSUME MaxRevision = 0, "manual" \notin Env, ~({"delete", "crash"} \subseteq Env),
         \A c, d \in Capture : Audio[c] = Audio[d] => c = d
  PROVE  Spec => []OneConversation
<1>1. Init => KeysAreJobs /\ Apart
  BY DEF Init, KeysAreJobs, Apart, Stopped, Transcriber, NoDeletion
<1>2. /\ TranscriptionInv /\ TranscriptionInv' /\ KeysAreJobs /\ Apart /\ [Next]_vars => KeysAreJobs'
      /\ TranscriptionInv /\ Apart /\ [Next]_vars => Apart'
  <2>1. TranscriptionInv /\ Apart /\ [Next]_vars => Apart'
    BY ApartStep DEF TranscriptionInv
  <2> QED
    BY <2>1, KeysStep
<1>3. TranscriptionInv /\ KeysAreJobs => OneConversation
  <2> SUFFICES ASSUME TranscriptionInv, KeysAreJobs, NEW k \in conv, NEW l \in conv, k[1] = l[1]
               PROVE  k = l
    BY DEF OneConversation
  <2>1. PICK i \in DOMAIN jobs : KeyOf(i, k)
    BY DEF KeysAreJobs
  <2>2. PICK j \in DOMAIN jobs : KeyOf(j, l)
    BY DEF KeysAreJobs
  <2>3. jobs[i].c \in Capture /\ jobs[j].c \in Capture
    <3>1. jobs[i] \in JobType /\ jobs[j] \in JobType
      BY ElementOfSeq, LenProperties DEF TranscriptionInv, TypeOK
    <3> QED
      BY <3>1 DEF JobType
  <2>4. i = j
    BY <2>1, <2>2, <2>3 DEF KeyOf, TranscriptionInv, InFlight
  <2>5. k[2] = l[2]
    BY <2>1, <2>2, <2>4 DEF KeyOf
  <2>6. k \in Digest \X Provider \X {0} /\ l \in Digest \X Provider \X {0}
    <3>1. 0 .. MaxRevision = {0}
      OBVIOUS
    <3> QED
      BY <3>1 DEF TranscriptionInv, TypeOK, Key
  <2> QED
    BY <2>5, <2>6
<1> QED
  BY <1>1, <1>2, <1>3, TranscriptionIsSound, PTL DEF Spec
=============================================================================
