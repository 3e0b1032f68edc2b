# omi-local: verified audio path, settings and finalization

TLA+ models, TLC runs and TLAPS proofs for three parts of this repository: the
local audio path, from a packet the phone has recorded to a conversation in the
local database, and back to nothing when the user deletes the recording; the
provider settings that decide which engines this path and the live preview run;
and, of the upstream backend, the durable finalization of a conversation.

## The system

The upstream application is a cloud product. This repository adds a *local*
mode: an iPhone paired with one computer that stores, transcribes and shows
everything itself. Its own logic is a chain of small persistent machines, beside
which the upstream backend goes on with its own:

| Component | State | Operations | Module |
| --- | --- | --- | --- |
| Phone outbox `app/lib/services/capture/local_audio_outbox.dart` | `.part` journals and `.ready` parts on the phone, the `_writes` chain, `pendingBytes`, `_queuedBytes`, the pump and its timer | begin, add, stop, checkpoint, recovery at start, drain, upload, count | `PhoneOutbox` |
| Server part intake `backend/routers/local_audio.py`, `backend/utils/local_audio_delivery.py` | semaphore, publication lock, staging, capture directories | receive, admit, publish, time out, refuse | `PartIntake` |
| Delivery protocol (the two over HTTP) | the request in flight | deliver, answer, give up | `AudioDelivery` |
| Transcription worker `dev_harness/local_stt_watch.py`, `local_stt.py` | `stt-watch.json`, `watch-queue.json`, result folders, the file lock, conversations | enable, disable, tick (prune, admit, take), transcribe, import, replay | `Transcription` |
| Recording deletion `dev_harness/local_library_delete.py`, `backend/utils/local_recording_delete.py` | shares all of the above | lock, database, results, audio, metadata | `Transcription` |
| Recording cards `backend/utils/local_recording_rows.py` | none, a projection | which captures are hidden | no: read-only |
| Pipeline stages and engines `dev_harness/local_pipeline.py` and adapters | stage checkpoints in a result folder | stt, diarization, summary | not yet |
| Streaming receiver `backend/utils/offline_audio_capture.py` | PCM part, WAV, metadata | record, rotate, finalize, recover | not yet |
| Provider registry `dev_harness/local_providers.py` | `providers.json` (cards, revision, effective selection), the key vault, the edit lock | read, save, delete, activate, probe, pin in a job | `ProviderRegistry` |
| Live preview and relay `dev_harness/local_stt_services.py`, `local_provider_relay.py` | the worker process, the backend's mode, the session gate, sessions | replace the worker, publish, restart, roll back, open, read, close | `ProviderRegistry`; what a session carries is left out |
| Conversation finalization `backend/database/conversation_finalization_jobs.py`, `backend/utils/conversations/finalizer.py`, `backend/routers/conversation_finalization.py`, ... | the conversation row, the outbox job, Cloud Tasks, leases, a run lock, projection shards | admit, resume, enqueue, claim, process, fan out, acknowledge, retry, dead-letter, replay, abandon, close | `Finalization` |
| Conversation processing `backend/utils/conversations/process_conversation.py`, `merge_conversations.py` | the same row | what it persists and reports | `Finalization`, the inside left out |
| Pairing session `app/lib/services/auth/local_mac_session.dart` | address, key, rejection | pair, verify, reject, sign out | not yet |
| Capture controller, device connectors, stack supervision, installers, web UI | | | no: I/O against devices and the operating system |
| Sync pipeline, canonical memory, cloud routers, live listening of the upstream product | | | no, see *Not modelled* |

How they meet:

- The controller calls the outbox (`begin`, `add`, `stop`); connectivity,
  foreground return and pairing changes call `recoverConnection()` and `retry()`.
- The pump posts a part; the server answers with a receipt only after the
  capture directory is renamed into the capture tree and synced; the phone
  deletes its copy only on a receipt with the same id and SHA-256.
- The worker polls the capture tree. It, the manual command and the deletion of
  a recording are separate processes that share the capture tree, the result
  folders and the database, and exclude each other with a non-blocking file lock.
- Every window of the library and every phone edits the provider settings through
  one lock and an optimistic revision; the relay's sessions and an activation
  exclude each other with a shared and exclusive gate; a queued transcription job
  pins the selection and its key when it is admitted.
- A session ends a conversation with a Firestore transaction that binds the row to
  one job. Cloud Tasks or the session's own pusher carry the job to a worker;
  in-request processors own a row without a job by a stamp; three sweeps of
  `backend/main.py` repair what a crash leaves.

What is hard here is what the tests of the repository can hardly reach: crashes
inside a write, answers that are lost or come late, pairing changes while
something is awaited, a publication that outlives its HTTP request, a worker that
dies between a database commit and its queue file, a deletion that stops half
way, an activation that publishes settings it read minutes before, a worker that
wakes up after its lease was given to another. `PROJECT.json` lists these hazards with the line where each bites and the
properties that would catch it.

## Modules

- **PhoneOutbox**. A part is `<<recording, index>>`; a file is a header flag, the
  complete packets and a `torn` flag, so that a crash or a failed write leaves
  any prefix of what `_open()` and `add()` write. `queue` is the `_writes` chain:
  one operation at its head is one action. The pump interleaves with the chain;
  `conn` is the upload it awaits. `NewPass` and `AfterRetry` are the start of
  `_drain()` and `retry()`. Servers are an environment that may store anything
  that was sent to them, at any time, and may or may not answer (`held`).
- **PartIntake**. One record per HTTP request with the stage its coroutine or
  thread has reached. `Finish` is the end of `store_part()` and `publish_part()`.
  A crash forgets requests; a power loss also undoes renames that were not synced.
- **AudioDelivery** instantiates both. `Held`, the synced captures, replaces the
  abstract server of PhoneOutbox, and `ImplementsOutbox` states that every step
  of the pair is a step of PhoneOutbox: the intake is a refinement of the server
  the outbox was verified against.
- **Transcription**. Capture directories, the queue, the two processes that may
  run `transcribe()`, and the deletion with a program counter. A result key is
  audio digest, provider and runtime revision. The import and the deletion from the
  database run in a child process, which does not hold its parent's file lock and is
  not ended with it: `imports` and `deletes` are the children whose parent was
  killed (`Dies`), and they may commit at any later time (`LateImport`,
  `LateDelete`). `doomed` and `late` are history: captures whose deletion reached
  the database, and conversations that such a child made.
- **ProviderRegistry**. A request that finds the lock taken or its revision stale
  is answered 409 and changes nothing, so only admitted edits are actions. An edit
  has a program counter: `save` stores the key, then the card; `activate` works on
  `original`, the copy of the file it read, and for the live stage goes through the
  gate, the new worker, the probe, the publication, the restart of a backend that
  predates the relay, and back (`Rollback`, `Restore`). A card is the version of
  its settings, its server and its key's version; a key's name is the number of the
  write it was made in. A start of the stack takes neither lock nor gate: it reads
  the settings (`StackReads`) and later sees to worker and backend (`StackStarts`),
  with any edit and any session between or beside the two; only a worker that
  serves a session (`Serving`) keeps the inference lock and is not replaced.
  `undone` and `broken` are history: writes an activation took back; an activation
  that died inside the gate or could not go back, or whose worker a start of the
  stack changed.
- **Finalization**. One conversation and its one job (nothing clears
  `finalization_job_id`). A Firestore transaction is one action, everything
  between two of them interleaves; a worker is the procedure
  `finalize_persisted_conversation` with a program counter, under the Cloud Tasks
  handler or under a pusher. Clocks are Boolean facts that time may change: a lease
  is live, a stamp is fresh, a job is old. It describes a deployment with dispatch
  switched on; a REST request to finalize is a session without keys of its own.
- **MCIntake**, **MCTranscription**, **MCRegistry** give the structured constants
  and the symmetry for TLC.
- **PartIntakeProofs**, **PhoneOutboxProofs**, **PhoneOutboxContents**,
  **PhoneOutboxPump**, **AudioDeliveryProofs**, **TranscriptionProofs**,
  **FinalizationProofs** and **ProviderRegistryProofs** hold the theorems.

Operators named `Mut...` are plausible wrong versions of the definition they
stand before (a dropped guard, a forgotten release). Nothing uses them; put in
place of the original, each makes TLC refute the property that PROJECT.json pairs
it with, which shows that the property depends on that line of the code.

## Runs

| Run | Instance | Shows |
| --- | --- | --- |
| OutboxJournal | 1 Opus recording, 4 packets, parts of 2, all I/O faults | `FlushedIsKept`, `RetriesAreIdentical`, `SealedIsAcceptable`, `PartsAreOrdered`, `QueueIsAccounted`, `StorageIsBounded`, `SealedIsImmutable`, `TypeOK` |
| Outbox | 2 recordings, 2 servers, pairing changes, journal faults, fairness | `OnlyToOwner`, `PromptPickup`, `RetryArmed`, `EventualDelivery` |
| Intake | 3 requests, 2 permits, 2 identities, 2 bodies, one invalid pair, fairness | `PermitsFollowBodies`, `ReceiptIsDurable`, `ReserveIsKept`, `NeverOverwritten`, `PublicationEnds`, `TypeOK` |
| Delivery | 1 recording with 2 parts, 2 handlers, crashes of both sides | `NothingIsLost`, `RetriesAreAccepted`, `AnswersMatchRequests`, `ImplementsOutbox` |
| Library | 2 captures with the same audio, deletion, crashes, children left behind | `ConversationHasAudio`, `CompletedIsImported`, `OneJobInFlight`, `AttemptsCountErrors` |
| Contention | worker and manual command on 1 capture and one lock, crashes, opt-out, 1 runtime update, fairness | `AttemptsCountErrors`, `EventuallyTranscribed`, `TypeOK` |
| Finalization | 1 conversation, 2 workers, 2 attempts, 2 faults of any kind, 1 intervention, fairness | `ProjectionIsExact`, `EpochsAreUnique`, `EndsTruthfully`, `TerminalIsFinal`, `RecoveryEnds`, `TypeOK` |
| Registry | 2 editors, 1 session, 1 job, 4 cards, 2 servers, 3 writes | `KeysResolve`, `PipelineRuns`, `TypeOK` |
| Activation | 2 editors, 1 session, a managed and an external live card, starts of the stack, 3 writes | `SessionsAreServed`, `NoBlindEdit` |

Three runs end in a violation, each of a sentence in the documentation or in a
comment:

- **RetryFault** (`RetryArmed`): "Delivery retries every fifteen seconds while the
  application can execute" (docs/RECORDING_DURABILITY.md:59). If
  `_countPending()` throws in the `finally` of `_drain()`, no timer is armed.
- **RuntimeUpdate** (`OneConversation`): "Replaying transcribe reuses its JSON and
  create-if-absent Conversation" (local_stt_watch.py:140). The replay reads the
  runtime revision again; after an update the result key is another one.
- **LateImport** (`DeletionIsComplete`): "The lock stops deletion racing an active
  import" (local_library_delete.py:39). The worker is killed, the kernel frees its
  lock, the import child runs on, a deletion takes the lock and finishes, and the
  child commits a conversation whose audio is gone.

### Bounds

Each bound is the smallest with which the interesting case happens. Four packets
with parts of two give a second part with pre-roll, a rotation inside an add and
a checkpoint before and after it; one quota refusal needs `MaxStorage = 6`.
Two recordings and two servers are what a pairing change during an upload needs.
Three requests for two permits make one wait while another's caller has timed
out. `Capacity = 5` lets the second of two concurrent stagings be the one that
would eat the reserve. Two captures with one digest are the shared-transcript
case. `MaxOps` bounds how many operations may wait when a checkpoint is
requested, `MaxRevision` the runtime updates, `MaxPackets` the audio.

`Library` and `LateImport` have no runtime update (`MaxRevision = 0`): it would only
add keys. `Contention` and `RuntimeUpdate` have one, on a single recording.
`Contention` gives it two attempts, so that a busy lock and an error come before the
last; deletions meet the worker in `Library`. There is no passing run for
`OneConversation`: it would be an instance of the theorem `OneConversationEach`.

`Registry` and `Activation` split the cards by what the rules tell apart, since no
instance with all of them finishes in minutes. `Registry` has a live card and a recogniser on a
server, a recogniser that can embed a diarization, an embedded diarization and two
servers: what keys and pipelines depend on. `Activation` has a managed live worker,
an external one and one server: what a replacement of the worker depends on. Three
writes are what it takes to save a key, select its card and move the card to another
server, or to publish, take back and edit again; `MaxCards = 3` makes the limit
refuse a card in `Registry`. The proofs have no such split.

`Finalization` counts in one budget, `MaxFaults`, whatever a deployment sees
seldom: crashes, exceptions, failed enqueues, a lease, a lock or a heartbeat of a
*running* owner that ends, a slow answer that Cloud Tasks gives up on, a replay of
a job that is still on its way, the last retry lost to a held lock, a fence refused
because the fanout began, a merge that fails or dies. Two of them in one behaviour give the
double faults (a crash in the recovery of a crash). Nothing is charged for time
that passes when nobody is running. `MaxTouches` counts what users and other lanes
do to the row, a cutover of the account, and the verdicts of processing that leave
no readable conversation (dropped, skipped, deferred, or the write of a custom-STT
result that failed). Each replay opens a task
generation, and only a fault or an intervention makes a job need one more, so the
`MaxFaults + MaxTouches + 1` generations of `Gens` cut no behaviour off (`TypeOK`
would fail; `NoIdleReplay` proves it). `MaxAttempts = 2` has a first and a last attempt.

Symmetry is used for editors and servers in `Registry` and `Activation`, which have
no liveness.

### Fairness

- Phone: the Dart event loop runs what is pending (weak fairness of the chain, the
  timer and the pump), and the 35 s timeout ends an upload. A capability check, a
  request and an answer that are tried again and again succeed at last (strong
  fairness); nothing is assumed of users, crashes or pairing. `EventualDelivery`
  therefore speaks of behaviours in which the application stays up and paired.
- Intake: runnable threads run; a `threading.Lock` that is released again and
  again is obtained at last.
- Worker: its loop, its back-off and `transcribe()` (bounded by subprocess
  timeouts) go on. `EventuallyTranscribed` speaks of behaviours in which, from some
  time on, it stays up and no manual run or deletion has the lock: the lock is tried
  and not waited for, so nothing promises that it is ever found free under an endless
  series of them. Before that time they, and crashes, may come at any point.
- Finalization: running code takes its next step, Cloud Tasks delivers what is
  pending, a lease and a lock without an owner run out, and the three sweeps run for ever (`backend/main.py`, every 300 s). A merge is a background task
  of its process: it ends as other running code does, or dies with it (`DirectCrash`),
  and then its row stays on `merging`. Nothing is assumed of users
  and sessions: that a job which waits for a user's own keys ends is promised only
  once a session has resumed it.

Deadlock is checked in all runs but those of `Finalization`, where a conversation that is
finished, or deleted, rightly rests.

### Observations

What the modelling met beside the three findings, and that the properties state as
it is:

- After a roll-back the revision that was taken back is given again to the next
  write. A window that read the withdrawn settings may then edit without a 409;
  this is the exception in `NoBlindEdit`.
- An activation that dies inside the gate leaves a worker that the file does not
  name until the stack starts again; sessions meet it. The same comes of a start of
  the stack that overlaps an activation: it may replace the worker that was just
  probed with the one of the settings it read before. Both are `broken` in
  `SessionsAreServed`. Without an activation beside it a start of the stack does no
  harm: a session reads what is in the file, and a worker that serves is not replaced.
- A deletion child that outlives a killed library may remove the conversation of a
  copy whose own job is completed; `doomed` counts such copies as deleted.
- A finalization that is fenced after its fanout began is refused and repeated
  until its attempts are used up.
- A merge that dies, or fails on a row the user has discarded, leaves the row on
  `merging`, and no sweep repairs it. If the row's job had begun its fanout, every
  fence is refused and the reconciler replays it for ever: `MergeLeft`, the exception
  in `RecoveryEnds`. Without it TLC refutes the property; with it the property also
  holds when a discard and a merge come together, which one intervention does not
  allow (`Events = {"discard", "merge"}`, `MaxTouches = 2`, one verdict, a minute).
- The write that completes a custom-STT conversation, "so the conversation is not
  left stuck in `processing`" (process_conversation.py:2123), may fail: the exception
  is swallowed and reported as lost persistence, the job is fenced, which is final,
  and no sweep looks at a bound row (verdict `"lost"`). `EndsTruthfully` excepts it
  (`touched`).
- A job may be abandoned after its fanout was delivered: an attempt with the user's
  own keys delivers and fails before, or right after, the acknowledgement, and the
  session does not return. The sweep then records the fanout as fenced without
  looking at it, where the code says "Nothing was ever delivered to an external
  integration" (conversation_finalization_jobs.py:1940). `TerminalIsFinal` has the
  exception.
- A conversation that processing skips (an expired trial) stays on `processing` in
  the database: `process_conversation` marks only its copy completed, "so the
  client doesn't show a stuck "processing" state forever" (process_conversation.py:2085),
  and reports that nothing was persisted. The job is fenced, and no sweep looks at
  a row that is bound to a job. `EndsTruthfully` excepts this as well.

## Proofs

`PartIntakeProofs` proves for every set of requests, parts and bodies and every
capacity:

- `TypeCorrect`; `ReceiptsAreDurable` and `ReserveStaysFree` from the inductive
  invariant `IntakeInv`; `CapturesAreNeverOverwritten` (an action property) from
  the same invariant; `PermitsAreExact` by counting the finite set of bodies.

Why the strengthening: a receipt is given, and space is spent, on what a thread
found out some steps before. `LockIsExclusive` says that only the holder of the
publication lock is between check and receipt, and `WorkIsSound` what it may then
rely on (room was found, the identity is unused, the capture has its body).
Without the lock, two threads pass the capacity check together.

`PhoneOutboxProofs` proves for every set of recordings and servers, all limits
and any faults:

- `AudioGoesToItsOwner`, `SealedPartsAreImmutable` (an action property),
  `RetriesCarryTheSameBytes` and `FlushedPacketsAreKept`, all from the inductive
  invariant of `OutboxIsSound`.

Why the strengthening: that a write never lands in a sealed part depends on the
index the next journal takes. `FilesAreFresh` says that the indices from
`rec[r].index` on are unused while the recording can write, which needs one unused
index per waiting packet, hence the order of the chain (`ChainIsOrdered`).
`UploadIsBound` says that the upload in progress carries the sealed file it
names; a deletion is then covered by the receipt. `SentIsSettled` says that a part
that was sent is still the same sealed file or is gone for good: its index is used
up or its recording ended with the process. `JournalEffect` reduces the eight
operations of the chain to three effects on the files (kept, sealed, written), so
that the invariant is argued once for each effect. The invariant also holds with
TLC on the instances of `OutboxJournal.cfg` and `Outbox.cfg` (run
`PhoneOutboxProofs` with `OutboxInv` and `SentIsSettled` as INVARIANTs); the
configurations kept here list only the properties that follow from it.

`PhoneOutboxContents` builds on it and proves, under the same assumptions,
`SealedPartsAreAcceptable` and `PartsHoldTheirOrder` from the inductive invariant of
`ContentsAreSound`. Whether a part will be accepted is settled before it is sealed,
and a recovery may seal whatever a crash left. So the invariant speaks of every
file, open or torn (`FileIsSound`), of every request (`SentIsSound`), and, while a
recording can still write, of what the next write depends on: no packet is skipped
between the chain and the files (`NoGaps`), the decoder context directly precedes
the next packet (`RingIsCurrent`), and the counters that decide on rotation agree
with the file (`JournalIsCounted`). A recording that failed, or that a crash ended,
owes none of these any more. TLC checked `ContentsInv` on both outbox instances
before.

`PhoneOutboxPump` proves `NewPartsArePickedUp`, `TimerIsArmed`,
`QueuedBytesAreExact`, `StorageQuotaHolds` and `TypesAreKept`. Each seal is followed by `retry()`, which either starts a
pass over all that is sealed or asks the one under way for another; the count that
ends a pass arms the timer. The first two assume `"directory" \notin Faults`, the
hypothesis of the run `Outbox`: with a directory that cannot be listed they are
false (`RetryFault` shows it of the second, TLC also of the first). The
third has no such hypothesis: it counts the packets on the chain as it grows and
shrinks.

Neither has the quota. It is tested against `pendingBytes`, which is not what the
directory holds: a delivered file stays counted until its pass ends, and what a
failed write left is not counted. So the bound on the files is not inductive.
`QuotaInv` adds how far the counter may fall short (`Slack`, one packet and its
decoder context for each recording that failed: a failure is latched, so it pays
once) and that the decoder context is never longer than that (`RingsAreShort`). A
recovery and a count make the counter exact again, a count that fails keeps it, and
while the process is dead only the bound itself is owed. `DiskBytes` is the
cardinality of the units that the files occupy (`Stored`), so that it can be
reasoned about with the theorems on finite sets.

`AudioDeliveryProofs` proves of the two components together, for any recordings,
handlers, limits and faults:

- `IntakeServesTheOutbox`, the refinement `ImplementsOutbox`: every step of phone,
  network and server is a step or a stutter of `PhoneOutbox` with `Held` as its
  servers;
- `NothingIsEverLost`, `AnswersAreForTheirRequests` and `RetriesAreNeverRefused`.

The invariant `DeliveryInv` has those of both sides and what ties them together
(`TiesOK`): the request the phone waits for, every handler's body and every capture
was sent, and at most one handler can answer the phone, with the part and bytes it
waits for. A late handler can therefore only store what some request carried, which
the outbox allows. That a retry is never refused follows from three results: what a
handler checks was sent; all that was sent of one part are the same bytes
(`SentIsSettled`); these are acceptable (`SentIsSound`). `PhoneP` and `IntakeP` are
the two instances with their proof modules; `SamePhone` and `SameIntake` show that
they have the steps of `Phone` and `Intake`.

`TranscriptionProofs` proves for any recordings, providers, audio digests, runtime
updates, limits and crashes:

- `TranscriptionTypes`, `OnlyErrorsUseAttempts`, `AtMostOneInFlight`,
  `ConversationsKeepTheirAudio` and `CompletedJobsAreImported`, from the inductive
  invariant of `TranscriptionIsSound`.

Why the strengthening: a process chooses its key before it waits for the file lock
and acts on it afterwards, and a deletion releases its promises one file at a time.
`LockOK` says which program counters own the lock, `InFlight` which job the worker
has in hand, `ResultsOK` that a transcript has a recording and that a conversation
has a transcript, unless a child made it that was left behind (`Regular`; the
exception ends when a transcription that holds the lock finds the conversation in
place). `DeletionOK` is what a deletion still owes: it knows every result of the
audio before it takes the conversations, has taken these before a result, and takes
the audio last unless a copy remains. `JobsOK` says that a deletion never takes the
conversation of another completed job with the same audio. A restart may prune and
replay the queue at any of these points.

`OneConversationEach` proves `OneConversation` from four hypotheses on the constants:
`MaxRevision = 0`, no manual command, no two recordings with the same audio, and not
both crashes and deletions. The run `RuntimeUpdate` shows that the first is needed, and
TLC finds a second conversation as soon as the second or the third is dropped
(another provider is selected in between). With crashes and deletions together, an
import child left behind may bring back the conversation of a recording that was
deleted and saved again. Its invariant
`KeysAreJobs` says that every conversation, and the one the worker is about to make,
has the provider of a job in the queue. A job cannot be pruned and admitted anew with
another provider while its conversation is there, because a conversation has its audio.

`FinalizationProofs` proves for any number of workers, attempts, task generations,
faults and interventions:

- `ProjectionIsAlwaysExact`, `LeasesAreExclusive`, `FinalizationEndsTruthfully` and
  the action property `FinishedJobsStay`, from the inductive invariant of
  `FinalizationIsSound`.

Why the strengthening: a worker acts on a lease that may have run out, been
replayed and claimed again since. `EpochsAreUnique` makes the fence of each
transaction decisive, `OutcomeIsEarned` says which outcomes the fields allow, and
`Undisturbed` what row, job and lease holder say of each other as long as `touched`
is zero: nobody else touched the row, and no attempt ended in a verdict that leaves
no readable conversation; `EndsTruthfully` has the same exception. The actions are
sorted by what they do to the job (`JobStep`), to a worker (`WorkerMove`) and to the
row (`RowStep`), so that each part is argued once per kind.

A second part of the module proves `NoIdleReplay` and, from it,
`FinalizationTypesAreKept`. A replay looks only at stamps and statuses, so that a
job is not replayed for ever, or while its task is about to run, depends on the
whole history. A job is on its track (`OnTrack`) when it is not the reconciler's;
when it waits, its task due or about to be enqueued and nobody at work on it; or
when exactly one worker of its generation serves it on a live lease and finds row
and fanout as its next step needs them. Every step of a worker that is not a fault
keeps it there. `Paid` is the account: generations, one more if the job is off its
track, and one that a merge pays in advance, are at most the faults and
interventions plus one; a replay puts the job back on its track with the unit that
put it off. `Lanes` says that workers, sessions and sweeps never run ahead of the
generation, `RowWays` which rows a live job can meet.

`ProviderRegistryProofs` proves for every set of editors, sessions, cards and
servers, and any number of writes:

- `TypeCorrect`, and from the inductive invariant of `RegistryIsSound`:
  `EveryPipelineRuns`, `EveryKeyResolves`, `NobodyEditsBlindly` and
  `EverySessionIsServed`.

Why the strengthening: an activation publishes a copy of the file that it made long
before, and puts that copy back when it fails. So each property must hold of the
copies too, and the copy must still be the file when it is published
(`CopiesAreCurrent`), which rests on the lock (`EditsHoldLocks`: an editor at work
holds it, and the gate exactly while it is at the worker). `WritesAreCounted` keeps
the names of keys and of revisions fresh. `PipelinesFit` says what was checked of a
request when it began; `KeysAreGiven` that a key which is stored and not yet
referred to belongs to the server of its request; `ScreensAreOld` that a screen with
the current revision shows the current write, or one taken back, for the copy as
well while an activation may still return to it. `WorkersServe` says that outside a
replacement the worker runs the effective settings, that during one no session is
open, that a session holds the settings in the file, and that what is about to be
published is what was started, always unless `broken`. A start of the stack relies
on no lock, so the invariant asks nothing of the settings it read: when it replaces
a worker it either restores the effective one or is counted as `broken`, and a
session that is served keeps its worker (`Serving`). `StepKinds` sorts
the actions by what they do to file, copies and vault, so that each part is argued
once per kind.

Assumptions are the named `ASSUME`s of the modules; TLC evaluates them on every
run. Left to TLC:

- all liveness and fairness (`EventualDelivery`, `PublicationEnds`,
  `EventuallyTranscribed`, `RecoveryEnds`), which the prover does not handle.

Every invariant and every action property of the passing runs is also the statement
of a theorem.

## Not modelled

- *Summary and translation stages* of the registry: they are activated as the
  recogniser is, without the rule on embedded diarization.
- *Recording cards*: a projection of the same files, without state of its own.
- *What a live session carries* (frames, drafts, translations): best effort, with no
  promise to check.
- *Recording sessions and meeting receipts* beside a finalization: rows of their own
  that the job does not read. *The inside of a merge or of processing*: calls of
  models and writes that do not concern the job.
- *Canonical memory, sync pipeline, cloud routers, live listening*: by far most of
  the lines of the repository, and the upstream product. The routers are
  single-document operations over Firestore and services; listening is I/O against
  devices and engines; sync does not run in local mode. Canonical memory (its apply
  store, consolidation and daily sweep) is a system of its own, larger than all that
  is modelled here, and would be a project beside this one.
- *Device connectors, supervision, installers, web UI*: I/O.

## Plan

1. `PairingSession` under the outbox: the chains `_connectionEdits` and
   `_serverEdits`, late rejections and late capability answers, sign-out against a
   publication under way.
2. `OfflineCapture` (rotation and recovery of the streaming receiver, 'completed'
   against 'recovered') and its composition with the worker's admission.
3. Intake and Transcription composed: a deletion that stops between the two
   unlinks, a retry after a deletion.
4. The stage checkpoints of the pipeline; the Opus pre-roll rule as a pure
   algorithm: `LocalOpusPreroll.remember()` against `validate_preroll()` over bounded
   packet durations.
5. An abstract `DurableAudio` specification of the whole path and its refinement.
