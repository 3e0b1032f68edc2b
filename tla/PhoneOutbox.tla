---------------------------- MODULE PhoneOutbox ----------------------------
(***************************************************************************)
(* The durable audio outbox of the local iPhone application                *)
(* (app/lib/services/capture/local_audio_outbox.dart).                     *)
(*                                                                         *)
(* Packets are appended and flushed to a journal (".part").  Sealing       *)
(* renames it to ".ready"; the delivery pump uploads ".ready" files to the *)
(* server their recording was bound to and deletes one only on a matching  *)
(* receipt.  Journal operations run one at a time on the `_writes' chain;  *)
(* the pump runs beside it, and the process may die inside any of them.    *)
(* The file operations inside one chain operation are visible to nobody    *)
(* else (the pump looks at ".ready" files only), so an operation is one    *)
(* step whose failures, like a crash, leave every partial result.          *)
(*                                                                         *)
(* Data: packet n of a recording is the number n; a packet, a fragment of  *)
(* one and a header take one unit of storage, a packet one unit of time;   *)
(* part ids are <<recording, index>> (a UUID in the code); the SHA-256 of  *)
(* a body is the body.  Servers are external: see AudioDelivery.           *)
(***************************************************************************)
EXTENDS Naturals, Sequences, FiniteSets, Functions

CONSTANTS
  Recording,    \* recordings the application may begin
  Opus,         \* the recordings whose codec is Opus (the others are PCM16)
  Server,       \* paired server identities: hash of origin and app key
  NoServer,     \* "signed out"
  NoConn,       \* "no upload in progress"
  MaxPackets,   \* bound: packets offered to one recording
  PartAudio,    \* partDuration, in packets
  PartPackets,  \* maxPartPackets / maxPartBytes, pre-roll included
  Preroll,      \* packets that make up 80 ms of Opus decoder context
  MaxStorage,   \* maxStorageBytes
  MaxQueued,    \* maxQueuedBytes
  MaxOps,       \* bound: operations on the chain when a checkpoint is asked for
  Faults        \* which I/O may fail: "journal" files, the "directory"

ASSUME OutboxAssumption ==
  /\ IsFiniteSet(Recording) /\ Opus \subseteq Recording
  /\ NoServer \notin Server
  /\ MaxPackets \in Nat \ {0}
  /\ PartAudio \in Nat \ {0}
  /\ Preroll \in Nat \ {0}
  /\ PartPackets \in Nat /\ PartPackets > Preroll
  /\ MaxStorage \in Nat /\ MaxQueued \in Nat /\ MaxOps \in Nat
  /\ Faults \subseteq {"journal", "directory"}

Packet == 1 .. MaxPackets
Part   == Recording \X (0 .. MaxPackets - 1)

VARIABLES
  alive,    \* the application runs
  paired,   \* the server LocalMacSession is signed in to
  rec,      \* LocalAudioRecording objects
  disk,     \* the outbox directory: one file per part
  queue,    \* `_writes': the pending operations, the head is next
  store,    \* pendingBytes and _queuedBytes
  drain,    \* the delivery pump and its retry timer
  conn,     \* the upload the pump is waiting for
  flushed,  \* history: packets whose flush returned, per recording
  sent,     \* history: <<server, part, body>> of the requests sent
  held      \* external: <<server, part, body>> the servers acknowledged

vars == <<alive, paired, rec, disk, queue, store, drain, conn, flushed, sent, held>>

-----------------------------------------------------------------------------
(* Files: `head' says that the header is complete, `pre' and `fresh' are   *)
(* the complete packets behind it, `torn' that a fragment follows.         *)

NoFile == [st |-> "absent", head |-> FALSE, pre |-> <<>>, fresh |-> <<>>, torn |-> FALSE]

Body(f)      == [pre |-> f.pre, fresh |-> f.fresh]
Files(d, st) == {p \in Part : d[p].st = st}
Ready(d)     == Files(d, "ready")
Pending(d)   == Files(d, "part") \cup Files(d, "ready")

Unit(b)      == IF b THEN 1 ELSE 0
Size(f)      == Unit(f.head) + Len(f.pre) + Len(f.fresh) + Unit(f.torn)

\* What is stored in directory d, unit by unit: its file and its offset there.
Stored(d)    == UNION {{p} \X (1 .. Size(d[p])) : p \in Part}
DiskBytes(d) == Cardinality(Stored(d))

-----------------------------------------------------------------------------
AddOp(r, n)     == [kind |-> "add", r |-> r, n |-> n]
StopOp(r)       == [kind |-> "stop", r |-> r]
CheckpointOp(r) == [kind |-> "checkpoint", r |-> r]
CountOp         == [kind |-> "count"]

\* The operation at the head of the chain is of this kind, for recording r.
Runs(kind, r) ==
  alive /\ queue # <<>> /\ Head(queue).kind = kind /\ (kind # "count" => Head(queue).r = r)

NewRecording == [status |-> "new", owner |-> NoServer, offered |-> 0, index |-> 0,
                 handle |-> FALSE, audio |-> 0, count |-> 0, ring |-> <<>>, failed |-> FALSE]

OpenRecordings == {r \in Recording : rec[r].status = "open"}

\* The part of the open journal: _index was advanced when it was opened.
Current(r) == <<r, rec[r].index - 1>>

IdleDrain == [phase |-> "idle", todo |-> {}, tried |-> {}, requested |-> FALSE, timer |-> FALSE]

\* _drain() cancels the timer and lists the directory before it first waits.
NewPass(d) == [IdleDrain EXCEPT !.phase = "pass", !.todo = Ready(d)]

\* Mutant: a request made during a pass is forgotten.
MutAfterRetry(d) == IF drain.phase = "idle" THEN NewPass(d) ELSE drain

\* retry(): start the pump on directory d, or ask the active one again.
AfterRetry(d) ==
  IF drain.phase = "idle" THEN NewPass(d) ELSE [drain EXCEPT !.requested = TRUE]

Init ==
  /\ alive = FALSE
  /\ paired \in Server \cup {NoServer}
  /\ rec = [r \in Recording |-> NewRecording]
  /\ disk = [p \in Part |-> NoFile]
  /\ queue = <<>>
  /\ store = [bytes |-> 0, queued |-> 0]
  /\ drain = IdleDrain
  /\ conn = NoConn
  /\ flushed = [r \in Recording |-> {}]
  /\ sent = {} /\ held = {}

-----------------------------------------------------------------------------
(* Start-up: initializeProduction(), initialize().                         *)

\* Mutants: the torn tail is published; sealed parts are rewritten, too.
MutRecoveredTorn(f) ==
  IF f.st = "part" /\ f.head /\ f.fresh # <<>> THEN [f EXCEPT !.st = "ready"] ELSE f
MutRecoveredSealed(f) ==
  IF f.head /\ f.fresh # <<>> THEN [f EXCEPT !.torn = FALSE, !.st = "ready", !.pre = <<>>] ELSE f

\* _recover(): an invalid header is kept for investigation, decoder context
\* alone is no recording; otherwise the tail is trimmed, the file renamed.
Recovered(f) ==
  IF f.st = "part" /\ f.head /\ f.fresh # <<>>
  THEN [f EXCEPT !.torn = FALSE, !.st = "ready"]
  ELSE f

\* Every journal is recovered, except those whose I/O fails; then the
\* directory is counted, the listeners attached and retry() called.
Start ==
  /\ ~alive /\ alive' = TRUE
  /\ \E broken \in SUBSET Files(disk, "part") :
       /\ "journal" \notin Faults => broken = {}
       /\ disk' = [p \in Part |-> IF p \in broken THEN disk[p] ELSE Recovered(disk[p])]
  /\ store' = [store EXCEPT !.bytes = DiskBytes(disk')]
  /\ drain' = AfterRetry(disk')
  /\ UNCHANGED <<paired, rec, queue, conn, flushed, sent, held>>

-----------------------------------------------------------------------------
(* Calls from the capture controller and the application's listeners.      *)

\* The controller begins a recording for the signed-in server once stop() of
\* the one before has ended.
Begin(r) ==
  /\ alive /\ paired # NoServer
  /\ rec[r].status = "new" /\ OpenRecordings = {}
  /\ \A i \in DOMAIN queue : queue[i].kind # "stop"
  /\ rec' = [rec EXCEPT ![r].status = "open", ![r].owner = paired]
  /\ UNCHANGED <<alive, paired, disk, queue, store, drain, conn, flushed, sent, held>>

\* Mutant: an add does not wait for the writes before it.
MutAdd(r) ==
  /\ alive /\ rec[r].status = "open"
  /\ rec[r].offered < MaxPackets
  /\ store.queued + 1 <= MaxQueued
  /\ rec' = [rec EXCEPT ![r].offered = @ + 1]
  /\ queue' = <<AddOp(r, rec[r].offered + 1)>> \o queue
  /\ store' = [store EXCEPT !.queued = @ + 1]
  /\ UNCHANGED <<alive, paired, disk, drain, conn, flushed, sent, held>>

\* add(): a packet that would overrun maxQueuedBytes, or comes after stop(),
\* is refused with an error and changes nothing.
Add(r) ==
  /\ alive /\ rec[r].status = "open"
  /\ rec[r].offered < MaxPackets
  /\ store.queued + 1 <= MaxQueued
  /\ rec' = [rec EXCEPT ![r].offered = @ + 1]
  /\ queue' = Append(queue, AddOp(r, rec[r].offered + 1))
  /\ store' = [store EXCEPT !.queued = @ + 1]
  /\ UNCHANGED <<alive, paired, disk, drain, conn, flushed, sent, held>>

\* stop(): fences new packets at once and seals behind the accepted ones.
Stop(r) ==
  /\ alive /\ rec[r].status = "open"
  /\ rec' = [rec EXCEPT ![r].status = "closed"]
  /\ queue' = Append(queue, StopOp(r))
  /\ UNCHANGED <<alive, paired, disk, store, drain, conn, flushed, sent, held>>

\* recoverConnection(), on regained connectivity or foreground return:
\* checkpoint the open recording, then (or at once) retry().
RecoverConnection ==
  /\ alive
  /\ \/ /\ OpenRecordings = {}
        /\ drain' = AfterRetry(disk) /\ queue' = queue
     \/ /\ Len(queue) < MaxOps
        /\ \E r \in OpenRecordings : queue' = Append(queue, CheckpointOp(r))
        /\ drain' = drain
  /\ UNCHANGED <<alive, paired, rec, disk, store, conn, flushed, sent, held>>

\* A pairing change notifies its listener, which is retry().
Pair(s) ==
  /\ alive /\ s # paired
  /\ paired' = s
  /\ drain' = AfterRetry(disk)
  /\ UNCHANGED <<alive, rec, disk, queue, store, conn, flushed, sent, held>>

-----------------------------------------------------------------------------
(* Operations of the chain. *)

\* The head operation ends leaving directory d; retry() was called by _seal()
\* (sealed), or is called by recoverConnection() behind its checkpoint.
EndOp(d, sealed) ==
  /\ disk' = d
  /\ queue' = Tail(queue)
  /\ drain' = IF sealed \/ Head(queue).kind = "checkpoint" THEN AfterRetry(d) ELSE drain

\* The part limits: audio time, and packets or bytes with the pre-roll.
PartFull(r) == rec[r].audio + 1 > PartAudio \/ rec[r].count >= PartPackets

\* _seal() has work to do: before a packet that does not fit, for stop(), and
\* for checkpoint() unless the recording was closed or has failed.
Seals(r) ==
  /\ rec[r].handle
  /\ \/ Runs("add", r) /\ ~rec[r].failed /\ PartFull(r)
     \/ Runs("stop", r)
     \/ Runs("checkpoint", r) /\ rec[r].status = "open" /\ ~rec[r].failed

\* Mutant: the sealed journal stays open for the next packets.
MutSeal(r) ==
  /\ Seals(r) /\ ~rec[r].failed
  /\ EndOp([disk EXCEPT ![Current(r)].st = "ready"], TRUE)
  /\ UNCHANGED <<alive, paired, rec, store, conn, flushed, sent, held>>

\* The journal becomes an immutable part and retry() is called; an add stays
\* at the head to open the next journal.
Seal(r) ==
  /\ Seals(r) /\ ~rec[r].failed
  /\ rec' = [rec EXCEPT ![r].handle = FALSE]
  /\ LET sealed == [disk EXCEPT ![Current(r)].st = "ready"]
     IN  \/ /\ Head(queue).kind = "add"
            /\ disk' = sealed /\ queue' = queue /\ drain' = AfterRetry(sealed)
         \/ /\ Head(queue).kind # "add"
            /\ EndOp(sealed, TRUE)
  /\ UNCHANGED <<alive, paired, store, conn, flushed, sent, held>>

\* After a failed write the journal is closed, but not published.
SealDamaged(r) ==
  /\ Seals(r) /\ rec[r].failed
  /\ rec' = [rec EXCEPT ![r].handle = FALSE]
  /\ EndOp(disk, TRUE)
  /\ UNCHANGED <<alive, paired, store, conn, flushed, sent, held>>

\* Mutant: also what a failed stop never queued is given back.
MutReleased == [store EXCEPT !.queued = @ - 1]

\* _queuedBytes is given back however an add ends.
Released == [store EXCEPT !.queued = @ - Unit(Head(queue).kind = "add")]

\* flush, close or rename throws, with the handle still open or not; add()
\* and checkpoint() latch _writeFailed, stop() only reports.
SealFails(r) ==
  /\ "journal" \in Faults
  /\ Seals(r)
  /\ \E open \in BOOLEAN :
       rec' = [rec EXCEPT ![r].handle = open,
                          ![r].failed = @ \/ Head(queue).kind # "stop"]
  /\ EndOp(disk, FALSE)
  /\ store' = Released
  /\ UNCHANGED <<alive, paired, conn, flushed, sent, held>>

\* stop() without a journal, checkpoint() of a closed or failed recording.
NothingToSeal(r) ==
  /\ Runs("stop", r) \/ Runs("checkpoint", r)
  /\ ~Seals(r)
  /\ EndOp(disk, FALSE)
  /\ UNCHANGED <<alive, paired, rec, store, conn, flushed, sent, held>>

\* The decoder context of a new part: nothing before 80 ms were recorded.
PrerollPackets(r) == IF Len(rec[r].ring) < Preroll THEN <<>> ELSE rec[r].ring

\* The journal an add writes to, and what _open() has to write first.
Target(r)       == IF rec[r].handle THEN Current(r) ELSE <<r, rec[r].index>>
OpeningBytes(r) == IF rec[r].handle THEN 0 ELSE 1 + Len(PrerollPackets(r))
Opened(r) ==
  IF rec[r].handle THEN disk[Current(r)]
  ELSE [NoFile EXCEPT !.st = "part", !.head = TRUE, !.pre = PrerollPackets(r)]

\* The add at the head writes its packet; _open() takes an index first.
Writes(r) == Runs("add", r) /\ ~rec[r].failed /\ ~(rec[r].handle /\ PartFull(r))
\* Mutant: the quota does not count the header and the pre-roll.
MutFits(r) == store.bytes + 1 <= MaxStorage

Fits(r)   == store.bytes + OpeningBytes(r) + 1 <= MaxStorage
Index(r)  == IF rec[r].handle THEN rec[r].index ELSE rec[r].index + 1

\* LocalOpusPreroll.remember(): the shortest suffix of at least 80 ms.
Remember(ring, n) ==
  IF Len(ring) < Preroll THEN Append(ring, n) ELSE Append(Tail(ring), n)

\* The packet is flushed; counters, decoder context, then live preview.
Write(r) ==
  /\ Writes(r) /\ Fits(r)
  /\ LET n == Head(queue).n
     IN  /\ EndOp([disk EXCEPT ![Target(r)] = [Opened(r) EXCEPT !.fresh = Append(@, n)]], FALSE)
         /\ rec' = [rec EXCEPT
              ![r].index  = Index(r),
              ![r].handle = TRUE,
              ![r].audio  = (IF rec[r].handle THEN @ ELSE 0) + 1,
              ![r].count  = (IF rec[r].handle THEN @ ELSE Len(PrerollPackets(r))) + 1,
              ![r].ring   = IF r \in Opus THEN Remember(@, n) ELSE @]
         /\ flushed' = [flushed EXCEPT ![r] = @ \cup {n}]
  /\ store' = [Released EXCEPT !.bytes = @ + OpeningBytes(r) + 1]
  /\ UNCHANGED <<alive, paired, conn, sent, held>>

\* What an add that stops half way leaves of its journal.  In _open(): no
\* file, an empty one, a piece of the header, or of the pre-roll behind it.
\* In the append: nothing more, a fragment, or the whole packet.
HalfOpened(r) ==
  LET blank == [NoFile EXCEPT !.st = "part"]
  IN  IF rec[r].handle THEN {}
      ELSE {NoFile, blank, [blank EXCEPT !.torn = TRUE]} \cup
           {[Opened(r) EXCEPT !.pre = SubSeq(@, 1, k), !.torn = TRUE] :
              k \in 0 .. Len(PrerollPackets(r)) - 1}

HalfWritten(r) ==
  LET f == Opened(r)
  IN  {f, [f EXCEPT !.torn = TRUE], [f EXCEPT !.fresh = Append(@, Head(queue).n)]}

\* Mutant: a refused packet stays counted as queued.
MutAddRefused(r) ==
  /\ \/ Runs("add", r) /\ rec[r].failed /\ UNCHANGED rec
     \/ /\ Writes(r) /\ ~Fits(r)
        /\ rec' = [rec EXCEPT ![r].index = Index(r), ![r].failed = TRUE]
  /\ EndOp(disk, FALSE)
  /\ UNCHANGED <<alive, paired, store, conn, flushed, sent, held>>

\* The add throws: a latched failure refuses it, or the quota is reached.
AddRefused(r) ==
  /\ \/ Runs("add", r) /\ rec[r].failed /\ UNCHANGED rec
     \/ /\ Writes(r) /\ ~Fits(r)
        /\ rec' = [rec EXCEPT ![r].index = Index(r), ![r].failed = TRUE]
  /\ EndOp(disk, FALSE)
  /\ store' = Released
  /\ UNCHANGED <<alive, paired, conn, flushed, sent, held>>

\* The add throws because _open() fails; its bytes are not counted.
OpenFails(r) ==
  /\ "journal" \in Faults /\ Writes(r) /\ Fits(r) /\ ~rec[r].handle
  /\ \E f \in HalfOpened(r) \cup {Opened(r)}, open \in BOOLEAN :
       /\ f = NoFile => ~open
       /\ Size(f) > 0 => open
       /\ EndOp([disk EXCEPT ![Target(r)] = f], FALSE)
       /\ rec' = [rec EXCEPT ![r].index = Index(r), ![r].handle = open, ![r].failed = TRUE]
  /\ store' = Released
  /\ UNCHANGED <<alive, paired, conn, flushed, sent, held>>

\* The add throws because the append or its flush fails.
WriteFails(r) ==
  /\ "journal" \in Faults /\ Writes(r) /\ Fits(r)
  /\ \E f \in HalfWritten(r) : EndOp([disk EXCEPT ![Target(r)] = f], FALSE)
  /\ rec' = [rec EXCEPT ![r].index = Index(r), ![r].handle = TRUE, ![r].failed = TRUE]
  /\ store' = [Released EXCEPT !.bytes = @ + OpeningBytes(r)]
  /\ UNCHANGED <<alive, paired, conn, flushed, sent, held>>

-----------------------------------------------------------------------------
(* The delivery pump: drain(), _drain(), uploadPairedPart().               *)

TimerFires ==
  /\ alive /\ drain.timer
  /\ drain' = AfterRetry(disk)
  /\ UNCHANGED <<alive, paired, rec, disk, queue, store, conn, flushed, sent, held>>

Owner(p) == rec[p[1]].owner

\* The pump is done with p and takes the next part of the pass.
PartDone(p) == drain' = [drain EXCEPT !.todo = @ \ {p}, !.tried = @ \cup {p}]

\* Mutant: audio of another server ends the pass.
MutUploadStart(p) ==
  /\ alive /\ drain.phase = "pass" /\ conn = NoConn /\ p \in drain.todo
  /\ \/ /\ paired # Owner(p)
        /\ drain' = [drain EXCEPT !.todo = {}] /\ conn' = conn
     \/ /\ paired = Owner(p)
        /\ conn' = [state |-> "verify", part |-> p, to |-> paired, body |-> Body(disk[p])]
        /\ drain' = drain
  /\ UNCHANGED <<alive, paired, rec, disk, queue, store, flushed, sent, held>>

\* The part is read; audio of another server is skipped, otherwise the
\* paired server's delivery capability is verified first.
UploadStart(p) ==
  /\ alive /\ drain.phase = "pass" /\ conn = NoConn /\ p \in drain.todo
  /\ \/ /\ paired # Owner(p)
        /\ PartDone(p) /\ conn' = conn
     \/ /\ paired = Owner(p)
        /\ conn' = [state |-> "verify", part |-> p, to |-> paired, body |-> Body(disk[p])]
        /\ drain' = drain
  /\ UNCHANGED <<alive, paired, rec, disk, queue, store, flushed, sent, held>>

\* Mutant: the pairing is not compared again after the wait.
MutUploadSend ==
  /\ alive /\ conn # NoConn /\ conn.state = "verify" /\ paired # NoServer
  /\ conn' = [conn EXCEPT !.state = "sent", !.to = paired]
  /\ sent' = sent \cup {<<paired, conn.part, conn.body>>}
  /\ UNCHANGED <<alive, paired, rec, disk, queue, store, drain, flushed, held>>

\* The pairing is compared again after the wait; the request goes to the
\* address that is paired now.
UploadSend ==
  /\ alive /\ conn # NoConn /\ conn.state = "verify"
  /\ paired = Owner(conn.part)
  /\ conn' = [conn EXCEPT !.state = "sent", !.to = paired]
  /\ sent' = sent \cup {<<paired, conn.part, conn.body>>}
  /\ UNCHANGED <<alive, paired, rec, disk, queue, store, drain, flushed, held>>

\* Mutant: the file is deleted although the upload failed.
MutUploadFails ==
  /\ alive /\ conn # NoConn
  /\ disk' = [disk EXCEPT ![conn.part] = NoFile]
  /\ PartDone(conn.part)
  /\ conn' = NoConn
  /\ UNCHANGED <<alive, paired, rec, queue, store, flushed, sent, held>>

\* Capability refused, pairing changed, connection lost, 35 s timeout, error
\* status, a receipt that does not match, or the file cannot be deleted.
UploadFails ==
  /\ alive /\ conn # NoConn
  /\ PartDone(conn.part)
  /\ conn' = NoConn
  /\ UNCHANGED <<alive, paired, rec, disk, queue, store, flushed, sent, held>>

\* Mutant: any answer of the server counts as a receipt.
MutUploadAcked ==
  /\ alive /\ conn # NoConn /\ conn.state \in {"receipt", "error"}
  /\ disk' = [disk EXCEPT ![conn.part] = NoFile]
  /\ PartDone(conn.part)
  /\ conn' = NoConn
  /\ UNCHANGED <<alive, paired, rec, queue, store, flushed, sent, held>>

\* The receipt names exactly this body: the file is deleted.
UploadAcked ==
  /\ alive /\ conn # NoConn /\ conn.state = "receipt"
  /\ disk' = [disk EXCEPT ![conn.part] = NoFile]
  /\ PartDone(conn.part)
  /\ conn' = NoConn
  /\ UNCHANGED <<alive, paired, rec, queue, store, flushed, sent, held>>

\* The directory cannot be listed: nothing is tried in this pass.
ListFails ==
  /\ "directory" \in Faults
  /\ alive /\ drain.phase = "pass" /\ drain.tried = {} /\ conn = NoConn /\ drain.todo # {}
  /\ drain' = [drain EXCEPT !.todo = {}, !.tried = drain.todo]
  /\ UNCHANGED <<alive, paired, rec, disk, queue, store, conn, flushed, sent, held>>

\* The pass ends with _countPending() on the chain.
PassDone ==
  /\ alive /\ drain.phase = "pass" /\ drain.todo = {}
  /\ drain' = [drain EXCEPT !.phase = "counting"]
  /\ queue' = Append(queue, CountOp)
  /\ UNCHANGED <<alive, paired, rec, disk, store, conn, flushed, sent, held>>

\* Mutant: the timer is armed only when nothing is left.
MutCountPending ==
  /\ alive /\ queue # <<>> /\ Head(queue) = CountOp
  /\ store' = [store EXCEPT !.bytes = DiskBytes(disk)]
  /\ drain' = IF drain.requested THEN NewPass(disk)
              ELSE [drain EXCEPT !.phase = "idle", !.timer = Pending(disk) = {}]
  /\ queue' = Tail(queue)
  /\ UNCHANGED <<alive, paired, rec, disk, conn, flushed, sent, held>>

\* The count arms the 15 s timer while anything is pending; a request made
\* during the pass starts the next one.
CountPending ==
  /\ alive /\ queue # <<>> /\ Head(queue) = CountOp
  /\ store' = [store EXCEPT !.bytes = DiskBytes(disk)]
  /\ drain' = IF drain.requested THEN NewPass(disk)
              ELSE [drain EXCEPT !.phase = "idle", !.timer = Pending(disk) # {}]
  /\ queue' = Tail(queue)
  /\ UNCHANGED <<alive, paired, rec, disk, conn, flushed, sent, held>>

\* The count throws: drain() ends with the error and arms no timer.
CountFails ==
  /\ "directory" \in Faults
  /\ alive /\ queue # <<>> /\ Head(queue) = CountOp
  /\ drain' = [drain EXCEPT !.phase = "idle"]
  /\ queue' = Tail(queue)
  /\ UNCHANGED <<alive, paired, rec, disk, store, conn, flushed, sent, held>>

-----------------------------------------------------------------------------
(* The environment.                                                        *)

\* The process dies, maybe inside an add. Files survive; of the recordings
\* only the server_id in their headers and, as history, a latched failure.
Crash ==
  /\ alive /\ alive' = FALSE
  /\ \/ disk' = disk
     \/ \E r \in Recording : /\ Writes(r) /\ Fits(r)
                             /\ \E f \in HalfOpened(r) \cup HalfWritten(r) :
                                  disk' = [disk EXCEPT ![Target(r)] = f]
  /\ rec' = [r \in Recording |->
               IF rec[r].status = "new" THEN rec[r]
               ELSE [NewRecording EXCEPT !.status = "closed", !.owner = rec[r].owner,
                                         !.failed = rec[r].failed]]
  /\ queue' = <<>>
  /\ store' = [bytes |-> 0, queued |-> 0]
  /\ drain' = IdleDrain
  /\ conn' = NoConn
  /\ UNCHANGED <<paired, flushed, sent, held>>

\* External: a server stores the body of a request, maybe long after the
\* phone gave up on it, and answers if the phone still waits ...
ServerStores ==
  \E m \in sent :
    /\ held' = held \cup {m}
    /\ \/ conn' = conn
       \/ /\ conn # NoConn /\ conn.state = "sent" /\ <<conn.to, conn.part, conn.body>> = m
          /\ conn' = [conn EXCEPT !.state = "receipt"]
    /\ UNCHANGED <<alive, paired, rec, disk, queue, store, drain, flushed, sent>>

\* ... or ends the request without a receipt.
ServerRefuses ==
  /\ conn # NoConn /\ conn.state = "sent"
  /\ conn' = [conn EXCEPT !.state = "error"]
  /\ UNCHANGED <<alive, paired, rec, disk, queue, store, drain, flushed, sent, held>>

-----------------------------------------------------------------------------
Calls ==
  \/ \E r \in Recording : Begin(r) \/ Add(r) \/ Stop(r)
  \/ RecoverConnection
  \/ \E s \in Server \cup {NoServer} : Pair(s)

Journal(r) ==
  \/ Seal(r) \/ SealDamaged(r) \/ SealFails(r) \/ NothingToSeal(r)
  \/ Write(r) \/ AddRefused(r) \/ OpenFails(r) \/ WriteFails(r)

Pump ==
  \/ TimerFires \/ ListFails \/ PassDone \/ CountPending \/ CountFails
  \/ (\E p \in Part : UploadStart(p)) \/ UploadSend \/ UploadFails \/ UploadAcked

PhoneNext == Start \/ Calls \/ (\E r \in Recording : Journal(r)) \/ Pump

Next == PhoneNext \/ Crash \/ ServerStores \/ ServerRefuses

Spec == Init /\ [][Next]_vars

\* The Dart event loop runs every pending operation and timer while the
\* process lives, and every upload ends by its timeout: weak fairness.
\* Strong fairness: a capability check, request and answer that are tried
\* again and again get through at last.  Nothing is assumed of the user,
\* of crashes or of pairing changes.
Fairness ==
  /\ WF_vars(Start)
  /\ WF_vars(\E r \in Recording : Journal(r))
  /\ WF_vars(TimerFires) /\ WF_vars(PassDone) /\ WF_vars(CountPending)
  /\ WF_vars(\E p \in Part : UploadStart(p)) /\ WF_vars(UploadFails)
  /\ SF_vars(UploadSend) /\ SF_vars(ServerStores /\ conn' # conn) /\ SF_vars(UploadAcked)

FairSpec == Spec /\ Fairness

-----------------------------------------------------------------------------
(* Properties *)

FileType ==
  [st : {"absent", "part", "ready"}, head : BOOLEAN, pre : Seq(Packet),
   fresh : Seq(Packet), torn : BOOLEAN]

RecordingType ==
  [status : {"new", "open", "closed"}, owner : Server \cup {NoServer},
   offered : 0 .. MaxPackets, index : Nat, handle : BOOLEAN, audio : Nat,
   count : Nat, ring : Seq(Packet), failed : BOOLEAN]

OpType ==
  [kind : {"add"}, r : Recording, n : Packet] \cup
  [kind : {"stop", "checkpoint"}, r : Recording] \cup [kind : {"count"}]

BodyType == [pre : Seq(Packet), fresh : Seq(Packet)]

DrainType ==
  [phase : {"idle", "pass", "counting"}, todo : SUBSET Part, tried : SUBSET Part,
   requested : BOOLEAN, timer : BOOLEAN]

ConnType ==
  [state : {"verify", "sent", "receipt", "error"}, part : Part, to : Server, body : BodyType]

\* The types of the state.
StateOK ==
  /\ alive \in BOOLEAN
  /\ paired \in Server \cup {NoServer}
  /\ rec \in [Recording -> RecordingType]
  /\ disk \in [Part -> FileType]
  /\ queue \in Seq(OpType)
  /\ drain \in DrainType
  /\ conn \in ConnType \cup {NoConn}
  /\ flushed \in [Recording -> SUBSET Packet]
  /\ sent \in SUBSET (Server \X Part \X BodyType)
  /\ held \in SUBSET sent

\* The types of the state, and counters that never run negative.
TypeOK == StateOK /\ store \in [bytes : Nat, queued : Nat]

\* A packet whose flush has returned is never lost: it is in a journal with
\* a valid header on the phone, or the server the recording belongs to has
\* acknowledged a body that contains it.
FlushedIsKept ==
  \A r \in Recording : \A n \in flushed[r] :
    \/ \E p \in Part : p[1] = r /\ disk[p].head /\ n \in Range(disk[p].fresh)
    \/ \E h \in held : h[1] = rec[r].owner /\ h[2][1] = r /\ n \in Range(h[3].fresh)

\* The bodies that may have left the phone under the identity of part p.
SealedBodies(p) ==
  {Body(disk[q]) : q \in Ready(disk) \cap {p}} \cup {h[3] : h \in {x \in held : x[2] = p}}

\* Every retry of a part, across lost acknowledgements and restarts, carries
\* the bytes of the first attempt, so that the server can answer with the
\* same receipt and never with an identity conflict.
RetriesAreIdentical == \A p \in Part : Cardinality(SealedBodies(p)) <= 1

\* A sealed part is what the server accepts: parse_part() wants complete
\* packets, at least one of them fresh, within the limits; validate_preroll()
\* wants the context to be the 80 ms that directly precede the fresh audio
\* of a later Opus part.
SealedIsAcceptable ==
  /\ \A p \in Ready(disk) : disk[p].head /\ ~disk[p].torn
  /\ \A p \in Part : \A b \in SealedBodies(p) :
       /\ b.fresh # <<>> /\ Len(b.fresh) <= PartAudio
       /\ Len(b.pre) + Len(b.fresh) <= PartPackets
       /\ b.pre # <<>> => p[1] \in Opus /\ p[2] > 0 /\ Len(b.pre) = Preroll
       /\ LET all == b.pre \o b.fresh
          IN  \A i \in 1 .. Len(all) - 1 : all[i + 1] = all[i] + 1

\* Fresh audio is neither duplicated nor reordered across the parts of a
\* recording: a later index holds strictly later packets.
PartsAreOrdered ==
  \A p, q \in Part : p[1] = q[1] /\ p[2] < q[2] =>
    \A b \in SealedBodies(p), c \in SealedBodies(q) :
      \A m \in Range(b.fresh), n \in Range(c.fresh) : m < n

\* Audio goes only to the server its recording was bound to, also when the
\* pairing changes while the capability check is awaited.
OnlyToOwner ==
  \A m \in sent : m[1] = Owner(m[2])

\* _queuedBytes equals what waits on the chain on every path, error paths
\* included: a leak would refuse all audio in the end.
QueueIsAccounted ==
  store.queued = Cardinality({i \in DOMAIN queue : queue[i].kind = "add"})

\* The quota bounds the directory; a write that fails leaves at most its own
\* bytes uncounted, once per recording.
StorageIsBounded ==
  DiskBytes(disk) <= MaxStorage +
    (1 + Preroll) * Cardinality({r \in Recording : rec[r].failed})

\* An upload in progress picks up newly sealed parts in its next pass, and
\* an idle pump has tried every sealed part there is.
PromptPickup ==
  alive => \/ Ready(disk) \subseteq drain.todo \cup drain.tried
           \/ drain.requested /\ drain.phase # "idle"

\* "Delivery retries every fifteen seconds while the application can
\* execute": an idle pump with a sealed part has its timer armed.
RetryArmed == alive /\ drain.phase = "idle" /\ Ready(disk) # {} => drain.timer

\* A sealed part never changes, and leaves the phone only once its server
\* has acknowledged exactly these bytes.
SealedIsImmutable ==
  [][\A p \in Ready(disk) :
       \/ disk'[p] = disk[p]
       \/ disk'[p] = NoFile /\ <<Owner(p), p, Body(disk[p])>> \in held]_vars

\* Once the application keeps running paired to the server of a sealed part,
\* that part is delivered, whatever parts of other servers wait beside it.
EventualDelivery ==
  \A p \in Part :
    <>[](alive /\ paired = Owner(p)) =>
      [](disk[p].st = "ready" => <>(disk[p].st = "absent"))
=============================================================================
