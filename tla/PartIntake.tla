----------------------------- MODULE PartIntake -----------------------------
(***************************************************************************)
(* The server side of audio delivery: the route POST /v1/local/audio/parts *)
(* (backend/routers/local_audio.py) and accept_part()                      *)
(* (backend/utils/local_audio_delivery.py).                                *)
(*                                                                         *)
(* A request waits for one of two permits, reads its body, and hands it to *)
(* a worker thread that publishes it under a lock: look for an existing    *)
(* capture, check capacity, stage outside the watched tree, rename into    *)
(* it, sync the directory, and only then answer with a receipt.  The HTTP  *)
(* caller may time out at any point; the disk work goes on and keeps its   *)
(* permit.  A process crash keeps renamed captures; a power loss also      *)
(* undoes any rename that was not synced.                                  *)
(*                                                                         *)
(* Data: a body is a model value, its SHA-256 the body itself.  Storage is *)
(* counted in units: staging takes `Allowance' while the temporary PCM and *)
(* the WAV coexist, a published capture keeps one unit.                    *)
(***************************************************************************)
EXTENDS Integers, FiniteSets

CONSTANTS
  Handler,    \* concurrent HTTP requests the server may be serving
  PartId,     \* part identities
  Body,       \* request bodies
  Valid,      \* <<part, body>> that parse_part() and the decoder accept
  NoBody,     \* "no such capture directory"
  Free,       \* "nobody": the lock is not held, or a handler has no part
  Permits,    \* asyncio.Semaphore(2)
  Reserve,    \* DISK_RESERVE_BYTES
  Allowance,  \* STAGING_ALLOWANCE_BYTES
  Capacity    \* units of storage at the start

ASSUME IntakeAssumption ==
  /\ IsFiniteSet(Handler) /\ IsFiniteSet(PartId)
  /\ Valid \subseteq PartId \X Body
  /\ NoBody \notin Body /\ Free \notin Handler /\ Free \notin PartId
  /\ Permits \in Nat \ {0}
  /\ Reserve \in Nat /\ Capacity \in Nat /\ Reserve <= Capacity
  /\ Allowance \in Nat \ {0}

VARIABLES
  handler,   \* one record per request being served
  permits,   \* value of the admission semaphore
  lock,      \* holder of the publication lock
  capture,   \* the capture directory of each part, NoBody when absent
  synced,    \* parts whose directory entry is on stable storage
  space,     \* free units on the volume
  acked      \* history: <<part, body>> of the receipts given

vars == <<handler, permits, lock, capture, synced, space, acked>>

Idle == [pc |-> "idle", part |-> Free, body |-> NoBody, caller |-> FALSE]

Init ==
  /\ handler = [h \in Handler |-> Idle]
  /\ permits = Permits
  /\ lock = Free
  /\ capture = [p \in PartId |-> NoBody]
  /\ synced = {}
  /\ space = Capacity
  /\ acked = {}

At(h, pc)   == handler[h].pc = pc
Goto(h, pc) == handler' = [handler EXCEPT ![h].pc = pc]

-----------------------------------------------------------------------------
(* receive_part(): admission, body, hand-over to the publication task.     *)

Receive(h, p, b) ==
  /\ At(h, "idle")
  /\ handler' = [handler EXCEPT ![h] = [pc |-> "waiting", part |-> p, body |-> b, caller |-> TRUE]]
  /\ UNCHANGED <<permits, lock, capture, synced, space, acked>>

\* Mutant: the body is read without waiting for the semaphore.
MutAdmit(h) ==
  /\ At(h, "waiting")
  /\ permits' = permits - 1
  /\ Goto(h, "reading")
  /\ UNCHANGED <<lock, capture, synced, space, acked>>

Admit(h) ==
  /\ At(h, "waiting") /\ permits > 0
  /\ permits' = permits - 1
  /\ Goto(h, "reading")
  /\ UNCHANGED <<lock, capture, synced, space, acked>>

\* The body is complete: the task owns the permit from here on.
Handover(h) ==
  /\ At(h, "reading")
  /\ Goto(h, "queued")
  /\ UNCHANGED <<permits, lock, capture, synced, space, acked>>

\* Too large, no storage root, a lost client, or the 35 s timeout, before the
\* task exists: a permit that was acquired is given back.
Abandon(h) ==
  /\ At(h, "waiting") \/ At(h, "reading")
  /\ permits' = IF At(h, "reading") THEN permits + 1 ELSE permits
  /\ handler' = [handler EXCEPT ![h] = Idle]
  /\ UNCHANGED <<lock, capture, synced, space, acked>>

\* Mutant: the timeout gives the permit back while the disk work goes on.
MutTimeOut(h) ==
  /\ handler[h].caller /\ ~At(h, "waiting") /\ ~At(h, "reading")
  /\ handler' = [handler EXCEPT ![h].caller = FALSE]
  /\ permits' = permits + 1
  /\ UNCHANGED <<lock, capture, synced, space, acked>>

\* The timeout after that only ends the HTTP side: the task is shielded.
TimeOut(h) ==
  /\ handler[h].caller /\ ~At(h, "waiting") /\ ~At(h, "reading")
  /\ handler' = [handler EXCEPT ![h].caller = FALSE]
  /\ UNCHANGED <<permits, lock, capture, synced, space, acked>>

-----------------------------------------------------------------------------
(* store_part() and accept_part(), on a worker thread.                     *)

\* Mutant: publication without the lock.
MutLock(h) ==
  /\ At(h, "queued")
  /\ lock' = h
  /\ Goto(h, "check")
  /\ UNCHANGED <<permits, capture, synced, space, acked>>

Lock(h) ==
  /\ At(h, "queued") /\ lock = Free
  /\ lock' = h
  /\ Goto(h, "check")
  /\ UNCHANGED <<permits, capture, synced, space, acked>>

\* The thread leaves the lock and publish_part() releases the permit; the
\* answer reaches the caller if it still waits.
Finish(h) ==
  /\ lock' = Free
  /\ permits' = permits + 1
  /\ handler' = [handler EXCEPT ![h] = Idle]

Mine(h)     == capture[handler[h].part]
Accepted(h) == <<handler[h].part, handler[h].body>> \in Valid
HasRoom     == space >= Reserve + Allowance

\* Invalid part (422), identity conflict (409), no capacity (507).
Refuse(h) ==
  /\ At(h, "check")
  /\ \/ ~Accepted(h)
     \/ Mine(h) \notin {NoBody, handler[h].body}
     \/ Mine(h) = NoBody /\ ~HasRoom
  /\ Finish(h)
  /\ UNCHANGED <<capture, synced, space, acked>>

\* Mutant: a repeated part is acknowledged without a sync.
MutFindExisting(h) ==
  /\ At(h, "check") /\ Accepted(h) /\ Mine(h) = handler[h].body
  /\ acked' = acked \cup {<<handler[h].part, handler[h].body>>}
  /\ Finish(h)
  /\ UNCHANGED <<capture, synced, space>>

\* A repeated identical part: nothing is written, but both directories are
\* synced again, because the rename before may not have been.
FindExisting(h) ==
  /\ At(h, "check") /\ Accepted(h) /\ Mine(h) = handler[h].body
  /\ Goto(h, "sync")
  /\ UNCHANGED <<permits, lock, capture, synced, space, acked>>

\* Mutant: other bytes under a known identity are not a conflict.
MutFindRoom(h) ==
  /\ At(h, "check") /\ Accepted(h) /\ Mine(h) # handler[h].body /\ HasRoom
  /\ Goto(h, "room")
  /\ UNCHANGED <<permits, lock, capture, synced, space, acked>>

\* A new part: the capacity for staging it was found ...
FindRoom(h) ==
  /\ At(h, "check") /\ Accepted(h) /\ Mine(h) = NoBody /\ HasRoom
  /\ Goto(h, "room")
  /\ UNCHANGED <<permits, lock, capture, synced, space, acked>>

\* ... and is used up by the temporary PCM and the WAV.
Stage(h) ==
  /\ At(h, "room")
  /\ space' = space - Allowance
  /\ Goto(h, "staged")
  /\ UNCHANGED <<permits, lock, capture, synced, acked>>

\* Publication: one atomic rename of the complete directory.
Rename(h) ==
  /\ At(h, "staged")
  /\ capture' = [capture EXCEPT ![handler[h].part] = handler[h].body]
  /\ space' = space + Allowance - 1
  /\ Goto(h, "sync")
  /\ UNCHANGED <<permits, lock, synced, acked>>

\* Mutant: the receipt is given without syncing the directory.
MutSync(h) ==
  /\ At(h, "sync")
  /\ acked' = acked \cup {<<handler[h].part, handler[h].body>>}
  /\ Finish(h)
  /\ UNCHANGED <<capture, synced, space>>

\* The capture tree is on stable storage: the receipt may be given.
Sync(h) ==
  /\ At(h, "sync")
  /\ synced' = synced \cup {handler[h].part}
  /\ acked' = acked \cup {<<handler[h].part, handler[h].body>>}
  /\ Finish(h)
  /\ UNCHANGED <<capture, space>>

\* Mutant: the error path keeps the lock.
MutStorageFails(h) ==
  /\ \/ At(h, "staged") /\ space' = space + Allowance
     \/ (At(h, "room") \/ At(h, "sync")) /\ space' = space
  /\ permits' = permits + 1
  /\ handler' = [handler EXCEPT ![h] = Idle]
  /\ UNCHANGED <<lock, capture, synced, acked>>

\* An OSError while staging removes the temporary directory; one while
\* syncing leaves the capture visible. Neither gives a receipt.
StorageFails(h) ==
  /\ \/ At(h, "staged") /\ space' = space + Allowance
     \/ (At(h, "room") \/ At(h, "sync")) /\ space' = space
  /\ Finish(h)
  /\ UNCHANGED <<capture, synced, acked>>

-----------------------------------------------------------------------------
\* The process dies. A staging directory in use is left behind for good;
\* on a power loss, renames that were not synced may be undone.
ServerCrash ==
  /\ handler' = [h \in Handler |-> Idle]
  /\ permits' = Permits
  /\ lock' = Free
  /\ \E lost \in SUBSET {p \in PartId : capture[p] # NoBody /\ p \notin synced} :
       /\ capture' = [p \in PartId |-> IF p \in lost THEN NoBody ELSE capture[p]]
       /\ space' = space + Cardinality(lost)
  /\ UNCHANGED <<synced, acked>>

Publish(h) ==
  \/ Lock(h) \/ Refuse(h) \/ FindExisting(h) \/ FindRoom(h)
  \/ Stage(h) \/ Rename(h) \/ StorageFails(h)

\* Every step of a request except the one that gives a receipt.
Work(h) == Admit(h) \/ Handover(h) \/ Abandon(h) \/ TimeOut(h) \/ Publish(h)

Next ==
  \/ \E h \in Handler : \/ Work(h) \/ Sync(h)
                        \/ \E p \in PartId, b \in Body : Receive(h, p, b)
  \/ ServerCrash

Spec == Init /\ [][Next]_vars

\* Threads that are runnable run; a thread that waits for the publication
\* lock while it is released again and again gets it at last.
Fairness == \A h \in Handler : SF_vars(Lock(h)) /\ WF_vars(Publish(h) \/ Sync(h))

FairSpec == Spec /\ Fairness

-----------------------------------------------------------------------------
(* Properties *)

Publishing == {"check", "room", "staged", "sync"}
InMemory   == {"reading", "queued"} \cup Publishing
Bodies     == {h \in Handler : handler[h].pc \in InMemory}

Active ==
  [pc : {"waiting"} \cup InMemory, part : PartId, body : Body, caller : BOOLEAN]

\* The types of the state.
TypeOK ==
  /\ handler \in [Handler -> Active \cup {Idle}]
  /\ permits \in Nat
  /\ lock \in Handler \cup {Free}
  /\ capture \in [PartId -> Body \cup {NoBody}]
  /\ synced \subseteq PartId
  /\ space \in Int
  /\ acked \subseteq PartId \X Body

\* "Admits at most two simultaneous bodies": a permit is out exactly while a
\* request holds a body in memory, also after its caller timed out, and no
\* path leaks or doubles one.
PermitsFollowBodies ==
  /\ permits >= 0
  /\ permits + Cardinality(Bodies) = Permits

\* A receipt is a promise: exactly the acknowledged bytes are published and
\* on stable storage, and stay so across retries, conflicts and power loss.
ReceiptIsDurable ==
  \A m \in acked : m[1] \in synced /\ capture[m[1]] = m[2]

\* Two admitted bodies never spend the same staging allowance: the reserve
\* stays free however requests overlap and time out.
ReserveIsKept == space >= Reserve

\* A part identity is never given other bytes: a reused identity conflicts
\* and cannot overwrite the original.
NeverOverwritten ==
  [][\A p \in PartId : capture[p] # NoBody => capture'[p] \in {capture[p], NoBody}]_vars

\* Disk work always ends and gives its permit back.
PublicationEnds ==
  \A h \in Handler : (handler[h].pc \in {"queued"} \cup Publishing) ~> At(h, "idle")
=============================================================================
