-------------------------- MODULE PhoneOutboxPump --------------------------
(***************************************************************************)
(* The bookkeeping of the delivery pump and of the operation chain, for    *)
(* any recordings, servers and limits: no sealed part is overlooked, the   *)
(* retry timer runs while one is left, _queuedBytes is exact, and the      *)
(* directory stays within its quota.                                       *)
(*                                                                         *)
(* The first two hold as long as the outbox directory can be listed: the   *)
(* error of a failed count ends drain() without a timer, see RetryFault.   *)
(***************************************************************************)
EXTENDS PhoneOutboxProofs

-----------------------------------------------------------------------------
(* The pump. *)

PickupInv == PromptPickup /\ RetryArmed

\* retry() makes sure that the directory is looked at again.
LEMMA AskedAgain ==
  ASSUME drain \in DrainType, drain' = AfterRetry(disk') PROVE PickupInv'
<1>1. CASE drain.phase = "idle"
  <2>1. drain' = NewPass(disk')
    BY <1>1 DEF AfterRetry
  <2>2. drain'.todo = Ready(disk') /\ drain'.phase = "pass"
    BY <2>1 DEF NewPass, IdleDrain
  <2>3. Ready(disk)' = Ready(disk')
    BY DEF Ready, Files
  <2> QED
    BY <2>2, <2>3 DEF PickupInv, PromptPickup, RetryArmed
<1>2. CASE drain.phase # "idle"
  <2>1. drain' = [drain EXCEPT !.requested = TRUE]
    BY <1>2 DEF AfterRetry
  <2>2. drain'.requested = TRUE /\ drain'.phase = drain.phase
    BY <2>1 DEF DrainType
  <2> QED
    BY <1>2, <2>2 DEF PickupInv, PromptPickup, RetryArmed
<1> QED
  BY <1>1, <1>2

\* A step that seals nothing and takes no part off the pump's lists.
LEMMA NothingNew ==
  ASSUME PickupInv, alive' => alive, Ready(disk') \subseteq Ready(disk),
         drain.todo \cup drain.tried \subseteq drain'.todo \cup drain'.tried,
         drain'.phase = drain.phase, drain'.requested = drain.requested, drain'.timer = drain.timer
  PROVE  PickupInv'
<1>1. Ready(disk)' = Ready(disk')
  BY DEF Ready, Files
<1> QED
  BY <1>1 DEF PickupInv, PromptPickup, RetryArmed

\* In particular one that leaves the pump alone.
LEMMA PumpSame ==
  ASSUME PickupInv, UNCHANGED <<alive, drain>>, Ready(disk') \subseteq Ready(disk) PROVE PickupInv'
BY NothingNew

\* The operations of the chain: what seals a part calls retry().
LEMMA JournalPickup ==
  ASSUME OutboxInv, PickupInv, NEW r \in Recording, Journal(r) PROVE PickupInv'
<1>t. drain \in DrainType /\ disk \in [Part -> FileType]
  BY DEF OutboxInv, StateOK
<1>1. CASE Seal(r)
  <2>1. drain' = AfterRetry(disk')
    BY <1>1 DEF Seal, EndOp
  <2> QED
    BY <1>t, <2>1, AskedAgain
<1>2. CASE SealDamaged(r)
  <2>1. drain' = AfterRetry(disk')
    BY <1>2 DEF SealDamaged, EndOp
  <2> QED
    BY <1>t, <2>1, AskedAgain
<1>3. ASSUME NEW d, EndOp(d, FALSE), Ready(d) \subseteq Ready(disk), alive' = alive PROVE PickupInv'
  <2>1. disk' = d /\ (drain' = AfterRetry(d) \/ drain' = drain)
    BY <1>3 DEF EndOp
  <2>2. CASE drain' = AfterRetry(disk')
    BY <1>t, <2>2, AskedAgain
  <2>3. CASE drain' = drain
    BY <1>3, <2>1, <2>3, PumpSame
  <2> QED
    BY <2>1, <2>2, <2>3
<1>4. CASE SealFails(r) \/ NothingToSeal(r) \/ AddRefused(r)
  BY <1>3, <1>4 DEF SealFails, NothingToSeal, AddRefused
<1>5. CASE Write(r) \/ OpenFails(r) \/ WriteFails(r)
  <2>1. Writes(r) /\ alive' = alive
    BY <1>5 DEF Write, OpenFails, WriteFails
  <2>2. PICK f \in HalfOpened(r) \cup HalfWritten(r) : EndOp([disk EXCEPT ![Target(r)] = f], FALSE)
    <3>1. /\ Opened(r) \in HalfWritten(r)
          /\ [Opened(r) EXCEPT !.fresh = Append(@, Head(queue).n)] \in HalfWritten(r)
      BY Zenon DEF HalfWritten
    <3> QED
      BY <1>5, <3>1, Zenon DEF Write, OpenFails, WriteFails
  <2>3. f.st # "ready"
    <3>1. NoFile.st = "absent"
      BY DEF NoFile
    <3> QED
      BY <2>1, <3>1, HalfEffect
  <2>4. Target(r) \in Part
    BY <2>1, TargetIsOpen
  <2>5. Ready([disk EXCEPT ![Target(r)] = f]) \subseteq Ready(disk)
    BY <1>t, <2>3, <2>4 DEF Ready, Files
  <2> QED
    BY <1>3, <2>1, <2>2, <2>5
<1> QED
  BY <1>1, <1>2, <1>4, <1>5 DEF Journal

\* The pump itself.
LEMMA PumpPickup ==
  ASSUME OutboxInv, PickupInv, "directory" \notin Faults, Pump PROVE PickupInv'
<1>t. drain \in DrainType /\ disk \in [Part -> FileType]
  BY DEF OutboxInv, StateOK
<1>1. CASE TimerFires
  <2>1. drain' = AfterRetry(disk')
    BY <1>1 DEF TimerFires
  <2> QED
    BY <1>t, <2>1, AskedAgain
<1>d. ASSUME NEW p \in Part, PartDone(p)
      PROVE  /\ drain.todo \cup drain.tried \subseteq drain'.todo \cup drain'.tried
             /\ drain'.phase = drain.phase /\ drain'.requested = drain.requested
             /\ drain'.timer = drain.timer
  <2>1. /\ drain'.todo = drain.todo \ {p} /\ drain'.tried = drain.tried \cup {p}
        /\ drain'.phase = drain.phase /\ drain'.requested = drain.requested
        /\ drain'.timer = drain.timer
    BY <1>t, <1>d DEF PartDone, DrainType
  <2> QED
    BY <2>1
<1>c. conn # NoConn => conn.part \in Part
  BY DEF OutboxInv, StateOK, ConnType
<1>2. ASSUME NEW p \in Part, UploadStart(p) PROVE PickupInv'
  <2>1. disk' = disk /\ alive' = alive /\ (PartDone(p) \/ drain' = drain)
    BY <1>2 DEF UploadStart
  <2> QED
    BY <1>d, <2>1, NothingNew, PumpSame
<1>3. CASE UploadSend
  BY <1>3, PumpSame DEF UploadSend
<1>4. CASE UploadFails
  <2>1. disk' = disk /\ alive' = alive /\ PartDone(conn.part) /\ conn # NoConn
    BY <1>4 DEF UploadFails
  <2> QED
    BY <1>c, <1>d, <2>1, NothingNew
<1>5. CASE UploadAcked
  <2>1. /\ disk' = [disk EXCEPT ![conn.part] = NoFile] /\ alive' = alive /\ PartDone(conn.part)
        /\ conn # NoConn
    BY <1>5 DEF UploadAcked
  <2>2. Ready(disk') \subseteq Ready(disk)
    BY <1>t, <1>c, <2>1 DEF Ready, Files, NoFile
  <2> QED
    BY <1>c, <1>d, <2>1, <2>2, NothingNew
<1>6. CASE PassDone
  <2>1. alive' = alive /\ disk' = disk /\ drain' = [drain EXCEPT !.phase = "counting"]
    BY <1>6 DEF PassDone
  <2>2. /\ drain'.phase = "counting" /\ drain'.todo = drain.todo /\ drain'.tried = drain.tried
        /\ drain'.requested = drain.requested
    BY <1>t, <2>1 DEF DrainType
  <2>3. Ready(disk)' = Ready(disk)
    BY <2>1 DEF Ready, Files
  <2> QED
    BY <2>1, <2>2, <2>3 DEF PickupInv, PromptPickup, RetryArmed
<1>7. CASE CountPending
  <2>1. alive' = alive /\ disk' = disk
    BY <1>7 DEF CountPending
  <2>2. Ready(disk)' = Ready(disk)
    BY <2>1 DEF Ready, Files
  <2>3. CASE drain.requested
    <3>1. drain' = NewPass(disk)
      BY <1>7, <2>3 DEF CountPending
    <3>2. drain'.todo = Ready(disk) /\ drain'.phase = "pass"
      BY <3>1 DEF NewPass, IdleDrain
    <3> QED
      BY <2>2, <3>2 DEF PickupInv, PromptPickup, RetryArmed
  <2>4. CASE ~drain.requested
    <3>1. drain' = [drain EXCEPT !.phase = "idle", !.timer = Pending(disk) # {}]
      BY <1>7, <2>4 DEF CountPending
    <3>2. /\ drain'.todo = drain.todo /\ drain'.tried = drain.tried
          /\ drain'.timer = (Pending(disk) # {})
      BY <1>t, <3>1 DEF DrainType
    <3>3. Ready(disk) \subseteq Pending(disk)
      BY DEF Pending, Ready
    <3>4. alive' => Ready(disk) \subseteq drain.todo \cup drain.tried
      BY <2>1, <2>4 DEF PickupInv, PromptPickup
    <3> QED
      BY <2>2, <3>2, <3>3, <3>4 DEF PickupInv, PromptPickup, RetryArmed
  <2> QED
    BY <2>3, <2>4
<1> QED
  BY <1>1, <1>2, <1>3, <1>4, <1>5, <1>6, <1>7 DEF Pump, ListFails, CountFails

\* Every step.
LEMMA PickupStep ==
  ASSUME OutboxInv, PickupInv, "directory" \notin Faults, [Next]_vars PROVE PickupInv'
<1>t. drain \in DrainType
  BY DEF OutboxInv, StateOK
<1>1. CASE Start
  <2>1. drain' = AfterRetry(disk')
    BY <1>1 DEF Start
  <2> QED
    BY <1>t, <2>1, AskedAgain
<1>2. CASE Calls
  <2>1. disk' = disk /\ alive' = alive /\ (drain' = AfterRetry(disk) \/ drain' = drain)
    BY <1>2 DEF Calls, Begin, Add, Stop, RecoverConnection, Pair
  <2> QED
    BY <1>t, <2>1, AskedAgain, PumpSame
<1>3. ASSUME NEW r \in Recording, Journal(r) PROVE PickupInv'
  BY <1>3, JournalPickup
<1>4. CASE Pump
  BY <1>4, PumpPickup
<1>5. CASE Crash
  BY <1>5 DEF Crash, PickupInv, PromptPickup, RetryArmed
<1>6. CASE ServerStores \/ ServerRefuses \/ UNCHANGED vars
  <2>1. UNCHANGED <<alive, drain, disk>>
    BY <1>6 DEF ServerStores, ServerRefuses, vars
  <2> QED
    BY <2>1, PumpSame
<1> QED
  BY <1>1, <1>2, <1>3, <1>4, <1>5, <1>6 DEF Next, PhoneNext

\* While the directory can be listed, the pump has tried every sealed part
\* or will look at the directory again, and its timer runs while one is left.
THEOREM PumpMissesNothing ==
  ASSUME "directory" \notin Faults PROVE Spec => []PickupInv
<1>1. Init => PickupInv
  BY DEF Init, PickupInv, PromptPickup, RetryArmed
<1>2. OutboxInv /\ PickupInv /\ [Next]_vars => PickupInv'
  BY PickupStep
<1> QED
  BY <1>1, <1>2, OutboxIsSound, PTL DEF Spec

\* A part that is sealed while an upload is in progress is picked up by the
\* next pass, and an idle pump has tried every sealed part there is.
THEOREM NewPartsArePickedUp ==
  ASSUME "directory" \notin Faults PROVE Spec => []PromptPickup
  BY PumpMissesNothing, PTL DEF PickupInv

\* An idle pump with a sealed part left has its fifteen-second timer armed.
THEOREM TimerIsArmed ==
  ASSUME "directory" \notin Faults PROVE Spec => []RetryArmed
  BY PumpMissesNothing, PTL DEF PickupInv

-----------------------------------------------------------------------------
(* The chain. *)

AddsWaiting == {i \in DOMAIN queue : queue[i].kind = "add"}

\* The record of the counters; that the other one is a number, too, is a
\* part of the quota below.
Counted(s, q) == \E b : s = [bytes |-> b, queued |-> q]

QueueInv == Counted(store, Cardinality(AddsWaiting))

\* Updating one of the two counters.
LEMMA CountedUpdate ==
  ASSUME NEW s, NEW q, Counted(s, q)
  PROVE  /\ s.queued = q
         /\ \A x : Counted([s EXCEPT !.bytes = x], q)
         /\ \A x : Counted([s EXCEPT !.queued = x], x)
<1>1. PICK b : s = [bytes |-> b, queued |-> q]
  BY DEF Counted
<1>2. \A x : [s EXCEPT !.bytes = x] = [bytes |-> x, queued |-> q]
  BY <1>1
<1>3. \A x : [s EXCEPT !.queued = x] = [bytes |-> b, queued |-> x]
  BY <1>1
<1> QED
  BY <1>1, <1>2, <1>3 DEF Counted

\* The adds on the chain are finitely many.
LEMMA AddsAreFinite ==
  ASSUME StateOK
  PROVE  /\ IsFiniteSet(AddsWaiting) /\ Cardinality(AddsWaiting) \in Nat
         /\ Len(queue) \in Nat /\ DOMAIN queue = 1 .. Len(queue)
<1>1. Len(queue) \in Nat /\ DOMAIN queue = 1 .. Len(queue)
  BY DEF StateOK
<1>2. IsFiniteSet(1 .. Len(queue))
  BY <1>1, FS_Interval
<1>3. IsFiniteSet(AddsWaiting)
  BY <1>1, <1>2, FS_Subset DEF AddsWaiting
<1> QED
  BY <1>1, <1>3, FS_CardinalityType

\* An operation is put on the chain.
LEMMA AddsAppend ==
  ASSUME StateOK, NEW op \in OpType, queue' = Append(queue, op)
  PROVE  Cardinality(AddsWaiting') = Cardinality(AddsWaiting) + Unit(op.kind = "add")
<1>1. queue \in Seq(OpType)
  BY DEF StateOK
<1>2. /\ IsFiniteSet(AddsWaiting) /\ Cardinality(AddsWaiting) \in Nat
      /\ Len(queue) \in Nat /\ DOMAIN queue = 1 .. Len(queue)
  BY AddsAreFinite
<1>3. /\ DOMAIN queue' = 1 .. Len(queue) + 1 /\ queue'[Len(queue) + 1] = op
      /\ \A i \in DOMAIN queue : queue'[i] = queue[i]
  BY <1>1, <1>2, AppendProperties
<1>4. Len(queue) + 1 \notin DOMAIN queue /\ DOMAIN queue' = DOMAIN queue \cup {Len(queue) + 1}
  BY <1>2, <1>3
<1>5. CASE op.kind = "add"
  <2>1. AddsWaiting' = AddsWaiting \cup {Len(queue) + 1} /\ Len(queue) + 1 \notin AddsWaiting
    BY <1>3, <1>4, <1>5 DEF AddsWaiting
  <2> QED
    BY <1>2, <1>5, <2>1, FS_AddElement DEF Unit
<1>6. CASE op.kind # "add"
  <2>1. AddsWaiting' = AddsWaiting
    BY <1>3, <1>4, <1>6 DEF AddsWaiting
  <2> QED
    BY <1>2, <1>6, <2>1 DEF Unit
<1> QED
  BY <1>5, <1>6

\* The head operation leaves the chain.
LEMMA AddsTail ==
  ASSUME StateOK, queue # <<>>, queue' = Tail(queue)
  PROVE  Cardinality(AddsWaiting') = Cardinality(AddsWaiting) - Unit(Head(queue).kind = "add")
<1>1. queue \in Seq(OpType)
  BY DEF StateOK
<1>2. /\ IsFiniteSet(AddsWaiting) /\ Cardinality(AddsWaiting) \in Nat
      /\ Len(queue) \in Nat /\ DOMAIN queue = 1 .. Len(queue)
  BY AddsAreFinite
<1>3. /\ Len(queue) > 0 /\ Head(queue) = queue[1]
      /\ DOMAIN queue' = 1 .. Len(queue) - 1
      /\ \A i \in DOMAIN queue' : i + 1 \in DOMAIN queue /\ queue'[i] = queue[i + 1]
  BY <1>1, <1>2, HeadTailProperties
<1> DEFINE T == AddsWaiting \ {1}
           f == [i \in T |-> i - 1]
<1>4. \A i \in T : i \in Int /\ i - 1 \in AddsWaiting'
  <2> SUFFICES ASSUME NEW i \in T PROVE i \in Int /\ i - 1 \in AddsWaiting'
    OBVIOUS
  <2>1. i \in 1 .. Len(queue) /\ i # 1 /\ queue[i].kind = "add"
    BY <1>2 DEF AddsWaiting
  <2>2. i - 1 \in DOMAIN queue' /\ (i - 1) + 1 = i /\ i \in Int
    BY <1>2, <1>3, <2>1
  <2> QED
    BY <1>3, <2>1, <2>2 DEF AddsWaiting
<1>5. \A j \in AddsWaiting' : j + 1 \in T /\ (j + 1) - 1 = j
  <2> SUFFICES ASSUME NEW j \in AddsWaiting' PROVE j + 1 \in T /\ (j + 1) - 1 = j
    OBVIOUS
  <2>1. j \in 1 .. Len(queue) - 1 /\ queue'[j].kind = "add"
    BY <1>3 DEF AddsWaiting
  <2>2. j + 1 \in DOMAIN queue /\ j + 1 # 1 /\ (j + 1) - 1 = j
    BY <1>2, <1>3, <2>1
  <2> QED
    BY <1>3, <2>1, <2>2 DEF AddsWaiting
<1>6. f \in Bijection(T, AddsWaiting')
  <2>1. f \in [T -> AddsWaiting']
    BY <1>4
  <2>2. \A i, j \in T : f[i] = f[j] => i = j
    BY <1>4
  <2>3. \A j \in AddsWaiting' : \E i \in T : f[i] = j
    BY <1>5
  <2>4. DOMAIN f = T
    OBVIOUS
  <2> HIDE DEF f, T
  <2> QED
    BY <2>1, <2>2, <2>3, <2>4 DEF Bijection, Injection, Surjection, IsInjective
<1> HIDE DEF T, f
<1>7. ExistsBijection(T, AddsWaiting')
  BY <1>6 DEF ExistsBijection
<1>8. /\ IsFiniteSet(T)
      /\ Cardinality(T) = IF 1 \in AddsWaiting THEN Cardinality(AddsWaiting) - 1
                                               ELSE Cardinality(AddsWaiting)
  BY <1>2, FS_RemoveElement DEF T
<1>9. Cardinality(AddsWaiting') = Cardinality(T)
  BY <1>7, <1>8, FS_Bijection
<1>10. 1 \in AddsWaiting <=> Head(queue).kind = "add"
  BY <1>2, <1>3 DEF AddsWaiting
<1> QED
  BY <1>2, <1>8, <1>9, <1>10 DEF Unit

\* Both counters are left as they were.
LEMMA QueueSame ==
  ASSUME QueueInv, queue' = queue, store' = store PROVE QueueInv'
BY DEF QueueInv, AddsWaiting

\* What an ended operation gives back is what it had taken.
LEMMA QueueTail ==
  ASSUME StateOK, QueueInv, queue # <<>>, queue' = Tail(queue),
         \/ store' = Released
         \/ \E x : store' = [Released EXCEPT !.bytes = x]
         \/ /\ Head(queue).kind # "add"
            /\ store' = store \/ \E x : store' = [store EXCEPT !.bytes = x]
  PROVE  QueueInv'
<1> DEFINE c == Cardinality(AddsWaiting)
           u == Unit(Head(queue).kind = "add")
<1>1. Cardinality(AddsWaiting') = c - u
  BY AddsTail
<1>2. Cardinality(AddsWaiting)' = Cardinality(AddsWaiting')
  OBVIOUS
<1>3. c \in Nat
  BY AddsAreFinite
<1>4. Counted(store, c) /\ store.queued = c /\ \A x : Counted([store EXCEPT !.bytes = x], c)
  BY CountedUpdate DEF QueueInv
<1>5. Released = [store EXCEPT !.queued = c - u]
  BY <1>4 DEF Released
<1> HIDE DEF c, u
<1>6. Counted(Released, c - u)
  BY <1>4, <1>5, CountedUpdate
<1>7. \A x : Counted([Released EXCEPT !.bytes = x], c - u)
  BY <1>6, CountedUpdate
<1>8. Head(queue).kind # "add" => c - u = c
  BY <1>3 DEF u, Unit
<1>9. Counted(store', c - u)
  BY <1>4, <1>6, <1>7, <1>8
<1> QED
  BY <1>1, <1>2, <1>9 DEF QueueInv

\* An operation other than an add is put on the chain.
LEMMA QueueAppend ==
  ASSUME StateOK, QueueInv, NEW op \in OpType, op.kind # "add", queue' = Append(queue, op),
         store' = store
  PROVE  QueueInv'
<1>1. Cardinality(AddsWaiting') = Cardinality(AddsWaiting) + Unit(op.kind = "add")
  BY AddsAppend
<1>2. Cardinality(AddsWaiting') = Cardinality(AddsWaiting)
  BY <1>1, AddsAreFinite DEF Unit
<1>3. Cardinality(AddsWaiting)' = Cardinality(AddsWaiting')
  OBVIOUS
<1> QED
  BY <1>2, <1>3 DEF QueueInv

\* Calls: an accepted packet is counted with its operation.
LEMMA CallQueue ==
  ASSUME OutboxInv, QueueInv, Calls PROVE QueueInv'
<1>t. StateOK /\ rec \in [Recording -> RecordingType]
  BY DEF OutboxInv, StateOK
<1>1. ASSUME NEW r \in Recording, Add(r) PROVE QueueInv'
  <2> DEFINE op == AddOp(r, rec[r].offered + 1)
             c == Cardinality(AddsWaiting)
  <2>1. /\ rec[r].offered < MaxPackets /\ queue' = Append(queue, op)
        /\ store' = [store EXCEPT !.queued = store.queued + 1]
    BY <1>1 DEF Add
  <2>2. rec[r].offered + 1 \in Packet
    BY <1>t, <2>1, OutboxAssumption DEF RecordingType, Packet
  <2>3. op \in OpType /\ op.kind = "add"
    BY <2>2 DEF AddOp, OpType
  <2> HIDE DEF op
  <2>4. Cardinality(AddsWaiting') = c + 1
    BY <1>t, <2>1, <2>3, AddsAppend DEF Unit
  <2>5. store.queued = c /\ \A x : Counted([store EXCEPT !.queued = x], x)
    BY CountedUpdate DEF QueueInv
  <2>6. Counted(store', c + 1)
    <3> HIDE DEF c
    <3> QED
      BY <2>1, <2>5
  <2>7. Cardinality(AddsWaiting)' = Cardinality(AddsWaiting')
    OBVIOUS
  <2> QED
    BY <2>4, <2>6, <2>7 DEF QueueInv
<1>2. ASSUME NEW r \in Recording, Stop(r) PROVE QueueInv'
  <2>1. queue' = Append(queue, StopOp(r)) /\ store' = store
    BY <1>2 DEF Stop
  <2>2. StopOp(r) \in OpType /\ StopOp(r).kind # "add"
    BY DEF StopOp, OpType
  <2> QED
    BY <1>t, <2>1, <2>2, QueueAppend
<1>3. ASSUME NEW r \in Recording, queue' = Append(queue, CheckpointOp(r)), store' = store
      PROVE  QueueInv'
  <2>1. CheckpointOp(r) \in OpType /\ CheckpointOp(r).kind # "add"
    BY DEF CheckpointOp, OpType
  <2> QED
    BY <1>t, <1>3, <2>1, QueueAppend
<1>4. CASE RecoverConnection
  <2>1. store' = store /\ \/ queue' = queue
                          \/ \E r \in Recording : queue' = Append(queue, CheckpointOp(r))
    BY <1>4 DEF RecoverConnection, OpenRecordings
  <2> QED
    BY <1>3, <2>1, QueueSame
<1>5. ASSUME NEW r \in Recording, Begin(r) PROVE QueueInv'
  BY <1>5, QueueSame DEF Begin
<1>6. ASSUME NEW s, Pair(s) PROVE QueueInv'
  BY <1>6, QueueSame DEF Pair
<1> QED
  BY <1>1, <1>2, <1>4, <1>5, <1>6 DEF Calls

\* The operations of the chain: each path gives its share back once.
LEMMA JournalQueue ==
  ASSUME OutboxInv, QueueInv, NEW r \in Recording, Journal(r) PROVE QueueInv'
<1>t. StateOK
  BY DEF OutboxInv
<1>1. queue # <<>>
  BY JournalEffect DEF ChainEffect
<1>2. CASE Seal(r)
  <2>1. store' = store /\ (queue' = queue \/ (queue' = Tail(queue) /\ Head(queue).kind # "add"))
    BY <1>2 DEF Seal, EndOp
  <2> QED
    BY <1>t, <1>1, <2>1, QueueSame, QueueTail
<1>3. CASE SealDamaged(r) \/ NothingToSeal(r)
  <2>1. store' = store /\ queue' = Tail(queue) /\ Head(queue).kind # "add"
    BY <1>3 DEF SealDamaged, NothingToSeal, EndOp, Seals, Runs
  <2> QED
    BY <1>t, <1>1, <2>1, QueueTail
<1>4. CASE SealFails(r) \/ AddRefused(r) \/ OpenFails(r)
  <2>1. store' = Released /\ queue' = Tail(queue)
    BY <1>4, Zenon DEF SealFails, AddRefused, OpenFails, EndOp
  <2> QED
    BY <1>t, <1>1, <2>1, QueueTail
<1>5. CASE Write(r) \/ WriteFails(r)
  <2>1. queue' = Tail(queue) /\ \E x : store' = [Released EXCEPT !.bytes = x]
    BY <1>5, Zenon DEF Write, WriteFails, EndOp
  <2> QED
    BY <1>t, <1>1, <2>1, QueueTail
<1> QED
  BY <1>2, <1>3, <1>4, <1>5 DEF Journal

\* Every step.
LEMMA QueueStep ==
  ASSUME OutboxInv, QueueInv, [Next]_vars PROVE QueueInv'
<1>t. StateOK
  BY DEF OutboxInv
<1>1. CASE Start
  <2>1. queue' = queue /\ \E x : store' = [store EXCEPT !.bytes = x]
    BY <1>1 DEF Start
  <2>2. AddsWaiting' = AddsWaiting
    BY <2>1 DEF AddsWaiting
  <2> QED
    BY <2>1, <2>2, CountedUpdate DEF QueueInv
<1>2. CASE Calls
  BY <1>2, CallQueue
<1>3. ASSUME NEW r \in Recording, Journal(r) PROVE QueueInv'
  BY <1>3, JournalQueue
<1>4. CASE PassDone
  <2>1. queue' = Append(queue, CountOp) /\ store' = store
    BY <1>4 DEF PassDone
  <2>2. CountOp \in OpType /\ CountOp.kind # "add"
    BY DEF CountOp, OpType
  <2> QED
    BY <1>t, <2>1, <2>2, QueueAppend
<1>5. CASE CountPending \/ CountFails
  <2>1. /\ queue # <<>> /\ queue' = Tail(queue) /\ Head(queue) = CountOp
        /\ store' = store \/ \E x : store' = [store EXCEPT !.bytes = x]
    BY <1>5 DEF CountPending, CountFails
  <2>2. Head(queue).kind # "add"
    BY <2>1 DEF CountOp
  <2> QED
    BY <1>t, <2>1, <2>2, QueueTail
<1>6. CASE Crash
  <2>1. queue' = <<>> /\ store' = [bytes |-> 0, queued |-> 0]
    BY <1>6 DEF Crash
  <2>2. AddsWaiting' = {}
    BY <2>1 DEF AddsWaiting
  <2>3. Cardinality(AddsWaiting)' = 0
    BY <2>2, FS_EmptySet
  <2> QED
    BY <2>1, <2>3 DEF QueueInv, Counted
<1>7. CASE \/ TimerFires \/ ListFails \/ UploadSend \/ UploadFails \/ UploadAcked
           \/ ServerStores \/ ServerRefuses \/ UNCHANGED vars
           \/ \E p \in Part : UploadStart(p)
  <2>1. queue' = queue /\ store' = store
    BY <1>7 DEF TimerFires, ListFails, UploadSend, UploadFails, UploadAcked, ServerStores,
       ServerRefuses, vars, UploadStart
  <2> QED
    BY <2>1, QueueSame
<1> QED
  BY <1>1, <1>2, <1>3, <1>4, <1>5, <1>6, <1>7 DEF Next, PhoneNext, Pump

\* _queuedBytes is what waits on the chain, however operations end: it never
\* leaks, so that audio is refused only while as much really waits.
THEOREM QueuedBytesAreExact == Spec => []QueueIsAccounted
<1>1. Init => QueueInv
  <2> SUFFICES ASSUME Init PROVE QueueInv
    OBVIOUS
  <2>1. AddsWaiting = {} /\ store = [bytes |-> 0, queued |-> 0]
    BY DEF Init, AddsWaiting
  <2>2. Cardinality(AddsWaiting) = 0
    BY <2>1, FS_EmptySet
  <2> QED
    BY <2>1, <2>2 DEF QueueInv, Counted
<1>2. OutboxInv /\ QueueInv /\ [Next]_vars => QueueInv'
  BY QueueStep
<1>3. QueueInv => QueueIsAccounted
  BY CountedUpdate DEF QueueInv, QueueIsAccounted, AddsWaiting
<1> QED
  BY <1>1, <1>2, <1>3, OutboxIsSound, PTL DEF Spec
-----------------------------------------------------------------------------
(* The quota.  pendingBytes may count too much, as a delivered file stays   *)
(* counted until the pass ends, and too little, as what a failed write left *)
(* is not counted; but the latched failure pays for that once.              *)

Failed == {r \in Recording : rec[r].failed}
Slack  == (1 + Preroll) * Cardinality(Failed)

\* The decoder context that LocalOpusPreroll keeps is the shortest one.
RingsAreShort == \A r \in Recording : Len(rec[r].ring) <= Preroll

QuotaInv ==
  /\ store.bytes \in Nat
  /\ RingsAreShort
  /\ alive => DiskBytes(disk) <= store.bytes + Slack
  /\ DiskBytes(disk) <= MaxStorage + Slack

\* A file takes up some units, no file none.
LEMMA SizeType ==
  /\ \A f \in FileType : Size(f) \in Nat
  /\ Size(NoFile) = 0
<1>1. ASSUME NEW f \in FileType PROVE Size(f) \in Nat
  <2>1. f.pre \in Seq(Packet) /\ f.fresh \in Seq(Packet) /\ f.head \in BOOLEAN /\ f.torn \in BOOLEAN
    BY DEF FileType
  <2>2. Len(f.pre) \in Nat /\ Len(f.fresh) \in Nat
    BY <2>1
  <2>3. Unit(f.head) \in Nat /\ Unit(f.torn) \in Nat
    BY DEF Unit
  <2> QED
    BY <2>2, <2>3 DEF Size
<1>2. Size(NoFile) = 0
  BY DEF Size, NoFile, Unit
<1> QED
  BY <1>1, <1>2

\* The units of one file.
Units(p, n) == {p} \X (1 .. n)

\* They are as many as its size says.
LEMMA UnitsCount ==
  ASSUME NEW p, NEW n \in Nat
  PROVE  IsFiniteSet(Units(p, n)) /\ Cardinality(Units(p, n)) = n
<1>1. IsFiniteSet({p}) /\ Cardinality({p}) = 1
  BY FS_Singleton
<1>2. IsFiniteSet(1 .. n) /\ Cardinality(1 .. n) = n
  BY FS_Interval
<1>3. /\ IsFiniteSet({p} \X (1 .. n))
      /\ Cardinality({p} \X (1 .. n)) = Cardinality({p}) * Cardinality(1 .. n)
  BY <1>1, <1>2, FS_Product, Zenon
<1>4. Cardinality({p}) * Cardinality(1 .. n) = n
  BY <1>1, <1>2
<1> QED
  BY <1>3, <1>4 DEF Units

\* The directory can be counted.
LEMMA StoredIsFinite ==
  ASSUME NEW d \in [Part -> FileType]
  PROVE  IsFiniteSet(Stored(d)) /\ DiskBytes(d) \in Nat
<1> DEFINE f == [p \in Part |-> Units(p, Size(d[p]))]
           T == {Units(p, Size(d[p])) : p \in Part}
<1>1. IsFiniteSet(Part)
  <2>1. MaxPackets - 1 \in Int /\ 0 \in Int
    BY OutboxAssumption
  <2>2. IsFiniteSet(0 .. MaxPackets - 1)
    BY <2>1, FS_Interval
  <2> QED
    BY <2>2, FS_Product, OutboxAssumption DEF Part
<1>2. f \in Surjection(Part, T)
  BY DEF Surjection
<1>3. IsFiniteSet(T)
  BY <1>1, <1>2, FS_Surjection
<1>4. \A t \in T : IsFiniteSet(t)
  <2> SUFFICES ASSUME NEW p \in Part PROVE IsFiniteSet(Units(p, Size(d[p])))
    OBVIOUS
  <2>1. Size(d[p]) \in Nat
    BY SizeType
  <2> QED
    BY <2>1, UnitsCount
<1>5. Stored(d) = UNION T
  BY DEF Stored, Units
<1>6. IsFiniteSet(Stored(d))
  BY <1>3, <1>4, <1>5, FS_UNION
<1> QED
  BY <1>6, FS_CardinalityType DEF DiskBytes

\* Replacing one file changes the directory by the difference in size.
LEMMA FileReplaced ==
  ASSUME NEW d \in [Part -> FileType], NEW p \in Part, NEW f \in FileType
  PROVE  DiskBytes([d EXCEPT ![p] = f]) = DiskBytes(d) - Size(d[p]) + Size(f)
<1> DEFINE e == [d EXCEPT ![p] = f]
           others == {x \in Stored(d) : x[1] # p}
<1>1. e \in [Part -> FileType] /\ e[p] = f /\ \A q \in Part : q # p => e[q] = d[q]
  OBVIOUS
<1>2. IsFiniteSet(Stored(d)) /\ IsFiniteSet(others)
  BY StoredIsFinite, FS_Subset
<1>3. Size(d[p]) \in Nat /\ Size(f) \in Nat
  BY SizeType
<1> HIDE DEF e
<1>4. \A q, x : x \in Stored(d) <=> \E y \in Part : x \in Units(y, Size(d[y]))
  BY DEF Stored, Units
<1>5. \A q, x : x \in Stored(e) <=> \E y \in Part : x \in Units(y, Size(e[y]))
  BY DEF Stored, Units
<1>6. \A y, n, x : x \in Units(y, n) => x[1] = y
  BY DEF Units
<1>7. Stored(d) = others \cup Units(p, Size(d[p])) /\ others \cap Units(p, Size(d[p])) = {}
  BY <1>4, <1>6
<1>8. Stored(e) = others \cup Units(p, Size(f)) /\ others \cap Units(p, Size(f)) = {}
  BY <1>1, <1>4, <1>5, <1>6
<1> HIDE DEF others
<1>9. ASSUME NEW n \in Nat, others \cap Units(p, n) = {}
      PROVE  Cardinality(others \cup Units(p, n)) = Cardinality(others) + n
  <2>1. IsFiniteSet(Units(p, n)) /\ Cardinality(Units(p, n)) = n
    BY UnitsCount
  <2>2. Cardinality(others \cup Units(p, n)) = Cardinality(others) + n - Cardinality({})
    BY <1>2, <1>9, <2>1, FS_Union
  <2>3. Cardinality({}) = 0 /\ Cardinality(others) \in Nat
    BY <1>2, FS_EmptySet, FS_CardinalityType
  <2> QED
    BY <2>2, <2>3
<1>10. Cardinality(Stored(d)) = Cardinality(others) + Size(d[p])
  BY <1>3, <1>7, <1>9
<1>11. Cardinality(Stored(e)) = Cardinality(others) + Size(f)
  BY <1>3, <1>8, <1>9
<1>12. Cardinality(others) \in Nat
  BY <1>2, FS_CardinalityType
<1>13. DiskBytes(e) = DiskBytes(d) - Size(d[p]) + Size(f)
  BY <1>3, <1>10, <1>11, <1>12 DEF DiskBytes
<1> QED
  BY <1>13 DEF e

\* A directory of smaller files is smaller.
LEMMA DiskShrinks ==
  ASSUME NEW d \in [Part -> FileType], NEW e \in [Part -> FileType],
         \A p \in Part : Size(e[p]) <= Size(d[p])
  PROVE  DiskBytes(e) <= DiskBytes(d)
<1>1. \A p \in Part : Size(e[p]) \in Nat /\ Size(d[p]) \in Nat
  BY SizeType
<1>2. \A p \in Part : 1 .. Size(e[p]) \subseteq 1 .. Size(d[p])
  BY <1>1
<1>3. Stored(e) \subseteq Stored(d)
  BY <1>2 DEF Stored
<1> QED
  BY <1>3, StoredIsFinite, FS_Subset DEF DiskBytes

\* Multiplication respects the order.
LEMMA Multiples ==
  ASSUME NEW s \in Nat, NEW c \in Nat, NEW k \in Nat
  PROVE  s * c \in Nat /\ s * (c + k) >= s * c /\ (k >= 1 => s * (c + k) >= s * c + s)
<1>1. s * (c + k) = s * c + s * k
  OBVIOUS
<1>2. s * c \in Nat /\ s * k \in Nat
  OBVIOUS
<1>3. k >= 1 => s * k >= s
  OBVIOUS
<1> QED
  BY <1>1, <1>2, <1>3

\* A recording that fails adds its share, and none takes one back.
LEMMA SlackGrows ==
  ASSUME rec \in [Recording -> RecordingType], rec' \in [Recording -> RecordingType],
         \A r \in Recording : rec[r].failed => rec'[r].failed
  PROVE  /\ Slack \in Nat /\ Slack' \in Nat /\ Slack' >= Slack
         /\ \A r \in Recording : ~rec[r].failed /\ rec'[r].failed => Slack' >= Slack + (1 + Preroll)
<1> DEFINE c == Cardinality(Failed)
           e == Cardinality(Failed')
           s == 1 + Preroll
<1>1. s \in Nat
  BY OutboxAssumption
<1>2. IsFiniteSet(Failed) /\ IsFiniteSet(Failed') /\ Failed \subseteq Failed'
  <2>1. Failed \subseteq Recording /\ Failed' \subseteq Recording /\ Failed \subseteq Failed'
    BY DEF Failed
  <2> QED
    BY <2>1, FS_Subset, OutboxAssumption
<1>3. c \in Nat /\ e \in Nat /\ c <= e
  BY <1>2, FS_Subset, FS_CardinalityType
<1>4. Slack = s * c /\ Slack' = s * e
  BY DEF Slack
<1> HIDE DEF s
<1>5. ASSUME NEW r \in Recording, ~rec[r].failed, rec'[r].failed PROVE e >= c + 1
  <2>1. r \notin Failed /\ r \in Failed'
    BY <1>5 DEF Failed
  <2>2. Failed \cup {r} \subseteq Failed' /\ Cardinality(Failed \cup {r}) = c + 1
    BY <1>2, <2>1, FS_AddElement
  <2>3. c + 1 <= e
    BY <1>2, <2>2, FS_Subset
  <2> QED
    BY <1>3, <2>3
<1> HIDE DEF c, e
<1>6. e = c + (e - c) /\ e - c \in Nat
  BY <1>3
<1>7. s * c \in Nat /\ s * e \in Nat /\ s * e >= s * c /\ (e - c >= 1 => s * e >= s * c + s)
  BY <1>1, <1>3, <1>6, Multiples
<1>8. \A r \in Recording : ~rec[r].failed /\ rec'[r].failed => s * e >= s * c + s
  BY <1>3, <1>5, <1>7
<1> QED
  BY <1>4, <1>7, <1>8 DEF s
\* The context is the shortest one, so an opened journal starts small.
LEMMA OpeningSize ==
  ASSUME OutboxInv, RingsAreShort, NEW r \in Recording
  PROVE  /\ OpeningBytes(r) \in Nat /\ OpeningBytes(r) <= 1 + Preroll
         /\ ~rec[r].handle => OpeningBytes(r) = 1 + Len(PrerollPackets(r))
<1>1. rec[r].ring \in Seq(Packet) /\ Len(rec[r].ring) <= Preroll
  BY DEF OutboxInv, StateOK, RecordingType, RingsAreShort
<1>2. Len(PrerollPackets(r)) \in Nat /\ Len(PrerollPackets(r)) <= Preroll
  <2>1. Len(<<>>) = 0 /\ Len(rec[r].ring) \in Nat
    BY <1>1
  <2> QED
    BY <1>1, <2>1, OutboxAssumption DEF PrerollPackets
<1> QED
  BY <1>2, OutboxAssumption DEF OpeningBytes

\* What an add may leave is within what it asked the quota for.
LEMMA WrittenSize ==
  ASSUME OutboxInv, RingsAreShort, NEW r \in Recording, Writes(r)
  PROVE  /\ Size(Opened(r)) = Size(disk[Target(r)]) + OpeningBytes(r)
         /\ \A f \in HalfOpened(r) : Size(f) <= Size(disk[Target(r)]) + OpeningBytes(r)
         /\ \A f \in HalfWritten(r) : Size(f) <= Size(disk[Target(r)]) + OpeningBytes(r) + 1
         /\ Size([Opened(r) EXCEPT !.fresh = Append(@, Head(queue).n)]) =
              Size(disk[Target(r)]) + OpeningBytes(r) + 1
<1> DEFINE n == Head(queue).n
           o == Opened(r)
           k == OpeningBytes(r)
           z == Size(disk[Target(r)])
           w == [o EXCEPT !.fresh = Append(@, n)]
<1>1. /\ Target(r) \in Part /\ o \in FileType /\ n \in Packet
      /\ ~rec[r].handle => disk[Target(r)] = NoFile
  BY TargetIsOpen
<1>2. k \in Nat /\ (~rec[r].handle => k = 1 + Len(PrerollPackets(r)))
  BY OpeningSize
<1>3. disk[Target(r)] \in FileType /\ z \in Nat
  BY <1>1, SizeType DEF OutboxInv, StateOK
<1>4. PrerollPackets(r) \in Seq(Packet) /\ Len(PrerollPackets(r)) \in Nat
  BY PrerollType DEF OutboxInv
<1>5. Size(o) = z + k
  <2>1. CASE rec[r].handle
    <3>1. k = 0 /\ o = disk[Target(r)]
      BY <2>1 DEF OpeningBytes, Opened, Target
    <3> QED
      BY <1>3, <3>1
  <2>2. CASE ~rec[r].handle
    <3>1. z = 0
      BY <1>1, <2>2, SizeType
    <3>2. o = [NoFile EXCEPT !.st = "part", !.head = TRUE, !.pre = PrerollPackets(r)]
      BY <2>2 DEF Opened
    <3>3. o.head = TRUE /\ o.pre = PrerollPackets(r) /\ o.fresh = <<>> /\ o.torn = FALSE
      BY <3>2 DEF NoFile
    <3>4. Len(<<>>) = 0
      OBVIOUS
    <3> HIDE DEF o
    <3>5. Unit(o.head) = 1 /\ Unit(o.torn) = 0 /\ Len(o.pre) = Len(PrerollPackets(r)) /\ Len(o.fresh) = 0
      BY <3>3, <3>4 DEF Unit
    <3>6. Size(o) = 1 + Len(PrerollPackets(r))
      BY <1>4, <3>5 DEF Size
    <3> QED
      BY <1>2, <1>4, <2>2, <3>1, <3>6
  <2> QED
    BY <2>1, <2>2
<1>6. ASSUME NEW f \in HalfOpened(r) PROVE Size(f) <= z + k
  <2>1. ~rec[r].handle
    BY <1>6 DEF HalfOpened
  <2>2. z = 0 /\ k = 1 + Len(PrerollPackets(r))
    BY <1>1, <1>2, <2>1, SizeType
  <2> DEFINE blank == [NoFile EXCEPT !.st = "part"]
  <2>3. Size(NoFile) = 0 /\ Size(blank) = 0 /\ Size([blank EXCEPT !.torn = TRUE]) = 1
    BY DEF Size, NoFile, Unit
  <2>4. ASSUME NEW i \in 0 .. Len(PrerollPackets(r)) - 1
        PROVE  Size([o EXCEPT !.pre = SubSeq(@, 1, i), !.torn = TRUE]) = i + 2
    <3> DEFINE g == [o EXCEPT !.pre = SubSeq(@, 1, i), !.torn = TRUE]
    <3>1. o = [NoFile EXCEPT !.st = "part", !.head = TRUE, !.pre = PrerollPackets(r)]
      BY <2>1 DEF Opened
    <3>2. /\ g.head = TRUE /\ g.pre = SubSeq(PrerollPackets(r), 1, i) /\ g.fresh = <<>>
          /\ g.torn = TRUE
      BY <3>1 DEF NoFile
    <3>3. Len(SubSeq(PrerollPackets(r), 1, i)) = i
      BY <1>4, <2>4, SubSeqProperties
    <3> HIDE DEF g
    <3>4. Size(g) = i + 2
      BY <3>2, <3>3 DEF Size, Unit
    <3> QED
      BY <3>4 DEF g
  <2>5. \/ f = NoFile \/ f = blank \/ f = [blank EXCEPT !.torn = TRUE]
        \/ \E i \in 0 .. Len(PrerollPackets(r)) - 1 :
             f = [o EXCEPT !.pre = SubSeq(@, 1, i), !.torn = TRUE]
    BY <1>6, <2>1, Zenon DEF HalfOpened
  <2> HIDE DEF z, k, o, blank
  <2>6. Size(f) = 0 \/ Size(f) = 1 \/ \E i \in 0 .. Len(PrerollPackets(r)) - 1 : Size(f) = i + 2
    BY <2>3, <2>4, <2>5
  <2> QED
    BY <1>4, <2>2, <2>6
<1>7. Size(w) = z + k + 1 /\ Size([o EXCEPT !.torn = TRUE]) <= z + k + 1
  <2>1. /\ o.fresh \in Seq(Packet) /\ o.pre \in Seq(Packet) /\ o.head \in BOOLEAN
        /\ o.torn \in BOOLEAN
    BY <1>1 DEF FileType
  <2>2. Len(Append(o.fresh, n)) = Len(o.fresh) + 1 /\ Len(o.fresh) \in Nat /\ Len(o.pre) \in Nat
    BY <1>1, <2>1, AppendProperties
  <2>3. w.fresh = Append(o.fresh, n) /\ w.pre = o.pre /\ w.head = o.head /\ w.torn = o.torn
    BY <1>1 DEF FileType
  <2> DEFINE t == [o EXCEPT !.torn = TRUE]
  <2>4. t.fresh = o.fresh /\ t.pre = o.pre /\ t.head = o.head /\ t.torn = TRUE
    BY <1>1 DEF FileType
  <2>5. /\ Unit(o.head) \in Nat /\ Unit(o.torn) \in Nat /\ Unit(TRUE) = 1
        /\ Unit(w.head) = Unit(o.head) /\ Unit(w.torn) = Unit(o.torn) /\ Unit(t.head) = Unit(o.head)
        /\ Unit(t.torn) = 1
    BY <2>3, <2>4 DEF Unit
  <2> HIDE DEF w, t, o, z, k
  <2>6. Size(w) = Size(o) + 1
    BY <2>2, <2>3, <2>5 DEF Size
  <2>7. Size(t) <= Size(o) + 1
    BY <2>2, <2>4, <2>5 DEF Size
  <2>8. z + k \in Nat
    BY <1>2, <1>3
  <2> QED
    BY <1>5, <2>6, <2>7, <2>8 DEF t
<1>8. ASSUME NEW f \in HalfWritten(r) PROVE Size(f) <= z + k + 1
  <2>1. f = o \/ f = [o EXCEPT !.torn = TRUE] \/ f = w
    BY <1>8, Zenon DEF HalfWritten
  <2>2. z + k \in Nat
    BY <1>2, <1>3
  <2>3. CASE f = o
    <3>1. Size(f) = z + k
      BY <1>5, <2>3
    <3> QED
      BY <2>2, <3>1
  <2>4. CASE f = [o EXCEPT !.torn = TRUE]
    BY <1>7, <2>4
  <2>5. CASE f = w
    <3>1. Size(f) = z + k + 1
      BY <1>7, <2>5
    <3> QED
      BY <2>2, <3>1
  <2> QED
    BY <2>1, <2>3, <2>4, <2>5
<1> QED
  BY <1>5, <1>6, <1>7, <1>8

\* The quota after an add that left file f, counted to the unit or not.
LEMMA QuotaWrite ==
  ASSUME OutboxInv, QuotaInv, NEW r \in Recording, Writes(r), Fits(r),
         NEW f \in FileType, disk' = [disk EXCEPT ![Target(r)] = f],
         Size(f) <= Size(disk[Target(r)]) + OpeningBytes(r) + 1
  PROVE  /\ DiskBytes(disk') <= MaxStorage + Slack
         /\ DiskBytes(disk') <= DiskBytes(disk) + Size(f) - Size(disk[Target(r)])
         /\ DiskBytes(disk') \in Nat /\ DiskBytes(disk) <= store.bytes + Slack
         /\ Size(f) \in Nat /\ Size(disk[Target(r)]) \in Nat
<1>1. Target(r) \in Part /\ disk \in [Part -> FileType] /\ alive
  BY TargetIsOpen, HeadOp DEF OutboxInv, StateOK, Writes
<1>2. DiskBytes(disk') = DiskBytes(disk) - Size(disk[Target(r)]) + Size(f)
  BY <1>1, FileReplaced
<1>3. Size(f) \in Nat /\ Size(disk[Target(r)]) \in Nat
  BY <1>1, SizeType
<1>4. disk' \in [Part -> FileType]
  BY <1>1
<1>5. DiskBytes(disk) \in Nat /\ DiskBytes(disk') \in Nat
  BY <1>1, <1>4, StoredIsFinite
<1>6. Slack \in Nat
  <2>1. Failed \subseteq Recording
    BY DEF Failed
  <2>2. Cardinality(Failed) \in Nat
    BY <2>1, FS_Subset, FS_CardinalityType, OutboxAssumption
  <2> QED
    BY <2>2, OutboxAssumption, Multiples DEF Slack
<1>7. DiskBytes(disk) <= store.bytes + Slack /\ store.bytes \in Nat /\ RingsAreShort
  BY <1>1 DEF QuotaInv
<1>8. OpeningBytes(r) \in Nat
  BY <1>7, OpeningSize
<1>9. store.bytes + OpeningBytes(r) + 1 <= MaxStorage /\ MaxStorage \in Nat
  BY OutboxAssumption DEF Fits
<1> QED
  BY <1>2, <1>3, <1>5, <1>6, <1>7, <1>8, <1>9
\* The ring grows to the decoder context and no further.
LEMMA RememberLength ==
  ASSUME NEW ring \in Seq(Packet), NEW n \in Packet, Len(ring) <= Preroll
  PROVE  Len(Remember(ring, n)) <= Preroll
<1>1. Len(ring) \in Nat /\ Preroll \in Nat /\ Preroll > 0
  BY OutboxAssumption
<1>2. CASE Len(ring) < Preroll
  <2>1. Len(Append(ring, n)) = Len(ring) + 1
    BY AppendProperties
  <2> QED
    BY <1>1, <1>2, <2>1 DEF Remember
<1>3. CASE ~(Len(ring) < Preroll)
  <2>1. ring # <<>>
    BY <1>1, <1>3
  <2>2. Tail(ring) \in Seq(Packet) /\ Len(Tail(ring)) = Len(ring) - 1
    BY <2>1, HeadTailProperties
  <2>3. Len(Append(Tail(ring), n)) = Len(Tail(ring)) + 1
    BY <2>2, AppendProperties
  <2> QED
    BY <1>1, <1>3, <2>2, <2>3 DEF Remember
<1> QED
  BY <1>2, <1>3

\* What an operation of the chain does to the failures and the rings.
LEMMA JournalRings ==
  ASSUME OutboxInv, RingsAreShort, NEW r \in Recording, Journal(r)
  PROVE  /\ RingsAreShort'
         /\ \A s \in Recording : rec[s].failed => rec'[s].failed
         /\ OpenFails(r) \/ WriteFails(r) => rec'[r].failed
<1>1. /\ rec \in [Recording -> RecordingType] /\ rec' \in [Recording -> RecordingType]
      /\ \A s \in Recording : s # r => rec'[s] = rec[s]
  BY JournalEffect DEF ChainEffect, OutboxInv, StateOK
<1>2. rec[r].ring \in Seq(Packet) /\ Len(rec[r].ring) <= Preroll /\ rec[r] \in RecordingType
  BY <1>1 DEF RingsAreShort, RecordingType
<1>f. ASSUME OpenFails(r) \/ WriteFails(r) PROVE rec'[r].failed /\ rec'[r].ring = rec[r].ring
  <2>1. PICK i, h : rec' = [rec EXCEPT ![r].index = i, ![r].handle = h, ![r].failed = TRUE]
    BY <1>f, Zenon DEF OpenFails, WriteFails
  <2> QED
    BY <1>1, <1>2, <2>1 DEF RecordingType
<1>3. /\ \/ rec'[r].ring = rec[r].ring
         \/ (Write(r) /\ rec'[r].ring = Remember(rec[r].ring, Head(queue).n))
      /\ rec[r].failed => rec'[r].failed
  <2>1. CASE Seal(r) \/ SealDamaged(r) \/ NothingToSeal(r)
    <3>1. rec' = [rec EXCEPT ![r].handle = FALSE] \/ rec' = rec
      BY <2>1 DEF Seal, SealDamaged, NothingToSeal
    <3> QED
      BY <1>1, <1>2, <3>1 DEF RecordingType
  <2>2. CASE SealFails(r)
    <3>1. PICK open \in BOOLEAN, f \in BOOLEAN :
            rec' = [rec EXCEPT ![r].handle = open, ![r].failed = f] /\ (rec[r].failed => f)
      <4>1. (rec[r].failed \/ Head(queue).kind # "stop") \in BOOLEAN
        OBVIOUS
      <4>2. rec[r].failed => rec[r].failed \/ Head(queue).kind # "stop"
        OBVIOUS
      <4> QED
        BY <2>2, <4>1, <4>2, Zenon DEF SealFails
    <3> QED
      BY <1>1, <1>2, <3>1 DEF RecordingType
  <2>3. CASE Write(r)
    <3>1. PICK i, a, c, x :
            /\ rec' = [rec EXCEPT ![r].index = i, ![r].handle = TRUE, ![r].audio = a,
                                  ![r].count = c, ![r].ring = x]
            /\ x = rec[r].ring \/ x = Remember(rec[r].ring, Head(queue).n)
      BY <2>3, Zenon DEF Write
    <3>2. rec'[r].ring = x /\ rec'[r].failed = rec[r].failed
      BY <1>1, <1>2, <3>1 DEF RecordingType
    <3> QED
      BY <2>3, <3>1, <3>2
  <2>4. CASE AddRefused(r)
    <3>1. rec' = rec \/ \E i : rec' = [rec EXCEPT ![r].index = i, ![r].failed = TRUE]
      BY <2>4, Zenon DEF AddRefused
    <3>2. CASE rec' = rec
      BY <3>2
    <3>3. ASSUME NEW i, rec' = [rec EXCEPT ![r].index = i, ![r].failed = TRUE]
          PROVE  rec'[r].ring = rec[r].ring /\ rec'[r].failed
      BY <1>1, <1>2, <3>3 DEF RecordingType
    <3> QED
      BY <3>1, <3>2, <3>3
  <2>5. CASE OpenFails(r) \/ WriteFails(r)
    BY <1>2, <1>f, <2>5
  <2> QED
    BY <2>1, <2>2, <2>3, <2>4, <2>5 DEF Journal
<1>4. Write(r) => Head(queue).n \in Packet
  BY TargetIsOpen DEF Write
<1>5. Len(rec'[r].ring) <= Preroll
  BY <1>2, <1>3, <1>4, RememberLength
<1> QED
  BY <1>1, <1>3, <1>5, <1>f DEF RingsAreShort
\* A step that stores nothing and does not count.
LEMMA QuotaKept ==
  ASSUME StateOK, QuotaInv, RingsAreShort', alive' => alive, store'.bytes = store.bytes,
         rec' \in [Recording -> RecordingType],
         \A r \in Recording : rec[r].failed => rec'[r].failed,
         disk' \in [Part -> FileType], DiskBytes(disk') <= DiskBytes(disk)
  PROVE  QuotaInv'
<1>1. Slack \in Nat /\ Slack' \in Nat /\ Slack' >= Slack
  BY SlackGrows DEF StateOK
<1>2. DiskBytes(disk) \in Nat /\ DiskBytes(disk') \in Nat
  BY StoredIsFinite DEF StateOK
<1>3. MaxStorage \in Nat
  BY OutboxAssumption
<1>4. /\ store.bytes \in Nat /\ (alive => DiskBytes(disk) <= store.bytes + Slack)
      /\ DiskBytes(disk) <= MaxStorage + Slack
  BY DEF QuotaInv
<1>5. alive' => DiskBytes(disk') <= store'.bytes + Slack'
  BY <1>1, <1>2, <1>4
<1>6. DiskBytes(disk') <= MaxStorage + Slack'
  BY <1>1, <1>2, <1>3, <1>4
<1>7. DiskBytes(disk)' = DiskBytes(disk')
  BY DEF DiskBytes, Stored
<1> QED
  BY <1>4, <1>5, <1>6, <1>7 DEF QuotaInv

\* The counters as records.
LEMMA StoreFields ==
  ASSUME QueueInv
  PROVE  /\ Released.bytes = store.bytes
         /\ \A x : [store EXCEPT !.bytes = x].bytes = x
         /\ \A x : [Released EXCEPT !.bytes = x].bytes = x
         /\ \A x : [store EXCEPT !.queued = x].bytes = store.bytes
<1>1. PICK b : store = [bytes |-> b, queued |-> Cardinality(AddsWaiting)]
  BY DEF QueueInv, Counted
<1>2. PICK x : Released = [store EXCEPT !.queued = x]
  BY DEF Released
<1>3. Released = [bytes |-> b, queued |-> x] /\ store.bytes = b
  BY <1>1, <1>2
<1>4. Released.bytes = b
  BY <1>3
<1>5. \A y : [Released EXCEPT !.bytes = y].bytes = y
  BY <1>3
<1> QED
  BY <1>1, <1>3, <1>4, <1>5

\* The operations of the chain.
LEMMA JournalQuota ==
  ASSUME OutboxInv, QueueInv, QuotaInv, NEW r \in Recording, Journal(r) PROVE QuotaInv'
<1>t. /\ StateOK /\ disk \in [Part -> FileType] /\ rec \in [Recording -> RecordingType]
      /\ RingsAreShort
  BY DEF OutboxInv, StateOK, QuotaInv
<1>e. /\ rec' \in [Recording -> RecordingType] /\ disk' \in [Part -> FileType] /\ alive' = alive
      /\ alive
  BY JournalEffect DEF ChainEffect
<1>g. /\ RingsAreShort' /\ \A s \in Recording : rec[s].failed => rec'[s].failed
      /\ OpenFails(r) \/ WriteFails(r) => rec'[r].failed
  BY <1>t, JournalRings
<1>s. /\ Slack \in Nat /\ Slack' \in Nat /\ Slack' >= Slack
      /\ ~rec[r].failed /\ rec'[r].failed => Slack' >= Slack + (1 + Preroll)
  BY <1>t, <1>e, <1>g, SlackGrows
<1>b. /\ DiskBytes(disk) \in Nat /\ DiskBytes(disk') \in Nat /\ store.bytes \in Nat
      /\ MaxStorage \in Nat /\ Preroll \in Nat
  BY <1>t, <1>e, StoredIsFinite, OutboxAssumption DEF QuotaInv
<1>p. DiskBytes(disk)' = DiskBytes(disk')
  BY DEF DiskBytes, Stored
<1>1. CASE Seal(r)
  <2>1. disk' = [disk EXCEPT ![Current(r)].st = "ready"] /\ store' = store
    BY <1>1 DEF Seal, EndOp
  <2>2. \A p \in Part : Size(disk'[p]) = Size(disk[p])
    <3> SUFFICES ASSUME NEW p \in Part PROVE Size(disk'[p]) = Size(disk[p])
      OBVIOUS
    <3>1. /\ disk'[p].head = disk[p].head /\ disk'[p].pre = disk[p].pre
          /\ disk'[p].fresh = disk[p].fresh /\ disk'[p].torn = disk[p].torn
      BY <1>t, <2>1 DEF FileType
    <3> QED
      BY <3>1 DEF Size
  <2>3. \A p \in Part : Size(disk'[p]) <= Size(disk[p])
    BY <1>t, <2>2, SizeType
  <2>4. DiskBytes(disk') <= DiskBytes(disk)
    BY <1>t, <1>e, <2>3, DiskShrinks
  <2> QED
    BY <1>t, <1>e, <1>g, <2>1, <2>4, QuotaKept
<1>2. CASE SealDamaged(r) \/ NothingToSeal(r) \/ SealFails(r) \/ AddRefused(r)
  <2>1. disk' = disk /\ store' \in {store, Released}
    BY <1>2 DEF SealDamaged, NothingToSeal, SealFails, AddRefused, EndOp
  <2>2. store'.bytes = store.bytes /\ DiskBytes(disk') <= DiskBytes(disk)
    BY <1>b, <2>1, StoreFields
  <2> QED
    BY <1>t, <1>e, <1>g, <2>2, QuotaKept
<1> DEFINE o == OpeningBytes(r)
           z == Size(disk[Target(r)])
<1>o. o \in Nat /\ o <= 1 + Preroll
  BY <1>t, OpeningSize
<1>3. CASE Write(r)
  <2> DEFINE f == [Opened(r) EXCEPT !.fresh = Append(@, Head(queue).n)]
  <2>1. /\ Writes(r) /\ Fits(r) /\ disk' = [disk EXCEPT ![Target(r)] = f]
        /\ store' = [Released EXCEPT !.bytes = Released.bytes + o + 1]
    BY <1>3 DEF Write, EndOp
  <2>2. f \in HalfWritten(r)
    BY Zenon DEF HalfWritten
  <2>3. f \in FileType /\ Size(f) = z + o + 1
    BY <1>t, <2>1, <2>2, HalfEffect, WrittenSize
  <2>4. store'.bytes = store.bytes + o + 1
    BY <2>1, StoreFields
  <2>5. z \in Nat
    BY <1>t, <2>1, TargetIsOpen, SizeType
  <2> HIDE DEF f, o, z
  <2>6. Size(f) <= z + o + 1
    BY <1>o, <2>3, <2>5
  <2>7. /\ DiskBytes(disk') <= MaxStorage + Slack
        /\ DiskBytes(disk') <= DiskBytes(disk) + Size(f) - z
        /\ DiskBytes(disk) <= store.bytes + Slack
    BY <2>1, <2>3, <2>6, QuotaWrite DEF o, z
  <2>8. DiskBytes(disk') <= store'.bytes + Slack' /\ store'.bytes \in Nat
    BY <1>s, <1>b, <1>o, <2>3, <2>4, <2>5, <2>7
  <2>9. DiskBytes(disk') <= MaxStorage + Slack'
    BY <1>s, <1>b, <2>7
  <2> QED
    BY <1>g, <1>p, <2>8, <2>9 DEF QuotaInv
<1>4. CASE OpenFails(r)
  <2>1. Writes(r) /\ Fits(r) /\ store' = Released /\ ~rec[r].failed
    BY <1>4 DEF OpenFails, Writes
  <2>2. PICK f \in HalfOpened(r) \cup {Opened(r)} : disk' = [disk EXCEPT ![Target(r)] = f]
    BY <1>4, Zenon DEF OpenFails, EndOp
  <2>3. f \in FileType
    BY <2>1, HalfEffect, TargetIsOpen
  <2>5. z \in Nat
    BY <1>t, <2>1, TargetIsOpen, SizeType
  <2>4. Size(f) <= z + o
    <3>1. CASE f \in HalfOpened(r)
      BY <1>t, <2>1, <3>1, WrittenSize
    <3>2. CASE f = Opened(r)
      <4>1. Size(f) = z + o
        BY <1>t, <2>1, <3>2, WrittenSize
      <4> HIDE DEF o, z
      <4> QED
        BY <1>o, <2>5, <4>1
    <3> QED
      BY <3>1, <3>2
  <2>6. store'.bytes = store.bytes
    BY <2>1, StoreFields
  <2> HIDE DEF o, z
  <2>7. Size(f) <= z + o + 1 /\ Size(f) \in Nat
    BY <1>o, <2>3, <2>4, <2>5, SizeType
  <2>8. /\ DiskBytes(disk') <= MaxStorage + Slack
        /\ DiskBytes(disk') <= DiskBytes(disk) + Size(f) - z
        /\ DiskBytes(disk) <= store.bytes + Slack
    BY <2>1, <2>2, <2>3, <2>7, QuotaWrite DEF o, z
  <2>9. Slack' >= Slack + (1 + Preroll)
    BY <1>4, <1>g, <1>s, <2>1
  <2>10. DiskBytes(disk') <= store'.bytes + Slack' /\ store'.bytes \in Nat
    BY <1>s, <1>b, <1>o, <2>4, <2>5, <2>6, <2>7, <2>8, <2>9
  <2>11. DiskBytes(disk') <= MaxStorage + Slack'
    BY <1>s, <1>b, <2>8
  <2> QED
    BY <1>g, <1>p, <2>10, <2>11 DEF QuotaInv
<1>5. CASE WriteFails(r)
  <2>1. /\ Writes(r) /\ Fits(r) /\ store' = [Released EXCEPT !.bytes = Released.bytes + o]
        /\ ~rec[r].failed
    BY <1>5 DEF WriteFails, Writes
  <2>2. PICK f \in HalfWritten(r) : disk' = [disk EXCEPT ![Target(r)] = f]
    BY <1>5, Zenon DEF WriteFails, EndOp
  <2>3. f \in FileType /\ Size(f) <= z + o + 1 /\ Size(f) \in Nat
    BY <1>t, <2>1, HalfEffect, WrittenSize, SizeType
  <2>4. store'.bytes = store.bytes + o
    BY <2>1, StoreFields
  <2>5. z \in Nat
    BY <1>t, <2>1, TargetIsOpen, SizeType
  <2> HIDE DEF o, z
  <2>6. /\ DiskBytes(disk') <= MaxStorage + Slack
        /\ DiskBytes(disk') <= DiskBytes(disk) + Size(f) - z
        /\ DiskBytes(disk) <= store.bytes + Slack
    BY <2>1, <2>2, <2>3, QuotaWrite DEF o, z
  <2>7. Slack' >= Slack + (1 + Preroll)
    BY <1>5, <1>g, <1>s, <2>1
  <2>8. DiskBytes(disk') <= store'.bytes + Slack' /\ store'.bytes \in Nat
    BY <1>s, <1>b, <1>o, <2>3, <2>4, <2>5, <2>6, <2>7
  <2>9. DiskBytes(disk') <= MaxStorage + Slack'
    BY <1>s, <1>b, <2>6
  <2> QED
    BY <1>g, <1>p, <2>8, <2>9 DEF QuotaInv
<1> QED
  BY <1>1, <1>2, <1>3, <1>4, <1>5 DEF Journal
\* Recovery only trims.
LEMMA RecoveredSize ==
  ASSUME NEW f \in FileType PROVE Size(Recovered(f)) <= Size(f)
<1>1. CASE Recovered(f) = f
  BY <1>1, SizeType
<1>2. CASE Recovered(f) = [f EXCEPT !.torn = FALSE, !.st = "ready"]
  <2> DEFINE g == [f EXCEPT !.torn = FALSE, !.st = "ready"]
  <2>1. g.head = f.head /\ g.pre = f.pre /\ g.fresh = f.fresh /\ g.torn = FALSE
    BY DEF FileType
  <2>2. f.pre \in Seq(Packet) /\ f.fresh \in Seq(Packet)
    BY DEF FileType
  <2>3. Len(f.pre) \in Nat /\ Len(f.fresh) \in Nat
    BY <2>2
  <2> HIDE DEF g
  <2>4. /\ Unit(f.head) \in Nat /\ Unit(f.torn) \in Nat
        /\ Unit(g.head) = Unit(f.head) /\ Unit(g.torn) = 0
    BY <2>1 DEF Unit
  <2>5. Size(g) <= Size(f)
    BY <2>1, <2>3, <2>4 DEF Size
  <2> QED
    BY <1>2, <2>5 DEF g
<1> QED
  BY <1>1, <1>2 DEF Recovered

\* What a step of the application's callers, the pump, a crash or the server
\* does to the failures and the rings.
LEMMA OtherRings ==
  ASSUME OutboxInv, RingsAreShort, Start \/ Calls \/ Pump \/ Crash \/ ServerStores \/ ServerRefuses
  PROVE  RingsAreShort' /\ \A s \in Recording : rec[s].failed => rec'[s].failed
<1>1. rec \in [Recording -> RecordingType]
  BY DEF OutboxInv, StateOK
<1>2. SUFFICES ASSUME NEW s \in Recording
               PROVE  Len(rec'[s].ring) <= Preroll /\ (rec[s].failed => rec'[s].failed)
  BY DEF RingsAreShort
<1>3. Len(rec[s].ring) <= Preroll /\ rec[s] \in RecordingType
  BY <1>1 DEF RingsAreShort
<1>4. CASE rec' = rec
  BY <1>3, <1>4
<1>5. ASSUME NEW r \in Recording, Begin(r) \/ Add(r) \/ Stop(r)
      PROVE  rec'[s].ring = rec[s].ring /\ rec'[s].failed = rec[s].failed
  <2>1. \/ rec' = [rec EXCEPT ![r].status = "open", ![r].owner = paired]
        \/ rec' = [rec EXCEPT ![r].offered = @ + 1]
        \/ rec' = [rec EXCEPT ![r].status = "closed"]
    BY <1>5 DEF Begin, Add, Stop
  <2>2. CASE rec' = [rec EXCEPT ![r].status = "open", ![r].owner = paired]
    BY <1>1, <1>3, <2>2 DEF RecordingType
  <2>3. CASE rec' = [rec EXCEPT ![r].offered = @ + 1]
    BY <1>1, <1>3, <2>3 DEF RecordingType
  <2>4. CASE rec' = [rec EXCEPT ![r].status = "closed"]
    BY <1>1, <1>3, <2>4 DEF RecordingType
  <2> QED
    BY <2>1, <2>2, <2>3, <2>4
<1>6. CASE Crash
  <2>1. rec'[s] = rec[s] \/ rec'[s] = [NewRecording EXCEPT !.status = "closed",
                                         !.owner = rec[s].owner, !.failed = rec[s].failed]
    BY <1>6 DEF Crash
  <2>2. CASE rec'[s] = rec[s]
    BY <1>3, <2>2
  <2>3. CASE rec'[s] = [NewRecording EXCEPT !.status = "closed", !.owner = rec[s].owner,
                                            !.failed = rec[s].failed]
    <3>1. rec'[s].ring = <<>> /\ rec'[s].failed = rec[s].failed
      BY <2>3 DEF NewRecording
    <3>2. Len(<<>>) <= Preroll
      BY OutboxAssumption
    <3> QED
      BY <3>1, <3>2
  <2> QED
    BY <2>1, <2>2, <2>3
<1>7. CASE Calls
  <2>1. (\E r \in Recording : Begin(r) \/ Add(r) \/ Stop(r)) \/ rec' = rec
    BY <1>7 DEF Calls, RecoverConnection, Pair
  <2> QED
    BY <1>3, <1>4, <1>5, <2>1
<1>8. CASE Start \/ Pump \/ ServerStores \/ ServerRefuses
  <2>1. rec' = rec
    BY <1>8 DEF Start, Pump, TimerFires, ListFails, PassDone, CountPending, CountFails, UploadStart,
       UploadSend, UploadFails, UploadAcked, ServerStores, ServerRefuses
  <2> QED
    BY <1>4, <2>1
<1> QED
  BY <1>6, <1>7, <1>8

\* Every step.
LEMMA QuotaStep ==
  ASSUME OutboxInv, QueueInv, QuotaInv, [Next]_vars PROVE QuotaInv'
<1>t. /\ StateOK /\ disk \in [Part -> FileType] /\ rec \in [Recording -> RecordingType]
      /\ RingsAreShort
  BY DEF OutboxInv, StateOK, QuotaInv
<1>u. disk' \in [Part -> FileType] /\ rec' \in [Recording -> RecordingType]
  BY NextIsSound DEF Sound, OutboxInv, StateOK
<1>b. DiskBytes(disk) \in Nat /\ DiskBytes(disk') \in Nat /\ MaxStorage \in Nat
  BY <1>t, <1>u, StoredIsFinite, OutboxAssumption
<1>p. DiskBytes(disk)' = DiskBytes(disk')
  BY DEF DiskBytes, Stored
<1>r. ASSUME Start \/ Calls \/ Pump \/ Crash \/ ServerStores \/ ServerRefuses
      PROVE  /\ RingsAreShort' /\ \A s \in Recording : rec[s].failed => rec'[s].failed
             /\ Slack \in Nat /\ Slack' \in Nat /\ Slack' >= Slack
  BY <1>r, <1>t, <1>u, OtherRings, SlackGrows
<1>c. ASSUME RingsAreShort', \A s \in Recording : rec[s].failed => rec'[s].failed,
             Slack \in Nat, Slack' \in Nat, Slack' >= Slack,
             DiskBytes(disk') <= DiskBytes(disk), store' = [store EXCEPT !.bytes = DiskBytes(disk')]
      PROVE  QuotaInv'
  <2>1. store'.bytes = DiskBytes(disk')
    BY <1>c, StoreFields
  <2>2. DiskBytes(disk) <= MaxStorage + Slack
    BY DEF QuotaInv
  <2>3. DiskBytes(disk') <= store'.bytes + Slack'
    BY <1>c, <1>b, <2>1
  <2>4. DiskBytes(disk') <= MaxStorage + Slack'
    BY <1>c, <1>b, <2>2
  <2> QED
    BY <1>b, <1>c, <1>p, <2>1, <2>3, <2>4 DEF QuotaInv
<1>1. CASE Start
  <2>1. PICK broken : disk' = [p \in Part |-> IF p \in broken THEN disk[p] ELSE Recovered(disk[p])]
    BY <1>1 DEF Start
  <2>2. \A p \in Part : Size(disk'[p]) <= Size(disk[p])
    <3> SUFFICES ASSUME NEW p \in Part PROVE Size(disk'[p]) <= Size(disk[p])
      OBVIOUS
    <3>1. disk'[p] = disk[p] \/ disk'[p] = Recovered(disk[p])
      BY <2>1
    <3> QED
      BY <1>t, <3>1, RecoveredSize, SizeType
  <2>3. DiskBytes(disk') <= DiskBytes(disk)
    BY <1>t, <1>u, <2>2, DiskShrinks
  <2>4. store' = [store EXCEPT !.bytes = DiskBytes(disk')]
    BY <1>1 DEF Start
  <2> QED
    BY <1>1, <1>r, <1>c, <2>3, <2>4
<1>2. CASE Calls
  <2>1. disk' = disk /\ alive' = alive
    BY <1>2 DEF Calls, Begin, Add, Stop, RecoverConnection, Pair
  <2>2. store' = store \/ \E x : store' = [store EXCEPT !.queued = x]
    BY <1>2 DEF Calls, Begin, Add, Stop, RecoverConnection, Pair
  <2>3. store'.bytes = store.bytes
    BY <2>2, StoreFields, Zenon
  <2>4. DiskBytes(disk') <= DiskBytes(disk)
    BY <1>b, <2>1
  <2> QED
    BY <1>2, <1>r, <1>t, <1>u, <2>1, <2>3, <2>4, QuotaKept
<1>3. ASSUME NEW r \in Recording, Journal(r) PROVE QuotaInv'
  BY <1>3, JournalQuota
<1>4. CASE CountPending
  <2>1. disk' = disk /\ store' = [store EXCEPT !.bytes = DiskBytes(disk)]
    BY <1>4 DEF CountPending
  <2>2. DiskBytes(disk') <= DiskBytes(disk) /\ DiskBytes(disk') = DiskBytes(disk)
    BY <1>b, <2>1
  <2> QED
    BY <1>4, <1>r, <1>c, <2>1, <2>2 DEF Pump
<1>5. CASE UploadAcked
  <2>1. disk' = [disk EXCEPT ![conn.part] = NoFile] /\ store' = store /\ alive' = alive /\ conn # NoConn
    BY <1>5 DEF UploadAcked
  <2>2. conn.part \in Part
    BY <1>t, <2>1 DEF StateOK, ConnType
  <2>3. \A p \in Part : Size(disk'[p]) <= Size(disk[p])
    <3> SUFFICES ASSUME NEW p \in Part PROVE Size(disk'[p]) <= Size(disk[p])
      OBVIOUS
    <3>1. disk'[p] = disk[p] \/ disk'[p] = NoFile
      BY <1>t, <2>1
    <3> QED
      BY <1>t, <3>1, SizeType
  <2>4. DiskBytes(disk') <= DiskBytes(disk)
    BY <1>t, <1>u, <2>3, DiskShrinks
  <2> QED
    BY <1>5, <1>r, <1>t, <1>u, <2>1, <2>4, QuotaKept DEF Pump
<1>6. CASE \/ TimerFires \/ ListFails \/ PassDone \/ CountFails \/ UploadSend \/ UploadFails
           \/ ServerStores \/ ServerRefuses
           \/ \E p \in Part : UploadStart(p)
  <2>1. disk' = disk /\ store' = store /\ alive' = alive
    BY <1>6 DEF TimerFires, ListFails, PassDone, CountFails, UploadSend, UploadFails, ServerStores,
       ServerRefuses, UploadStart
  <2>2. DiskBytes(disk') <= DiskBytes(disk)
    BY <1>b, <2>1
  <2> QED
    BY <1>6, <1>r, <1>t, <1>u, <2>1, <2>2, QuotaKept DEF Pump
<1>7. CASE Crash
  <2>0. /\ RingsAreShort' /\ (\A s \in Recording : rec[s].failed => rec'[s].failed)
        /\ Slack \in Nat /\ Slack' \in Nat /\ Slack' >= Slack
    BY <1>7, <1>r
  <2>1. store' = [bytes |-> 0, queued |-> 0] /\ alive' = FALSE
    BY <1>7 DEF Crash
  <2>2. DiskBytes(disk') <= MaxStorage + Slack
    <3>1. CASE disk' = disk
      BY <3>1 DEF QuotaInv
    <3>2. ASSUME NEW r \in Recording, Writes(r), Fits(r), NEW f \in HalfOpened(r) \cup HalfWritten(r),
                 disk' = [disk EXCEPT ![Target(r)] = f]
          PROVE  DiskBytes(disk') <= MaxStorage + Slack
      <4> DEFINE o == OpeningBytes(r)
                 z == Size(disk[Target(r)])
      <4>1. f \in FileType
        BY <3>2, HalfEffect
      <4>2. o \in Nat /\ z \in Nat
        BY <1>t, <3>2, OpeningSize, TargetIsOpen, SizeType
      <4>3. Size(f) <= z + o \/ Size(f) <= z + o + 1
        BY <1>t, <3>2, WrittenSize
      <4>4. Size(f) \in Nat
        BY <4>1, SizeType
      <4> HIDE DEF o, z
      <4>5. Size(f) <= z + o + 1
        BY <4>2, <4>3, <4>4
      <4> QED
        BY <3>2, <4>1, <4>5, QuotaWrite DEF o, z
    <3> QED
      BY <1>7, <3>1, <3>2 DEF Crash
  <2>3. DiskBytes(disk') <= MaxStorage + Slack' /\ store'.bytes = 0
    BY <1>b, <2>0, <2>1, <2>2
  <2> QED
    BY <1>p, <2>0, <2>1, <2>3 DEF QuotaInv
<1>8. CASE UNCHANGED vars
  <2>1. QuotaInv' <=> QuotaInv
    BY <1>8 DEF vars, QuotaInv, RingsAreShort, Slack, Failed, DiskBytes, Stored
  <2> QED
    BY <2>1
<1> QED
  BY <1>1, <1>2, <1>3, <1>4, <1>5, <1>6, <1>7, <1>8 DEF Next, PhoneNext, Pump

\* The quota holds with what pays for it, and the counters are numbers.
THEOREM CountersAreSound == Spec => [](QueueInv /\ QuotaInv /\ TypeOK)
<1>1. Init => QueueInv /\ QuotaInv
  <2> SUFFICES ASSUME Init PROVE QueueInv /\ QuotaInv
    OBVIOUS
  <2>1. AddsWaiting = {} /\ store = [bytes |-> 0, queued |-> 0] /\ alive = FALSE
    BY DEF Init, AddsWaiting
  <2>2. Cardinality(AddsWaiting) = 0 /\ Cardinality({}) = 0
    BY <2>1, FS_EmptySet
  <2>3. QueueInv
    BY <2>1, <2>2 DEF QueueInv, Counted
  <2>4. RingsAreShort
    <3>1. Len(<<>>) <= Preroll
      BY OutboxAssumption
    <3>2. \A r \in Recording : rec[r].ring = <<>>
      BY DEF Init, NewRecording
    <3> QED
      BY <3>1, <3>2 DEF RingsAreShort
  <2>5. Slack = 0
    <3>1. Failed = {}
      BY DEF Init, NewRecording, Failed
    <3> QED
      BY <2>2, <3>1, OutboxAssumption DEF Slack
  <2>6. DiskBytes(disk) = 0
    <3>1. \A p \in Part : Size(disk[p]) = 0
      BY SizeType DEF Init
    <3>2. \A p \in Part : 1 .. Size(disk[p]) = {}
      BY <3>1
    <3>3. Stored(disk) = {}
      BY <3>2 DEF Stored
    <3> QED
      BY <2>2, <3>3 DEF DiskBytes
  <2>7. MaxStorage \in Nat
    BY OutboxAssumption
  <2>8. store.bytes = 0
    BY <2>1
  <2> QED
    BY <2>1, <2>3, <2>4, <2>5, <2>6, <2>7, <2>8 DEF QuotaInv
<1>2. OutboxInv /\ QueueInv /\ QuotaInv /\ [Next]_vars => QueueInv' /\ QuotaInv'
  BY QueueStep, QuotaStep
<1>3. OutboxInv /\ QueueInv /\ QuotaInv => TypeOK
  <2> SUFFICES ASSUME OutboxInv, QueueInv, QuotaInv PROVE TypeOK
    OBVIOUS
  <2>1. StateOK /\ Cardinality(AddsWaiting) \in Nat
    BY AddsAreFinite DEF OutboxInv
  <2>2. PICK b : store = [bytes |-> b, queued |-> Cardinality(AddsWaiting)]
    BY DEF QueueInv, Counted
  <2>3. b \in Nat
    BY <2>2 DEF QuotaInv
  <2> QED
    BY <2>1, <2>2, <2>3 DEF TypeOK
<1> QED
  BY <1>1, <1>2, <1>3, OutboxIsSound, PTL DEF Spec

\* The types of the state; neither counter of the outbox runs negative.
THEOREM TypesAreKept == Spec => []TypeOK
  BY CountersAreSound, PTL

\* The outbox directory stays within maxStorageBytes but for what failed
\* writes have left, once per recording, across restarts and deliveries.
THEOREM StorageQuotaHolds == Spec => []StorageIsBounded
<1>1. QuotaInv => StorageIsBounded
  BY DEF QuotaInv, StorageIsBounded, Slack, Failed
<1> QED
  BY <1>1, CountersAreSound, PTL
=============================================================================
