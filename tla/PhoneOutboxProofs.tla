------------------------- MODULE PhoneOutboxProofs -------------------------
(***************************************************************************)
(* What PhoneOutbox guarantees for any recordings, servers, limits and     *)
(* faults: sealed audio is immutable, goes to its own server only, and no  *)
(* flushed packet is lost.                                                 *)
(*                                                                         *)
(* None of these is inductive.  That a write never touches a sealed part   *)
(* depends on which part the next journal takes (FilesAreFresh), which in  *)
(* turn depends on the order of the operation chain (ChainIsOrdered); that *)
(* a deletion is covered by a receipt depends on what the upload in        *)
(* progress carries and to whom (UploadIsBound).                           *)
(***************************************************************************)
EXTENDS PhoneOutbox, SequenceTheorems, FiniteSetTheorems, TLAPS

IsAdd(i, r) == i \in DOMAIN queue /\ queue[i].kind = "add" /\ queue[i].r = r

\* Packets wait in order, and each has an unused part index to itself.
ChainIsOrdered ==
  \A r \in Recording :
    /\ rec[r].index <= rec[r].offered
    /\ \A i \in DOMAIN queue : IsAdd(i, r) =>
         /\ rec[r].index < queue[i].n /\ queue[i].n <= rec[r].offered
         /\ \A j \in DOMAIN queue : IsAdd(j, r) /\ i < j => queue[i].n < queue[j].n

\* An open journal is an unsealed file, and the indices from rec[r].index on
\* are unused for as long as the recording can still write.
FilesAreFresh ==
  \A r \in Recording :
    /\ IF rec[r].status = "new" THEN ~rec[r].handle /\ rec[r].index = 0 /\ rec[r].offered = 0
                                ELSE rec[r].owner # NoServer
    /\ rec[r].handle => /\ alive /\ rec[r].index > 0
                        /\ disk[Current(r)].st = "part"
                        /\ ~rec[r].failed => disk[Current(r)].head
    /\ rec[r].status \in {"new", "open"} \/ rec[r].offered > 0 =>
         \A i \in 0 .. MaxPackets - 1 : i >= rec[r].index => disk[<<r, i>>] = NoFile

\* The upload in progress carries the sealed part it names, to its owner.
UploadIsBound ==
  /\ drain.todo \subseteq Ready(disk)
  /\ conn # NoConn =>
       /\ disk[conn.part].st = "ready" /\ conn.body = Body(disk[conn.part])
       /\ conn.state = "sent" => conn.to = Owner(conn.part)
       /\ conn.state = "receipt" => <<Owner(conn.part), conn.part, conn.body>> \in held
  /\ \A m \in sent : rec[m[2][1]].status # "new" /\ m[1] = Owner(m[2])

OutboxInv == StateOK /\ ChainIsOrdered /\ FilesAreFresh /\ UploadIsBound

-----------------------------------------------------------------------------
(* What the helpers return. *)

\* retry() keeps the part list of an active pass or takes a new listing.
LEMMA RetryEffect ==
  ASSUME drain \in DrainType, NEW d
  PROVE  AfterRetry(d) \in DrainType /\ AfterRetry(d).todo \in {drain.todo, Ready(d)}
<1>1. Ready(d) \subseteq Part
  BY DEF Ready, Files
<1>2. NewPass(d) \in DrainType /\ NewPass(d).todo = Ready(d)
  BY <1>1 DEF NewPass, IdleDrain, DrainType
<1>3. [drain EXCEPT !.requested = TRUE] \in DrainType /\ [drain EXCEPT !.requested = TRUE].todo = drain.todo
  BY DEF DrainType
<1> QED
  BY <1>2, <1>3 DEF AfterRetry

\* The operation at the head of the chain.
LEMMA HeadOp ==
  ASSUME StateOK, NEW r \in Recording, NEW kind \in {"add", "stop", "checkpoint"}, Runs(kind, r)
  PROVE  /\ alive /\ queue # <<>> /\ Len(queue) \in Nat /\ Len(queue) > 0 /\ Head(queue) = queue[1]
         /\ Head(queue).kind = kind /\ Head(queue).r = r
         /\ kind = "add" => Head(queue).n \in Packet /\ IsAdd(1, r)
<1>1. queue \in Seq(OpType) /\ queue # <<>>
  BY DEF StateOK, Runs
<1>2. Len(queue) \in Nat /\ Len(queue) > 0 /\ Head(queue) = queue[1] /\ 1 \in DOMAIN queue
  BY <1>1
<1>3. queue[1] \in OpType
  BY <1>1, <1>2
<1>4. Head(queue).kind = kind /\ Head(queue).r = r
  BY DEF Runs
<1>5. kind = "add" => queue[1].n \in Packet
  BY <1>2, <1>3, <1>4 DEF OpType
<1> QED
  BY <1>1, <1>2, <1>4, <1>5 DEF IsAdd, Runs

\* The end of an operation: its effect on the chain and the pump.
LEMMA EndOpEffect ==
  ASSUME StateOK, queue # <<>>, NEW d, NEW sealed, EndOp(d, sealed)
  PROVE  /\ disk' = d
         /\ queue' = Tail(queue) /\ queue' \in Seq(OpType)
         /\ drain' \in DrainType /\ drain'.todo \in {drain.todo, Ready(d)}
<1>1. queue \in Seq(OpType) /\ drain \in DrainType
  BY DEF StateOK
<1>2. Tail(queue) \in Seq(OpType)
  BY <1>1
<1>3. AfterRetry(d) \in DrainType /\ AfterRetry(d).todo \in {drain.todo, Ready(d)}
  BY <1>1, RetryEffect
<1> QED
  BY <1>1, <1>2, <1>3 DEF EndOp

\* The pre-roll is made of packets.
LEMMA PrerollType ==
  ASSUME StateOK, NEW r \in Recording
  PROVE  PrerollPackets(r) \in Seq(Packet) /\ Len(PrerollPackets(r)) \in Nat
<1>1. rec[r].ring \in Seq(Packet)
  BY DEF StateOK, RecordingType
<1>2. <<>> \in Seq(Packet)
  OBVIOUS
<1> QED
  BY <1>1, <1>2 DEF PrerollPackets

\* The journal that the add at the head writes to: a file of its recording
\* that is not sealed, and that is empty when _open() has to create it.
LEMMA TargetIsOpen ==
  ASSUME OutboxInv, NEW r \in Recording, Writes(r)
  PROVE  /\ Target(r) \in Part /\ Target(r)[1] = r
         /\ Target(r)[2] = Index(r) - 1 /\ Index(r) \in Nat /\ Index(r) > 0
         /\ Index(r) \in {rec[r].index, rec[r].index + 1} /\ Index(r) <= Head(queue).n
         /\ disk[Target(r)].st # "ready"
         /\ ~rec[r].handle => disk[Target(r)] = NoFile
         /\ Opened(r) \in FileType /\ Opened(r).st = "part" /\ Opened(r).head
         /\ Opened(r).fresh = disk[Target(r)].fresh
         /\ rec[r].offered > 0 /\ ~rec[r].failed
         /\ queue # <<>> /\ Head(queue).n \in Packet
<1> USE OutboxAssumption
<1> DEFINE n == Head(queue).n
<1>1. /\ queue # <<>> /\ n \in Packet /\ IsAdd(1, r) /\ Head(queue) = queue[1]
      /\ ~rec[r].failed /\ alive
  BY HeadOp DEF Writes, OutboxInv
<1>2. rec[r] \in RecordingType /\ rec[r].index \in Nat /\ rec[r].offered \in 0 .. MaxPackets
  BY DEF OutboxInv, StateOK, RecordingType
<1>3. rec[r].index < n /\ n <= rec[r].offered
  BY <1>1 DEF OutboxInv, ChainIsOrdered, IsAdd
<1>4. disk \in [Part -> FileType]
  BY DEF OutboxInv, StateOK
<1>5. CASE rec[r].handle
  <2>1. rec[r].index > 0 /\ disk[Current(r)].st = "part" /\ disk[Current(r)].head
    BY <1>1, <1>5 DEF OutboxInv, FilesAreFresh
  <2>2. Current(r) \in Part /\ Current(r)[1] = r /\ Current(r)[2] = rec[r].index - 1
    BY <1>1, <1>2, <1>3, <2>1 DEF Current, Part, Packet
  <2>3. Target(r) = Current(r) /\ Opened(r) = disk[Current(r)] /\ Index(r) = rec[r].index
    BY <1>5 DEF Target, Opened, Index
  <2> QED
    BY <1>1, <1>2, <1>3, <1>4, <1>5, <2>1, <2>2, <2>3 DEF Packet
<1>6. CASE ~rec[r].handle
  <2>1. Target(r) = <<r, rec[r].index>> /\ Index(r) = rec[r].index + 1
    BY <1>6 DEF Target, Index
  <2>2. Target(r) \in Part /\ Target(r)[1] = r /\ Target(r)[2] = rec[r].index
    BY <1>1, <1>2, <1>3, <2>1 DEF Part, Packet
  <2>3. disk[Target(r)] = NoFile
    BY <1>1, <1>2, <1>3, <2>1, <2>2 DEF OutboxInv, FilesAreFresh, Packet, Part
  <2>4. Opened(r) = [NoFile EXCEPT !.st = "part", !.head = TRUE, !.pre = PrerollPackets(r)]
    BY <1>6 DEF Opened
  <2>5. PrerollPackets(r) \in Seq(Packet) /\ <<>> \in Seq(Packet)
    BY PrerollType DEF OutboxInv
  <2>6. Opened(r) \in FileType /\ Opened(r).st = "part" /\ Opened(r).head /\ Opened(r).fresh = <<>>
    BY <2>4, <2>5 DEF NoFile, FileType
  <2> QED
    BY <1>1, <1>2, <1>3, <1>6, <2>1, <2>2, <2>3, <2>6 DEF NoFile, Packet
<1> QED
  BY <1>5, <1>6

\* Recovery yields a file that keeps its header and its packets.
LEMMA RecoveredEffect ==
  ASSUME NEW f \in FileType
  PROVE  /\ Recovered(f) \in FileType
         /\ Recovered(f).head = f.head /\ Recovered(f).fresh = f.fresh
         /\ f.st = "ready" => Recovered(f) = f
         /\ f = NoFile => Recovered(f) = NoFile
<1>1. CASE f.st = "part" /\ f.head /\ f.fresh # <<>>
  <2>1. Recovered(f) = [f EXCEPT !.torn = FALSE, !.st = "ready"]
    BY <1>1 DEF Recovered
  <2>2. f # NoFile /\ f.st # "ready"
    BY <1>1 DEF NoFile
  <2>3. Recovered(f) \in FileType /\ Recovered(f).head = f.head /\ Recovered(f).fresh = f.fresh
    BY <2>1 DEF FileType
  <2> QED
    BY <2>2, <2>3
<1>2. CASE ~(f.st = "part" /\ f.head /\ f.fresh # <<>>)
  BY <1>2 DEF Recovered
<1> QED
  BY <1>1, <1>2

\* What an add that stops half way leaves is an unsealed file, or none; what
\* the journal held before is still in it.
LEMMA HalfEffect ==
  ASSUME OutboxInv, NEW r \in Recording, Writes(r)
  PROVE  /\ \A f \in HalfOpened(r) :
              f \in FileType /\ (f = NoFile \/ f.st = "part") /\ ~rec[r].handle
         /\ \A f \in HalfWritten(r) :
              /\ f \in FileType /\ f.st = "part" /\ f.head
              /\ Range(disk[Target(r)].fresh) \subseteq Range(f.fresh)
<1> DEFINE n == Head(queue).n
<1>1. /\ Opened(r) \in FileType /\ Opened(r).st = "part" /\ Opened(r).head /\ n \in Packet
      /\ Opened(r).fresh = disk[Target(r)].fresh
  BY TargetIsOpen
<1>2. PrerollPackets(r) \in Seq(Packet) /\ <<>> \in Seq(Packet)
  BY PrerollType DEF OutboxInv
<1>3. ASSUME NEW f \in HalfOpened(r)
      PROVE  f \in FileType /\ (f = NoFile \/ f.st = "part") /\ ~rec[r].handle
  <2>1. ~rec[r].handle
    BY <1>3 DEF HalfOpened
  <2> DEFINE blank == [NoFile EXCEPT !.st = "part"]
  <2>2. NoFile \in FileType /\ blank \in FileType /\ blank.st = "part"
    BY <1>2 DEF NoFile, FileType
  <2>3. [blank EXCEPT !.torn = TRUE] \in FileType /\ [blank EXCEPT !.torn = TRUE].st = "part"
    BY <2>2 DEF FileType
  <2>4. ASSUME NEW k \in 0 .. Len(PrerollPackets(r)) - 1
        PROVE  /\ [Opened(r) EXCEPT !.pre = SubSeq(@, 1, k), !.torn = TRUE] \in FileType
               /\ [Opened(r) EXCEPT !.pre = SubSeq(@, 1, k), !.torn = TRUE].st = "part"
    <3>1. Opened(r).pre = PrerollPackets(r)
      BY <2>1 DEF Opened, NoFile
    <3>2. SubSeq(Opened(r).pre, 1, k) \in Seq(Packet)
      BY <1>2, <2>4, <3>1, SubSeqProperties
    <3> QED
      BY <1>1, <3>2 DEF FileType
  <2>5. \/ f = NoFile \/ f = blank \/ f = [blank EXCEPT !.torn = TRUE]
        \/ \E k \in 0 .. Len(PrerollPackets(r)) - 1 :
             f = [Opened(r) EXCEPT !.pre = SubSeq(@, 1, k), !.torn = TRUE]
    BY <1>3, <2>1, Zenon DEF HalfOpened
  <2> QED
    BY <2>1, <2>2, <2>3, <2>4, <2>5
<1>4. ASSUME NEW f \in HalfWritten(r)
      PROVE  /\ f \in FileType /\ f.st = "part" /\ f.head
             /\ Range(disk[Target(r)].fresh) \subseteq Range(f.fresh)
  <2> DEFINE o == Opened(r)
  <2>1. o.fresh \in Seq(Packet)
    BY <1>1 DEF FileType
  <2>2. /\ Append(o.fresh, n) \in Seq(Packet) /\ Range(o.fresh) \subseteq Range(Append(o.fresh, n))
    <3>1. /\ Append(o.fresh, n) \in Seq(Packet) /\ Len(Append(o.fresh, n)) = Len(o.fresh) + 1
          /\ \A i \in 1 .. Len(o.fresh) : Append(o.fresh, n)[i] = o.fresh[i]
      BY <1>1, <2>1, AppendProperties
    <3> QED
      BY <2>1, <3>1 DEF Range
  <2>3. [o EXCEPT !.torn = TRUE] \in FileType
    BY <1>1 DEF FileType
  <2>4. [o EXCEPT !.fresh = Append(@, n)] \in FileType
    BY <1>1, <2>2 DEF FileType
  <2>5. f = o \/ f = [o EXCEPT !.torn = TRUE] \/ f = [o EXCEPT !.fresh = Append(@, n)]
    BY <1>4, Zenon DEF HalfWritten
  <2>6. CASE f = o
    BY <1>1, <2>6
  <2>7. CASE f = [o EXCEPT !.torn = TRUE]
    BY <1>1, <2>3, <2>7 DEF FileType
  <2>8. CASE f = [o EXCEPT !.fresh = Append(@, n)]
    BY <1>1, <2>2, <2>4, <2>8 DEF FileType
  <2> QED
    BY <2>5, <2>6, <2>7, <2>8
<1> QED
  BY <1>3, <1>4

-----------------------------------------------------------------------------
\* A recording is replaced by another value of its type.
LEMMA RecUpdate ==
  ASSUME rec \in [Recording -> RecordingType], NEW r \in Recording, NEW x \in RecordingType,
         rec' = [rec EXCEPT ![r] = x]
  PROVE  /\ rec' \in [Recording -> RecordingType] /\ rec'[r] = x
         /\ \A s \in Recording : s # r => rec'[s] = rec[s]
OBVIOUS

(* What an operation of the chain does, as far as the invariants can tell:  *)
(* it leaves the files alone, seals the open journal, or writes to it.      *)

Kept(r) ==
  /\ disk' = disk /\ UNCHANGED flushed
  /\ rec'[r].handle => rec[r].handle /\ rec'[r].index = rec[r].index
  /\ rec[r].failed => rec'[r].failed
  /\ \/ rec'[r].index = rec[r].index
     \/ Writes(r) /\ queue' = Tail(queue) /\ rec'[r].index = Index(r)

Sealed(r) ==
  /\ rec[r].handle /\ ~rec'[r].handle
  /\ disk' = [disk EXCEPT ![Current(r)].st = "ready"] /\ UNCHANGED flushed
  /\ rec'[r].index = rec[r].index

Written(r) ==
  /\ Writes(r) /\ queue' = Tail(queue)
  /\ rec'[r].index = Index(r)
  /\ \E f \in FileType :
       /\ disk' = [disk EXCEPT ![Target(r)] = f]
       /\ f = NoFile \/ f.st = "part"
       /\ rec'[r].handle => f.st = "part" /\ (rec'[r].failed \/ f.head)
       /\ rec[r].handle => f.head
       /\ Range(disk[Target(r)].fresh) \subseteq Range(f.fresh)
       /\ \/ UNCHANGED flushed
          \/ /\ flushed' = [flushed EXCEPT ![r] = @ \cup {Head(queue).n}]
             /\ f.head /\ Head(queue).n \in Range(f.fresh)

ChainEffect(r) ==
  /\ UNCHANGED <<alive, paired, conn, sent, held>>
  /\ rec' \in [Recording -> RecordingType]
  /\ \A s \in Recording :
       /\ s # r => rec'[s] = rec[s]
       /\ rec'[s].status = rec[s].status /\ rec'[s].owner = rec[s].owner
       /\ rec'[s].offered = rec[s].offered
  /\ alive /\ queue # <<>> /\ queue' \in {queue, Tail(queue)}
  /\ drain' \in DrainType /\ drain'.todo \in {drain.todo, Ready(disk')}
  /\ disk' \in [Part -> FileType]
  /\ Kept(r) \/ Sealed(r) \/ Written(r)

\* Every operation of the chain has such an effect.
LEMMA JournalEffect ==
  ASSUME OutboxInv, NEW r \in Recording, Journal(r) PROVE ChainEffect(r)
<1> USE OutboxAssumption
<1>t. /\ rec \in [Recording -> RecordingType] /\ disk \in [Part -> FileType]
      /\ drain \in DrainType /\ StateOK /\ rec[r] \in RecordingType
  BY DEF OutboxInv, StateOK
<1>s. ASSUME Seals(r) PROVE queue # <<>> /\ alive /\ rec[r].handle
  BY <1>s DEF Seals, Runs
<1>d. [disk EXCEPT ![Current(r)].st = "ready"] \in [Part -> FileType]
  BY <1>t DEF FileType
<1>1. CASE Seal(r)
  <2> DEFINE x == [rec[r] EXCEPT !.handle = FALSE]
             sealed == [disk EXCEPT ![Current(r)].st = "ready"]
  <2>1. x \in RecordingType /\ ~x.handle /\ x.index = rec[r].index /\ x.status = rec[r].status
        /\ x.owner = rec[r].owner /\ x.offered = rec[r].offered
    BY <1>t DEF RecordingType
  <2>2. rec' = [rec EXCEPT ![r] = x]
    BY <1>1 DEF Seal
  <2>3. /\ rec' \in [Recording -> RecordingType] /\ rec'[r] = x
        /\ \A s \in Recording : s # r => rec'[s] = rec[s]
    BY <1>t, <2>1, <2>2, RecUpdate
  <2>4. /\ disk' = sealed /\ queue' \in {queue, Tail(queue)}
        /\ drain' \in DrainType /\ drain'.todo \in {drain.todo, Ready(disk')}
    <3>1. CASE disk' = sealed /\ queue' = queue /\ drain' = AfterRetry(sealed)
      BY <1>t, <3>1, RetryEffect
    <3>2. CASE EndOp(sealed, TRUE)
      BY <1>1, <1>t, <1>s, <3>2, EndOpEffect DEF Seal
    <3> QED
      BY <1>1, <3>1, <3>2 DEF Seal
  <2>5. Sealed(r)
    BY <1>1, <1>s, <2>1, <2>3, <2>4 DEF Seal, Sealed
  <2> QED
    BY <1>1, <1>s, <1>d, <2>1, <2>3, <2>4, <2>5 DEF Seal, ChainEffect
<1>2. CASE SealDamaged(r)
  <2> DEFINE x == [rec[r] EXCEPT !.handle = FALSE]
  <2>1. x \in RecordingType /\ ~x.handle /\ x.index = rec[r].index /\ x.status = rec[r].status
        /\ x.owner = rec[r].owner /\ x.offered = rec[r].offered /\ x.failed = rec[r].failed
    BY <1>t DEF RecordingType
  <2>2. rec' = [rec EXCEPT ![r] = x]
    BY <1>2 DEF SealDamaged
  <2>3. /\ rec' \in [Recording -> RecordingType] /\ rec'[r] = x
        /\ \A s \in Recording : s # r => rec'[s] = rec[s]
    BY <1>t, <2>1, <2>2, RecUpdate
  <2>4. /\ disk' = disk /\ queue' = Tail(queue)
        /\ drain' \in DrainType /\ drain'.todo \in {drain.todo, Ready(disk')}
    BY <1>2, <1>t, <1>s, EndOpEffect DEF SealDamaged
  <2> QED
    BY <1>2, <1>t, <1>s, <2>1, <2>3, <2>4 DEF SealDamaged, ChainEffect, Kept
<1>3. CASE SealFails(r)
  <2>1. PICK open \in BOOLEAN :
          rec' = [rec EXCEPT ![r].handle = open, ![r].failed = @ \/ Head(queue).kind # "stop"]
    BY <1>3 DEF SealFails
  <2> DEFINE failed == rec[r].failed \/ Head(queue).kind # "stop"
             x == [rec[r] EXCEPT !.handle = open, !.failed = failed]
  <2>2. failed \in BOOLEAN /\ (rec[r].failed => failed)
    OBVIOUS
  <2>3. x \in RecordingType /\ x.index = rec[r].index /\ x.status = rec[r].status
        /\ x.owner = rec[r].owner /\ x.offered = rec[r].offered /\ (rec[r].failed => x.failed)
    <3> HIDE DEF failed
    <3> QED
      BY <1>t, <2>2 DEF RecordingType
  <2>4. rec' = [rec EXCEPT ![r] = x]
    BY <2>1
  <2>5. /\ rec' \in [Recording -> RecordingType] /\ rec'[r] = x
        /\ \A s \in Recording : s # r => rec'[s] = rec[s]
    <3> HIDE DEF x
    <3> QED
      BY <1>t, <2>3, <2>4, RecUpdate
  <2>6. /\ disk' = disk /\ queue' = Tail(queue)
        /\ drain' \in DrainType /\ drain'.todo \in {drain.todo, Ready(disk')}
    BY <1>3, <1>t, <1>s, EndOpEffect DEF SealFails
  <2> HIDE DEF x
  <2> QED
    BY <1>3, <1>t, <1>s, <2>3, <2>5, <2>6 DEF SealFails, ChainEffect, Kept
<1>4. CASE NothingToSeal(r)
  <2>1. /\ disk' = disk /\ queue' = Tail(queue) /\ queue # <<>> /\ alive
        /\ drain' \in DrainType /\ drain'.todo \in {drain.todo, Ready(disk')}
    BY <1>4, <1>t, EndOpEffect DEF NothingToSeal, Runs
  <2> QED
    BY <1>4, <1>t, <2>1 DEF NothingToSeal, ChainEffect, Kept
<1>5. CASE Write(r)
  <2> DEFINE n == Head(queue).n
             f == [Opened(r) EXCEPT !.fresh = Append(@, n)]
  <2>1. /\ Target(r) \in Part /\ Index(r) \in Nat /\ queue # <<>> /\ n \in Packet /\ Writes(r)
        /\ Opened(r) \in FileType
    BY <1>5, TargetIsOpen DEF Write
  <2>2. f \in HalfWritten(r)
    BY Zenon DEF HalfWritten
  <2>3. f \in FileType /\ f.st = "part" /\ f.head /\ Range(disk[Target(r)].fresh) \subseteq Range(f.fresh)
    BY <2>1, <2>2, HalfEffect, Zenon
  <2>4. n \in Range(f.fresh)
    <3>1. Opened(r).fresh \in Seq(Packet) /\ f.fresh = Append(Opened(r).fresh, n)
      BY <2>1 DEF FileType
    <3>2. Len(Opened(r).fresh) + 1 \in DOMAIN f.fresh /\ f.fresh[Len(Opened(r).fresh) + 1] = n
      BY <2>1, <3>1, AppendProperties
    <3> QED
      BY <3>2, Zenon DEF Range
  <2>5. EndOp([disk EXCEPT ![Target(r)] = f], FALSE)
    BY <1>5, Zenon DEF Write
  <2>6. /\ disk' = [disk EXCEPT ![Target(r)] = f] /\ queue' = Tail(queue)
        /\ drain' \in DrainType /\ drain'.todo \in {drain.todo, Ready(disk')}
    <3> HIDE DEF f
    <3> QED
      BY <1>t, <2>1, <2>5, EndOpEffect
  <2>7. PrerollPackets(r) \in Seq(Packet) /\ Len(PrerollPackets(r)) \in Nat
    BY <1>t, PrerollType
  <2>8. Remember(rec[r].ring, n) \in Seq(Packet)
    <3>1. rec[r].ring \in Seq(Packet)
      BY <1>t DEF RecordingType
    <3>2. CASE rec[r].ring # <<>>
      BY <2>1, <3>1, <3>2, HeadTailProperties, AppendProperties DEF Remember
    <3>3. CASE rec[r].ring = <<>>
      BY <2>1, <3>1, <3>3, AppendProperties DEF Remember
    <3> QED
      BY <3>2, <3>3
  <2> DEFINE audio == (IF rec[r].handle THEN rec[r].audio ELSE 0) + 1
             count == (IF rec[r].handle THEN rec[r].count ELSE Len(PrerollPackets(r))) + 1
             ring  == IF r \in Opus THEN Remember(rec[r].ring, n) ELSE rec[r].ring
             x == [rec[r] EXCEPT !.index = Index(r), !.handle = TRUE, !.audio = audio,
                                 !.count = count, !.ring = ring]
  <2>9. audio \in Nat /\ count \in Nat /\ ring \in Seq(Packet)
    BY <1>t, <2>7, <2>8 DEF RecordingType
  <2>10. rec' = [rec EXCEPT ![r] = x]
    BY <1>5, Zenon DEF Write
  <2>11. x \in RecordingType /\ x.index = Index(r) /\ x.status = rec[r].status
        /\ x.owner = rec[r].owner /\ x.offered = rec[r].offered
    <3> HIDE DEF audio, count, ring
    <3> QED
      BY <1>t, <2>1, <2>9 DEF RecordingType
  <2> HIDE DEF x, f
  <2>12. /\ rec' \in [Recording -> RecordingType] /\ rec'[r] = x
         /\ \A s \in Recording : s # r => rec'[s] = rec[s]
    BY <1>t, <2>10, <2>11, RecUpdate
  <2>13. Written(r)
    BY <1>5, <2>1, <2>3, <2>4, <2>6, <2>11, <2>12 DEF Write, Written
  <2>14. disk' \in [Part -> FileType]
    BY <1>t, <2>1, <2>3, <2>6
  <2> QED
    BY <1>5, <2>1, <2>6, <2>11, <2>12, <2>13, <2>14 DEF Write, ChainEffect, Writes, Runs
<1>6. CASE AddRefused(r)
  <2>1. queue # <<>> /\ alive
    BY <1>6 DEF AddRefused, Writes, Runs
  <2>2. /\ disk' = disk /\ queue' = Tail(queue)
        /\ drain' \in DrainType /\ drain'.todo \in {drain.todo, Ready(disk')}
    BY <1>6, <1>t, <2>1, EndOpEffect DEF AddRefused
  <2>3. CASE UNCHANGED rec
    BY <1>6, <1>t, <2>1, <2>2, <2>3 DEF AddRefused, ChainEffect, Kept
  <2>4. CASE Writes(r) /\ rec' = [rec EXCEPT ![r].index = Index(r), ![r].failed = TRUE]
    <3> DEFINE x == [rec[r] EXCEPT !.index = Index(r), !.failed = TRUE]
    <3>1. Index(r) \in Nat /\ (rec[r].handle => Index(r) = rec[r].index)
      BY <2>4, TargetIsOpen DEF Index
    <3>2. x \in RecordingType /\ x.index = Index(r) /\ x.status = rec[r].status
          /\ x.owner = rec[r].owner /\ x.offered = rec[r].offered
          /\ x.handle = rec[r].handle /\ x.failed
      BY <1>t, <3>1 DEF RecordingType
    <3>3. rec' = [rec EXCEPT ![r] = x]
      BY <2>4, Zenon
    <3> HIDE DEF x
    <3>4. /\ rec' \in [Recording -> RecordingType] /\ rec'[r] = x
          /\ \A s \in Recording : s # r => rec'[s] = rec[s]
      BY <1>t, <3>2, <3>3, RecUpdate
    <3> QED
      BY <1>6, <1>t, <2>1, <2>2, <2>4, <3>1, <3>2, <3>4 DEF AddRefused, ChainEffect, Kept
  <2> QED
    BY <1>6, <2>3, <2>4 DEF AddRefused
<1>7. CASE OpenFails(r)
  <2>1. PICK f \in HalfOpened(r) \cup {Opened(r)}, open \in BOOLEAN :
          /\ f = NoFile => ~open
          /\ EndOp([disk EXCEPT ![Target(r)] = f], FALSE)
          /\ rec' = [rec EXCEPT ![r].index = Index(r), ![r].handle = open, ![r].failed = TRUE]
    BY <1>7 DEF OpenFails
  <2>2. /\ Target(r) \in Part /\ Index(r) \in Nat /\ queue # <<>> /\ Writes(r) /\ ~rec[r].handle
        /\ disk[Target(r)] = NoFile
    BY <1>7, TargetIsOpen DEF OpenFails
  <2>3. f \in FileType /\ (f = NoFile \/ f.st = "part") /\ (open => f.st = "part")
    BY <2>1, <2>2, HalfEffect, TargetIsOpen
  <2>4. /\ disk' = [disk EXCEPT ![Target(r)] = f] /\ queue' = Tail(queue)
        /\ drain' \in DrainType /\ drain'.todo \in {drain.todo, Ready(disk')}
    BY <1>t, <2>1, <2>2, EndOpEffect
  <2> DEFINE x == [rec[r] EXCEPT !.index = Index(r), !.handle = open, !.failed = TRUE]
  <2>5. x \in RecordingType /\ x.index = Index(r) /\ x.status = rec[r].status
        /\ x.owner = rec[r].owner /\ x.offered = rec[r].offered /\ x.handle = open /\ x.failed
    BY <1>t, <2>2 DEF RecordingType
  <2>6. rec' = [rec EXCEPT ![r] = x]
    BY <2>1, Zenon
  <2> HIDE DEF x
  <2>7. /\ rec' \in [Recording -> RecordingType] /\ rec'[r] = x
        /\ \A s \in Recording : s # r => rec'[s] = rec[s]
    BY <1>t, <2>5, <2>6, RecUpdate
  <2>8. Range(disk[Target(r)].fresh) \subseteq Range(f.fresh)
    BY <2>2 DEF NoFile, Range
  <2>9. Written(r)
    BY <1>7, <2>2, <2>3, <2>4, <2>5, <2>7, <2>8 DEF OpenFails, Written
  <2>10. disk' \in [Part -> FileType]
    BY <1>t, <2>3, <2>4
  <2> QED
    BY <1>7, <2>2, <2>4, <2>5, <2>7, <2>9, <2>10 DEF OpenFails, ChainEffect, Writes, Runs
<1>8. CASE WriteFails(r)
  <2>1. PICK f \in HalfWritten(r) : EndOp([disk EXCEPT ![Target(r)] = f], FALSE)
    BY <1>8 DEF WriteFails
  <2>2. /\ Target(r) \in Part /\ Index(r) \in Nat /\ queue # <<>> /\ Writes(r)
    BY <1>8, TargetIsOpen DEF WriteFails
  <2>3. f \in FileType /\ f.st = "part" /\ f.head /\ Range(disk[Target(r)].fresh) \subseteq Range(f.fresh)
    BY <2>1, <2>2, HalfEffect
  <2>4. /\ disk' = [disk EXCEPT ![Target(r)] = f] /\ queue' = Tail(queue)
        /\ drain' \in DrainType /\ drain'.todo \in {drain.todo, Ready(disk')}
    BY <1>t, <2>1, <2>2, EndOpEffect
  <2> DEFINE x == [rec[r] EXCEPT !.index = Index(r), !.handle = TRUE, !.failed = TRUE]
  <2>5. x \in RecordingType /\ x.index = Index(r) /\ x.status = rec[r].status
        /\ x.owner = rec[r].owner /\ x.offered = rec[r].offered
    BY <1>t, <2>2 DEF RecordingType
  <2>6. rec' = [rec EXCEPT ![r] = x]
    BY <1>8, Zenon DEF WriteFails
  <2> HIDE DEF x
  <2>7. /\ rec' \in [Recording -> RecordingType] /\ rec'[r] = x
        /\ \A s \in Recording : s # r => rec'[s] = rec[s]
    BY <1>t, <2>5, <2>6, RecUpdate
  <2>8. Written(r)
    BY <1>8, <2>2, <2>3, <2>4, <2>5, <2>7 DEF WriteFails, Written
  <2>9. disk' \in [Part -> FileType]
    BY <1>t, <2>3, <2>4
  <2> QED
    BY <1>8, <2>2, <2>4, <2>5, <2>7, <2>8, <2>9 DEF WriteFails, ChainEffect, Writes, Runs
<1> QED
  BY <1>1, <1>2, <1>3, <1>4, <1>5, <1>6, <1>7, <1>8 DEF Journal

-----------------------------------------------------------------------------
(* The chain. *)

\* The head operation leaves the chain, maybe with a part index taken for it.
LEMMA ChainTail ==
  ASSUME OutboxInv, queue # <<>>, queue' = Tail(queue),
         \A r \in Recording :
           /\ rec'[r].offered = rec[r].offered
           /\ \/ rec'[r].index = rec[r].index
              \/ /\ IsAdd(1, r) /\ rec'[r].index \in Nat
                 /\ rec'[r].index <= queue[1].n
  PROVE  ChainIsOrdered'
<1>1. queue \in Seq(OpType) /\ rec \in [Recording -> RecordingType]
  BY DEF OutboxInv, StateOK
<1>2. /\ Len(queue) \in Nat /\ Len(queue) > 0 /\ DOMAIN queue = 1 .. Len(queue)
      /\ DOMAIN queue' = 1 .. Len(queue) - 1
      /\ \A i \in DOMAIN queue' : i + 1 \in DOMAIN queue /\ queue'[i] = queue[i + 1]
  BY <1>1, HeadTailProperties
<1> SUFFICES ASSUME NEW r \in Recording
             PROVE  /\ rec'[r].index <= rec'[r].offered
                    /\ \A i \in DOMAIN queue' : IsAdd(i, r)' =>
                         /\ rec'[r].index < queue'[i].n /\ queue'[i].n <= rec'[r].offered
                         /\ \A j \in DOMAIN queue' : IsAdd(j, r)' /\ i < j => queue'[i].n < queue'[j].n
  BY DEF ChainIsOrdered
<1>3. /\ rec[r].index <= rec[r].offered /\ rec[r].index \in Nat /\ rec[r].offered \in 0 .. MaxPackets
      /\ \A i \in DOMAIN queue : IsAdd(i, r) =>
           /\ rec[r].index < queue[i].n /\ queue[i].n <= rec[r].offered
           /\ \A j \in DOMAIN queue : IsAdd(j, r) /\ i < j => queue[i].n < queue[j].n
  BY <1>1 DEF OutboxInv, ChainIsOrdered, RecordingType
<1>4. \A i \in DOMAIN queue : IsAdd(i, r) => queue[i].n \in Nat
  BY <1>1 DEF IsAdd, OpType, Packet
<1>5. \A i \in DOMAIN queue' : IsAdd(i, r)' => IsAdd(i + 1, r)
  BY <1>2 DEF IsAdd
<1>6. rec'[r].index <= rec'[r].offered
  BY <1>2, <1>3, <1>4, OutboxAssumption DEF IsAdd
<1>7. ASSUME NEW i \in DOMAIN queue', IsAdd(i, r)'
      PROVE  /\ rec'[r].index < queue'[i].n /\ queue'[i].n <= rec'[r].offered
             /\ \A j \in DOMAIN queue' : IsAdd(j, r)' /\ i < j => queue'[i].n < queue'[j].n
  <2>1. i \in Nat /\ i > 0 /\ i + 1 \in DOMAIN queue /\ queue'[i] = queue[i + 1] /\ IsAdd(i + 1, r)
    BY <1>2, <1>5, <1>7
  <2>2. rec'[r].index < queue'[i].n
    <3>1. CASE rec'[r].index = rec[r].index
      BY <1>3, <2>1, <3>1
    <3>2. CASE IsAdd(1, r) /\ rec'[r].index \in Nat /\ rec'[r].index <= queue[1].n
      <4>1. queue[1].n < queue[i + 1].n /\ queue[1].n \in Nat /\ queue[i + 1].n \in Nat
        BY <1>2, <1>3, <1>4, <2>1, <3>2
      <4> QED
        BY <2>1, <3>2, <4>1
    <3> QED
      BY <3>1, <3>2
  <2>3. queue'[i].n <= rec'[r].offered
    BY <1>3, <2>1
  <2>4. ASSUME NEW j \in DOMAIN queue', IsAdd(j, r)', i < j
        PROVE  queue'[i].n < queue'[j].n
    <3>1. j \in Nat /\ j + 1 \in DOMAIN queue /\ queue'[j] = queue[j + 1] /\ IsAdd(j + 1, r) /\ i + 1 < j + 1
      BY <1>2, <1>5, <2>1, <2>4
    <3> QED
      BY <1>3, <2>1, <3>1
  <2> QED
    BY <2>2, <2>3, <2>4
<1> QED
  BY <1>6, <1>7

\* An operation is put on the chain; an add brings the next packet.
LEMMA ChainAppend ==
  ASSUME OutboxInv, NEW op \in OpType, queue' = Append(queue, op),
         \A r \in Recording :
           /\ rec'[r].index = rec[r].index
           /\ IF op.kind = "add" /\ op.r = r
              THEN rec'[r].offered = rec[r].offered + 1 /\ op.n = rec[r].offered + 1
              ELSE rec'[r].offered = rec[r].offered
  PROVE  ChainIsOrdered'
<1>1. queue \in Seq(OpType) /\ rec \in [Recording -> RecordingType]
  BY DEF OutboxInv, StateOK
<1>2. /\ Len(queue) \in Nat /\ DOMAIN queue = 1 .. Len(queue)
      /\ DOMAIN queue' = 1 .. Len(queue) + 1 /\ queue'[Len(queue) + 1] = op
      /\ \A i \in DOMAIN queue : queue'[i] = queue[i]
  BY <1>1, AppendProperties
<1> SUFFICES ASSUME NEW r \in Recording
             PROVE  /\ rec'[r].index <= rec'[r].offered
                    /\ \A i \in DOMAIN queue' : IsAdd(i, r)' =>
                         /\ rec'[r].index < queue'[i].n /\ queue'[i].n <= rec'[r].offered
                         /\ \A j \in DOMAIN queue' : IsAdd(j, r)' /\ i < j => queue'[i].n < queue'[j].n
  BY DEF ChainIsOrdered
<1>3. /\ rec[r].index <= rec[r].offered /\ rec[r].index \in Nat /\ rec[r].offered \in Nat
      /\ \A i \in DOMAIN queue : IsAdd(i, r) =>
           /\ rec[r].index < queue[i].n /\ queue[i].n <= rec[r].offered
           /\ \A j \in DOMAIN queue : IsAdd(j, r) /\ i < j => queue[i].n < queue[j].n
  BY <1>1 DEF OutboxInv, ChainIsOrdered, RecordingType
<1>4. \A i \in DOMAIN queue : IsAdd(i, r) => queue[i].n \in Nat
  BY <1>1 DEF IsAdd, OpType, Packet
<1>5. ASSUME NEW i \in DOMAIN queue', IsAdd(i, r)'
      PROVE  \/ i \in DOMAIN queue /\ queue'[i] = queue[i] /\ IsAdd(i, r)
             \/ i = Len(queue) + 1 /\ queue'[i] = op /\ op.kind = "add" /\ op.r = r
  BY <1>2, <1>5 DEF IsAdd
<1>6. rec'[r].index <= rec'[r].offered
  BY <1>3
<1>7. ASSUME NEW i \in DOMAIN queue', IsAdd(i, r)'
      PROVE  /\ rec'[r].index < queue'[i].n /\ queue'[i].n <= rec'[r].offered
             /\ \A j \in DOMAIN queue' : IsAdd(j, r)' /\ i < j => queue'[i].n < queue'[j].n
  <2>1. CASE i \in DOMAIN queue /\ queue'[i] = queue[i] /\ IsAdd(i, r)
    <3>1. rec'[r].index < queue'[i].n /\ queue'[i].n <= rec'[r].offered /\ queue'[i].n <= rec[r].offered
          /\ queue'[i].n \in Nat
      BY <1>3, <1>4, <2>1
    <3>2. ASSUME NEW j \in DOMAIN queue', IsAdd(j, r)', i < j
          PROVE  queue'[i].n < queue'[j].n
      <4>1. CASE j \in DOMAIN queue /\ queue'[j] = queue[j] /\ IsAdd(j, r)
        BY <1>3, <2>1, <3>2, <4>1
      <4>2. CASE queue'[j] = op /\ op.kind = "add" /\ op.r = r
        BY <1>3, <3>1, <4>2
      <4> QED
        BY <1>5, <3>2, <4>1, <4>2
    <3> QED
      BY <3>1, <3>2
  <2>2. CASE i = Len(queue) + 1 /\ queue'[i] = op /\ op.kind = "add" /\ op.r = r
    BY <1>2, <1>3, <2>2
  <2> QED
    BY <1>5, <1>7, <2>1, <2>2
<1> QED
  BY <1>6, <1>7

\* Nothing that the order of the chain depends on has changed.
LEMMA ChainSame ==
  ASSUME OutboxInv, queue' = queue,
         \A r \in Recording : rec'[r].index = rec[r].index /\ rec'[r].offered = rec[r].offered
  PROVE  ChainIsOrdered'
BY DEF OutboxInv, ChainIsOrdered, IsAdd

-----------------------------------------------------------------------------
(* Files and uploads. *)

\* A sealed part belongs to a recording that was begun for a server.
LEMMA ReadyIsOwned ==
  ASSUME OutboxInv, NEW p \in Ready(disk)
  PROVE  p \in Part /\ p[1] \in Recording /\ rec[p[1]].status # "new" /\ Owner(p) \in Server
<1>1. p \in Part /\ disk[p].st = "ready"
  BY DEF Ready, Files
<1>2. p[1] \in Recording /\ p[2] \in 0 .. MaxPackets - 1 /\ p = <<p[1], p[2]>>
  BY <1>1 DEF Part
<1>3. disk[<<p[1], p[2]>>] # NoFile
  BY <1>1, <1>2 DEF NoFile
<1>4. rec[p[1]].status # "new"
  BY <1>2, <1>3, OutboxAssumption DEF OutboxInv, FilesAreFresh
<1>5. rec[p[1]].owner # NoServer
  BY <1>2, <1>4 DEF OutboxInv, FilesAreFresh
<1>6. rec[p[1]].owner \in Server \cup {NoServer}
  BY <1>2 DEF OutboxInv, StateOK, RecordingType
<1> QED
  BY <1>1, <1>2, <1>4, <1>5, <1>6 DEF Owner

\* No file and no recording has changed.
LEMMA FilesSame ==
  ASSUME OutboxInv, disk' = disk, rec' = rec, alive => alive' PROVE FilesAreFresh'
BY DEF OutboxInv, FilesAreFresh, Current

\* The upload is left alone and its part, like every sealed one, unchanged.
LEMMA UploadSame ==
  ASSUME OutboxInv, conn' = conn, sent' = sent, held' = held,
         drain'.todo \in {drain.todo, Ready(disk')},
         \A p \in Ready(disk) : disk'[p] = disk[p],
         \A s \in Recording : rec[s].status # "new" =>
           rec'[s].status # "new" /\ rec'[s].owner = rec[s].owner
  PROVE  UploadIsBound'
<1>1. Ready(disk) \subseteq Ready(disk')
  BY DEF Ready, Files
<1>2. drain'.todo \subseteq Ready(disk')
  BY <1>1 DEF OutboxInv, UploadIsBound
<1>3. ASSUME conn # NoConn
      PROVE  /\ disk'[conn.part].st = "ready" /\ conn.body = Body(disk'[conn.part])
             /\ Owner(conn.part)' = Owner(conn.part)
  <2>1. conn.part \in Part /\ disk[conn.part].st = "ready" /\ conn.body = Body(disk[conn.part])
    BY <1>3 DEF OutboxInv, StateOK, ConnType, UploadIsBound
  <2>2. conn.part \in Ready(disk)
    BY <2>1 DEF Ready, Files
  <2>3. disk'[conn.part] = disk[conn.part]
    BY <2>2
  <2>4. Owner(conn.part)' = Owner(conn.part)
    BY <2>2, ReadyIsOwned DEF Owner
  <2> QED
    BY <2>1, <2>3, <2>4
<1>4. ASSUME NEW m \in sent PROVE rec'[m[2][1]].status # "new" /\ m[1] = Owner(m[2])'
  <2>1. m[2] \in Part /\ m[2][1] \in Recording
    BY <1>4 DEF OutboxInv, StateOK, Part
  <2> QED
    BY <1>4, <2>1 DEF OutboxInv, UploadIsBound, Owner
<1> QED
  BY <1>2, <1>3, <1>4 DEF OutboxInv, UploadIsBound

-----------------------------------------------------------------------------
(* The steps. *)

\* Sealed parts are unchanged, and no header or complete packet disappears.
Keeps ==
  \A p \in Part : /\ p \in Ready(disk) => disk'[p] = disk[p]
                  /\ disk[p].head => disk'[p].head
                  /\ Range(disk[p].fresh) \subseteq Range(disk'[p].fresh)

\* A packet that becomes flushed is in a file with a header.
Flushes ==
  \A r \in Recording : \A n \in flushed'[r] :
    \/ n \in flushed[r]
    \/ \E p \in Part : p[1] = r /\ disk'[p].head /\ n \in Range(disk'[p].fresh)

\* Recordings keep the server they were begun for.
OwnersStay ==
  \A r \in Recording : rec[r].status # "new" =>
    rec'[r].status # "new" /\ rec'[r].owner = rec[r].owner

\* The operations of the chain preserve the invariant and the audio.
LEMMA JournalStep ==
  ASSUME OutboxInv, NEW r \in Recording, ChainEffect(r)
  PROVE  OutboxInv' /\ Keeps /\ Flushes /\ OwnersStay
<1> USE OutboxAssumption
<1>t. /\ rec \in [Recording -> RecordingType] /\ disk \in [Part -> FileType] /\ queue \in Seq(OpType)
      /\ flushed \in [Recording -> SUBSET Packet] /\ rec[r] \in RecordingType
      /\ rec' \in [Recording -> RecordingType] /\ disk' \in [Part -> FileType] /\ queue # <<>>
      /\ rec[r].index \in Nat /\ rec[r].offered \in 0 .. MaxPackets /\ rec'[r] \in RecordingType
  BY DEF OutboxInv, StateOK, ChainEffect, RecordingType
<1>o. OwnersStay
  BY DEF ChainEffect, OwnersStay
<1>q. queue' \in Seq(OpType)
  <2>1. Tail(queue) \in Seq(OpType)
    BY <1>t
  <2>2. queue' = queue \/ queue' = Tail(queue)
    BY DEF ChainEffect
  <2> QED
    BY <1>t, <2>1, <2>2
<1>i. rec[r].index <= rec[r].offered
  BY DEF OutboxInv, ChainIsOrdered
<1>h. ASSUME rec[r].handle
      PROVE  /\ rec[r].index > 0 /\ Current(r) \in Part /\ Current(r) = <<r, rec[r].index - 1>>
             /\ disk[Current(r)].st = "part" /\ alive
  <2>1. rec[r].index > 0 /\ disk[Current(r)].st = "part" /\ alive
    BY <1>h DEF OutboxInv, FilesAreFresh
  <2>2. <<r, rec[r].index - 1>> \in Part
    BY <1>t, <1>i, <2>1 DEF Part
  <2> QED
    BY <2>1, <2>2 DEF Current
<1>s. \A s \in Recording : s # r => /\ rec'[s] = rec[s] /\ Current(s)' = Current(s)
                                    /\ Current(s) # Current(r) /\ Current(s)[1] = s
  BY DEF ChainEffect, Current
<1>e. \A s \in Recording : /\ rec'[s].status = rec[s].status /\ rec'[s].owner = rec[s].owner
                           /\ rec'[s].offered = rec[s].offered
  BY DEF ChainEffect
<1>n. alive' = alive
  BY DEF ChainEffect
<1>1. CASE Kept(r)
  <2>1. disk' = disk /\ flushed' = flushed
    BY <1>1 DEF Kept
  <2>2. Keeps /\ Flushes
    BY <2>1 DEF Keeps, Flushes
  <2>3. StateOK'
    BY <1>t, <1>q, <2>1 DEF ChainEffect, OutboxInv, StateOK
  <2>4. ChainIsOrdered'
    <3>1. CASE rec'[r].index = rec[r].index
      <4>1. \A s \in Recording : rec'[s].index = rec[s].index
        BY <1>s, <3>1
      <4> QED
        BY <1>t, <1>e, <4>1, ChainSame, ChainTail DEF ChainEffect
    <3>2. CASE Writes(r) /\ queue' = Tail(queue) /\ rec'[r].index = Index(r)
      <4>1. Index(r) \in Nat /\ Index(r) <= Head(queue).n
        BY <3>2, TargetIsOpen
      <4>2. IsAdd(1, r) /\ Head(queue) = queue[1]
        BY <3>2, HeadOp DEF Writes, OutboxInv
      <4> QED
        BY <1>t, <1>s, <1>e, <3>2, <4>1, <4>2, ChainTail
    <3> QED
      BY <1>1, <3>1, <3>2 DEF Kept
  <2>5. FilesAreFresh'
    <3>1. rec'[r].index >= rec[r].index
      BY <1>1, <1>t, TargetIsOpen DEF Kept
    <3>2. rec'[r].handle => /\ rec[r].handle /\ Current(r)' = Current(r)
                            /\ (~rec'[r].failed => ~rec[r].failed)
      BY <1>1 DEF Kept, Current
    <3>3. rec[r].status = "new" => ~rec[r].handle /\ rec[r].offered = 0 /\ rec'[r].index = rec[r].index
      <4>1. rec[r].status = "new" => ~rec[r].handle /\ rec[r].offered = 0
        BY DEF OutboxInv, FilesAreFresh
      <4> QED
        BY <1>1, <4>1, TargetIsOpen DEF Kept
    <3> SUFFICES ASSUME NEW s \in Recording
                 PROVE  /\ IF rec'[s].status = "new"
                           THEN ~rec'[s].handle /\ rec'[s].index = 0 /\ rec'[s].offered = 0
                           ELSE rec'[s].owner # NoServer
                        /\ rec'[s].handle => /\ alive' /\ rec'[s].index > 0
                                             /\ disk'[Current(s)'].st = "part"
                                             /\ ~rec'[s].failed => disk'[Current(s)'].head
                        /\ rec'[s].status \in {"new", "open"} \/ rec'[s].offered > 0 =>
                             \A i \in 0 .. MaxPackets - 1 : i >= rec'[s].index => disk'[<<s, i>>] = NoFile
      BY DEF FilesAreFresh
    <3>4. CASE s # r
      BY <1>s, <1>e, <1>n, <2>1, <3>4 DEF OutboxInv, FilesAreFresh
    <3>5. CASE s = r
      <4>1. IF rec'[r].status = "new"
            THEN ~rec'[r].handle /\ rec'[r].index = 0 /\ rec'[r].offered = 0
            ELSE rec'[r].owner # NoServer
        BY <1>e, <3>2, <3>3 DEF OutboxInv, FilesAreFresh
      <4>2. ASSUME rec'[r].handle
            PROVE  /\ alive' /\ rec'[r].index > 0 /\ disk'[Current(r)'].st = "part"
                   /\ ~rec'[r].failed => disk'[Current(r)'].head
        <5>1. rec[r].handle /\ Current(r)' = Current(r) /\ (~rec'[r].failed => ~rec[r].failed)
              /\ rec'[r].index = rec[r].index
          BY <1>1, <3>2, <4>2 DEF Kept
        <5> QED
          BY <1>n, <2>1, <5>1 DEF OutboxInv, FilesAreFresh
      <4>3. ASSUME rec'[r].status \in {"new", "open"} \/ rec'[r].offered > 0
            PROVE  \A i \in 0 .. MaxPackets - 1 : i >= rec'[r].index => disk'[<<r, i>>] = NoFile
        <5>1. \A i \in 0 .. MaxPackets - 1 : i >= rec[r].index => disk[<<r, i>>] = NoFile
          BY <1>e, <4>3 DEF OutboxInv, FilesAreFresh
        <5>2. rec'[r].index \in Nat
          BY <1>t DEF RecordingType
        <5> QED
          BY <1>t, <2>1, <3>1, <5>1, <5>2
      <4> QED
        BY <3>5, <4>1, <4>2, <4>3
    <3> QED
      BY <3>4, <3>5
  <2>6. UploadIsBound'
    BY <1>o, <2>1, UploadSame DEF ChainEffect, OwnersStay
  <2> QED
    BY <1>o, <2>2, <2>3, <2>4, <2>5, <2>6 DEF OutboxInv
<1>2. CASE Sealed(r)
  <2>1. /\ rec[r].handle /\ ~rec'[r].handle /\ rec'[r].index = rec[r].index /\ flushed' = flushed
        /\ disk' = [disk EXCEPT ![Current(r)].st = "ready"]
    BY <1>2 DEF Sealed
  <2>2. /\ \A p \in Part : p # Current(r) => disk'[p] = disk[p]
        /\ disk'[Current(r)].head = disk[Current(r)].head
        /\ disk'[Current(r)].fresh = disk[Current(r)].fresh
    BY <1>t, <1>h, <2>1 DEF FileType
  <2>3. \A p \in Ready(disk) : p # Current(r) /\ p \in Part
    BY <1>h, <2>1 DEF Ready, Files
  <2>4. Keeps /\ Flushes
    BY <2>1, <2>2, <2>3 DEF Keeps, Flushes
  <2>5. StateOK'
    BY <1>t, <1>q, <2>1 DEF ChainEffect, OutboxInv, StateOK
  <2>6. ChainIsOrdered'
    <3>1. \A s \in Recording : rec'[s].index = rec[s].index
      BY <1>s, <2>1
    <3> QED
      BY <1>t, <1>e, <3>1, ChainSame, ChainTail DEF ChainEffect
  <2>7. FilesAreFresh'
    <3> SUFFICES ASSUME NEW s \in Recording
                 PROVE  /\ IF rec'[s].status = "new"
                           THEN ~rec'[s].handle /\ rec'[s].index = 0 /\ rec'[s].offered = 0
                           ELSE rec'[s].owner # NoServer
                        /\ rec'[s].handle => /\ alive' /\ rec'[s].index > 0
                                             /\ disk'[Current(s)'].st = "part"
                                             /\ ~rec'[s].failed => disk'[Current(s)'].head
                        /\ rec'[s].status \in {"new", "open"} \/ rec'[s].offered > 0 =>
                             \A i \in 0 .. MaxPackets - 1 : i >= rec'[s].index => disk'[<<s, i>>] = NoFile
      BY DEF FilesAreFresh
    <3>1. \A i \in 0 .. MaxPackets - 1 :
            /\ <<s, i>> \in Part
            /\ i >= rec'[s].index => disk'[<<s, i>>] = disk[<<s, i>>] /\ rec'[s].index = rec[s].index
      <4>1. \A i \in 0 .. MaxPackets - 1 : <<s, i>> \in Part
        BY DEF Part
      <4>2. rec'[s].index = rec[s].index
        BY <1>s, <2>1
      <4>3. ASSUME NEW i \in 0 .. MaxPackets - 1, i >= rec'[s].index PROVE <<s, i>> # Current(r)
        <5>1. Current(r) = <<r, rec[r].index - 1>> /\ rec[r].index \in Nat /\ i >= rec[s].index
          BY <1>t, <1>h, <2>1, <4>2, <4>3
        <5> QED
          BY <5>1
      <4> QED
        BY <2>2, <4>1, <4>2, <4>3
    <3>2. CASE s # r
      <4>1. rec[s].handle => Current(s) \in Part
        <5>1. rec[s].handle => rec[s].index > 0
          BY DEF OutboxInv, FilesAreFresh
        <5>2. rec[s].index <= rec[s].offered /\ rec[s].index \in Nat /\ rec[s].offered \in 0 .. MaxPackets
          BY <1>t DEF OutboxInv, ChainIsOrdered, RecordingType
        <5> QED
          BY <5>1, <5>2 DEF Current, Part
      <4>2. rec[s].handle => disk'[Current(s)] = disk[Current(s)]
        BY <1>s, <2>2, <3>2, <4>1
      <4> QED
        BY <1>s, <1>e, <1>n, <3>1, <3>2, <4>2 DEF OutboxInv, FilesAreFresh
    <3>3. CASE s = r
      BY <1>e, <2>1, <3>1, <3>3 DEF OutboxInv, FilesAreFresh
    <3> QED
      BY <3>2, <3>3
  <2>8. UploadIsBound'
    BY <1>o, <2>2, <2>3, UploadSame DEF ChainEffect, OwnersStay
  <2> QED
    BY <1>o, <2>4, <2>5, <2>6, <2>7, <2>8 DEF OutboxInv
<1>3. CASE Written(r)
  <2>1. PICK f \in FileType :
       /\ disk' = [disk EXCEPT ![Target(r)] = f]
       /\ f = NoFile \/ f.st = "part"
       /\ rec'[r].handle => f.st = "part" /\ (rec'[r].failed \/ f.head)
       /\ rec[r].handle => f.head
       /\ Range(disk[Target(r)].fresh) \subseteq Range(f.fresh)
       /\ \/ UNCHANGED flushed
          \/ /\ flushed' = [flushed EXCEPT ![r] = @ \cup {Head(queue).n}]
             /\ f.head /\ Head(queue).n \in Range(f.fresh)
    BY <1>3 DEF Written
  <2>2. /\ Target(r) \in Part /\ Target(r)[1] = r /\ Target(r)[2] = Index(r) - 1
        /\ Index(r) \in Nat /\ Index(r) > 0 /\ Index(r) \in {rec[r].index, rec[r].index + 1}
        /\ Index(r) <= Head(queue).n /\ Head(queue).n \in Packet /\ rec[r].offered > 0
        /\ disk[Target(r)].st # "ready" /\ (~rec[r].handle => disk[Target(r)] = NoFile)
    BY <1>3, TargetIsOpen DEF Written
  <2>3. rec'[r].index = Index(r) /\ queue' = Tail(queue) /\ Writes(r)
    BY <1>3 DEF Written
  <2>4. disk'[Target(r)] = f /\ \A p \in Part : p # Target(r) => disk'[p] = disk[p]
    BY <1>t, <2>1, <2>2
  <2>5. Keeps
    BY <2>1, <2>2, <2>4 DEF Keeps, Ready, Files, NoFile
  <2>6. Flushes
    BY <1>t, <2>1, <2>2, <2>4 DEF Flushes
  <2>7. flushed' \in [Recording -> SUBSET Packet]
    BY <1>t, <2>1, <2>2
  <2>8. StateOK'
    BY <1>t, <1>q, <2>7 DEF ChainEffect, OutboxInv, StateOK
  <2>9. ChainIsOrdered'
    <3>1. IsAdd(1, r) /\ Head(queue) = queue[1]
      BY <2>3, HeadOp DEF Writes, OutboxInv
    <3> QED
      BY <1>t, <1>s, <1>e, <2>2, <2>3, <3>1, ChainTail
  <2>10. FilesAreFresh'
    <3> SUFFICES ASSUME NEW s \in Recording
                 PROVE  /\ IF rec'[s].status = "new"
                           THEN ~rec'[s].handle /\ rec'[s].index = 0 /\ rec'[s].offered = 0
                           ELSE rec'[s].owner # NoServer
                        /\ rec'[s].handle => /\ alive' /\ rec'[s].index > 0
                                             /\ disk'[Current(s)'].st = "part"
                                             /\ ~rec'[s].failed => disk'[Current(s)'].head
                        /\ rec'[s].status \in {"new", "open"} \/ rec'[s].offered > 0 =>
                             \A i \in 0 .. MaxPackets - 1 : i >= rec'[s].index => disk'[<<s, i>>] = NoFile
      BY DEF FilesAreFresh
    <3>1. CASE s # r
      <4>1. rec[s].handle => Current(s) \in Part
        <5>1. rec[s].handle => rec[s].index > 0
          BY DEF OutboxInv, FilesAreFresh
        <5>2. rec[s].index <= rec[s].offered /\ rec[s].index \in Nat /\ rec[s].offered \in 0 .. MaxPackets
          BY <1>t DEF OutboxInv, ChainIsOrdered, RecordingType
        <5> QED
          BY <5>1, <5>2 DEF Current, Part
      <4>2. rec[s].handle => disk'[Current(s)] = disk[Current(s)]
        BY <1>s, <2>2, <2>4, <3>1, <4>1
      <4>3. \A i \in 0 .. MaxPackets - 1 : disk'[<<s, i>>] = disk[<<s, i>>]
        BY <2>2, <2>4, <3>1 DEF Part
      <4> QED
        BY <1>s, <1>e, <1>n, <3>1, <4>2, <4>3 DEF OutboxInv, FilesAreFresh
    <3>2. CASE s = r
      <4>1. rec[r].status # "new" /\ rec[r].owner # NoServer
        BY <1>t, <2>2 DEF OutboxInv, FilesAreFresh
      <4>2. Current(r)' = Target(r)
        <5>1. Target(r) = <<Target(r)[1], Target(r)[2]>>
          BY <2>2 DEF Part
        <5> QED
          BY <2>2, <2>3, <5>1 DEF Current
      <4>3. \A i \in 0 .. MaxPackets - 1 : i >= Index(r) => disk'[<<r, i>>] = NoFile
        <5>1. \A i \in 0 .. MaxPackets - 1 : i >= Index(r) => <<r, i>> \in Part /\ <<r, i>> # Target(r)
          BY <2>2 DEF Part
        <5>2. \A i \in 0 .. MaxPackets - 1 : i >= rec[r].index => disk[<<r, i>>] = NoFile
          BY <2>2 DEF OutboxInv, FilesAreFresh
        <5> QED
          BY <1>t, <2>2, <2>4, <5>1, <5>2
      <4>4. alive
        BY DEF ChainEffect
      <4> QED
        BY <1>e, <1>n, <2>1, <2>2, <2>3, <2>4, <3>2, <4>1, <4>2, <4>3, <4>4
    <3> QED
      BY <3>1, <3>2
  <2>11. UploadIsBound'
    <3>1. \A p \in Ready(disk) : disk'[p] = disk[p]
      BY <2>5 DEF Keeps, Ready, Files
    <3> QED
      BY <1>o, <3>1, UploadSame DEF ChainEffect, OwnersStay
  <2> QED
    BY <1>o, <2>5, <2>6, <2>8, <2>9, <2>10, <2>11 DEF OutboxInv
<1> QED
  BY <1>1, <1>2, <1>3 DEF ChainEffect

\* A sealed part is deleted on the receipt of its owner.
Acknowledged ==
  \E q \in Ready(disk) : /\ <<Owner(q), q, Body(disk[q])>> \in held
                         /\ disk' = [disk EXCEPT ![q] = NoFile] /\ UNCHANGED rec

\* What every step of the specification does.
Sound ==
  /\ OutboxInv'
  /\ Keeps \/ Acknowledged
  /\ Flushes /\ OwnersStay
  /\ held \subseteq held'

\* A step that touches neither files nor recordings is as good as what it
\* does to the chain and the pump.
LEMMA PumpEffect ==
  ASSUME OutboxInv, UNCHANGED <<rec, disk, flushed, alive>>, held \subseteq held',
         StateOK', ChainIsOrdered', UploadIsBound'
  PROVE  Sound
<1>1. FilesAreFresh'
  BY FilesSame
<1>2. Keeps /\ Flushes /\ OwnersStay
  BY DEF Keeps, Flushes, OwnersStay
<1> QED
  BY <1>1, <1>2 DEF Sound, OutboxInv

\* A call that changes one recording, begun or about to be, and the chain.
LEMMA CallEffect ==
  ASSUME OutboxInv, NEW r \in Recording, NEW x \in RecordingType, rec' = [rec EXCEPT ![r] = x],
         x.index = rec[r].index, x.handle = rec[r].handle, x.failed = rec[r].failed,
         x.status # "new", x.owner # NoServer, rec[r].status \in {"new", "open"},
         rec[r].status # "new" => x.owner = rec[r].owner,
         UNCHANGED <<alive, paired, disk, drain, conn, flushed, sent, held>>,
         queue' \in Seq(OpType), ChainIsOrdered'
  PROVE  Sound
<1>1. /\ rec' \in [Recording -> RecordingType] /\ rec'[r] = x
      /\ \A s \in Recording : s # r => rec'[s] = rec[s]
  <2>1. rec \in [Recording -> RecordingType]
    BY DEF OutboxInv, StateOK
  <2> QED
    BY <2>1, RecUpdate
<1>2. StateOK'
  BY <1>1 DEF OutboxInv, StateOK
<1>3. OwnersStay
  BY <1>1 DEF OwnersStay
<1>4. Keeps /\ Flushes
  BY DEF Keeps, Flushes
<1>5. FilesAreFresh'
  <2> SUFFICES ASSUME NEW s \in Recording
               PROVE  /\ IF rec'[s].status = "new"
                         THEN ~rec'[s].handle /\ rec'[s].index = 0 /\ rec'[s].offered = 0
                         ELSE rec'[s].owner # NoServer
                      /\ rec'[s].handle => /\ alive' /\ rec'[s].index > 0
                                           /\ disk'[Current(s)'].st = "part"
                                           /\ ~rec'[s].failed => disk'[Current(s)'].head
                      /\ rec'[s].status \in {"new", "open"} \/ rec'[s].offered > 0 =>
                           \A i \in 0 .. MaxPackets - 1 : i >= rec'[s].index => disk'[<<s, i>>] = NoFile
    BY DEF FilesAreFresh
  <2>1. Current(s)' = Current(s)
    BY <1>1 DEF Current
  <2>2. CASE s # r
    BY <1>1, <2>1, <2>2 DEF OutboxInv, FilesAreFresh
  <2>3. CASE s = r
    BY <1>1, <2>1, <2>3 DEF OutboxInv, FilesAreFresh
  <2> QED
    BY <2>2, <2>3
<1>6. UploadIsBound'
  BY <1>3, UploadSame DEF OwnersStay, Keeps
<1> QED
  BY <1>2, <1>3, <1>4, <1>5, <1>6 DEF Sound, OutboxInv

\* Calls of the controller and the listeners.
LEMMA CallStep ==
  ASSUME OutboxInv, Calls PROVE Sound
<1> USE OutboxAssumption
<1>t. /\ rec \in [Recording -> RecordingType] /\ queue \in Seq(OpType) /\ drain \in DrainType
      /\ paired \in Server \cup {NoServer}
  BY DEF OutboxInv, StateOK
<1>r. AfterRetry(disk) \in DrainType /\ AfterRetry(disk).todo \in {drain.todo, Ready(disk)}
  BY <1>t, RetryEffect
<1>1. ASSUME NEW r \in Recording, Begin(r) PROVE Sound
  <2> DEFINE x == [rec[r] EXCEPT !.status = "open", !.owner = paired]
  <2>1. /\ x \in RecordingType /\ x.index = rec[r].index /\ x.handle = rec[r].handle
        /\ x.failed = rec[r].failed /\ x.status = "open" /\ x.owner = paired /\ x.offered = rec[r].offered
    BY <1>t DEF RecordingType
  <2>2. rec' = [rec EXCEPT ![r] = x]
    BY <1>1, Zenon DEF Begin
  <2>3. rec[r].status = "new" /\ paired # NoServer
        /\ UNCHANGED <<alive, paired, disk, queue, drain, conn, flushed, sent, held>>
    BY <1>1 DEF Begin
  <2> HIDE DEF x
  <2>4. ChainIsOrdered'
    BY <1>t, <2>1, <2>2, <2>3, RecUpdate, ChainSame
  <2> QED
    BY <1>t, <2>1, <2>2, <2>3, <2>4, CallEffect
<1>2. ASSUME NEW r \in Recording, Add(r) PROVE Sound
  <2> DEFINE n == rec[r].offered + 1
             x == [rec[r] EXCEPT !.offered = n]
             op == AddOp(r, n)
  <2>1. n \in Packet /\ n \in 0 .. MaxPackets
    BY <1>2, <1>t DEF Add, RecordingType, Packet
  <2>2. /\ x \in RecordingType /\ x.index = rec[r].index /\ x.handle = rec[r].handle
        /\ x.failed = rec[r].failed /\ x.status = rec[r].status /\ x.owner = rec[r].owner /\ x.offered = n
    BY <1>t, <2>1 DEF RecordingType
  <2>3. rec' = [rec EXCEPT ![r] = x]
    BY <1>2, Zenon DEF Add
  <2>4. op \in OpType /\ op.kind = "add" /\ op.r = r /\ op.n = n
    BY <2>1 DEF AddOp, OpType
  <2>5. /\ rec[r].status = "open" /\ queue' = Append(queue, op)
        /\ UNCHANGED <<alive, paired, disk, drain, conn, flushed, sent, held>>
    BY <1>2 DEF Add
  <2>6. rec[r].owner # NoServer
    BY <2>5 DEF OutboxInv, FilesAreFresh
  <2> HIDE DEF x, op
  <2>7. /\ rec' \in [Recording -> RecordingType] /\ rec'[r] = x
        /\ \A s \in Recording : s # r => rec'[s] = rec[s]
    BY <1>t, <2>2, <2>3, RecUpdate
  <2>8. ChainIsOrdered'
    <3>1. \A s \in Recording :
            /\ rec'[s].index = rec[s].index
            /\ IF op.kind = "add" /\ op.r = s
               THEN rec'[s].offered = rec[s].offered + 1 /\ op.n = rec[s].offered + 1
               ELSE rec'[s].offered = rec[s].offered
      BY <2>2, <2>4, <2>7
    <3> QED
      BY <2>4, <2>5, <3>1, ChainAppend
  <2>9. queue' \in Seq(OpType)
    BY <1>t, <2>4, <2>5, AppendProperties
  <2> QED
    BY <2>2, <2>3, <2>5, <2>6, <2>8, <2>9, CallEffect
<1>3. ASSUME NEW r \in Recording, Stop(r) PROVE Sound
  <2> DEFINE x == [rec[r] EXCEPT !.status = "closed"]
             op == StopOp(r)
  <2>2. /\ x \in RecordingType /\ x.index = rec[r].index /\ x.handle = rec[r].handle
        /\ x.failed = rec[r].failed /\ x.status = "closed" /\ x.owner = rec[r].owner
        /\ x.offered = rec[r].offered
    BY <1>t DEF RecordingType
  <2>3. rec' = [rec EXCEPT ![r] = x]
    BY <1>3, Zenon DEF Stop
  <2>4. op \in OpType /\ op.kind = "stop"
    BY DEF StopOp, OpType
  <2>5. /\ rec[r].status = "open" /\ queue' = Append(queue, op)
        /\ UNCHANGED <<alive, paired, disk, drain, conn, flushed, sent, held>>
    BY <1>3 DEF Stop
  <2>6. rec[r].owner # NoServer
    BY <2>5 DEF OutboxInv, FilesAreFresh
  <2> HIDE DEF x, op
  <2>7. /\ rec' \in [Recording -> RecordingType] /\ rec'[r] = x
        /\ \A s \in Recording : s # r => rec'[s] = rec[s]
    BY <1>t, <2>2, <2>3, RecUpdate
  <2>8. ChainIsOrdered'
    <3>1. \A s \in Recording : rec'[s].index = rec[s].index /\ rec'[s].offered = rec[s].offered
      BY <2>2, <2>7
    <3> QED
      BY <2>4, <2>5, <3>1, ChainAppend
  <2>9. queue' \in Seq(OpType)
    BY <1>t, <2>4, <2>5, AppendProperties
  <2> QED
    BY <2>2, <2>3, <2>5, <2>6, <2>8, <2>9, CallEffect
<1>4. CASE RecoverConnection
  <2>1. /\ UNCHANGED <<alive, paired, rec, disk, conn, flushed, sent, held>>
        /\ drain' \in DrainType /\ drain'.todo \in {drain.todo, Ready(disk')}
    BY <1>4, <1>t, <1>r DEF RecoverConnection
  <2>2. queue' \in Seq(OpType) /\ ChainIsOrdered'
    <3>1. CASE queue' = queue
      BY <1>t, <2>1, <3>1, ChainSame
    <3>2. ASSUME NEW r \in Recording, queue' = Append(queue, CheckpointOp(r))
          PROVE  queue' \in Seq(OpType) /\ ChainIsOrdered'
      <4>1. CheckpointOp(r) \in OpType /\ CheckpointOp(r).kind = "checkpoint"
        BY DEF CheckpointOp, OpType
      <4>2. queue' \in Seq(OpType)
        BY <1>t, <3>2, <4>1, AppendProperties
      <4>3. ChainIsOrdered'
        BY <2>1, <3>2, <4>1, ChainAppend
      <4> QED
        BY <4>2, <4>3
    <3> QED
      BY <1>4, <3>1, <3>2 DEF RecoverConnection, OpenRecordings
  <2>3. UploadIsBound'
    BY <2>1, UploadSame
  <2>4. StateOK'
    BY <2>1, <2>2 DEF OutboxInv, StateOK
  <2> QED
    BY <2>1, <2>2, <2>3, <2>4, PumpEffect
<1>5. ASSUME NEW s \in Server \cup {NoServer}, Pair(s) PROVE Sound
  <2>1. /\ UNCHANGED <<alive, rec, disk, queue, conn, flushed, sent, held>>
        /\ drain' \in DrainType /\ drain'.todo \in {drain.todo, Ready(disk')}
        /\ paired' \in Server \cup {NoServer}
    BY <1>5, <1>r DEF Pair
  <2>2. UploadIsBound' /\ ChainIsOrdered'
    BY <2>1, UploadSame, ChainSame
  <2>3. StateOK'
    BY <2>1 DEF OutboxInv, StateOK
  <2> QED
    BY <2>1, <2>2, <2>3, PumpEffect
<1> QED
  BY <1>1, <1>2, <1>3, <1>4, <1>5 DEF Calls

\* Start-up: a journal may be sealed, and nothing else happens to a file.
LEMMA StartStep ==
  ASSUME OutboxInv, Start PROVE Sound
<1>1. PICK broken \in SUBSET Files(disk, "part") :
        disk' = [p \in Part |-> IF p \in broken THEN disk[p] ELSE Recovered(disk[p])]
  BY DEF Start
<1>2. disk \in [Part -> FileType] /\ drain \in DrainType
  BY DEF OutboxInv, StateOK
<1>3. ASSUME NEW p \in Part
      PROVE  /\ disk'[p] \in FileType /\ disk'[p].head = disk[p].head /\ disk'[p].fresh = disk[p].fresh
             /\ disk[p].st = "ready" => disk'[p] = disk[p]
             /\ disk[p] = NoFile => disk'[p] = NoFile
  <2>1. disk[p] \in FileType /\ disk'[p] \in {disk[p], Recovered(disk[p])}
    BY <1>1, <1>2
  <2> QED
    BY <2>1, RecoveredEffect
<1>4. disk' \in [Part -> FileType]
  BY <1>1, <1>3
<1>5. drain' \in DrainType /\ drain'.todo \in {drain.todo, Ready(disk')}
  BY <1>2, RetryEffect DEF Start
<1>6. ~alive /\ UNCHANGED <<paired, rec, queue, conn, flushed, sent, held>> /\ alive' = TRUE
  BY DEF Start
<1>7. StateOK'
  BY <1>4, <1>5, <1>6 DEF OutboxInv, StateOK
<1>8. ChainIsOrdered'
  BY <1>6, ChainSame
<1>9. FilesAreFresh'
  <2>1. \A r \in Recording : ~rec[r].handle
    BY <1>6 DEF OutboxInv, FilesAreFresh
  <2>2. \A r \in Recording, i \in 0 .. MaxPackets - 1 :
          disk[<<r, i>>] = NoFile => disk'[<<r, i>>] = NoFile
    BY <1>3 DEF Part
  <2> QED
    BY <1>6, <2>1, <2>2 DEF OutboxInv, FilesAreFresh
<1>10. Keeps /\ Flushes /\ OwnersStay
  BY <1>3, <1>6 DEF Keeps, Flushes, OwnersStay, Ready, Files
<1>11. UploadIsBound'
  <2>1. \A p \in Ready(disk) : disk'[p] = disk[p]
    BY <1>10 DEF Keeps, Ready, Files
  <2> QED
    BY <1>5, <1>6, <2>1, UploadSame
<1> QED
  BY <1>6, <1>7, <1>8, <1>9, <1>10, <1>11 DEF Sound, OutboxInv

\* A crash: what was open is closed, what was being written is unsealed.
LEMMA CrashStep ==
  ASSUME OutboxInv, Crash PROVE Sound
<1> USE OutboxAssumption
<1> DEFINE closed(r) == [NewRecording EXCEPT !.status = "closed", !.owner = rec[r].owner,
                                             !.failed = rec[r].failed]
<1>t. /\ rec \in [Recording -> RecordingType] /\ disk \in [Part -> FileType]
      /\ paired \in Server \cup {NoServer}
  BY DEF OutboxInv, StateOK
<1>1. ASSUME NEW r \in Recording
      PROVE  /\ rec'[r] \in RecordingType
             /\ rec[r].status = "new" => rec'[r] = rec[r]
             /\ rec[r].status # "new" =>
                  /\ rec'[r].status = "closed" /\ rec'[r].owner = rec[r].owner
                  /\ ~rec'[r].handle /\ rec'[r].index = 0 /\ rec'[r].offered = 0
  <2>1. rec'[r] = IF rec[r].status = "new" THEN rec[r] ELSE closed(r)
    BY DEF Crash
  <2>2. rec[r].owner \in Server \cup {NoServer} /\ rec[r].failed \in BOOLEAN /\ <<>> \in Seq(Packet)
    BY <1>t DEF RecordingType
  <2>3. /\ closed(r) \in RecordingType /\ closed(r).status = "closed" /\ closed(r).owner = rec[r].owner
        /\ closed(r).handle = FALSE /\ closed(r).index = 0 /\ closed(r).offered = 0
    <3>1. /\ NewRecording \in RecordingType /\ NewRecording.handle = FALSE
          /\ NewRecording.index = 0 /\ NewRecording.offered = 0
      BY <2>2 DEF NewRecording, RecordingType
    <3> QED
      BY <2>2, <3>1 DEF RecordingType
  <2> HIDE DEF closed
  <2> QED
    BY <1>t, <2>1, <2>3
<1>2. rec' \in [Recording -> RecordingType]
  <2>1. rec' = [r \in Recording |-> rec'[r]]
    BY DEF Crash
  <2> QED
    BY <1>1, <2>1
<1>3. /\ alive' = FALSE /\ queue' = <<>> /\ drain' = IdleDrain /\ conn' = NoConn
      /\ UNCHANGED <<paired, flushed, sent, held>>
  BY DEF Crash
<1>4. /\ disk' \in [Part -> FileType] /\ Keeps
      /\ \A r \in Recording : rec[r].status = "new" =>
           \A i \in 0 .. MaxPackets - 1 : disk'[<<r, i>>] = disk[<<r, i>>]
  <2>1. CASE disk' = disk
    BY <1>t, <2>1 DEF Keeps
  <2>2. ASSUME NEW r \in Recording, Writes(r), NEW f \in HalfOpened(r) \cup HalfWritten(r),
               disk' = [disk EXCEPT ![Target(r)] = f]
        PROVE  /\ disk' \in [Part -> FileType] /\ Keeps
               /\ \A s \in Recording : rec[s].status = "new" =>
                    \A i \in 0 .. MaxPackets - 1 : disk'[<<s, i>>] = disk[<<s, i>>]
    <3>1. /\ Target(r) \in Part /\ Target(r)[1] = r /\ disk[Target(r)].st # "ready"
          /\ ~rec[r].handle => disk[Target(r)] = NoFile
          /\ rec[r].offered > 0
      BY <2>2, TargetIsOpen
    <3>2. /\ f \in FileType
          /\ f \in HalfOpened(r) => ~rec[r].handle
          /\ f \in HalfWritten(r) => f.head /\ Range(disk[Target(r)].fresh) \subseteq Range(f.fresh)
      BY <2>2, HalfEffect
    <3>3. disk'[Target(r)] = f /\ \A p \in Part : p # Target(r) => disk'[p] = disk[p]
      BY <1>t, <2>2, <3>1
    <3>4. disk' \in [Part -> FileType]
      BY <1>t, <2>2, <3>2
    <3>5. /\ disk[Target(r)].head => f.head
          /\ Range(disk[Target(r)].fresh) \subseteq Range(f.fresh)
      <4>1. CASE ~rec[r].handle
        <5>1. disk[Target(r)].head = FALSE /\ Range(disk[Target(r)].fresh) = {}
          BY <3>1, <4>1 DEF NoFile, Range
        <5> QED
          BY <5>1
      <4>2. CASE rec[r].handle
        BY <2>2, <3>2, <4>2
      <4> QED
        BY <4>1, <4>2
    <3>6. Keeps
      BY <3>1, <3>3, <3>5 DEF Keeps, Ready, Files
    <3>7. rec[r].status # "new"
      BY <3>1 DEF OutboxInv, FilesAreFresh
    <3>8. \A s \in Recording : rec[s].status = "new" =>
            \A i \in 0 .. MaxPackets - 1 : <<s, i>> \in Part /\ <<s, i>> # Target(r)
      BY <3>1, <3>7 DEF Part
    <3> QED
      BY <3>3, <3>4, <3>6, <3>8
  <2> QED
    BY <2>1, <2>2 DEF Crash
<1>5. StateOK'
  <2>1. <<>> \in Seq(OpType) /\ IdleDrain \in DrainType
    BY DEF IdleDrain, DrainType
  <2> QED
    BY <1>2, <1>3, <1>4, <2>1 DEF OutboxInv, StateOK
<1>6. ChainIsOrdered'
  <2>1. \A r \in Recording : rec'[r].index <= rec'[r].offered
    BY <1>1 DEF OutboxInv, ChainIsOrdered
  <2>2. DOMAIN queue' = {}
    BY <1>3
  <2> QED
    BY <2>1, <2>2 DEF ChainIsOrdered
<1>7. FilesAreFresh'
  <2> SUFFICES ASSUME NEW s \in Recording
               PROVE  /\ IF rec'[s].status = "new"
                         THEN ~rec'[s].handle /\ rec'[s].index = 0 /\ rec'[s].offered = 0
                         ELSE rec'[s].owner # NoServer
                      /\ ~rec'[s].handle
                      /\ rec'[s].status \in {"new", "open"} \/ rec'[s].offered > 0 =>
                           \A i \in 0 .. MaxPackets - 1 : i >= rec'[s].index => disk'[<<s, i>>] = NoFile
    BY DEF FilesAreFresh
  <2>1. CASE rec[s].status = "new"
    BY <1>1, <1>4, <2>1 DEF OutboxInv, FilesAreFresh
  <2>2. CASE rec[s].status # "new"
    BY <1>1, <2>2 DEF OutboxInv, FilesAreFresh
  <2> QED
    BY <2>1, <2>2
<1>8. Flushes /\ OwnersStay
  BY <1>1, <1>3 DEF Flushes, OwnersStay
<1>9. UploadIsBound'
  <2>1. ASSUME NEW m \in sent PROVE rec'[m[2][1]].status # "new" /\ m[1] = Owner(m[2])'
    <3>1. m[2][1] \in Recording
      BY <2>1 DEF OutboxInv, StateOK, Part
    <3> QED
      BY <2>1, <3>1, <1>8 DEF OutboxInv, UploadIsBound, Owner, OwnersStay
  <2>2. drain'.todo = {}
    BY <1>3 DEF IdleDrain
  <2> QED
    BY <1>3, <2>1, <2>2 DEF UploadIsBound
<1> QED
  BY <1>3, <1>4, <1>5, <1>6, <1>7, <1>8, <1>9 DEF Sound, OutboxInv

\* The delivery pump, up to the deletion.
LEMMA PumpStep ==
  ASSUME OutboxInv,
         \/ TimerFires \/ ListFails \/ PassDone \/ CountPending \/ CountFails
         \/ (\E p \in Part : UploadStart(p)) \/ UploadSend \/ UploadFails
  PROVE  Sound
<1>t. /\ queue \in Seq(OpType) /\ drain \in DrainType /\ conn \in ConnType \cup {NoConn}
      /\ disk \in [Part -> FileType] /\ drain.todo \subseteq Ready(disk)
      /\ paired \in Server \cup {NoServer} /\ alive \in BOOLEAN
  BY DEF OutboxInv, StateOK, UploadIsBound
<1>a. ASSUME UNCHANGED <<alive, paired, rec, disk, conn, flushed, sent, held>>,
             drain' \in DrainType, drain'.todo \subseteq Ready(disk),
             queue' \in Seq(OpType), ChainIsOrdered'
      PROVE  Sound
  <2>1. StateOK'
    BY <1>a DEF OutboxInv, StateOK
  <2>2. UploadIsBound'
    BY <1>a DEF OutboxInv, UploadIsBound, Owner
  <2> QED
    BY <1>a, <2>1, <2>2, PumpEffect
<1>b. ASSUME queue # <<>>, UNCHANGED rec, queue' = Tail(queue)
      PROVE  queue' \in Seq(OpType) /\ ChainIsOrdered'
  BY <1>b, <1>t, ChainTail
<1>c. ASSUME UNCHANGED <<rec, queue>> PROVE queue' \in Seq(OpType) /\ ChainIsOrdered'
  BY <1>c, <1>t, ChainSame
<1>d. ASSUME NEW p \in Part, PartDone(p)
      PROVE  drain' \in DrainType /\ drain'.todo \subseteq Ready(disk) /\ drain'.todo = drain.todo \ {p}
  BY <1>d, <1>t DEF PartDone, DrainType
<1>1. CASE TimerFires
  <2>1. drain' \in DrainType /\ drain'.todo \subseteq Ready(disk)
    BY <1>1, <1>t, RetryEffect DEF TimerFires
  <2> QED
    BY <1>1, <1>a, <1>c, <2>1 DEF TimerFires
<1>2. CASE ListFails
  <2>1. drain' \in DrainType /\ drain'.todo \subseteq Ready(disk)
    BY <1>2, <1>t DEF ListFails, DrainType
  <2> QED
    BY <1>2, <1>a, <1>c, <2>1 DEF ListFails
<1>3. CASE PassDone
  <2>1. drain' \in DrainType /\ drain'.todo \subseteq Ready(disk)
    BY <1>3, <1>t DEF PassDone, DrainType
  <2>2. CountOp \in OpType /\ CountOp.kind = "count"
    BY DEF CountOp, OpType
  <2>3. queue' = Append(queue, CountOp) /\ rec' = rec
    BY <1>3 DEF PassDone
  <2>4. queue' \in Seq(OpType)
    BY <1>t, <2>2, <2>3, AppendProperties
  <2>5. ChainIsOrdered'
    BY <2>2, <2>3, ChainAppend
  <2> QED
    BY <1>3, <1>a, <2>1, <2>4, <2>5 DEF PassDone
<1>4. CASE CountPending
  <2>1. drain' \in DrainType /\ drain'.todo \subseteq Ready(disk)
    <3>1. NewPass(disk) \in DrainType /\ NewPass(disk).todo = Ready(disk)
      BY DEF NewPass, IdleDrain, DrainType, Ready, Files
    <3>2. ASSUME NEW b \in BOOLEAN
          PROVE  /\ [drain EXCEPT !.phase = "idle", !.timer = b] \in DrainType
                 /\ [drain EXCEPT !.phase = "idle", !.timer = b].todo = drain.todo
      BY <1>t DEF DrainType
    <3> DEFINE b == Pending(disk) # {}
    <3>3. b \in BOOLEAN
      OBVIOUS
    <3>4. drain' = NewPass(disk) \/ drain' = [drain EXCEPT !.phase = "idle", !.timer = b]
      BY <1>4, Zenon DEF CountPending
    <3> HIDE DEF b
    <3> QED
      BY <1>t, <3>1, <3>2, <3>3, <3>4
  <2> QED
    BY <1>4, <1>a, <1>b, <2>1 DEF CountPending
<1>5. CASE CountFails
  <2>1. drain' \in DrainType /\ drain'.todo \subseteq Ready(disk)
    BY <1>5, <1>t DEF CountFails, DrainType
  <2> QED
    BY <1>5, <1>a, <1>b, <2>1 DEF CountFails
<1>6. ASSUME NEW p \in Part, UploadStart(p) PROVE Sound
  <2>0. /\ UNCHANGED <<alive, paired, rec, disk, queue, flushed, sent, held>>
        /\ p \in Ready(disk) /\ conn = NoConn
    BY <1>6, <1>t DEF UploadStart
  <2>1. CASE PartDone(p) /\ conn' = conn
    BY <1>a, <1>c, <1>d, <2>0, <2>1
  <2>2. CASE /\ paired = Owner(p) /\ drain' = drain
             /\ conn' = [state |-> "verify", part |-> p, to |-> paired, body |-> Body(disk[p])]
    <3>1. Body(disk[p]) \in BodyType
      BY <1>t DEF Body, FileType, BodyType
    <3>2. paired \in Server
      BY <2>0, <2>2, ReadyIsOwned
    <3>3. conn' \in ConnType
      BY <2>2, <3>1, <3>2 DEF ConnType
    <3>4. /\ conn'.state = "verify" /\ conn'.part = p /\ conn'.body = Body(disk[p])
      BY <2>2
    <3>5. StateOK'
      BY <2>0, <2>2, <3>3 DEF OutboxInv, StateOK
    <3>6. UploadIsBound'
      BY <2>0, <2>2, <3>4 DEF OutboxInv, UploadIsBound, Owner, Ready, Files
    <3> QED
      BY <1>c, <2>0, <3>5, <3>6, PumpEffect
  <2> QED
    BY <1>6, <2>1, <2>2 DEF UploadStart
<1>7. CASE UploadSend
  <2>0. /\ UNCHANGED <<alive, paired, rec, disk, queue, drain, flushed, held>>
        /\ conn # NoConn /\ paired = Owner(conn.part)
        /\ conn' = [conn EXCEPT !.state = "sent", !.to = paired]
        /\ sent' = sent \cup {<<paired, conn.part, conn.body>>}
    BY <1>7 DEF UploadSend
  <2>1. /\ conn \in ConnType /\ conn.part \in Ready(disk) /\ conn.body \in BodyType
        /\ conn.body = Body(disk[conn.part]) /\ conn.part \in Part
    BY <1>t, <2>0 DEF OutboxInv, UploadIsBound, ConnType, Ready, Files
  <2>2. paired \in Server /\ rec[conn.part[1]].status # "new"
    BY <2>0, <2>1, ReadyIsOwned
  <2>3. /\ conn' \in ConnType /\ conn'.state = "sent" /\ conn'.to = paired
        /\ conn'.part = conn.part /\ conn'.body = conn.body
    BY <2>0, <2>1, <2>2 DEF ConnType
  <2>4. StateOK'
    <3>1. sent' \in SUBSET (Server \X Part \X BodyType) /\ held' \in SUBSET sent'
      BY <2>0, <2>1, <2>2 DEF OutboxInv, StateOK
    <3> QED
      BY <2>0, <2>3, <3>1 DEF OutboxInv, StateOK
  <2>5. UploadIsBound'
    <3>1. \A m \in sent' : rec'[m[2][1]].status # "new" /\ m[1] = Owner(m[2])'
      BY <2>0, <2>2 DEF OutboxInv, UploadIsBound, Owner
    <3>2. disk'[conn'.part].st = "ready" /\ conn'.body = Body(disk'[conn'.part])
          /\ conn'.to = Owner(conn.part)'
      BY <2>0, <2>1, <2>3 DEF Owner, Ready, Files
    <3> QED
      BY <1>t, <2>0, <2>3, <3>1, <3>2 DEF UploadIsBound
  <2> QED
    BY <1>c, <2>0, <2>4, <2>5, PumpEffect
<1>8. CASE UploadFails
  <2>0. /\ UNCHANGED <<alive, paired, rec, disk, queue, flushed, sent, held>>
        /\ conn # NoConn /\ PartDone(conn.part) /\ conn' = NoConn
    BY <1>8 DEF UploadFails
  <2>1. drain' \in DrainType /\ drain'.todo \subseteq Ready(disk)
    BY <1>t, <1>d, <2>0 DEF ConnType
  <2>2. StateOK'
    BY <2>0, <2>1 DEF OutboxInv, StateOK
  <2>3. UploadIsBound'
    BY <2>0, <2>1 DEF OutboxInv, UploadIsBound, Owner
  <2> QED
    BY <1>c, <2>0, <2>2, <2>3, PumpEffect
<1> QED
  BY <1>1, <1>2, <1>3, <1>4, <1>5, <1>6, <1>7, <1>8

\* The deletion: the file is the sealed part that the receipt names.
LEMMA DeleteStep ==
  ASSUME OutboxInv, UploadAcked PROVE Sound
<1> DEFINE q == conn.part
<1>1. /\ conn # NoConn /\ conn.state = "receipt" /\ conn' = NoConn
      /\ disk' = [disk EXCEPT ![q] = NoFile] /\ PartDone(q)
      /\ UNCHANGED <<alive, paired, rec, queue, flushed, sent, held>>
  BY DEF UploadAcked
<1>2. /\ q \in Part /\ disk[q].st = "ready" /\ q \in Ready(disk)
      /\ <<Owner(q), q, Body(disk[q])>> \in held
  BY <1>1 DEF OutboxInv, StateOK, ConnType, UploadIsBound, Ready, Files
<1>t. /\ disk \in [Part -> FileType] /\ drain \in DrainType /\ drain.todo \subseteq Ready(disk)
      /\ rec \in [Recording -> RecordingType]
  BY DEF OutboxInv, StateOK, UploadIsBound
<1> HIDE DEF q
<1>3. disk'[q] = NoFile /\ \A p \in Part : p # q => disk'[p] = disk[p]
  BY <1>1, <1>2, <1>t
<1>4. NoFile \in FileType
  BY DEF NoFile, FileType
<1>5. disk' \in [Part -> FileType]
  BY <1>1, <1>4, <1>t
<1>6. drain' \in DrainType /\ drain'.todo \subseteq Ready(disk')
  <2>1. drain' \in DrainType /\ drain'.todo = drain.todo \ {q}
    BY <1>1, <1>2, <1>t DEF PartDone, DrainType
  <2> QED
    BY <1>3, <1>t, <2>1 DEF Ready, Files
<1>7. StateOK'
  BY <1>1, <1>5, <1>6 DEF OutboxInv, StateOK
<1>8. ChainIsOrdered'
  BY <1>1, ChainSame
<1>9. FilesAreFresh'
  <2>1. ASSUME NEW r \in Recording, rec[r].handle
        PROVE  disk'[Current(r)] = disk[Current(r)]
    <3>1. disk[Current(r)].st = "part" /\ rec[r].index > 0
      BY <2>1 DEF OutboxInv, FilesAreFresh
    <3>2. rec[r].index <= rec[r].offered /\ rec[r].index \in Nat /\ rec[r].offered \in 0 .. MaxPackets
      BY <1>t DEF OutboxInv, ChainIsOrdered, RecordingType
    <3>3. Current(r) \in Part
      BY <3>1, <3>2, OutboxAssumption DEF Current, Part
    <3> QED
      BY <1>2, <1>3, <3>1, <3>3
  <2>2. \A r \in Recording, i \in 0 .. MaxPackets - 1 :
          disk[<<r, i>>] = NoFile => disk'[<<r, i>>] = NoFile
    BY <1>3 DEF Part
  <2>3. \A r \in Recording : Current(r)' = Current(r)
    BY <1>1 DEF Current
  <2> QED
    BY <1>1, <2>1, <2>2, <2>3 DEF OutboxInv, FilesAreFresh
<1>10. UploadIsBound'
  BY <1>1, <1>6 DEF OutboxInv, UploadIsBound, Owner
<1>11. Acknowledged /\ Flushes /\ OwnersStay
  BY <1>1, <1>2 DEF Acknowledged, Flushes, OwnersStay
<1> QED
  BY <1>1, <1>7, <1>8, <1>9, <1>10, <1>11 DEF Sound, OutboxInv

\* The servers: an acknowledgement is for the request that was sent.
LEMMA ServerStep ==
  ASSUME OutboxInv, ServerStores \/ ServerRefuses PROVE Sound
<1>1. UNCHANGED <<alive, paired, rec, disk, queue, drain, flushed, sent>>
  BY DEF ServerStores, ServerRefuses
<1>2. ChainIsOrdered'
  BY <1>1, ChainSame
<1>3. ASSUME conn # NoConn
      PROVE  conn \in ConnType /\ disk[conn.part].st = "ready" /\ conn.body = Body(disk[conn.part])
  BY <1>3 DEF OutboxInv, StateOK, UploadIsBound
<1>4. CASE ServerStores
  <2>1. PICK m \in sent :
          /\ held' = held \cup {m}
          /\ \/ conn' = conn
             \/ /\ conn # NoConn /\ conn.state = "sent" /\ <<conn.to, conn.part, conn.body>> = m
                /\ conn' = [conn EXCEPT !.state = "receipt"]
    BY <1>4 DEF ServerStores
  <2>2. CASE conn' = conn
    <3>1. StateOK'
      BY <1>1, <2>1, <2>2 DEF OutboxInv, StateOK
    <3>2. UploadIsBound'
      BY <1>1, <2>1, <2>2 DEF OutboxInv, UploadIsBound, Owner
    <3> QED
      BY <1>1, <1>2, <2>1, <3>1, <3>2, PumpEffect
  <2>3. CASE /\ conn # NoConn /\ conn.state = "sent" /\ <<conn.to, conn.part, conn.body>> = m
             /\ conn' = [conn EXCEPT !.state = "receipt"]
    <3>1. /\ conn' \in ConnType /\ conn'.state = "receipt" /\ conn'.part = conn.part
          /\ conn'.body = conn.body
      BY <1>3, <2>3 DEF ConnType
    <3>2. conn.to = Owner(conn.part)
      BY <2>3 DEF OutboxInv, UploadIsBound
    <3>3. StateOK'
      BY <1>1, <2>1, <3>1 DEF OutboxInv, StateOK
    <3>4. UploadIsBound'
      BY <1>1, <1>3, <2>1, <2>3, <3>1, <3>2 DEF OutboxInv, UploadIsBound, Owner
    <3> QED
      BY <1>1, <1>2, <2>1, <3>3, <3>4, PumpEffect
  <2> QED
    BY <2>1, <2>2, <2>3
<1>5. CASE ServerRefuses
  <2>1. conn # NoConn /\ conn' = [conn EXCEPT !.state = "error"] /\ held' = held
    BY <1>5 DEF ServerRefuses
  <2>2. conn' \in ConnType /\ conn'.state = "error" /\ conn'.part = conn.part /\ conn'.body = conn.body
    BY <1>3, <2>1 DEF ConnType
  <2>3. StateOK'
    BY <1>1, <2>1, <2>2 DEF OutboxInv, StateOK
  <2>4. UploadIsBound'
    BY <1>1, <1>3, <2>1, <2>2 DEF OutboxInv, UploadIsBound, Owner
  <2> QED
    BY <1>1, <1>2, <2>1, <2>3, <2>4, PumpEffect
<1> QED
  BY <1>4, <1>5

\* Every step of the specification, and every stuttering step, is sound.
LEMMA NextIsSound ==
  ASSUME OutboxInv, [Next]_vars PROVE Sound
<1>1. CASE Start
  BY <1>1, StartStep
<1>2. CASE Calls
  BY <1>2, CallStep
<1>3. ASSUME NEW r \in Recording, Journal(r) PROVE Sound
  <2>1. ChainEffect(r)
    BY <1>3, JournalEffect
  <2>2. held' = held
    BY <2>1 DEF ChainEffect
  <2> QED
    BY <2>1, <2>2, JournalStep DEF Sound
<1>4. CASE Pump
  BY <1>4, PumpStep, DeleteStep DEF Pump
<1>5. CASE Crash
  BY <1>5, CrashStep
<1>6. CASE ServerStores \/ ServerRefuses
  BY <1>6, ServerStep
<1>7. CASE UNCHANGED vars
  <2>1. UNCHANGED <<alive, paired, rec, disk, queue, drain, conn, flushed, sent, held>>
    BY <1>7 DEF vars
  <2>2. StateOK' /\ UploadIsBound'
    BY <2>1 DEF OutboxInv, StateOK, UploadIsBound, Owner
  <2>3. ChainIsOrdered'
    BY <2>1, ChainSame
  <2> QED
    BY <2>1, <2>2, <2>3, PumpEffect
<1> QED
  BY <1>1, <1>2, <1>3, <1>4, <1>5, <1>6, <1>7 DEF Next, PhoneNext

-----------------------------------------------------------------------------
(* A part that was sealed once is never written again: its index is used    *)
(* up, or its recording did not survive a crash.                            *)

Retired(p) ==
  \/ rec[p[1]].status = "closed" /\ rec[p[1]].offered = 0
  \/ p[2] < rec[p[1]].index

\* What the phone has sent of a part is what the sealed file holds, or the
\* file is gone for good; all requests for a part carry the same body.
SentIsSettled ==
  \A m \in sent :
    /\ \/ m[2] \in Ready(disk) /\ m[3] = Body(disk[m[2]])
       \/ disk[m[2]] = NoFile /\ Retired(m[2])
    /\ \A k \in sent : k[2] = m[2] => k[3] = m[3]

\* No step brings a retired part back.
Settles == \A p \in Part : disk[p] = NoFile /\ Retired(p) => disk'[p] = NoFile /\ Retired(p)'

\* No step sends anything but the body of a sealed part.
SendsSealed ==
  \A m \in sent' : m \in sent \/ (m[2] \in Ready(disk) /\ m[3] = Body(disk[m[2]]) /\ disk' = disk)

\* A sealed part is a retired one.
LEMMA ReadyIsRetired ==
  ASSUME OutboxInv, NEW p \in Ready(disk) PROVE Retired(p)
<1>1. p \in Part /\ disk[p].st = "ready"
  BY DEF Ready, Files
<1>2. p[1] \in Recording /\ p[2] \in 0 .. MaxPackets - 1 /\ p = <<p[1], p[2]>>
  BY <1>1 DEF Part
<1>3. disk[<<p[1], p[2]>>] # NoFile
  BY <1>1, <1>2 DEF NoFile
<1>4. rec[p[1]].index \in Nat /\ rec[p[1]].offered \in 0 .. MaxPackets
      /\ rec[p[1]].status \in {"new", "open", "closed"}
  BY <1>2 DEF OutboxInv, StateOK, RecordingType
<1>5. rec[p[1]].status \in {"new", "open"} \/ rec[p[1]].offered > 0 => ~(p[2] >= rec[p[1]].index)
  BY <1>2, <1>3 DEF OutboxInv, FilesAreFresh
<1> QED
  BY <1>2, <1>4, <1>5, OutboxAssumption DEF Retired

\* An add never writes to a retired part whose file is gone.
LEMMA TargetIsNotRetired ==
  ASSUME OutboxInv, NEW r \in Recording, Writes(r)
  PROVE  ~(disk[Target(r)] = NoFile /\ Retired(Target(r)))
<1>1. /\ Target(r)[1] = r /\ Target(r)[2] = Index(r) - 1 /\ rec[r].offered > 0
  BY TargetIsOpen
<1>2. rec[r].index \in Nat /\ rec[r].offered \in 0 .. MaxPackets
  BY DEF OutboxInv, StateOK, RecordingType
<1>3. CASE rec[r].handle
  <2>1. disk[Current(r)].st = "part" /\ Target(r) = Current(r)
    BY <1>3 DEF OutboxInv, FilesAreFresh, Target
  <2> QED
    BY <2>1 DEF NoFile
<1>4. CASE ~rec[r].handle
  <2>1. Index(r) = rec[r].index + 1
    BY <1>4 DEF Index
  <2> QED
    BY <1>1, <1>2, <2>1, OutboxAssumption DEF Retired
<1> QED
  BY <1>3, <1>4

\* The operations of the chain bring no retired part back.
LEMMA JournalSettles ==
  ASSUME OutboxInv, NEW r \in Recording, ChainEffect(r) PROVE Settles
<1>t. disk \in [Part -> FileType] /\ rec[r].index \in Nat /\ rec'[r].index \in Nat
  BY DEF OutboxInv, StateOK, RecordingType, ChainEffect
<1>1. rec'[r].index >= rec[r].index
  <2>1. Writes(r) => Index(r) >= rec[r].index
    BY <1>t, TargetIsOpen
  <2> QED
    BY <1>t, <2>1 DEF ChainEffect, Kept, Sealed, Written
<1>2. ASSUME NEW p \in Part, Retired(p) PROVE Retired(p)'
  <2>1. p[1] \in Recording /\ p[2] \in Nat
    BY DEF Part
  <2>2. /\ rec'[p[1]].status = rec[p[1]].status /\ rec'[p[1]].offered = rec[p[1]].offered
        /\ p[1] # r => rec'[p[1]] = rec[p[1]]
    BY <2>1 DEF ChainEffect
  <2> QED
    BY <1>1, <1>2, <1>t, <2>1, <2>2 DEF Retired
<1>3. ASSUME NEW p \in Part, Retired(p), disk[p] = NoFile PROVE disk'[p] = NoFile
  <2>1. CASE Kept(r)
    BY <1>3, <2>1 DEF Kept
  <2>2. CASE Sealed(r)
    <3>1. disk[Current(r)].st = "part" /\ disk' = [disk EXCEPT ![Current(r)].st = "ready"]
      BY <2>2 DEF Sealed, OutboxInv, FilesAreFresh
    <3>2. p # Current(r)
      BY <1>3, <3>1 DEF NoFile
    <3> QED
      BY <1>3, <1>t, <3>1, <3>2
  <2>3. CASE Written(r)
    <3>1. PICK f \in FileType : disk' = [disk EXCEPT ![Target(r)] = f]
      BY <2>3 DEF Written
    <3>2. p # Target(r)
      BY <1>3, <2>3, TargetIsNotRetired DEF Written
    <3> QED
      BY <1>3, <1>t, <3>1, <3>2
  <2> QED
    BY <2>1, <2>2, <2>3 DEF ChainEffect
<1> QED
  BY <1>2, <1>3 DEF Settles

\* Nor does any other step.
LEMMA NextSettles ==
  ASSUME OutboxInv, [Next]_vars PROVE Settles /\ SendsSealed
<1>t. rec \in [Recording -> RecordingType] /\ disk \in [Part -> FileType]
  BY DEF OutboxInv, StateOK
<1>p. \A p \in Part : p[1] \in Recording
  BY DEF Part
<1>a. ASSUME UNCHANGED rec, \A p \in Part : disk[p] = NoFile => disk'[p] = NoFile PROVE Settles
  BY <1>a DEF Settles, Retired
<1>b. ASSUME UNCHANGED sent PROVE SendsSealed
  BY <1>b DEF SendsSealed
<1>1. CASE Start
  <2>1. \A p \in Part : disk[p] = NoFile => disk'[p] = NoFile
    <3>1. \A p \in Part : disk'[p] \in {disk[p], Recovered(disk[p])}
      BY <1>1 DEF Start
    <3> QED
      BY <1>t, <3>1, RecoveredEffect
  <2> QED
    BY <1>1, <1>a, <1>b, <2>1 DEF Start
<1>2. CASE Calls
  <2>1. ASSUME NEW r \in Recording, Begin(r) \/ Add(r) \/ Stop(r) PROVE Settles /\ SendsSealed
    <3>1. disk' = disk /\ sent' = sent /\ rec[r].status # "closed"
      BY <2>1 DEF Begin, Add, Stop
    <3>2. PICK x \in {[rec[r] EXCEPT !.status = "open", !.owner = paired],
                      [rec[r] EXCEPT !.offered = @ + 1], [rec[r] EXCEPT !.status = "closed"]} :
            rec' = [rec EXCEPT ![r] = x]
      BY <2>1, Zenon DEF Begin, Add, Stop
    <3>3. x.index = rec[r].index
      BY <1>t DEF RecordingType
    <3>4. rec'[r] = x /\ \A s \in Recording : s # r => rec'[s] = rec[s]
      BY <1>t, <3>2
    <3> QED
      BY <1>b, <1>p, <3>1, <3>3, <3>4 DEF Settles, Retired
  <2>2. CASE RecoverConnection
    BY <2>2, <1>a, <1>b DEF RecoverConnection
  <2>3. ASSUME NEW s \in Server \cup {NoServer}, Pair(s) PROVE Settles /\ SendsSealed
    BY <2>3, <1>a, <1>b DEF Pair
  <2> QED
    BY <1>2, <2>1, <2>2, <2>3 DEF Calls
<1>3. ASSUME NEW r \in Recording, Journal(r) PROVE Settles /\ SendsSealed
  <2>1. ChainEffect(r)
    BY <1>3, JournalEffect
  <2>2. sent' = sent
    BY <2>1 DEF ChainEffect
  <2> QED
    BY <1>b, <2>1, <2>2, JournalSettles
<1>4. CASE Pump
  <2>1. CASE TimerFires \/ ListFails \/ PassDone \/ CountPending \/ CountFails \/ UploadFails
    BY <2>1, <1>a, <1>b DEF TimerFires, ListFails, PassDone, CountPending, CountFails, UploadFails
  <2>2. ASSUME NEW p \in Part, UploadStart(p) PROVE Settles /\ SendsSealed
    BY <2>2, <1>a, <1>b DEF UploadStart
  <2>3. CASE UploadSend
    <3>1. /\ conn # NoConn /\ sent' = sent \cup {<<paired, conn.part, conn.body>>}
          /\ UNCHANGED <<rec, disk>>
      BY <2>3 DEF UploadSend
    <3>2. conn.part \in Ready(disk) /\ conn.body = Body(disk[conn.part])
      BY <3>1 DEF OutboxInv, StateOK, ConnType, UploadIsBound, Ready, Files
    <3> QED
      BY <1>a, <3>1, <3>2 DEF SendsSealed
  <2>4. CASE UploadAcked
    <3>1. disk' = [disk EXCEPT ![conn.part] = NoFile] /\ UNCHANGED <<rec, sent>>
      BY <2>4 DEF UploadAcked
    <3>2. \A p \in Part : disk[p] = NoFile => disk'[p] = NoFile
      BY <1>t, <3>1
    <3> QED
      BY <1>a, <1>b, <3>1, <3>2
  <2> QED
    BY <1>4, <2>1, <2>2, <2>3, <2>4 DEF Pump
<1>5. CASE Crash
  <2>1. sent' = sent
    BY <1>5 DEF Crash
  <2>2. ASSUME NEW p \in Part, Retired(p) PROVE Retired(p)'
    <3>1. rec'[p[1]] = IF rec[p[1]].status = "new" THEN rec[p[1]]
                       ELSE [NewRecording EXCEPT !.status = "closed", !.owner = rec[p[1]].owner,
                                                 !.failed = rec[p[1]].failed]
      BY <1>5, <1>p DEF Crash
    <3>2. rec[p[1]].status # "new" => rec'[p[1]].status = "closed" /\ rec'[p[1]].offered = 0
      BY <3>1 DEF NewRecording
    <3> QED
      BY <2>2, <3>1, <3>2 DEF Retired
  <2>3. ASSUME NEW p \in Part, Retired(p), disk[p] = NoFile PROVE disk'[p] = NoFile
    <3>1. CASE disk' = disk
      BY <2>3, <3>1
    <3>2. ASSUME NEW r \in Recording, Writes(r), NEW f, disk' = [disk EXCEPT ![Target(r)] = f]
          PROVE  disk'[p] = NoFile
      <4>1. p # Target(r)
        BY <2>3, <3>2, TargetIsNotRetired
      <4> QED
        BY <1>t, <2>3, <3>2, <4>1
    <3> QED
      BY <1>5, <3>1, <3>2 DEF Crash
  <2> QED
    BY <1>b, <2>1, <2>2, <2>3 DEF Settles
<1>6. CASE ServerStores \/ ServerRefuses
  BY <1>6, <1>a, <1>b DEF ServerStores, ServerRefuses
<1>7. CASE UNCHANGED vars
  BY <1>7, <1>a, <1>b DEF vars
<1> QED
  BY <1>1, <1>2, <1>3, <1>4, <1>5, <1>6, <1>7 DEF Next, PhoneNext

\* What was sent stays settled.
LEMMA SettledStep ==
  ASSUME OutboxInv, SentIsSettled, [Next]_vars PROVE SentIsSettled'
<1>1. Sound /\ Settles /\ SendsSealed
  BY NextIsSound, NextSettles
<1>t. disk \in [Part -> FileType] /\ \A m \in sent' : m[2] \in Part
  BY <1>1 DEF Sound, OutboxInv, StateOK
<1>2. ASSUME NEW p \in Ready(disk)
      PROVE  \/ p \in Ready(disk') /\ disk'[p] = disk[p]
             \/ disk'[p] = NoFile /\ Retired(p)'
  <2>1. p \in Part /\ disk[p].st = "ready"
    BY DEF Ready, Files
  <2>2. CASE Keeps
    BY <2>1, <2>2 DEF Keeps, Ready, Files
  <2>3. CASE Acknowledged
    <3>1. PICK q \in Ready(disk) : disk' = [disk EXCEPT ![q] = NoFile] /\ rec' = rec
      BY <2>3 DEF Acknowledged
    <3>2. CASE p # q
      BY <1>t, <2>1, <3>1, <3>2 DEF Ready, Files
    <3>3. CASE p = q
      <4>1. disk'[p] = NoFile
        BY <1>t, <2>1, <3>1, <3>3
      <4> QED
        BY <3>1, <4>1, ReadyIsRetired DEF Retired
    <3> QED
      BY <3>2, <3>3
  <2> QED
    BY <1>1, <2>2, <2>3 DEF Sound
<1>3. ASSUME NEW m \in sent'
      PROVE  \/ m[2] \in Ready(disk') /\ m[3] = Body(disk'[m[2]])
             \/ disk'[m[2]] = NoFile /\ Retired(m[2])'
  <2>1. CASE m[2] \in Ready(disk) /\ m[3] = Body(disk[m[2]])
    BY <1>2, <2>1
  <2>2. CASE disk[m[2]] = NoFile /\ Retired(m[2])
    BY <1>1, <1>t, <2>2 DEF Settles
  <2> QED
    BY <1>1, <2>1, <2>2 DEF SentIsSettled, SendsSealed
<1>4. ASSUME NEW m \in sent', NEW k \in sent', k[2] = m[2] PROVE k[3] = m[3]
  <2>1. \A x \in sent' : x \in sent \/ (x[2] \in Ready(disk) /\ x[3] = Body(disk[x[2]]))
    BY <1>1 DEF SendsSealed
  <2>2. \A x \in sent : x[2] \in Ready(disk) => x[3] = Body(disk[x[2]])
    BY DEF SentIsSettled, Ready, Files, NoFile
  <2>3. CASE m[2] \in Ready(disk)
    BY <1>4, <2>1, <2>2, <2>3
  <2>4. CASE m[2] \notin Ready(disk)
    BY <1>4, <2>1, <2>4 DEF SentIsSettled
  <2> QED
    BY <2>3, <2>4
<1> QED
  BY <1>3, <1>4 DEF SentIsSettled

-----------------------------------------------------------------------------
(* Theorems. *)

\* The inductive invariant holds initially.
LEMMA InitIsSound ==
  ASSUME Init PROVE OutboxInv /\ SentIsSettled /\ FlushedIsKept
<1> USE OutboxAssumption
<1>1. NewRecording \in RecordingType /\ NewRecording.status = "new" /\ NewRecording.handle = FALSE
      /\ NewRecording.index = 0 /\ NewRecording.offered = 0
  <2>1. <<>> \in Seq(Packet)
    OBVIOUS
  <2> QED
    BY <2>1 DEF NewRecording, RecordingType
<1>2. NoFile \in FileType /\ IdleDrain \in DrainType /\ IdleDrain.todo = {} /\ <<>> \in Seq(OpType)
  BY DEF NoFile, FileType, IdleDrain, DrainType
<1>3. \A r \in Recording : rec[r] = NewRecording
  BY DEF Init
<1>4. StateOK
  BY <1>1, <1>2 DEF Init, StateOK
<1>5. ChainIsOrdered
  <2>1. DOMAIN queue = {}
    BY DEF Init
  <2> QED
    BY <1>1, <1>3, <2>1 DEF ChainIsOrdered
<1>6. FilesAreFresh
  BY <1>1, <1>3 DEF Init, FilesAreFresh, Part
<1>7. UploadIsBound
  BY <1>2 DEF Init, UploadIsBound
<1> QED
  BY <1>4, <1>5, <1>6, <1>7 DEF OutboxInv, SentIsSettled, FlushedIsKept, Init

\* The invariant from which the theorems about the outbox follow.
THEOREM OutboxIsSound == Spec => [](OutboxInv /\ SentIsSettled)
<1>1. Init => OutboxInv /\ SentIsSettled
  BY InitIsSound
<1>2. OutboxInv /\ SentIsSettled /\ [Next]_vars => OutboxInv' /\ SentIsSettled'
  BY NextIsSound, SettledStep DEF Sound
<1> QED
  BY <1>1, <1>2, PTL DEF Spec

\* Audio is sent only to the server its recording was bound to, however the
\* pairing changes while the capability check is awaited.
THEOREM AudioGoesToItsOwner == Spec => []OnlyToOwner
<1>1. OutboxInv => OnlyToOwner
  BY DEF OutboxInv, UploadIsBound, OnlyToOwner
<1> QED
  BY <1>1, OutboxIsSound, PTL

\* A sealed part is never changed by a write, a recovery or a crash, and is
\* deleted only when its server has acknowledged exactly its bytes.
THEOREM SealedPartsAreImmutable == Spec => SealedIsImmutable
<1>1. ASSUME OutboxInv, [Next]_vars, NEW p \in Ready(disk)
      PROVE  \/ disk'[p] = disk[p]
             \/ disk'[p] = NoFile /\ <<Owner(p), p, Body(disk[p])>> \in held
  <2>1. p \in Part /\ disk \in [Part -> FileType]
    BY <1>1 DEF Ready, Files, OutboxInv, StateOK
  <2>2. Keeps \/ Acknowledged
    BY <1>1, NextIsSound DEF Sound
  <2>3. CASE Keeps
    BY <1>1, <2>1, <2>3 DEF Keeps
  <2>4. CASE Acknowledged
    <3>1. PICK q \in Ready(disk) : /\ <<Owner(q), q, Body(disk[q])>> \in held
                                   /\ disk' = [disk EXCEPT ![q] = NoFile]
      BY <2>4 DEF Acknowledged
    <3>2. CASE p = q
      <4>1. disk'[p] = NoFile
        BY <2>1, <3>1, <3>2
      <4> QED
        BY <3>1, <3>2, <4>1
    <3>3. CASE p # q
      BY <2>1, <3>1, <3>3
    <3> QED
      BY <3>2, <3>3
  <2> QED
    BY <2>2, <2>3, <2>4
<1>2. OutboxInv /\ [Next]_vars =>
        [\A p \in Ready(disk) :
           \/ disk'[p] = disk[p]
           \/ disk'[p] = NoFile /\ <<Owner(p), p, Body(disk[p])>> \in held]_vars
  BY <1>1
<1> QED
  BY <1>2, OutboxIsSound, PTL DEF Spec, SealedIsImmutable

\* All bodies of a part that exist, on the phone or acknowledged by a server,
\* are the same one, across retries, lost acknowledgements and restarts.
THEOREM RetriesCarryTheSameBytes == Spec => []RetriesAreIdentical
<1>1. ASSUME OutboxInv, SentIsSettled, NEW p \in Part PROVE Cardinality(SealedBodies(p)) <= 1
  <2>1. held \subseteq sent
    BY <1>1 DEF OutboxInv, StateOK
  <2>2. \A h \in held : h[2] = p /\ p \in Ready(disk) => h[3] = Body(disk[p])
    BY <1>1, <2>1 DEF SentIsSettled, Ready, Files, NoFile
  <2>3. \A h, k \in held : h[2] = p /\ k[2] = p => h[3] = k[3]
    BY <1>1, <2>1 DEF SentIsSettled
  <2>4. \A b \in SealedBodies(p) : \/ p \in Ready(disk) /\ b = Body(disk[p])
                                   \/ \E h \in held : h[2] = p /\ b = h[3]
    BY DEF SealedBodies
  <2>5. \A b, c \in SealedBodies(p) : b = c
    BY <2>2, <2>3, <2>4
  <2>6. CASE SealedBodies(p) = {}
    BY <2>6, FS_EmptySet
  <2>7. CASE SealedBodies(p) # {}
    <3>1. PICK b \in SealedBodies(p) : TRUE
      BY <2>7
    <3>2. SealedBodies(p) = {b}
      BY <2>5, <3>1
    <3>3. Cardinality({b}) = 1
      BY FS_Singleton
    <3> QED
      BY <3>2, <3>3
  <2> QED
    BY <2>6, <2>7
<1>2. OutboxInv /\ SentIsSettled => RetriesAreIdentical
  BY <1>1 DEF RetriesAreIdentical
<1> QED
  BY <1>2, OutboxIsSound, PTL

\* A flushed packet is kept by every step.
LEMMA KeptStep ==
  ASSUME OutboxInv, FlushedIsKept, [Next]_vars PROVE FlushedIsKept'
<1>1. Sound
  BY NextIsSound
<1>t. disk \in [Part -> FileType] /\ held \subseteq sent
  BY DEF OutboxInv, StateOK
<1> SUFFICES ASSUME NEW r \in Recording, NEW n \in flushed'[r]
             PROVE  \/ \E p \in Part : p[1] = r /\ disk'[p].head /\ n \in Range(disk'[p].fresh)
                    \/ \E h \in held' : h[1] = rec'[r].owner /\ h[2][1] = r /\ n \in Range(h[3].fresh)
  BY DEF FlushedIsKept
<1>2. CASE \E p \in Part : p[1] = r /\ disk'[p].head /\ n \in Range(disk'[p].fresh)
  BY <1>2
<1>3. ASSUME NEW p \in Part, p[1] = r, disk[p].head, n \in Range(disk[p].fresh)
      PROVE  \/ disk'[p].head /\ n \in Range(disk'[p].fresh)
             \/ \E h \in held' : h[1] = rec'[r].owner /\ h[2][1] = r /\ n \in Range(h[3].fresh)
  <2>1. CASE Keeps
    BY <1>3, <2>1 DEF Keeps
  <2>2. CASE Acknowledged
    <3>1. PICK q \in Ready(disk) : /\ <<Owner(q), q, Body(disk[q])>> \in held
                                   /\ disk' = [disk EXCEPT ![q] = NoFile]
      BY <2>2 DEF Acknowledged
    <3>2. CASE p # q
      BY <1>3, <1>t, <3>1, <3>2
    <3>3. CASE p = q
      <4> DEFINE h == <<Owner(q), q, Body(disk[q])>>
      <4>1. h \in held' /\ h[1] = rec[r].owner /\ h[2][1] = r /\ h[3].fresh = disk[p].fresh
        BY <1>1, <1>3, <3>1, <3>3 DEF Sound, Owner, Body
      <4>2. rec'[r].owner = rec[r].owner
        BY <1>1, <1>3, <3>3, ReadyIsOwned DEF Sound, OwnersStay
      <4> HIDE DEF h
      <4> QED
        BY <1>3, <4>1, <4>2
    <3> QED
      BY <3>2, <3>3
  <2> QED
    BY <1>1, <2>1, <2>2 DEF Sound
<1>4. ASSUME NEW h \in held, h[1] = rec[r].owner, h[2][1] = r, n \in Range(h[3].fresh)
      PROVE  h \in held' /\ h[1] = rec'[r].owner
  <2>1. rec[r].status # "new"
    BY <1>4, <1>t DEF OutboxInv, UploadIsBound
  <2> QED
    BY <1>1, <1>4, <2>1 DEF Sound, OwnersStay
<1>5. CASE n \in flushed[r]
  BY <1>3, <1>4, <1>5 DEF FlushedIsKept
<1> QED
  BY <1>1, <1>2, <1>5 DEF Sound, Flushes

\* No packet whose flush has returned is ever lost, whatever fails or crashes:
\* a journal of the phone holds it, or its server has acknowledged it.
THEOREM FlushedPacketsAreKept == Spec => []FlushedIsKept
<1>1. Init => FlushedIsKept
  BY InitIsSound
<1>2. OutboxInv /\ FlushedIsKept /\ [Next]_vars => FlushedIsKept'
  BY KeptStep
<1> QED
  BY <1>1, <1>2, OutboxIsSound, PTL DEF Spec
=============================================================================
