------------------------ MODULE PhoneOutboxContents ------------------------
(***************************************************************************)
(* What the parts of a recording contain, for any recordings, limits and   *)
(* faults: every sealed part is one the server accepts, and the parts of a *)
(* recording hold its packets in order.                                    *)
(*                                                                         *)
(* Whether a part is acceptable is decided long before it is sealed: by    *)
(* the packets that wait on the chain (none is skipped while the recording *)
(* can still write), by the decoder context kept from the part before, and *)
(* by counters that have to agree with the file.  A part sealed by the     *)
(* recovery after a crash was left by any of these.                        *)
(***************************************************************************)
EXTENDS PhoneOutboxProofs

\* The recording can still write: it has not failed and no crash closed it.
Live(r) == ~rec[r].failed /\ (rec[r].status \in {"new", "open"} \/ rec[r].offered > 0)

\* The packets of recording r that wait on the chain.
Waiting(r) == {queue[i].n : i \in {j \in DOMAIN queue : IsAdd(j, r)}}

\* Packet n is in part p, on the phone or in a request it has sent.
Holds(p, n) ==
  n \in Range(disk[p].fresh) \/ \E m \in sent : m[2] = p /\ n \in Range(m[3].fresh)

\* No packet is skipped: what was offered is flushed or waits, in this order,
\* and the files hold what was flushed.
NoGaps(r) ==
  /\ \A n \in flushed[r] : n <= rec[r].offered
  /\ \A n \in 1 .. rec[r].offered : n \in flushed[r] \/ n \in Waiting(r)
  /\ \A n \in flushed[r], m \in Waiting(r) : n < m
  /\ \A p \in Part, n \in Packet : p[1] = r /\ Holds(p, n) => n \in flushed[r]

Consecutive(s) == \A i \in 1 .. Len(s) - 1 : s[i + 1] = s[i] + 1

\* The sequence ends with the last packet flushed.
EndsFlushed(s, r) == s[Len(s)] \in flushed[r] /\ \A n \in flushed[r] : n <= s[Len(s)]

\* The decoder context directly precedes the next packet.
RingIsCurrent(r) ==
  /\ Len(rec[r].ring) <= Preroll /\ Consecutive(rec[r].ring)
  /\ rec[r].ring # <<>> => r \in Opus /\ rec[r].index > 0 /\ EndsFlushed(rec[r].ring, r)

\* The counters of an open journal agree with its file.
JournalIsCounted(r) ==
  rec[r].handle =>
    LET f == disk[Current(r)]
    IN  /\ ~f.torn /\ f.fresh # <<>> /\ EndsFlushed(f.fresh, r)
        /\ Len(f.fresh) = rec[r].audio /\ Len(f.pre) + Len(f.fresh) = rec[r].count

RecordingIsSound(r) == Live(r) => NoGaps(r) /\ RingIsCurrent(r) /\ JournalIsCounted(r)

\* What parse_part() and validate_preroll() want of the body of part p.
BodyIsSound(p, b) ==
  /\ Len(b.fresh) <= PartAudio /\ Len(b.pre) + Len(b.fresh) <= PartPackets
  /\ b.pre # <<>> => p[1] \in Opus /\ p[2] > 0 /\ Len(b.pre) = Preroll
  /\ Consecutive(b.pre) /\ Consecutive(b.fresh)
  /\ b.pre # <<>> => b.fresh[1] = b.pre[Len(b.pre)] + 1

\* A file with a fresh packet is sound, and a sealed one is complete.
FileIsSound(p, f) ==
  /\ f.fresh # <<>> => f.head /\ BodyIsSound(p, Body(f))
  /\ f.st = "ready" => f.head /\ ~f.torn /\ f.fresh # <<>>

\* So is every body that was sent.
SentIsSound == \A m \in sent : m[3].fresh # <<>> /\ BodyIsSound(m[2], m[3])

\* A later part holds later packets.
PartsInOrder ==
  \A p, q \in Part : p[1] = q[1] /\ p[2] < q[2] =>
    \A m, n \in Packet : Holds(p, m) /\ Holds(q, n) => m < n

ContentsInv ==
  /\ \A r \in Recording : RecordingIsSound(r)
  /\ \A p \in Part : FileIsSound(p, disk[p])
  /\ SentIsSound /\ PartsInOrder

-----------------------------------------------------------------------------
(* Sequences. *)

\* A next packet behind consecutive ones.
LEMMA ConsecutiveAppend ==
  ASSUME NEW s \in Seq(Packet), NEW n \in Packet, Consecutive(s), s # <<>> => n = s[Len(s)] + 1
  PROVE  /\ Append(s, n) \in Seq(Packet) /\ Append(s, n) # <<>>
         /\ Len(Append(s, n)) = Len(s) + 1 /\ Append(s, n)[Len(s) + 1] = n
         /\ Consecutive(Append(s, n))
         /\ Append(s, n)[1] = IF s = <<>> THEN n ELSE s[1]
<1>1. /\ Append(s, n) \in Seq(Packet) /\ Len(Append(s, n)) = Len(s) + 1 /\ Len(s) \in Nat
      /\ Append(s, n)[Len(s) + 1] = n /\ \A i \in 1 .. Len(s) : Append(s, n)[i] = s[i]
  BY AppendProperties, LenProperties
<1>2. ASSUME NEW i \in 1 .. Len(s) PROVE Append(s, n)[i + 1] = Append(s, n)[i] + 1
  <2>1. CASE i = Len(s)
    BY <1>1, <2>1
  <2>2. CASE i # Len(s)
    <3>1. i \in 1 .. Len(s) - 1 /\ i + 1 \in 1 .. Len(s)
      BY <1>1, <2>2
    <3> QED
      BY <1>1, <3>1 DEF Consecutive
  <2> QED
    BY <2>1, <2>2
<1>3. Consecutive(Append(s, n))
  BY <1>1, <1>2 DEF Consecutive
<1>4. Append(s, n)[1] = IF s = <<>> THEN n ELSE s[1]
  <2>1. CASE s = <<>>
    BY <1>1, <2>1
  <2>2. CASE s # <<>>
    BY <1>1, <2>2, EmptySeq
  <2> QED
    BY <2>1, <2>2
<1>5. Append(s, n) # <<>>
  BY <1>1, EmptySeq
<1> QED
  BY <1>1, <1>3, <1>4, <1>5

\* Forgetting the oldest packet.
LEMMA ConsecutiveTail ==
  ASSUME NEW s \in Seq(Packet), Consecutive(s), s # <<>>
  PROVE  /\ Tail(s) \in Seq(Packet) /\ Len(Tail(s)) = Len(s) - 1 /\ Consecutive(Tail(s))
         /\ Tail(s) # <<>> => Tail(s)[Len(Tail(s))] = s[Len(s)]
<1>1. /\ Tail(s) \in Seq(Packet) /\ Len(Tail(s)) = Len(s) - 1 /\ Len(s) \in Nat /\ Len(s) > 0
      /\ \A i \in 1 .. Len(s) - 1 : Tail(s)[i] = s[i + 1]
  BY HeadTailProperties, LenProperties, EmptySeq
<1>2. ASSUME NEW i \in 1 .. Len(Tail(s)) - 1 PROVE Tail(s)[i + 1] = Tail(s)[i] + 1
  <2>1. i \in 1 .. Len(s) - 1 /\ i + 1 \in 1 .. Len(s) - 1
    BY <1>1
  <2> QED
    BY <1>1, <2>1 DEF Consecutive
<1>3. Tail(s) # <<>> => Tail(s)[Len(Tail(s))] = s[Len(s)]
  <2>1. Tail(s) # <<>> => Len(Tail(s)) > 0
    BY <1>1, EmptySeq
  <2> QED
    BY <1>1, <2>1
<1> QED
  BY <1>1, <1>2, <1>3 DEF Consecutive

\* What one more element adds to a sequence.
LEMMA AppendRange ==
  ASSUME NEW s \in Seq(Packet), NEW n \in Packet
  PROVE  Range(Append(s, n)) = Range(s) \cup {n}
<1>1. /\ Append(s, n) \in Seq(Packet) /\ Len(Append(s, n)) = Len(s) + 1 /\ Len(s) \in Nat
      /\ Append(s, n)[Len(s) + 1] = n /\ \A i \in 1 .. Len(s) : Append(s, n)[i] = s[i]
  BY AppendProperties, LenProperties
<1>2. DOMAIN s = 1 .. Len(s) /\ DOMAIN Append(s, n) = 1 .. Len(s) + 1
  BY <1>1, LenProperties
<1>3. ASSUME NEW x \in Range(Append(s, n)) PROVE x \in Range(s) \cup {n}
  BY <1>1, <1>2 DEF Range
<1>4. ASSUME NEW x \in Range(s) PROVE x \in Range(Append(s, n))
  <2>1. PICK i \in DOMAIN s : x = s[i]
    BY DEF Range
  <2>2. i \in DOMAIN Append(s, n) /\ Append(s, n)[i] = x
    BY <1>1, <1>2, <2>1
  <2> QED
    BY <2>2 DEF Range
<1>5. n \in Range(Append(s, n))
  <2>1. Len(s) + 1 \in DOMAIN Append(s, n)
    BY <1>1, <1>2
  <2> QED
    BY <1>1, <2>1 DEF Range
<1> QED
  BY <1>3, <1>4, <1>5

-----------------------------------------------------------------------------
(* The chain. *)

\* What waits when an operation is put on the chain.
LEMMA WaitingAppend ==
  ASSUME StateOK, NEW op \in OpType, queue' = Append(queue, op), NEW r \in Recording
  PROVE  Waiting(r)' = IF op.kind = "add" /\ op.r = r THEN Waiting(r) \cup {op.n} ELSE Waiting(r)
<1>1. queue \in Seq(OpType)
  BY DEF StateOK
<1>2. /\ Len(queue) \in Nat /\ DOMAIN queue = 1 .. Len(queue)
      /\ DOMAIN queue' = 1 .. Len(queue) + 1 /\ queue'[Len(queue) + 1] = op
      /\ \A i \in DOMAIN queue : queue'[i] = queue[i]
  BY <1>1, AppendProperties
<1>3. \A i \in DOMAIN queue : IsAdd(i, r)' <=> IsAdd(i, r)
  BY <1>2 DEF IsAdd
<1>4. \A i \in DOMAIN queue' : i = Len(queue) + 1 => (IsAdd(i, r)' <=> op.kind = "add" /\ op.r = r)
  BY <1>2 DEF IsAdd
<1>5. ASSUME NEW n PROVE n \in Waiting(r)' <=> \E i \in DOMAIN queue' : IsAdd(i, r)' /\ queue'[i].n = n
  BY DEF Waiting
<1>6. ASSUME NEW n PROVE n \in Waiting(r) <=> \E i \in DOMAIN queue : IsAdd(i, r) /\ queue[i].n = n
  BY DEF Waiting
<1>7. \A i \in DOMAIN queue' : i \in DOMAIN queue \/ i = Len(queue) + 1
  BY <1>2
<1>8. Len(queue) + 1 \in DOMAIN queue' /\ DOMAIN queue \subseteq DOMAIN queue'
  BY <1>2
<1>9. ASSUME NEW n
      PROVE  n \in Waiting(r)' <=> n \in Waiting(r) \/ (op.kind = "add" /\ op.r = r /\ n = op.n)
  BY <1>2, <1>3, <1>4, <1>5, <1>6, <1>7, <1>8
<1> QED
  BY <1>9

\* What waits when the head operation leaves the chain: an add was the first.
LEMMA WaitingTail ==
  ASSUME OutboxInv, queue # <<>>, queue' = Tail(queue), NEW r \in Recording
  PROVE  /\ ~IsAdd(1, r) => Waiting(r)' = Waiting(r)
         /\ IsAdd(1, r) => /\ Waiting(r)' = Waiting(r) \ {queue[1].n}
                           /\ queue[1].n \in Waiting(r)
                           /\ \A m \in Waiting(r)' : queue[1].n < m
<1>1. queue \in Seq(OpType)
  BY DEF OutboxInv, StateOK
<1>2. /\ Len(queue) \in Nat /\ Len(queue) > 0 /\ DOMAIN queue = 1 .. Len(queue)
      /\ DOMAIN queue' = 1 .. Len(queue) - 1
      /\ \A i \in DOMAIN queue' : i + 1 \in DOMAIN queue /\ queue'[i] = queue[i + 1]
  BY <1>1, HeadTailProperties
<1>3. \A i \in DOMAIN queue' : IsAdd(i, r)' <=> IsAdd(i + 1, r)
  BY <1>2 DEF IsAdd
<1>4. \A i \in DOMAIN queue : i = 1 \/ (i - 1 \in DOMAIN queue' /\ (i - 1) + 1 = i /\ i > 1)
  BY <1>2
<1>5. ASSUME NEW n PROVE n \in Waiting(r)' <=> \E i \in DOMAIN queue' : IsAdd(i, r)' /\ queue'[i].n = n
  BY DEF Waiting
<1>6. ASSUME NEW n PROVE n \in Waiting(r) <=> \E i \in DOMAIN queue : IsAdd(i, r) /\ queue[i].n = n
  BY DEF Waiting
<1>7. ASSUME NEW n
      PROVE  n \in Waiting(r)' <=> \E i \in DOMAIN queue : i > 1 /\ IsAdd(i, r) /\ queue[i].n = n
  <2>1. ASSUME n \in Waiting(r)' PROVE \E i \in DOMAIN queue : i > 1 /\ IsAdd(i, r) /\ queue[i].n = n
    <3>1. PICK i \in DOMAIN queue' : IsAdd(i, r)' /\ queue'[i].n = n
      BY <1>5, <2>1
    <3>2. i + 1 \in DOMAIN queue /\ i + 1 > 1 /\ IsAdd(i + 1, r) /\ queue[i + 1].n = n
      BY <1>2, <1>3, <3>1
    <3> QED
      BY <3>2
  <2>2. ASSUME NEW i \in DOMAIN queue, i > 1, IsAdd(i, r), queue[i].n = n PROVE n \in Waiting(r)'
    <3>1. i - 1 \in DOMAIN queue' /\ (i - 1) + 1 = i
      BY <1>2, <1>4, <2>2
    <3>2. IsAdd(i - 1, r)' /\ queue'[i - 1].n = n
      BY <1>2, <1>3, <2>2, <3>1
    <3> QED
      BY <1>5, <3>1, <3>2
  <2> QED
    BY <2>1, <2>2
<1>8. \A i \in DOMAIN queue : IsAdd(1, r) /\ IsAdd(i, r) /\ i > 1 => queue[1].n < queue[i].n
  BY <1>2 DEF OutboxInv, ChainIsOrdered, IsAdd
<1>9. \A i \in DOMAIN queue : IsAdd(i, r) => queue[i].n \in Nat
  BY <1>1 DEF IsAdd, OpType, Packet
<1>10. 1 \in DOMAIN queue /\ \A i \in DOMAIN queue : i = 1 \/ i > 1
  BY <1>2
<1>11. CASE ~IsAdd(1, r)
  <2>1. ASSUME NEW n PROVE n \in Waiting(r)' <=> n \in Waiting(r)
    BY <1>6, <1>7, <1>10, <1>11
  <2> QED
    BY <1>11, <2>1
<1>12. CASE IsAdd(1, r)
  <2>1. ASSUME NEW n PROVE n \in Waiting(r)' <=> n \in Waiting(r) /\ n # queue[1].n
    BY <1>6, <1>7, <1>8, <1>9, <1>10, <1>12
  <2>2. queue[1].n \in Waiting(r)
    BY <1>6, <1>10, <1>12
  <2>3. \A m \in Waiting(r)' : queue[1].n < m
    BY <1>7, <1>8, <1>12
  <2> QED
    BY <1>12, <2>1, <2>2, <2>3
<1> QED
  BY <1>11, <1>12

-----------------------------------------------------------------------------
(* Steps that write no packet. *)

\* A step that the contents of a recording do not notice.
Rests(r) ==
  Live(r)' =>
    /\ Live(r)
    /\ rec'[r].offered = rec[r].offered /\ rec'[r].index = rec[r].index /\ rec'[r].ring = rec[r].ring
    /\ flushed'[r] = flushed[r] /\ Waiting(r)' = Waiting(r)
    /\ rec'[r].handle =>
         /\ rec[r].handle /\ rec'[r].audio = rec[r].audio /\ rec'[r].count = rec[r].count
         /\ disk'[Current(r)] = disk[Current(r)]

\* No part gets a packet.
NoneAdded == \A p \in Part, n \in Packet : Holds(p, n)' => Holds(p, n)

\* Such a step leaves the recording sound, if its parts get no packet.
LEMMA RestAlone ==
  ASSUME NEW r \in Recording, RecordingIsSound(r), Rests(r),
         \A p \in Part, n \in Packet : p[1] = r /\ Holds(p, n)' => Holds(p, n)
  PROVE  RecordingIsSound(r)'
<1> SUFFICES ASSUME Live(r)' PROVE NoGaps(r)' /\ RingIsCurrent(r)' /\ JournalIsCounted(r)'
  BY DEF RecordingIsSound
<1>1. NoGaps(r) /\ RingIsCurrent(r) /\ JournalIsCounted(r)
  BY DEF Rests, RecordingIsSound
<1>2. NoGaps(r)'
  BY <1>1 DEF NoGaps, Rests
<1>3. RingIsCurrent(r)'
  BY <1>1 DEF RingIsCurrent, Rests, EndsFlushed
<1>4. JournalIsCounted(r)'
  <2>1. Current(r)' = Current(r)
    BY DEF Rests, Current
  <2> QED
    BY <1>1, <2>1 DEF JournalIsCounted, Rests, EndsFlushed
<1> QED
  BY <1>2, <1>3, <1>4

\* In particular if no part does.
LEMMA RestStep ==
  ASSUME NEW r \in Recording, RecordingIsSound(r), Rests(r), NoneAdded
  PROVE  RecordingIsSound(r)'
BY RestAlone DEF NoneAdded

\* Parts stay in order when none gets a packet.
LEMMA OrderStays ==
  ASSUME PartsInOrder, NoneAdded PROVE PartsInOrder'
<1> SUFFICES ASSUME NEW p \in Part, NEW q \in Part, p[1] = q[1], p[2] < q[2],
                    NEW m \in Packet, NEW n \in Packet, Holds(p, m)', Holds(q, n)'
             PROVE  m < n
  BY DEF PartsInOrder
<1>1. Holds(p, m) /\ Holds(q, n)
  BY DEF NoneAdded
<1> QED
  BY <1>1 DEF PartsInOrder

\* A step that touches neither files nor requests.
LEMMA QuietStep ==
  ASSUME ContentsInv, disk' = disk, sent' = sent, \A r \in Recording : Rests(r)
  PROVE  ContentsInv'
<1>1. NoneAdded
  BY DEF NoneAdded, Holds
<1>2. \A r \in Recording : RecordingIsSound(r)'
  BY <1>1, RestStep DEF ContentsInv
<1>3. PartsInOrder'
  BY <1>1, OrderStays DEF ContentsInv
<1>4. SentIsSound'
  BY DEF ContentsInv, SentIsSound
<1> QED
  BY <1>2, <1>3, <1>4 DEF ContentsInv

\* Nothing that waits is touched, and no recording is.
LEMMA Untouched ==
  ASSUME UNCHANGED <<rec, flushed, disk>>, NEW r \in Recording, Waiting(r)' = Waiting(r)
  PROVE  Rests(r)
BY DEF Rests, Live, Current

\* The chain is left alone.
LEMMA WaitingSame ==
  ASSUME queue' = queue, NEW r PROVE Waiting(r)' = Waiting(r)
BY DEF Waiting, IsAdd

\* Start-up: recovery seals what is left of a journal.
LEMMA StartContents ==
  ASSUME OutboxInv, ContentsInv, Start PROVE ContentsInv'
<1>1. PICK broken \in SUBSET Files(disk, "part") :
        disk' = [p \in Part |-> IF p \in broken THEN disk[p] ELSE Recovered(disk[p])]
  BY DEF Start
<1>2. ~alive /\ UNCHANGED <<rec, queue, flushed, sent>>
  BY DEF Start
<1>3. ASSUME NEW p \in Part
      PROVE  disk'[p].fresh = disk[p].fresh /\ FileIsSound(p, disk'[p])
  <2>1. disk[p] \in FileType /\ FileIsSound(p, disk[p])
    BY DEF OutboxInv, StateOK, ContentsInv
  <2>2. CASE disk'[p] = disk[p]
    BY <2>1, <2>2
  <2>3. CASE /\ disk[p].st = "part" /\ disk[p].head /\ disk[p].fresh # <<>>
             /\ disk'[p] = [disk[p] EXCEPT !.torn = FALSE, !.st = "ready"]
    <3>1. /\ disk'[p].fresh = disk[p].fresh /\ disk'[p].pre = disk[p].pre /\ disk'[p].head = disk[p].head
          /\ disk'[p].torn = FALSE
      BY <2>1, <2>3 DEF FileType
    <3>2. Body(disk'[p]) = Body(disk[p])
      BY <3>1 DEF Body
    <3> QED
      BY <2>1, <2>3, <3>1, <3>2 DEF FileIsSound
  <2> QED
    BY <1>1, <2>2, <2>3 DEF Recovered
<1>4. NoneAdded
  BY <1>2, <1>3 DEF NoneAdded, Holds
<1>5. ASSUME NEW r \in Recording PROVE RecordingIsSound(r)'
  <2>1. ~rec[r].handle
    BY <1>2 DEF OutboxInv, FilesAreFresh
  <2>2. Rests(r)
    BY <1>2, <2>1, WaitingSame DEF Rests, Live
  <2> QED
    BY <1>4, <2>2, RestStep DEF ContentsInv
<1>6. PartsInOrder'
  BY <1>4, OrderStays DEF ContentsInv
<1>7. SentIsSound'
  BY <1>2 DEF ContentsInv, SentIsSound
<1> QED
  BY <1>3, <1>5, <1>6, <1>7 DEF ContentsInv

\* Calls: a packet that is accepted is the next one.
LEMMA CallContents ==
  ASSUME OutboxInv, ContentsInv, Calls PROVE ContentsInv'
<1> USE OutboxAssumption
<1>t. rec \in [Recording -> RecordingType] /\ StateOK
  BY DEF OutboxInv, StateOK
<1>1. ASSUME NEW r \in Recording, Begin(r) PROVE ContentsInv'
  <2>1. rec' = [rec EXCEPT ![r].status = "open", ![r].owner = paired] /\ rec[r].status = "new"
        /\ UNCHANGED <<disk, queue, flushed, sent>>
    BY <1>1 DEF Begin
  <2>2. ASSUME NEW s \in Recording
        PROVE  /\ rec'[s].offered = rec[s].offered /\ rec'[s].index = rec[s].index
               /\ rec'[s].ring = rec[s].ring /\ rec'[s].handle = rec[s].handle
               /\ rec'[s].audio = rec[s].audio /\ rec'[s].count = rec[s].count
               /\ rec'[s].failed = rec[s].failed
               /\ rec'[s].status = rec[s].status \/ rec[s].status = "new"
    BY <1>t, <2>1 DEF RecordingType
  <2>3. ASSUME NEW s \in Recording PROVE Rests(s)
    BY <2>1, <2>2, WaitingSame DEF Rests, Live
  <2> QED
    BY <2>1, <2>3, QuietStep
<1>2. ASSUME NEW r \in Recording, Add(r) PROVE ContentsInv'
  <2> DEFINE n == rec[r].offered + 1
             op == AddOp(r, n)
  <2>1. rec' = [rec EXCEPT ![r].offered = n] /\ queue' = Append(queue, op)
        /\ UNCHANGED <<disk, flushed, sent>> /\ rec[r].offered < MaxPackets /\ rec[r].status = "open"
    BY <1>2 DEF Add
  <2>2. n \in Packet /\ rec[r].offered \in Nat
    BY <1>t, <2>1 DEF RecordingType, Packet
  <2>3. op \in OpType /\ op.kind = "add" /\ op.r = r /\ op.n = n
    BY <2>2 DEF AddOp, OpType
  <2> HIDE DEF op
  <2>4. \A s \in Recording : Waiting(s)' = IF s = r THEN Waiting(s) \cup {n} ELSE Waiting(s)
    BY <1>t, <2>1, <2>3, WaitingAppend
  <2>5. /\ rec'[r].offered = n /\ rec'[r].index = rec[r].index /\ rec'[r].ring = rec[r].ring
        /\ rec'[r].handle = rec[r].handle /\ rec'[r].audio = rec[r].audio /\ rec'[r].count = rec[r].count
        /\ rec'[r].failed = rec[r].failed /\ rec'[r].status = rec[r].status
    BY <1>t, <2>1, <2>2 DEF RecordingType
  <2>6. NoneAdded
    BY <2>1 DEF NoneAdded, Holds
  <2>7. ASSUME NEW s \in Recording, s # r PROVE RecordingIsSound(s)'
    <3>1. rec'[s] = rec[s]
      BY <1>t, <2>1, <2>7
    <3>2. Rests(s)
      BY <2>1, <2>4, <2>7, <3>1 DEF Rests, Live
    <3> QED
      BY <2>6, <3>2, RestStep DEF ContentsInv
  <2>8. RecordingIsSound(r)'
    <3> SUFFICES ASSUME Live(r)' PROVE NoGaps(r)' /\ RingIsCurrent(r)' /\ JournalIsCounted(r)'
      BY DEF RecordingIsSound
    <3>1. Live(r)
      BY <2>1, <2>5 DEF Live
    <3>2. NoGaps(r) /\ RingIsCurrent(r) /\ JournalIsCounted(r)
      BY <3>1 DEF ContentsInv, RecordingIsSound
    <3>3. flushed[r] \subseteq Packet
      BY <1>t DEF StateOK
    <3>4. NoGaps(r)'
      <4>1. \A m \in flushed[r] : m <= n /\ m < n
        BY <2>2, <3>2, <3>3 DEF NoGaps, Packet
      <4>2. \A m \in 1 .. n : m \in 1 .. rec[r].offered \/ m = n
        BY <2>2
      <4>3. \A m \in 1 .. n : m \in flushed[r] \/ m \in Waiting(r)'
        BY <2>4, <3>2, <4>2 DEF NoGaps
      <4>4. \A m \in flushed[r], k \in Waiting(r)' : m < k
        BY <2>4, <3>2, <4>1 DEF NoGaps
      <4> QED
        BY <2>1, <2>5, <2>6, <3>2, <4>1, <4>3, <4>4 DEF NoGaps, NoneAdded
    <3>5. RingIsCurrent(r)'
      BY <2>1, <2>5, <3>2 DEF RingIsCurrent, EndsFlushed
    <3>6. JournalIsCounted(r)'
      BY <2>1, <2>5, <3>2 DEF JournalIsCounted, EndsFlushed, Current
    <3> QED
      BY <3>4, <3>5, <3>6
  <2>9. PartsInOrder' /\ SentIsSound'
    BY <2>1, <2>6, OrderStays DEF ContentsInv, SentIsSound
  <2> QED
    BY <2>1, <2>7, <2>8, <2>9 DEF ContentsInv
<1>3. ASSUME NEW r \in Recording, Stop(r) PROVE ContentsInv'
  <2>1. rec' = [rec EXCEPT ![r].status = "closed"] /\ queue' = Append(queue, StopOp(r))
        /\ UNCHANGED <<disk, flushed, sent>> /\ rec[r].status = "open"
    BY <1>3 DEF Stop
  <2>2. StopOp(r) \in OpType /\ StopOp(r).kind = "stop"
    BY DEF StopOp, OpType
  <2>3. \A s \in Recording : Waiting(s)' = Waiting(s)
    BY <1>t, <2>1, <2>2, WaitingAppend
  <2>4. ASSUME NEW s \in Recording
        PROVE  /\ rec'[s].offered = rec[s].offered /\ rec'[s].index = rec[s].index
               /\ rec'[s].ring = rec[s].ring /\ rec'[s].handle = rec[s].handle
               /\ rec'[s].audio = rec[s].audio /\ rec'[s].count = rec[s].count
               /\ rec'[s].failed = rec[s].failed
               /\ rec'[s].status = rec[s].status \/ rec[s].status = "open"
    BY <1>t, <2>1 DEF RecordingType
  <2>5. ASSUME NEW s \in Recording PROVE Rests(s)
    BY <2>1, <2>3, <2>4 DEF Rests, Live
  <2> QED
    BY <2>1, <2>5, QuietStep
<1>4. CASE RecoverConnection
  <2>1. UNCHANGED <<rec, disk, flushed, sent>>
    BY <1>4 DEF RecoverConnection
  <2>2. ASSUME NEW s \in Recording PROVE Waiting(s)' = Waiting(s)
    <3>1. ASSUME NEW r \in Recording, queue' = Append(queue, CheckpointOp(r))
          PROVE  Waiting(s)' = Waiting(s)
      <4>1. CheckpointOp(r) \in OpType /\ CheckpointOp(r).kind = "checkpoint"
        BY DEF CheckpointOp, OpType
      <4> QED
        BY <1>t, <3>1, <4>1, WaitingAppend
    <3>2. CASE queue' = queue
      BY <3>2, WaitingSame
    <3> QED
      BY <1>4, <3>1, <3>2 DEF RecoverConnection, OpenRecordings
  <2> QED
    BY <2>1, <2>2, Untouched, QuietStep
<1>5. ASSUME NEW s, Pair(s) PROVE ContentsInv'
  <2>1. UNCHANGED <<rec, disk, flushed, sent, queue>>
    BY <1>5 DEF Pair
  <2> QED
    BY <2>1, WaitingSame, Untouched, QuietStep
<1> QED
  BY <1>1, <1>2, <1>3, <1>4, <1>5 DEF Calls

\* The delivery pump and the servers: only sealed bodies are sent, and a
\* deletion takes packets away.
LEMMA PumpContents ==
  ASSUME OutboxInv, ContentsInv, Pump \/ ServerStores \/ ServerRefuses PROVE ContentsInv'
<1>t. /\ StateOK /\ queue \in Seq(OpType) /\ disk \in [Part -> FileType]
  BY DEF OutboxInv, StateOK
<1>1. CASE \/ TimerFires \/ ListFails \/ UploadFails \/ ServerStores \/ ServerRefuses
           \/ \E p \in Part : UploadStart(p)
  <2>1. UNCHANGED <<rec, disk, flushed, sent, queue>>
    BY <1>1 DEF TimerFires, ListFails, UploadFails, ServerStores, ServerRefuses, UploadStart
  <2> QED
    BY <2>1, WaitingSame, Untouched, QuietStep
<1>2. CASE PassDone
  <2>1. UNCHANGED <<rec, disk, flushed, sent>> /\ queue' = Append(queue, CountOp)
    BY <1>2 DEF PassDone
  <2>2. CountOp \in OpType /\ CountOp.kind = "count"
    BY DEF CountOp, OpType
  <2>3. \A s \in Recording : Waiting(s)' = Waiting(s)
    BY <1>t, <2>1, <2>2, WaitingAppend
  <2> QED
    BY <2>1, <2>3, Untouched, QuietStep
<1>3. CASE CountPending \/ CountFails
  <2>1. UNCHANGED <<rec, disk, flushed, sent>> /\ queue' = Tail(queue) /\ queue # <<>> /\ Head(queue) = CountOp
    BY <1>3 DEF CountPending, CountFails
  <2>2. queue[1].kind = "count"
    BY <1>t, <2>1 DEF CountOp
  <2>3. \A s \in Recording : ~IsAdd(1, s)
    BY <2>2 DEF IsAdd
  <2>4. \A s \in Recording : Waiting(s)' = Waiting(s)
    BY <2>1, <2>3, WaitingTail
  <2> QED
    BY <2>1, <2>4, Untouched, QuietStep
<1>4. CASE UploadSend
  <2>1. /\ UNCHANGED <<rec, disk, flushed, queue>> /\ conn # NoConn
        /\ sent' = sent \cup {<<paired, conn.part, conn.body>>}
    BY <1>4 DEF UploadSend
  <2>2. /\ conn.part \in Part /\ disk[conn.part].st = "ready" /\ conn.body = Body(disk[conn.part])
    BY <2>1 DEF OutboxInv, StateOK, UploadIsBound, ConnType
  <2>3. conn.body.fresh = disk[conn.part].fresh
    BY <2>2 DEF Body
  <2>4. NoneAdded
    BY <2>1, <2>2, <2>3 DEF NoneAdded, Holds
  <2>5. SentIsSound'
    <3>1. FileIsSound(conn.part, disk[conn.part])
      BY <2>2 DEF ContentsInv
    <3>2. conn.body.fresh # <<>> /\ BodyIsSound(conn.part, conn.body)
      BY <2>2, <2>3, <3>1 DEF FileIsSound
    <3>3. \A m \in sent : m[3].fresh # <<>> /\ BodyIsSound(m[2], m[3])
      BY DEF ContentsInv, SentIsSound
    <3>4. ASSUME NEW m \in sent' PROVE m[3].fresh # <<>> /\ BodyIsSound(m[2], m[3])
      <4>1. CASE m \in sent
        BY <3>3, <4>1
      <4>2. CASE m = <<paired, conn.part, conn.body>>
        BY <3>2, <4>2
      <4> QED
        BY <2>1, <4>1, <4>2
    <3> QED
      BY <3>4 DEF SentIsSound
  <2>6. \A r \in Recording : RecordingIsSound(r)'
    BY <2>1, <2>4, WaitingSame, Untouched, RestStep DEF ContentsInv
  <2>7. PartsInOrder'
    BY <2>4, OrderStays DEF ContentsInv
  <2> QED
    BY <2>1, <2>5, <2>6, <2>7 DEF ContentsInv
<1>5. CASE UploadAcked
  <2> DEFINE q == conn.part
  <2>1. /\ UNCHANGED <<rec, flushed, queue, sent>> /\ conn # NoConn
        /\ disk' = [disk EXCEPT ![q] = NoFile]
    BY <1>5 DEF UploadAcked
  <2>2. q \in Part /\ disk[q].st = "ready"
    BY <2>1 DEF OutboxInv, StateOK, UploadIsBound, ConnType
  <2> HIDE DEF q
  <2>3. disk'[q] = NoFile /\ \A p \in Part : p # q => disk'[p] = disk[p]
    BY <1>t, <2>1, <2>2
  <2>4. NoFile.fresh = <<>> /\ Range(NoFile.fresh) = {} /\ NoFile.st = "absent"
    BY DEF NoFile, Range
  <2>5. NoneAdded
    BY <2>1, <2>3, <2>4 DEF NoneAdded, Holds
  <2>6. \A p \in Part : FileIsSound(p, disk'[p])
    BY <2>3, <2>4 DEF ContentsInv, FileIsSound
  <2>7. ASSUME NEW r \in Recording PROVE RecordingIsSound(r)'
    <3>1. rec[r].handle => disk'[Current(r)] = disk[Current(r)]
      <4>1. rec[r].handle => disk[Current(r)].st = "part" /\ rec[r].index > 0
        BY DEF OutboxInv, FilesAreFresh
      <4>2. rec[r].index <= rec[r].offered /\ rec[r].index \in Nat /\ rec[r].offered \in 0 .. MaxPackets
        BY DEF OutboxInv, StateOK, ChainIsOrdered, RecordingType
      <4>3. rec[r].handle => Current(r) \in Part
        BY <4>1, <4>2, OutboxAssumption DEF Current, Part
      <4> QED
        BY <2>2, <2>3, <4>1, <4>3
    <3>2. Rests(r)
      BY <2>1, <3>1, WaitingSame DEF Rests, Live, Current
    <3> QED
      BY <2>5, <3>2, RestStep DEF ContentsInv
  <2>8. PartsInOrder' /\ SentIsSound'
    BY <2>1, <2>5, OrderStays DEF ContentsInv, SentIsSound
  <2> QED
    BY <2>6, <2>7, <2>8 DEF ContentsInv
<1> QED
  BY <1>1, <1>2, <1>3, <1>4, <1>5 DEF Pump

-----------------------------------------------------------------------------
(* Writing a packet. *)

\* The packet at the head is the one behind all that were flushed.
LEMMA NextPacket ==
  ASSUME OutboxInv, ContentsInv, NEW r \in Recording, Writes(r)
  PROVE  /\ queue # <<>> /\ Head(queue) = queue[1] /\ IsAdd(1, r) /\ Live(r)
         /\ NoGaps(r) /\ RingIsCurrent(r) /\ JournalIsCounted(r)
         /\ Head(queue).n \in Packet
         /\ \A m \in flushed[r] : m < Head(queue).n
         /\ Head(queue).n > 1 => Head(queue).n - 1 \in flushed[r]
         /\ Head(queue).n <= rec[r].offered
<1> USE OutboxAssumption
<1> DEFINE n == Head(queue).n
<1>1. /\ queue # <<>> /\ n \in Packet /\ IsAdd(1, r) /\ Head(queue) = queue[1] /\ 1 \in DOMAIN queue
  BY HeadOp DEF Writes, OutboxInv, IsAdd
<1>2. rec[r].offered > 0 /\ ~rec[r].failed
  BY TargetIsOpen
<1>3. Live(r)
  BY <1>2 DEF Live
<1>4. NoGaps(r) /\ RingIsCurrent(r) /\ JournalIsCounted(r)
  BY <1>3 DEF ContentsInv, RecordingIsSound
<1>5. n \in Waiting(r)
  BY <1>1 DEF Waiting
<1>6. \A m \in flushed[r] : m < n
  BY <1>4, <1>5 DEF NoGaps
<1>7. n <= rec[r].offered
  BY <1>1 DEF OutboxInv, ChainIsOrdered
<1>8. n > 1 => n - 1 \notin Waiting(r)
  <2> SUFFICES ASSUME n > 1, n - 1 \in Waiting(r) PROVE FALSE
    OBVIOUS
  <2>1. PICK i \in DOMAIN queue : IsAdd(i, r) /\ queue[i].n = n - 1
    BY DEF Waiting
  <2>2. i = 1 \/ 1 < i
    <3>1. queue \in Seq(OpType)
      BY DEF OutboxInv, StateOK
    <3> QED
      BY <3>1, <2>1
  <2>3. 1 < i => n < n - 1
    BY <1>1, <2>1 DEF OutboxInv, ChainIsOrdered
  <2> QED
    BY <1>1, <2>1, <2>2, <2>3 DEF Packet
<1>9. n > 1 => n - 1 \in flushed[r]
  <2>1. rec[r].offered \in 0 .. MaxPackets
    BY DEF OutboxInv, StateOK, RecordingType
  <2>2. n > 1 => n - 1 \in 1 .. rec[r].offered
    BY <1>1, <1>7, <2>1 DEF Packet
  <2> QED
    BY <1>4, <1>8, <2>2 DEF NoGaps
<1> QED
  BY <1>1, <1>3, <1>4, <1>6, <1>7, <1>9

\* It follows whatever ends with the last packet flushed.
LEMMA FollowsTheEnd ==
  ASSUME OutboxInv, ContentsInv, NEW r \in Recording, Writes(r),
         NEW s \in Seq(Packet), s # <<>>, EndsFlushed(s, r)
  PROVE  Head(queue).n = s[Len(s)] + 1
<1> DEFINE n == Head(queue).n
<1>1. /\ n \in Packet /\ \A m \in flushed[r] : m < n
      /\ n > 1 => n - 1 \in flushed[r]
  BY NextPacket
<1>2. Len(s) \in Nat /\ Len(s) > 0
  BY LenProperties, EmptySeq
<1>3. s[Len(s)] \in Packet
  BY <1>2
<1>4. s[Len(s)] < n /\ (n > 1 => n - 1 <= s[Len(s)])
  BY <1>1 DEF EndsFlushed
<1> QED
  BY <1>1, <1>3, <1>4, OutboxAssumption DEF Packet

\* The journal an add finds or opens is sound and has room for the packet.
LEMMA OpenedIsSound ==
  ASSUME OutboxInv, ContentsInv, NEW r \in Recording, Writes(r)
  PROVE  LET o == Opened(r)
             n == Head(queue).n
         IN  /\ o \in FileType /\ o.pre \in Seq(Packet) /\ o.fresh \in Seq(Packet)
             /\ o.st = "part" /\ o.head /\ ~o.torn
             /\ Consecutive(o.pre) /\ Consecutive(o.fresh)
             /\ o.fresh # <<>> => n = o.fresh[Len(o.fresh)] + 1
             /\ o.pre # <<>> => /\ r \in Opus /\ Target(r)[2] > 0 /\ Len(o.pre) = Preroll
                                /\ (IF o.fresh = <<>> THEN n ELSE o.fresh[1]) = o.pre[Len(o.pre)] + 1
             /\ Len(o.fresh) + 1 <= PartAudio /\ Len(o.pre) + Len(o.fresh) + 1 <= PartPackets
             /\ Len(o.fresh) = (IF rec[r].handle THEN rec[r].audio ELSE 0)
             /\ Len(o.pre) + Len(o.fresh) =
                  (IF rec[r].handle THEN rec[r].count ELSE Len(PrerollPackets(r)))
<1> USE OutboxAssumption
<1> DEFINE o == Opened(r)
           n == Head(queue).n
<1>1. /\ o \in FileType /\ o.st = "part" /\ o.head /\ Target(r) \in Part /\ Target(r)[1] = r
      /\ Target(r)[2] = Index(r) - 1 /\ o.fresh = disk[Target(r)].fresh
  BY TargetIsOpen
<1>2. o.pre \in Seq(Packet) /\ o.fresh \in Seq(Packet)
  BY <1>1 DEF FileType
<1>3. Len(o.pre) \in Nat /\ Len(o.fresh) \in Nat
  BY <1>2, LenProperties
<1>4. RingIsCurrent(r) /\ JournalIsCounted(r) /\ n \in Packet
  BY NextPacket
<1>5. rec[r] \in RecordingType /\ rec[r].ring \in Seq(Packet) /\ rec[r].audio \in Nat /\ rec[r].count \in Nat
      /\ rec[r].index \in Nat
  BY DEF OutboxInv, StateOK, RecordingType
<1>6. CASE rec[r].handle
  <2>1. o = disk[Current(r)] /\ Target(r) = Current(r)
    BY <1>6 DEF Opened, Target
  <2>2. /\ ~o.torn /\ o.fresh # <<>> /\ EndsFlushed(o.fresh, r)
        /\ Len(o.fresh) = rec[r].audio /\ Len(o.pre) + Len(o.fresh) = rec[r].count
    BY <1>4, <1>6, <2>1 DEF JournalIsCounted
  <2>3. FileIsSound(Target(r), o)
    BY <1>1, <2>1 DEF ContentsInv
  <2>4. Body(o).pre = o.pre /\ Body(o).fresh = o.fresh
    BY DEF Body
  <2>5. BodyIsSound(Target(r), Body(o))
    BY <2>2, <2>3 DEF FileIsSound
  <2>6. /\ o.pre # <<>> => /\ r \in Opus /\ Target(r)[2] > 0 /\ Len(o.pre) = Preroll
                           /\ o.fresh[1] = o.pre[Len(o.pre)] + 1
        /\ Consecutive(o.pre) /\ Consecutive(o.fresh)
    BY <1>1, <2>4, <2>5 DEF BodyIsSound
  <2>7. n = o.fresh[Len(o.fresh)] + 1
    BY <1>2, <2>2, FollowsTheEnd
  <2>8. rec[r].audio + 1 <= PartAudio /\ rec[r].count < PartPackets
    BY <1>5, <1>6 DEF Writes, PartFull
  <2> HIDE DEF o, n
  <2>9. Len(o.fresh) + 1 <= PartAudio /\ Len(o.pre) + Len(o.fresh) + 1 <= PartPackets
    BY <1>3, <1>5, <2>2, <2>8
  <2> USE DEF o, n
  <2> QED
    BY <1>1, <1>2, <1>6, <2>2, <2>6, <2>7, <2>9
<1>7. CASE ~rec[r].handle
  <2>1. o = [NoFile EXCEPT !.st = "part", !.head = TRUE, !.pre = PrerollPackets(r)]
    BY <1>7 DEF Opened
  <2>2. o.fresh = <<>> /\ o.torn = FALSE /\ o.pre = PrerollPackets(r)
    BY <2>1 DEF NoFile
  <2>3. o.pre # <<>> => o.pre = rec[r].ring /\ ~(Len(rec[r].ring) < Preroll)
    BY <2>2 DEF PrerollPackets
  <2>4. Len(rec[r].ring) \in Nat /\ Len(rec[r].ring) <= Preroll /\ Consecutive(rec[r].ring)
    BY <1>4, <1>5, LenProperties DEF RingIsCurrent
  <2>5. o.pre # <<>> => /\ r \in Opus /\ Len(o.pre) = Preroll /\ n = o.pre[Len(o.pre)] + 1
                        /\ rec[r].index > 0
    BY <1>4, <1>5, <2>3, <2>4, FollowsTheEnd DEF RingIsCurrent
  <2>6. Target(r)[2] = rec[r].index
    BY <1>7 DEF Target
  <2>7. Consecutive(<<>>) /\ Len(<<>>) = 0
    BY DEF Consecutive
  <2>8. Consecutive(o.pre) /\ Consecutive(o.fresh)
    BY <2>2, <2>3, <2>4, <2>7
  <2>9. Len(o.pre) = 0 \/ Len(o.pre) = Preroll
    BY <1>2, <2>5, <2>7
  <2>10. Len(o.fresh) = 0
    BY <2>2
  <2>11. Len(o.fresh) + 1 <= PartAudio /\ Len(o.pre) + Len(o.fresh) + 1 <= PartPackets
    <3> HIDE DEF o
    <3> QED
      BY <2>9, <2>10
  <2>12. Len(o.pre) + Len(o.fresh) = Len(PrerollPackets(r))
    BY <1>3, <2>2, <2>10
  <2>13. o.pre # <<>> => /\ r \in Opus /\ Target(r)[2] > 0 /\ Len(o.pre) = Preroll
                          /\ (IF o.fresh = <<>> THEN n ELSE o.fresh[1]) = o.pre[Len(o.pre)] + 1
    BY <2>2, <2>5, <2>6
  <2>14. ~o.torn /\ (o.fresh # <<>> => n = o.fresh[Len(o.fresh)] + 1)
    BY <2>2
  <2> HIDE DEF o, n
  <2>15. /\ Len(o.fresh) = (IF rec[r].handle THEN rec[r].audio ELSE 0)
         /\ Len(o.pre) + Len(o.fresh) =
              (IF rec[r].handle THEN rec[r].count ELSE Len(PrerollPackets(r)))
    BY <1>7, <2>10, <2>12
  <2> USE DEF o, n
  <2> QED
    BY <1>1, <1>2, <2>8, <2>11, <2>13, <2>14, <2>15
<1> QED
  BY <1>6, <1>7

\* The lengths of two sequences, one of which has grown.
LEMMA OneMore ==
  ASSUME NEW s, NEW t, NEW u, Len(s) \in Nat, Len(t) \in Nat, Len(u) = Len(t) + 1
  PROVE  Len(s) + Len(u) = (Len(s) + Len(t)) + 1
OBVIOUS

\* With the packet behind it, the journal is still sound.
LEMMA AppendedIsSound ==
  ASSUME OutboxInv, ContentsInv, NEW r \in Recording, Writes(r),
         NEW f, f.fresh = Append(Opened(r).fresh, Head(queue).n), f.pre = Opened(r).pre,
         f.st = "part", f.head = Opened(r).head, f.torn = Opened(r).torn
  PROVE  /\ FileIsSound(Target(r), f) /\ ~f.torn /\ f.st = "part"
         /\ f.fresh \in Seq(Packet) /\ f.fresh # <<>> /\ f.fresh[Len(f.fresh)] = Head(queue).n
         /\ Len(f.fresh) = (IF rec[r].handle THEN rec[r].audio ELSE 0) + 1
         /\ Len(f.pre) + Len(f.fresh) =
              (IF rec[r].handle THEN rec[r].count ELSE Len(PrerollPackets(r))) + 1
         /\ Range(f.fresh) = Range(disk[Target(r)].fresh) \cup {Head(queue).n}
<1> USE OutboxAssumption
<1>a. \A a, b \in Nat : \A c : c = b + 1 =>
        /\ b + 1 <= PartAudio => c <= PartAudio
        /\ a + b + 1 <= PartPackets => a + c <= PartPackets
  OBVIOUS
<1> DEFINE o == Opened(r)
           n == Head(queue).n
<1>1. /\ o \in FileType /\ o.pre \in Seq(Packet) /\ o.fresh \in Seq(Packet)
      /\ o.st = "part" /\ o.head /\ ~o.torn
      /\ Consecutive(o.pre) /\ Consecutive(o.fresh)
      /\ o.fresh # <<>> => n = o.fresh[Len(o.fresh)] + 1
      /\ o.pre # <<>> => /\ r \in Opus /\ Target(r)[2] > 0 /\ Len(o.pre) = Preroll
                         /\ (IF o.fresh = <<>> THEN n ELSE o.fresh[1]) = o.pre[Len(o.pre)] + 1
      /\ Len(o.fresh) + 1 <= PartAudio /\ Len(o.pre) + Len(o.fresh) + 1 <= PartPackets
      /\ Len(o.fresh) = (IF rec[r].handle THEN rec[r].audio ELSE 0)
      /\ Len(o.pre) + Len(o.fresh) =
           (IF rec[r].handle THEN rec[r].count ELSE Len(PrerollPackets(r)))
  BY OpenedIsSound
<1>2. n \in Packet /\ Target(r)[1] = r /\ o.fresh = disk[Target(r)].fresh
  BY TargetIsOpen
<1>3. /\ f.fresh = Append(o.fresh, n) /\ f.pre = o.pre /\ f.st = "part" /\ f.head = o.head /\ f.torn = o.torn
  OBVIOUS
<1> HIDE DEF o, n
<1>c. o.fresh \in Seq(Packet) /\ Consecutive(o.fresh) /\ (o.fresh # <<>> => n = o.fresh[Len(o.fresh)] + 1)
  BY <1>1
<1>l. /\ Len(o.fresh) + 1 <= PartAudio /\ Len(o.pre) + Len(o.fresh) + 1 <= PartPackets
      /\ Len(o.fresh) = (IF rec[r].handle THEN rec[r].audio ELSE 0)
      /\ Len(o.pre) + Len(o.fresh) =
           (IF rec[r].handle THEN rec[r].count ELSE Len(PrerollPackets(r)))
  BY <1>1
<1>4. /\ f.fresh \in Seq(Packet) /\ f.fresh # <<>>
      /\ Len(f.fresh) = Len(o.fresh) + 1 /\ f.fresh[Len(o.fresh) + 1] = n
      /\ Consecutive(f.fresh)
      /\ f.fresh[1] = IF o.fresh = <<>> THEN n ELSE o.fresh[1]
  <2>1. /\ Append(o.fresh, n) \in Seq(Packet) /\ Append(o.fresh, n) # <<>>
        /\ Len(Append(o.fresh, n)) = Len(o.fresh) + 1 /\ Append(o.fresh, n)[Len(o.fresh) + 1] = n
        /\ Consecutive(Append(o.fresh, n))
        /\ Append(o.fresh, n)[1] = IF o.fresh = <<>> THEN n ELSE o.fresh[1]
    BY <1>2, <1>c, ConsecutiveAppend
  <2> QED
    BY <1>3, <2>1
<1>5. Len(o.pre) \in Nat /\ Len(o.fresh) \in Nat
  BY <1>1, LenProperties
<1>n. Len(f.fresh) = Len(o.fresh) + 1 /\ Len(f.pre) = Len(o.pre)
  BY <1>3, <1>4
<1>6. Range(f.fresh) = Range(o.fresh) \cup {n}
  BY <1>1, <1>2, <1>3, AppendRange
<1>7. Body(f).pre = o.pre /\ Body(f).fresh = f.fresh
  BY <1>3 DEF Body
<1>8. BodyIsSound(Target(r), Body(f))
  <2>1. Len(f.fresh) <= PartAudio /\ Len(o.pre) + Len(f.fresh) <= PartPackets
    BY <1>a, <1>5, <1>l, <1>n, Zenon
  <2> QED
    BY <1>1, <1>2, <1>4, <1>7, <2>1 DEF BodyIsSound
<1>9. FileIsSound(Target(r), f)
  BY <1>1, <1>3, <1>8 DEF FileIsSound
<1>10. Len(f.fresh) = (IF rec[r].handle THEN rec[r].audio ELSE 0) + 1
  BY <1>4, <1>l
<1>11. Len(f.pre) + Len(f.fresh) =
         (IF rec[r].handle THEN rec[r].count ELSE Len(PrerollPackets(r))) + 1
  <2>1. Len(o.pre) + Len(f.fresh) = (Len(o.pre) + Len(o.fresh)) + 1
    BY <1>5, <1>n, OneMore, Zenon
  <2> QED
    BY <1>3, <1>l, <2>1, Zenon
<1> USE DEF o, n
<1> QED
  BY <1>1, <1>2, <1>3, <1>4, <1>6, <1>9, <1>10, <1>11

\* What an add that stops half way leaves is sound, too.
LEMMA HalfIsSound ==
  ASSUME OutboxInv, ContentsInv, NEW r \in Recording, Writes(r),
         NEW f \in HalfOpened(r) \cup HalfWritten(r)
  PROVE  /\ FileIsSound(Target(r), f)
         /\ Range(f.fresh) \subseteq Range(disk[Target(r)].fresh) \cup {Head(queue).n}
<1> DEFINE o == Opened(r)
           n == Head(queue).n
<1>o. /\ o \in FileType /\ o.fresh = disk[Target(r)].fresh /\ o.st = "part" /\ o.head /\ n \in Packet
      /\ Target(r) \in Part
  BY TargetIsOpen
<1>s. o.fresh # <<>> => BodyIsSound(Target(r), Body(o))
  <2>1. CASE rec[r].handle
    <3>1. o = disk[Target(r)]
      BY <2>1 DEF Opened, Target
    <3> QED
      BY <1>o, <3>1 DEF ContentsInv, FileIsSound
  <2>2. CASE ~rec[r].handle
    BY <2>2 DEF Opened, NoFile
  <2> QED
    BY <2>1, <2>2
<1>e. ASSUME f.fresh = <<>>, f.st # "ready"
      PROVE  FileIsSound(Target(r), f) /\ Range(f.fresh) = {}
  BY <1>e DEF FileIsSound, Range
<1>1. CASE f \in HalfOpened(r)
  <2>1. ~rec[r].handle
    BY <1>1 DEF HalfOpened
  <2>2. o.fresh = <<>>
    BY <2>1 DEF Opened, NoFile
  <2> DEFINE blank == [NoFile EXCEPT !.st = "part"]
  <2>3. \/ f = NoFile \/ f = blank \/ f = [blank EXCEPT !.torn = TRUE]
        \/ \E k \in 0 .. Len(PrerollPackets(r)) - 1 :
             f = [o EXCEPT !.pre = SubSeq(@, 1, k), !.torn = TRUE]
    BY <1>1, <2>1, Zenon DEF HalfOpened
  <2>4. NoFile.fresh = <<>> /\ NoFile.st = "absent" /\ blank.fresh = <<>> /\ blank.st = "part"
    BY DEF NoFile
  <2>5. [blank EXCEPT !.torn = TRUE].fresh = <<>> /\ [blank EXCEPT !.torn = TRUE].st = "part"
    BY DEF NoFile
  <2>6. \A k \in 0 .. Len(PrerollPackets(r)) - 1 :
          /\ [o EXCEPT !.pre = SubSeq(@, 1, k), !.torn = TRUE].fresh = <<>>
          /\ [o EXCEPT !.pre = SubSeq(@, 1, k), !.torn = TRUE].st = "part"
    BY <1>o, <2>2 DEF FileType
  <2>7. f.fresh = <<>> /\ f.st # "ready"
    BY <2>3, <2>4, <2>5, <2>6
  <2> QED
    BY <1>e, <2>7
<1>2. CASE f = o \/ f = [o EXCEPT !.torn = TRUE]
  <2>1. f.fresh = o.fresh /\ f.pre = o.pre /\ f.head = o.head /\ f.st = o.st
    BY <1>2, <1>o DEF FileType
  <2>2. Body(f) = Body(o)
    BY <2>1 DEF Body
  <2> QED
    BY <1>o, <1>s, <2>1, <2>2 DEF FileIsSound
<1>3. CASE f = [o EXCEPT !.fresh = Append(@, n)]
  <2>1. /\ f.fresh = Append(o.fresh, n) /\ f.pre = o.pre /\ f.st = "part" /\ f.head = o.head
        /\ f.torn = o.torn
    BY <1>3, <1>o DEF FileType
  <2> QED
    BY <2>1, AppendedIsSound
<1>4. f \in HalfWritten(r) => f = o \/ f = [o EXCEPT !.torn = TRUE] \/ f = [o EXCEPT !.fresh = Append(@, n)]
  BY Zenon DEF HalfWritten
<1> QED
  BY <1>1, <1>2, <1>3, <1>4

\* A packet written to the journal is behind all the parts before it, and no
\* part is behind the journal.
LEMMA WrittenInOrder ==
  ASSUME OutboxInv, SentIsSettled, ContentsInv, NEW r \in Recording, Writes(r), NEW f,
         disk' = [disk EXCEPT ![Target(r)] = f], sent' = sent,
         FileIsSound(Target(r), f),
         Range(f.fresh) \subseteq Range(disk[Target(r)].fresh) \cup {Head(queue).n}
  PROVE  /\ \A p \in Part, k \in Packet :
              Holds(p, k)' => Holds(p, k) \/ (p = Target(r) /\ k = Head(queue).n)
         /\ PartsInOrder' /\ SentIsSound'
         /\ \A p \in Part : FileIsSound(p, disk'[p])
         /\ \A p \in Part : p[1] # r => disk'[p] = disk[p]
         /\ disk'[Target(r)] = f
<1> USE OutboxAssumption
<1> DEFINE t == Target(r)
           n == Head(queue).n
<1>1. /\ t \in Part /\ t[1] = r /\ t[2] = Index(r) - 1 /\ Index(r) \in {rec[r].index, rec[r].index + 1}
      /\ rec[r].offered > 0 /\ ~rec[r].failed
  BY TargetIsOpen
<1>2. disk \in [Part -> FileType] /\ rec[r].index \in Nat
  BY DEF OutboxInv, StateOK, RecordingType
<1>3. disk'[t] = f /\ \A p \in Part : p # t => disk'[p] = disk[p]
  BY <1>1, <1>2
<1>4. ASSUME NEW p \in Part, NEW k \in Packet, Holds(p, k)'
      PROVE  Holds(p, k) \/ (p = t /\ k = n)
  <2>1. CASE k \in Range(disk'[p].fresh)
    BY <1>3, <2>1 DEF Holds
  <2>2. CASE \E m \in sent' : m[2] = p /\ k \in Range(m[3].fresh)
    BY <2>2 DEF Holds
  <2> QED
    BY <1>4, <2>1, <2>2 DEF Holds
<1>5. /\ NoGaps(r) /\ n \in Packet /\ \A m \in flushed[r] : m < n
  BY NextPacket
<1>6. ASSUME NEW q \in Part, q[1] = r, t[2] < q[2], NEW k PROVE ~Holds(q, k)
  <2>1. q = <<r, q[2]>> /\ q[2] \in 0 .. MaxPackets - 1
    BY <1>6 DEF Part
  <2>2. q[2] >= rec[r].index
    BY <1>1, <1>2, <1>6, <2>1
  <2>3. disk[<<r, q[2]>>] = NoFile
    BY <1>1, <2>1, <2>2 DEF OutboxInv, FilesAreFresh
  <2>4. disk[q] = NoFile
    BY <2>1, <2>3
  <2>5. Range(disk[q].fresh) = {} /\ disk[q].st = "absent"
    BY <2>4 DEF NoFile, Range
  <2>6. ASSUME NEW m \in sent, m[2] = q PROVE FALSE
    <3>1. q \in Ready(disk) \/ Retired(q)
      BY <2>6 DEF SentIsSettled
    <3>2. ~Retired(q)
      BY <1>1, <1>2, <1>6, <2>1, <2>2 DEF Retired
    <3> QED
      BY <2>5, <3>1, <3>2 DEF Ready, Files
  <2> QED
    BY <2>5, <2>6 DEF Holds
<1>7. PartsInOrder'
  <2> SUFFICES ASSUME NEW p \in Part, NEW q \in Part, p[1] = q[1], p[2] < q[2],
                      NEW m \in Packet, NEW k \in Packet, Holds(p, m)', Holds(q, k)'
               PROVE  m < k
    BY DEF PartsInOrder
  <2>1. (Holds(p, m) \/ (p = t /\ m = n)) /\ (Holds(q, k) \/ (q = t /\ k = n))
    BY <1>4
  <2>2. CASE Holds(p, m) /\ Holds(q, k)
    BY <2>2 DEF ContentsInv, PartsInOrder
  <2>3. CASE Holds(p, m) /\ q = t /\ k = n
    <3>1. m \in flushed[r]
      BY <1>1, <1>5, <2>3 DEF NoGaps
    <3> QED
      BY <1>5, <2>3, <3>1
  <2>4. CASE p = t /\ Holds(q, k)
    BY <1>1, <1>6, <2>4
  <2>5. CASE p = t /\ q = t
    BY <1>1, <1>2, <2>5
  <2> QED
    BY <2>1, <2>2, <2>3, <2>4, <2>5
<1>8. SentIsSound'
  BY DEF ContentsInv, SentIsSound
<1>9. \A p \in Part : FileIsSound(p, disk'[p])
  BY <1>3 DEF ContentsInv
<1> QED
  BY <1>1, <1>3, <1>4, <1>7, <1>8, <1>9

-----------------------------------------------------------------------------
(* The operations of the chain. *)

\* The operation at the head takes nothing from what waits of other recordings.
LEMMA HeadLeaves ==
  ASSUME OutboxInv, NEW r \in Recording, NEW kind \in {"add", "stop", "checkpoint"}, Runs(kind, r),
         queue' \in {queue, Tail(queue)}
  PROVE  /\ \A s \in Recording : s # r => Waiting(s)' = Waiting(s)
         /\ kind # "add" => Waiting(r)' = Waiting(r)
<1>1. queue # <<>> /\ Head(queue) = queue[1] /\ Head(queue).kind = kind /\ Head(queue).r = r
  BY HeadOp DEF OutboxInv
<1>2. \A s \in Recording : s # r \/ kind # "add" => ~IsAdd(1, s)
  BY <1>1 DEF IsAdd
<1>3. CASE queue' = queue
  BY <1>3, WaitingSame
<1>4. CASE queue' = Tail(queue)
  BY <1>1, <1>2, <1>4, WaitingTail
<1> QED
  BY <1>3, <1>4

\* An open journal is one of the parts.
LEMMA CurrentIsPart ==
  ASSUME OutboxInv, NEW r \in Recording, rec[r].handle
  PROVE  /\ Current(r) \in Part /\ Current(r)[1] = r /\ disk[Current(r)].st = "part"
         /\ rec[r].index > 0 /\ rec[r].index \in Nat /\ rec[r].offered > 0 /\ Current(r)[2] = rec[r].index - 1
<1>1. disk[Current(r)].st = "part" /\ rec[r].index > 0
  BY DEF OutboxInv, FilesAreFresh
<1>2. rec[r].index <= rec[r].offered /\ rec[r].index \in Nat /\ rec[r].offered \in 0 .. MaxPackets
  BY DEF OutboxInv, StateOK, ChainIsOrdered, RecordingType
<1> QED
  BY <1>1, <1>2, OutboxAssumption DEF Current, Part

\* An operation of one recording leaves the others sound.
LEMMA OthersRest ==
  ASSUME OutboxInv, ContentsInv, NEW r \in Recording, NEW s \in Recording, s # r,
         rec'[s] = rec[s], flushed'[s] = flushed[s], sent' = sent, Waiting(s)' = Waiting(s),
         \A p \in Part : p[1] # r => disk'[p] = disk[p]
  PROVE  RecordingIsSound(s)'
<1>1. rec[s].handle => disk'[Current(s)] = disk[Current(s)]
  BY CurrentIsPart
<1>2. Rests(s)
  BY <1>1 DEF Rests, Live
<1>3. \A p \in Part, n \in Packet : p[1] = s /\ Holds(p, n)' => Holds(p, n)
  BY DEF Holds
<1> QED
  BY <1>2, <1>3, RestAlone DEF ContentsInv

\* A part is sealed: its counters say what it holds.
LEMMA SealContents ==
  ASSUME OutboxInv, ContentsInv, NEW r \in Recording, Seal(r) PROVE ContentsInv'
<1> DEFINE c == Current(r)
<1>t. rec \in [Recording -> RecordingType] /\ disk \in [Part -> FileType] /\ rec[r] \in RecordingType
  BY DEF OutboxInv, StateOK
<1>1. /\ Seals(r) /\ ~rec[r].failed /\ rec[r].handle /\ sent' = sent /\ flushed' = flushed
      /\ rec' = [rec EXCEPT ![r].handle = FALSE]
  BY DEF Seal, Seals
<1>2. /\ disk' = [disk EXCEPT ![c].st = "ready"] /\ queue' \in {queue, Tail(queue)}
      /\ Head(queue).kind = "add" => queue' = queue
  BY DEF Seal, EndOp
<1>3. c \in Part /\ c[1] = r /\ disk[c].st = "part" /\ rec[r].offered > 0
  BY <1>1, CurrentIsPart
<1>4. Live(r)
  BY <1>1, <1>3 DEF Live
<1>5. ~disk[c].torn /\ disk[c].fresh # <<>>
  BY <1>1, <1>4 DEF ContentsInv, RecordingIsSound, JournalIsCounted
<1>6. \A s \in Recording : Waiting(s)' = Waiting(s)
  <2>1. CASE Head(queue).kind = "add"
    BY <1>2, <2>1, WaitingSame
  <2>2. CASE Head(queue).kind # "add"
    <3>1. PICK kind \in {"stop", "checkpoint"} : Runs(kind, r)
      BY <1>1, <2>2 DEF Seals, Runs
    <3> QED
      BY <1>2, <3>1, HeadLeaves
  <2> QED
    BY <2>1, <2>2
<1> HIDE DEF c
<1>7. /\ disk'[c].fresh = disk[c].fresh /\ disk'[c].pre = disk[c].pre /\ disk'[c].head = disk[c].head
      /\ disk'[c].torn = disk[c].torn /\ \A p \in Part : p # c => disk'[p] = disk[p]
  BY <1>t, <1>2, <1>3 DEF FileType
<1>8. FileIsSound(c, disk'[c])
  <2>1. Body(disk'[c]) = Body(disk[c])
    BY <1>7 DEF Body
  <2>2. FileIsSound(c, disk[c])
    BY <1>3 DEF ContentsInv
  <2> QED
    BY <1>5, <1>7, <2>1, <2>2 DEF FileIsSound
<1>9. NoneAdded
  BY <1>1, <1>7 DEF NoneAdded, Holds
<1>10. RecordingIsSound(r)'
  <2>1. /\ ~rec'[r].handle /\ rec'[r].offered = rec[r].offered /\ rec'[r].index = rec[r].index
        /\ rec'[r].ring = rec[r].ring
    BY <1>t, <1>1 DEF RecordingType
  <2>2. Rests(r)
    BY <1>1, <1>4, <1>6, <2>1 DEF Rests
  <2> QED
    BY <1>9, <2>2, RestStep DEF ContentsInv
<1>11. ASSUME NEW s \in Recording, s # r PROVE RecordingIsSound(s)'
  <2>1. rec'[s] = rec[s]
    BY <1>t, <1>1, <1>11
  <2> QED
    BY <1>1, <1>3, <1>6, <1>7, <1>11, <2>1, OthersRest
<1>12. PartsInOrder' /\ SentIsSound'
  BY <1>1, <1>9, OrderStays DEF ContentsInv, SentIsSound
<1> QED
  BY <1>7, <1>8, <1>10, <1>11, <1>12 DEF ContentsInv

\* Operations that write nothing: what fails is not continued.
LEMMA RefusalContents ==
  ASSUME OutboxInv, ContentsInv, NEW r \in Recording,
         SealDamaged(r) \/ SealFails(r) \/ NothingToSeal(r) \/ AddRefused(r)
  PROVE  ContentsInv'
<1>t. rec \in [Recording -> RecordingType] /\ rec[r] \in RecordingType /\ rec[r].failed \in BOOLEAN
  BY DEF OutboxInv, StateOK, RecordingType
<1>1. Journal(r)
  BY DEF Journal
<1>2. /\ \A s \in Recording : s # r => rec'[s] = rec[s]
      /\ sent' = sent
  BY <1>1, JournalEffect DEF ChainEffect
<1>3. disk' = disk /\ queue' = Tail(queue) /\ flushed' = flushed
  BY DEF SealDamaged, SealFails, NothingToSeal, AddRefused, EndOp
<1>4. PICK kind \in {"add", "stop", "checkpoint"} : Runs(kind, r)
  BY DEF SealDamaged, SealFails, NothingToSeal, AddRefused, Seals, Writes
<1>5. /\ \A s \in Recording : s # r => Waiting(s)' = Waiting(s)
      /\ kind # "add" => Waiting(r)' = Waiting(r)
  BY <1>3, <1>4, HeadLeaves
<1>6. ASSUME NEW s \in Recording, s # r PROVE Rests(s)
  BY <1>2, <1>3, <1>5, <1>6 DEF Rests, Live, Current
<1>7. Rests(r)
  <2>a. ASSUME rec'[r].failed PROVE Rests(r)
    BY <2>a DEF Rests, Live
  <2>1. CASE SealDamaged(r)
    <3>1. rec'[r].failed
      BY <1>t, <2>1 DEF SealDamaged, RecordingType
    <3> QED
      BY <2>a, <3>1
  <2>2. CASE AddRefused(r)
    <3>1. CASE rec' = rec /\ rec[r].failed
      BY <2>a, <3>1
    <3>2. CASE rec' = [rec EXCEPT ![r].index = Index(r), ![r].failed = TRUE]
      <4>1. rec'[r].failed
        BY <1>t, <3>2 DEF RecordingType
      <4> QED
        BY <2>a, <4>1
    <3> QED
      BY <2>2, <3>1, <3>2 DEF AddRefused
  <2>3. CASE NothingToSeal(r)
    <3>1. rec' = rec /\ Head(queue).kind # "add"
      BY <2>3 DEF NothingToSeal, Runs
    <3>2. kind # "add"
      BY <1>4, <3>1 DEF Runs
    <3> QED
      BY <1>3, <1>5, <3>1, <3>2 DEF Rests, Live, Current
  <2>4. CASE SealFails(r)
    <3>1. PICK open \in BOOLEAN :
            rec' = [rec EXCEPT ![r].handle = open, ![r].failed = @ \/ Head(queue).kind # "stop"]
      BY <2>4 DEF SealFails
    <3>2. rec[r].handle
      BY <2>4 DEF SealFails, Seals
    <3>3. CASE Head(queue).kind # "stop"
      <4>1. rec' = [rec EXCEPT ![r].handle = open, ![r].failed = TRUE]
        BY <1>t, <3>1, <3>3
      <4>2. rec'[r].failed
        BY <1>t, <4>1 DEF RecordingType
      <4> QED
        BY <2>a, <4>2
    <3>4. CASE Head(queue).kind = "stop"
      <4>1. rec' = [rec EXCEPT ![r].handle = open, ![r].failed = rec[r].failed]
        BY <1>t, <3>1, <3>4
      <4>2. /\ rec'[r].offered = rec[r].offered /\ rec'[r].index = rec[r].index
            /\ rec'[r].ring = rec[r].ring /\ rec'[r].status = rec[r].status
            /\ rec'[r].audio = rec[r].audio /\ rec'[r].count = rec[r].count
            /\ rec'[r].failed = rec[r].failed
        BY <1>t, <4>1 DEF RecordingType
      <4>3. kind # "add"
        BY <1>4, <3>4 DEF Runs
      <4> QED
        BY <1>3, <1>5, <3>2, <4>2, <4>3 DEF Rests, Live
    <3> QED
      BY <3>3, <3>4
  <2> QED
    BY <2>1, <2>2, <2>3, <2>4
<1> QED
  BY <1>2, <1>3, <1>6, <1>7, QuietStep

\* LocalOpusPreroll.remember(): the context ends with the packet just written.
LEMMA RememberedIsCurrent ==
  ASSUME OutboxInv, ContentsInv, NEW r \in Recording, Writes(r)
  PROVE  LET s == Remember(rec[r].ring, Head(queue).n)
         IN  s # <<>> /\ Len(s) <= Preroll /\ Consecutive(s) /\ s[Len(s)] = Head(queue).n
<1> USE OutboxAssumption
<1> DEFINE ring == rec[r].ring
           n == Head(queue).n
<1>1. /\ ring \in Seq(Packet) /\ n \in Packet /\ Len(ring) \in Nat
  <2>1. ring \in Seq(Packet)
    BY DEF OutboxInv, StateOK, RecordingType
  <2> QED
    BY <2>1, NextPacket, LenProperties
<1>2. Len(ring) <= Preroll /\ Consecutive(ring) /\ (ring # <<>> => n = ring[Len(ring)] + 1)
  BY <1>1, NextPacket, FollowsTheEnd DEF RingIsCurrent
<1> HIDE DEF ring, n
<1>3. CASE Len(ring) < Preroll
  <2>1. Remember(ring, n) = Append(ring, n)
    BY <1>3 DEF Remember
  <2>2. /\ Append(ring, n) # <<>> /\ Len(Append(ring, n)) = Len(ring) + 1
        /\ Append(ring, n)[Len(ring) + 1] = n /\ Consecutive(Append(ring, n))
    BY <1>1, <1>2, ConsecutiveAppend
  <2>3. Len(Append(ring, n)) <= Preroll
    BY <1>1, <1>3, <2>2
  <2> QED
    BY <2>1, <2>2, <2>3 DEF ring, n
<1>4. CASE ~(Len(ring) < Preroll)
  <2>1. Remember(ring, n) = Append(Tail(ring), n)
    BY <1>4 DEF Remember
  <2>2. ring # <<>>
    BY <1>1, <1>4
  <2>3. /\ Tail(ring) \in Seq(Packet) /\ Len(Tail(ring)) = Len(ring) - 1 /\ Consecutive(Tail(ring))
        /\ Tail(ring) # <<>> => n = Tail(ring)[Len(Tail(ring))] + 1
    BY <1>1, <1>2, <2>2, ConsecutiveTail
  <2>4. /\ Append(Tail(ring), n) # <<>> /\ Len(Append(Tail(ring), n)) = Len(Tail(ring)) + 1
        /\ Append(Tail(ring), n)[Len(Tail(ring)) + 1] = n /\ Consecutive(Append(Tail(ring), n))
    BY <1>1, <2>3, ConsecutiveAppend
  <2>5. Len(Append(Tail(ring), n)) <= Preroll
    BY <1>1, <1>2, <2>3, <2>4
  <2> QED
    BY <2>1, <2>4, <2>5 DEF ring, n
<1> QED
  BY <1>3, <1>4

\* A packet is written: it is the next one, behind all the parts before.
LEMMA WriteContents ==
  ASSUME OutboxInv, SentIsSettled, ContentsInv, NEW r \in Recording, Write(r) PROVE ContentsInv'
<1> USE OutboxAssumption
<1> DEFINE n == Head(queue).n
           t == Target(r)
           f == [Opened(r) EXCEPT !.fresh = Append(@, n)]
           audio == (IF rec[r].handle THEN rec[r].audio ELSE 0) + 1
           count == (IF rec[r].handle THEN rec[r].count ELSE Len(PrerollPackets(r))) + 1
           ring  == IF r \in Opus THEN Remember(rec[r].ring, n) ELSE rec[r].ring
<1>t. /\ rec \in [Recording -> RecordingType] /\ disk \in [Part -> FileType] /\ rec[r] \in RecordingType
      /\ flushed \in [Recording -> SUBSET Packet]
  BY DEF OutboxInv, StateOK
<1>1. Writes(r) /\ sent' = sent /\ flushed' = [flushed EXCEPT ![r] = @ \cup {n}]
  BY DEF Write
<1>2. disk' = [disk EXCEPT ![t] = f] /\ queue' = Tail(queue)
  BY Zenon DEF Write, EndOp
<1>3. rec' = [rec EXCEPT ![r].index = Index(r), ![r].handle = TRUE, ![r].audio = audio,
                         ![r].count = count, ![r].ring = ring]
  BY DEF Write
<1>w. /\ t \in Part /\ t[1] = r /\ t[2] = Index(r) - 1 /\ Index(r) \in Nat /\ Index(r) > 0
      /\ Opened(r) \in FileType /\ Opened(r).fresh = disk[t].fresh /\ Opened(r).st = "part"
  BY <1>1, TargetIsOpen
<1>n. /\ queue # <<>> /\ Head(queue) = queue[1] /\ IsAdd(1, r) /\ Live(r)
      /\ NoGaps(r) /\ RingIsCurrent(r) /\ n \in Packet
      /\ \A m \in flushed[r] : m < n
      /\ n <= rec[r].offered
  BY <1>1, NextPacket
<1>4. /\ f.fresh = Append(Opened(r).fresh, n) /\ f.pre = Opened(r).pre /\ f.st = "part"
      /\ f.head = Opened(r).head /\ f.torn = Opened(r).torn
  BY <1>w DEF FileType
<1> HIDE DEF f
<1>5. /\ FileIsSound(t, f) /\ ~f.torn /\ f.st = "part"
      /\ f.fresh \in Seq(Packet) /\ f.fresh # <<>> /\ f.fresh[Len(f.fresh)] = n
      /\ Len(f.fresh) = audio /\ Len(f.pre) + Len(f.fresh) = count
      /\ Range(f.fresh) = Range(disk[t].fresh) \cup {n}
  BY <1>1, <1>4, AppendedIsSound
<1>6. /\ \A p \in Part, k \in Packet : Holds(p, k)' => Holds(p, k) \/ (p = t /\ k = n)
      /\ PartsInOrder' /\ SentIsSound'
      /\ \A p \in Part : FileIsSound(p, disk'[p])
      /\ \A p \in Part : p[1] # r => disk'[p] = disk[p]
      /\ disk'[t] = f
  BY <1>1, <1>2, <1>5, WrittenInOrder
<1>7. ASSUME NEW s \in Recording, s # r PROVE RecordingIsSound(s)'
  <2>1. rec'[s] = rec[s] /\ flushed'[s] = flushed[s]
    BY <1>t, <1>1, <1>3, <1>7
  <2>2. Runs("add", r)
    BY <1>1 DEF Writes
  <2>3. Waiting(s)' = Waiting(s)
    BY <1>2, <1>7, <2>2, HeadLeaves
  <2> QED
    BY <1>1, <1>6, <1>7, <2>1, <2>3, OthersRest
<1> HIDE DEF audio, count, ring
<1>8. /\ rec'[r].index = Index(r) /\ rec'[r].handle /\ rec'[r].audio = audio /\ rec'[r].count = count
      /\ rec'[r].ring = ring /\ rec'[r].offered = rec[r].offered
  BY <1>t, <1>3 DEF RecordingType
<1>9. flushed'[r] = flushed[r] \cup {n} /\ flushed[r] \subseteq Packet
  BY <1>t, <1>1
<1>e. \A s : s[Len(s)] = n => EndsFlushed(s, r)'
  BY <1>n, <1>9 DEF EndsFlushed, Packet
<1>10. NoGaps(r)'
  <2>1. /\ Waiting(r)' = Waiting(r) \ {n} /\ \A m \in Waiting(r)' : n < m
    BY <1>2, <1>n, WaitingTail
  <2>2. \A m \in flushed'[r] : m <= rec'[r].offered
    BY <1>n, <1>8, <1>9 DEF NoGaps
  <2>3. \A m \in 1 .. rec'[r].offered : m \in flushed'[r] \/ m \in Waiting(r)'
    BY <1>n, <1>8, <1>9, <2>1 DEF NoGaps
  <2>4. \A m \in flushed'[r], k \in Waiting(r)' : m < k
    BY <1>n, <1>9, <2>1 DEF NoGaps
  <2>5. \A p \in Part, m \in Packet : p[1] = r /\ Holds(p, m)' => m \in flushed'[r]
    BY <1>n, <1>6, <1>9 DEF NoGaps
  <2> QED
    BY <2>2, <2>3, <2>4, <2>5 DEF NoGaps
<1>11. RingIsCurrent(r)'
  <2>1. CASE r \in Opus
    <3>1. ring # <<>> /\ Len(ring) <= Preroll /\ Consecutive(ring) /\ ring[Len(ring)] = n
      BY <1>1, <2>1, RememberedIsCurrent DEF ring
    <3> QED
      BY <1>e, <1>w, <1>8, <2>1, <3>1 DEF RingIsCurrent
  <2>2. CASE r \notin Opus
    <3>1. ring = rec[r].ring
      BY <2>2 DEF ring
    <3> QED
      BY <1>n, <1>8, <2>2, <3>1 DEF RingIsCurrent
  <2> QED
    BY <2>1, <2>2
<1>12. JournalIsCounted(r)'
  <2>1. Current(r)' = t
    <3>1. t = <<t[1], t[2]>>
      BY <1>w DEF Part
    <3> QED
      BY <1>w, <1>8, <3>1 DEF Current
  <2> QED
    BY <1>e, <1>5, <1>6, <1>8, <2>1 DEF JournalIsCounted
<1>13. RecordingIsSound(r)'
  BY <1>10, <1>11, <1>12 DEF RecordingIsSound
<1> QED
  BY <1>6, <1>7, <1>13 DEF ContentsInv

\* An add that fails half way: its recording writes no more.
LEMMA FailureContents ==
  ASSUME OutboxInv, SentIsSettled, ContentsInv, NEW r \in Recording, OpenFails(r) \/ WriteFails(r)
  PROVE  ContentsInv'
<1>t. /\ rec \in [Recording -> RecordingType] /\ rec[r] \in RecordingType
  BY DEF OutboxInv, StateOK
<1>1. Writes(r) /\ sent' = sent /\ flushed' = flushed
  BY DEF OpenFails, WriteFails
<1>o. Opened(r) \in HalfWritten(r)
  BY Zenon DEF HalfWritten
<1>2. PICK f \in HalfOpened(r) \cup HalfWritten(r) :
        disk' = [disk EXCEPT ![Target(r)] = f] /\ queue' = Tail(queue)
  <2>1. CASE OpenFails(r)
    <3>1. PICK f \in HalfOpened(r) \cup {Opened(r)} : EndOp([disk EXCEPT ![Target(r)] = f], FALSE)
      BY <2>1, Zenon DEF OpenFails
    <3> QED
      BY <1>o, <3>1, Zenon DEF EndOp
  <2>2. CASE WriteFails(r)
    <3>1. PICK f \in HalfWritten(r) : EndOp([disk EXCEPT ![Target(r)] = f], FALSE)
      BY <2>2, Zenon DEF WriteFails
    <3> QED
      BY <3>1, Zenon DEF EndOp
  <2> QED
    BY <2>1, <2>2
<1>3. /\ FileIsSound(Target(r), f)
      /\ Range(f.fresh) \subseteq Range(disk[Target(r)].fresh) \cup {Head(queue).n}
  BY <1>1, HalfIsSound
<1>4. /\ PartsInOrder' /\ SentIsSound'
      /\ \A p \in Part : FileIsSound(p, disk'[p])
      /\ \A p \in Part : p[1] # r => disk'[p] = disk[p]
  BY <1>1, <1>2, <1>3, WrittenInOrder
<1>5. ASSUME NEW s \in Recording, s # r PROVE RecordingIsSound(s)'
  <2>1. rec'[s] = rec[s]
    <3>1. Journal(r)
      BY DEF Journal
    <3> QED
      BY <1>5, <3>1, JournalEffect DEF ChainEffect
  <2>2. Runs("add", r)
    BY <1>1 DEF Writes
  <2>3. Waiting(s)' = Waiting(s)
    BY <1>2, <1>5, <2>2, HeadLeaves
  <2> QED
    BY <1>1, <1>4, <1>5, <2>1, <2>3, OthersRest
<1>6. rec'[r].failed
  <2>1. ASSUME NEW open \in BOOLEAN,
               rec' = [rec EXCEPT ![r].index = Index(r), ![r].handle = open, ![r].failed = TRUE]
        PROVE  rec'[r].failed
    BY <1>t, <2>1 DEF RecordingType
  <2> QED
    BY <2>1, Zenon DEF OpenFails, WriteFails
<1>7. RecordingIsSound(r)'
  BY <1>6 DEF RecordingIsSound, Live
<1> QED
  BY <1>4, <1>5, <1>7 DEF ContentsInv

-----------------------------------------------------------------------------
(* All steps. *)

\* A crash may leave a part half written; what it belongs to is closed.
LEMMA CrashContents ==
  ASSUME OutboxInv, SentIsSettled, ContentsInv, Crash PROVE ContentsInv'
<1> USE OutboxAssumption
<1>t. rec \in [Recording -> RecordingType] /\ flushed \in [Recording -> SUBSET Packet]
  BY DEF OutboxInv, StateOK
<1>1. sent' = sent /\ flushed' = flushed /\ queue' = <<>>
  BY DEF Crash
<1>2. ASSUME NEW r \in Recording, Live(r)'
      PROVE  rec[r].status = "new" /\ rec'[r] = rec[r]
  <2> DEFINE closed == [NewRecording EXCEPT !.status = "closed", !.owner = rec[r].owner,
                                            !.failed = rec[r].failed]
  <2>1. rec'[r] = IF rec[r].status = "new" THEN rec[r] ELSE closed
    BY DEF Crash
  <2>2. closed.status = "closed" /\ closed.offered = 0
    BY DEF NewRecording
  <2> HIDE DEF closed
  <2> QED
    BY <1>2, <2>1, <2>2 DEF Live
<1>3. /\ \A p \in Part, n \in Packet : Holds(p, n)' => Holds(p, n) \/ rec[p[1]].offered > 0
      /\ PartsInOrder' /\ SentIsSound'
      /\ \A p \in Part : FileIsSound(p, disk'[p])
  <2>1. CASE disk' = disk
    <3>1. NoneAdded
      BY <1>1, <2>1 DEF NoneAdded, Holds
    <3> QED
      BY <1>1, <2>1, <3>1, OrderStays DEF NoneAdded, ContentsInv, SentIsSound
  <2>2. ASSUME NEW r \in Recording, Writes(r), NEW f \in HalfOpened(r) \cup HalfWritten(r),
               disk' = [disk EXCEPT ![Target(r)] = f]
        PROVE  /\ \A p \in Part, n \in Packet : Holds(p, n)' => Holds(p, n) \/ rec[p[1]].offered > 0
               /\ PartsInOrder' /\ SentIsSound'
               /\ \A p \in Part : FileIsSound(p, disk'[p])
    <3>1. /\ FileIsSound(Target(r), f)
          /\ Range(f.fresh) \subseteq Range(disk[Target(r)].fresh) \cup {Head(queue).n}
      BY <2>2, HalfIsSound
    <3>2. /\ \A p \in Part, k \in Packet :
               Holds(p, k)' => Holds(p, k) \/ (p = Target(r) /\ k = Head(queue).n)
          /\ PartsInOrder' /\ SentIsSound'
          /\ \A p \in Part : FileIsSound(p, disk'[p])
      BY <1>1, <2>2, <3>1, WrittenInOrder
    <3>3. Target(r)[1] = r /\ rec[r].offered > 0
      BY <2>2, TargetIsOpen
    <3> QED
      BY <3>2, <3>3
  <2> QED
    BY <2>1, <2>2, Zenon DEF Crash
<1>4. ASSUME NEW r \in Recording PROVE RecordingIsSound(r)'
  <2> SUFFICES ASSUME Live(r)' PROVE NoGaps(r)' /\ RingIsCurrent(r)' /\ JournalIsCounted(r)'
    BY DEF RecordingIsSound
  <2>1. rec[r].status = "new" /\ rec'[r] = rec[r]
    BY <1>2
  <2>2. ~rec[r].handle /\ rec[r].index = 0 /\ rec[r].offered = 0
    BY <2>1 DEF OutboxInv, FilesAreFresh
  <2>3. Live(r)
    BY <2>1 DEF Live
  <2>4. NoGaps(r) /\ RingIsCurrent(r)
    BY <2>3 DEF ContentsInv, RecordingIsSound
  <2>5. flushed[r] = {}
    <3>1. flushed[r] \subseteq Packet /\ \A n \in flushed[r] : n <= 0
      BY <1>t, <2>2, <2>4 DEF NoGaps
    <3> QED
      BY <3>1 DEF Packet
  <2>6. NoGaps(r)'
    <3>1. \A p \in Part, n \in Packet : p[1] = r /\ Holds(p, n)' => n \in flushed'[r]
      BY <1>1, <1>3, <2>2, <2>4 DEF NoGaps
    <3> QED
      BY <1>1, <2>1, <2>2, <2>5, <3>1 DEF NoGaps
  <2>7. RingIsCurrent(r)'
    BY <1>1, <2>1, <2>4 DEF RingIsCurrent, EndsFlushed
  <2>8. JournalIsCounted(r)'
    BY <2>1, <2>2 DEF JournalIsCounted
  <2> QED
    BY <2>6, <2>7, <2>8
<1> QED
  BY <1>3, <1>4 DEF ContentsInv

\* At first there is neither a file nor a packet.
LEMMA InitContents == Init => ContentsInv
<1> SUFFICES ASSUME Init PROVE ContentsInv
  OBVIOUS
<1> USE OutboxAssumption
<1>1. /\ \A p \in Part : disk[p] = NoFile
      /\ \A r \in Recording : rec[r] = NewRecording /\ flushed[r] = {}
      /\ sent = {}
  BY DEF Init
<1>2. NoFile.fresh = <<>> /\ NoFile.st = "absent" /\ Range(<<>>) = {}
  BY DEF NoFile, Range
<1>3. /\ NewRecording.offered = 0 /\ NewRecording.ring = <<>> /\ NewRecording.handle = FALSE
  BY DEF NewRecording
<1>4. \A p \in Part : \A n : ~Holds(p, n)
  BY <1>1, <1>2 DEF Holds
<1>5. \A p \in Part : FileIsSound(p, disk[p])
  BY <1>1, <1>2 DEF FileIsSound
<1>6. ASSUME NEW r \in Recording PROVE RecordingIsSound(r)
  <2>1. NoGaps(r)
    BY <1>1, <1>3, <1>4 DEF NoGaps
  <2>2. RingIsCurrent(r)
    BY <1>1, <1>3 DEF RingIsCurrent, Consecutive
  <2>3. JournalIsCounted(r)
    BY <1>1, <1>3 DEF JournalIsCounted
  <2> QED
    BY <2>1, <2>2, <2>3 DEF RecordingIsSound
<1> QED
  BY <1>1, <1>4, <1>5, <1>6 DEF ContentsInv, SentIsSound, PartsInOrder

\* Every step keeps the contents sound.
LEMMA ContentsStep ==
  ASSUME OutboxInv, SentIsSettled, ContentsInv, [Next]_vars PROVE ContentsInv'
<1>1. CASE Start
  BY <1>1, StartContents
<1>2. CASE Calls
  BY <1>2, CallContents
<1>3. ASSUME NEW r \in Recording, Journal(r) PROVE ContentsInv'
  BY <1>3, SealContents, RefusalContents, WriteContents, FailureContents DEF Journal
<1>4. CASE Pump \/ ServerStores \/ ServerRefuses
  BY <1>4, PumpContents
<1>5. CASE Crash
  BY <1>5, CrashContents
<1>6. CASE UNCHANGED vars
  <2>1. UNCHANGED <<rec, disk, flushed, sent, queue>>
    BY <1>6 DEF vars
  <2> QED
    BY <2>1, WaitingSame, Untouched, QuietStep
<1> QED
  BY <1>1, <1>2, <1>3, <1>4, <1>5, <1>6 DEF Next, PhoneNext

\* Packets are written without gaps, the counters agree with the files, and
\* every file, whatever became of its journal, is one the server accepts.
THEOREM ContentsAreSound == Spec => []ContentsInv
<1>1. Init => ContentsInv
  BY InitContents
<1>2. OutboxInv /\ SentIsSettled /\ ContentsInv /\ [Next]_vars => ContentsInv'
  BY ContentsStep
<1> QED
  BY <1>1, <1>2, OutboxIsSound, PTL DEF Spec

-----------------------------------------------------------------------------
(* What the server gets. *)

\* Decoder context and fresh audio follow on each other.
LEMMA BodyIsConsecutive ==
  ASSUME NEW b \in BodyType, NEW p, BodyIsSound(p, b), b.fresh # <<>>
  PROVE  Consecutive(b.pre \o b.fresh)
<1> DEFINE s == b.pre
           t == b.fresh
<1>1. s \in Seq(Packet) /\ t \in Seq(Packet)
  BY DEF BodyType
<1>2. Consecutive(s) /\ Consecutive(t) /\ (s # <<>> => t[1] = s[Len(s)] + 1) /\ t # <<>>
  BY DEF BodyIsSound
<1> HIDE DEF s, t
<1>3. /\ Len(s \o t) = Len(s) + Len(t) /\ Len(s) \in Nat /\ Len(t) \in Nat /\ Len(t) > 0
      /\ \A i \in 1 .. Len(s) + Len(t) : (s \o t)[i] = IF i <= Len(s) THEN s[i] ELSE t[i - Len(s)]
  BY <1>1, <1>2, ConcatProperties, LenProperties, EmptySeq
<1>4. ASSUME NEW i \in 1 .. Len(s) + Len(t) - 1 PROVE (s \o t)[i + 1] = (s \o t)[i] + 1
  <2>1. i \in Nat /\ i > 0 /\ i \in 1 .. Len(s) + Len(t) /\ i + 1 \in 1 .. Len(s) + Len(t)
    BY <1>3
  <2>2. CASE i < Len(s)
    <3>1. i \in 1 .. Len(s) - 1 /\ i <= Len(s) /\ i + 1 <= Len(s)
      BY <1>3, <2>1, <2>2
    <3>2. (s \o t)[i] = s[i] /\ (s \o t)[i + 1] = s[i + 1]
      BY <1>3, <2>1, <3>1
    <3> QED
      BY <1>2, <3>1, <3>2 DEF Consecutive
  <2>3. CASE i = Len(s)
    <3>1. s # <<>>
      BY <2>1, <2>3
    <3>2. (s \o t)[i] = s[Len(s)] /\ (s \o t)[i + 1] = t[1]
      BY <1>3, <2>1, <2>3
    <3> QED
      BY <1>2, <3>1, <3>2
  <2>4. CASE i > Len(s)
    <3>1. /\ ~(i <= Len(s)) /\ ~(i + 1 <= Len(s))
          /\ i - Len(s) \in 1 .. Len(t) - 1 /\ (i + 1) - Len(s) = (i - Len(s)) + 1
      BY <1>3, <2>1, <2>4
    <3>2. (s \o t)[i] = t[i - Len(s)] /\ (s \o t)[i + 1] = t[(i - Len(s)) + 1]
      BY <1>3, <2>1, <3>1
    <3> QED
      BY <1>2, <3>1, <3>2 DEF Consecutive
  <2> QED
    BY <1>3, <2>1, <2>2, <2>3, <2>4
<1>5. Consecutive(s \o t)
  BY <1>3, <1>4 DEF Consecutive
<1> QED
  BY <1>5 DEF s, t

\* A sealed body is in a sealed file or was sent; it is sound.
LEMMA SealedIsSound ==
  ASSUME OutboxInv, ContentsInv, NEW p \in Part, NEW b \in SealedBodies(p)
  PROVE  /\ b \in BodyType /\ BodyIsSound(p, b) /\ b.fresh # <<>>
         /\ \A n \in Range(b.fresh) : Holds(p, n)
<1>1. CASE p \in Ready(disk) /\ b = Body(disk[p])
  <2>1. disk[p].st = "ready" /\ disk[p] \in FileType /\ FileIsSound(p, disk[p])
    BY <1>1 DEF Ready, Files, OutboxInv, StateOK, ContentsInv
  <2>2. b.fresh = disk[p].fresh /\ b \in BodyType
    BY <1>1, <2>1 DEF Body, BodyType, FileType
  <2> QED
    BY <1>1, <2>1, <2>2 DEF FileIsSound, Holds
<1>2. ASSUME NEW h \in held, h[2] = p, b = h[3]
      PROVE  /\ b \in BodyType /\ BodyIsSound(p, b) /\ b.fresh # <<>>
             /\ \A n \in Range(b.fresh) : Holds(p, n)
  <2>1. h \in sent /\ sent \subseteq Server \X Part \X BodyType
    BY DEF OutboxInv, StateOK
  <2>2. b \in BodyType
    BY <1>2, <2>1
  <2>3. BodyIsSound(p, b) /\ b.fresh # <<>>
    BY <1>2, <2>1 DEF ContentsInv, SentIsSound
  <2>4. \A n \in Range(b.fresh) : Holds(p, n)
    BY <1>2, <2>1 DEF Holds
  <2> QED
    BY <2>2, <2>3, <2>4
<1> QED
  BY <1>1, <1>2 DEF SealedBodies

\* Every part that was sealed, by a full journal, a stop, a checkpoint or the
\* recovery after a crash, is one parse_part() and validate_preroll() accept.
THEOREM SealedPartsAreAcceptable == Spec => []SealedIsAcceptable
<1>1. ASSUME OutboxInv, ContentsInv PROVE SealedIsAcceptable
  <2>1. \A p \in Ready(disk) : disk[p].head /\ ~disk[p].torn
    BY <1>1 DEF Ready, Files, ContentsInv, FileIsSound
  <2>2. ASSUME NEW p \in Part, NEW b \in SealedBodies(p)
        PROVE  /\ b.fresh # <<>> /\ Len(b.fresh) <= PartAudio
               /\ Len(b.pre) + Len(b.fresh) <= PartPackets
               /\ b.pre # <<>> => p[1] \in Opus /\ p[2] > 0 /\ Len(b.pre) = Preroll
               /\ Consecutive(b.pre \o b.fresh)
    BY <1>1, SealedIsSound, BodyIsConsecutive DEF BodyIsSound
  <2> QED
    BY <2>1, <2>2 DEF SealedIsAcceptable, Consecutive
<1>2. OutboxInv /\ ContentsInv => SealedIsAcceptable
  BY <1>1
<1> QED
  BY <1>2, OutboxIsSound, ContentsAreSound, PTL

\* A later part of a recording holds strictly later packets, so that no audio
\* is delivered twice or out of order.
THEOREM PartsHoldTheirOrder == Spec => []PartsAreOrdered
<1>1. ASSUME OutboxInv, ContentsInv PROVE PartsAreOrdered
  <2> SUFFICES ASSUME NEW p \in Part, NEW q \in Part, p[1] = q[1], p[2] < q[2],
                      NEW b \in SealedBodies(p), NEW c \in SealedBodies(q),
                      NEW m \in Range(b.fresh), NEW n \in Range(c.fresh)
               PROVE  m < n
    BY DEF PartsAreOrdered
  <2>1. Holds(p, m) /\ Holds(q, n) /\ b.fresh \in Seq(Packet) /\ c.fresh \in Seq(Packet)
    BY <1>1, SealedIsSound DEF BodyType
  <2>2. m \in Packet /\ n \in Packet
    BY <2>1 DEF Range
  <2> QED
    BY <1>1, <2>1, <2>2 DEF ContentsInv, PartsInOrder
<1>2. OutboxInv /\ ContentsInv => PartsAreOrdered
  BY <1>1
<1> QED
  BY <1>2, OutboxIsSound, ContentsAreSound, PTL
=============================================================================
