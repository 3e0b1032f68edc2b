------------------------ MODULE AudioDeliveryProofs ------------------------
(***************************************************************************)
(* The phone and the server together: for any recordings, limits, requests *)
(* and faults, the pair implements the outbox with its external server,    *)
(* so that what is proved of the outbox holds end to end.                  *)
(*                                                                         *)
(* The refinement needs the invariants of both sides and what ties them    *)
(* together: a handler serves a request the phone really sent, what the    *)
(* server has captured was sent, and an answer has one addressee.          *)
(***************************************************************************)
EXTENDS AudioDelivery, FiniteSetTheorems, TLAPS

\* The same two components, with what is proved about them.
PhoneP  == INSTANCE PhoneOutboxContents WITH Server <- {Mac}, held <- Held
IntakeP == INSTANCE PartIntakeProofs WITH
  PartId <- Phone!Part, Body <- Phone!BodyType,
  Valid  <- {m \in Phone!Part \X Phone!BodyType : AcceptablePart(m)}

\* What the outbox assumes of its parameters holds here.
LEMMA OutboxParameters ==
  /\ PhoneP!IsFiniteSet(Recording) /\ Opus \subseteq Recording
  /\ NoServer \notin {Mac}
  /\ MaxPackets \in Nat \ {0}
  /\ PartAudio \in Nat \ {0}
  /\ Preroll \in Nat \ {0}
  /\ PartPackets \in Nat /\ PartPackets > Preroll
  /\ MaxStorage \in Nat /\ MaxQueued \in Nat /\ MaxOps \in Nat
  /\ Faults \subseteq {"journal", "directory"}
<1>1. PhoneP!IsFiniteSet(Recording)
  BY DeliveryAssumption DEF IsFiniteSet, PhoneP!IsFiniteSet
<1> QED
  BY <1>1, DeliveryAssumption

\* What the intake assumes of its parameters holds here.
LEMMA IntakeParameters ==
  /\ IntakeP!IsFiniteSet(Handler) /\ IntakeP!IsFiniteSet(Phone!Part)
  /\ {m \in Phone!Part \X Phone!BodyType : AcceptablePart(m)} \subseteq Phone!Part \X Phone!BodyType
  /\ NoBody \notin Phone!BodyType /\ Free \notin Handler /\ Free \notin Phone!Part
  /\ Permits \in Nat \ {0}
  /\ Reserve \in Nat /\ Capacity \in Nat /\ Reserve <= Capacity
  /\ Allowance \in Nat \ {0}
<1>1. MaxPackets - 1 \in Int /\ 0 \in Int
  BY DeliveryAssumption
<1>2. IsFiniteSet(0 .. MaxPackets - 1)
  BY <1>1, FS_Interval
<1>3. IsFiniteSet(Recording \X (0 .. MaxPackets - 1))
  BY <1>2, FS_Product, DeliveryAssumption
<1>4. IntakeP!IsFiniteSet(Phone!Part)
  BY <1>3 DEF IsFiniteSet, IntakeP!IsFiniteSet, Phone!Part
<1>5. IntakeP!IsFiniteSet(Handler)
  BY DeliveryAssumption DEF IsFiniteSet, IntakeP!IsFiniteSet
<1> QED
  BY <1>4, <1>5, DeliveryAssumption

-----------------------------------------------------------------------------
(* Both names of a component mean the same. *)

\* A step of the outbox.
LEMMA SamePhoneStep == Phone!Next => PhoneP!Next
  BY Zenon DEF Phone!Packet, PhoneP!Packet, Phone!Part, PhoneP!Part, Phone!vars,
     PhoneP!vars, Phone!NoFile, PhoneP!NoFile, Phone!Body, PhoneP!Body, Phone!Files,
     PhoneP!Files, Phone!Ready, PhoneP!Ready, Phone!Pending, PhoneP!Pending, Phone!Unit,
     PhoneP!Unit, Phone!Size, PhoneP!Size, Phone!DiskBytes, PhoneP!DiskBytes, Phone!AddOp,
     PhoneP!AddOp, Phone!StopOp, PhoneP!StopOp, Phone!CheckpointOp, PhoneP!CheckpointOp,
     Phone!CountOp, PhoneP!CountOp, Phone!Runs, PhoneP!Runs, Phone!NewRecording,
     PhoneP!NewRecording, Phone!OpenRecordings, PhoneP!OpenRecordings, Phone!Current,
     PhoneP!Current, Phone!IdleDrain, PhoneP!IdleDrain, Phone!NewPass, PhoneP!NewPass,
     Phone!AfterRetry, PhoneP!AfterRetry, Phone!Recovered, PhoneP!Recovered, Phone!Start,
     PhoneP!Start, Phone!Begin, PhoneP!Begin, Phone!Add, PhoneP!Add, Phone!Stop,
     PhoneP!Stop, Phone!RecoverConnection, PhoneP!RecoverConnection, Phone!Pair,
     PhoneP!Pair, Phone!EndOp, PhoneP!EndOp, Phone!PartFull, PhoneP!PartFull, Phone!Seals,
     PhoneP!Seals, Phone!Seal, PhoneP!Seal, Phone!SealDamaged, PhoneP!SealDamaged,
     Phone!Released, PhoneP!Released, Phone!SealFails, PhoneP!SealFails,
     Phone!NothingToSeal, PhoneP!NothingToSeal, Phone!PrerollPackets,
     PhoneP!PrerollPackets, Phone!Target, PhoneP!Target, Phone!OpeningBytes,
     PhoneP!OpeningBytes, Phone!Opened, PhoneP!Opened, Phone!Writes, PhoneP!Writes,
     Phone!Fits, PhoneP!Fits, Phone!Index, PhoneP!Index, Phone!Remember, PhoneP!Remember,
     Phone!Write, PhoneP!Write, Phone!HalfOpened, PhoneP!HalfOpened, Phone!HalfWritten,
     PhoneP!HalfWritten, Phone!AddRefused, PhoneP!AddRefused, Phone!OpenFails,
     PhoneP!OpenFails, Phone!WriteFails, PhoneP!WriteFails, Phone!TimerFires,
     PhoneP!TimerFires, Phone!Owner, PhoneP!Owner, Phone!PartDone, PhoneP!PartDone,
     Phone!UploadStart, PhoneP!UploadStart, Phone!UploadSend, PhoneP!UploadSend,
     Phone!UploadFails, PhoneP!UploadFails, Phone!UploadAcked, PhoneP!UploadAcked,
     Phone!ListFails, PhoneP!ListFails, Phone!PassDone, PhoneP!PassDone,
     Phone!CountPending, PhoneP!CountPending, Phone!CountFails, PhoneP!CountFails,
     Phone!Crash, PhoneP!Crash, Phone!ServerStores, PhoneP!ServerStores,
     Phone!ServerRefuses, PhoneP!ServerRefuses, Phone!Calls, PhoneP!Calls, Phone!Journal,
     PhoneP!Journal, Phone!Pump, PhoneP!Pump, Phone!PhoneNext, PhoneP!PhoneNext,
     Phone!Next, PhoneP!Next, Phone!Range, PhoneP!Range, Phone!Stored, PhoneP!Stored,
     Phone!Cardinality, PhoneP!Cardinality

\* Its initial states, its variables, what it keeps.
LEMMA SamePhone ==
  /\ Phone!Init => PhoneP!Init
  /\ Phone!vars = PhoneP!vars
  /\ PhoneP!FlushedIsKept => Phone!FlushedIsKept
  /\ PhoneP!Part = Phone!Part
  /\ PhoneP!BodyType = Phone!BodyType
<1>1. Phone!Init => PhoneP!Init
  BY Zenon DEF Phone!Init, PhoneP!Init, Phone!NewRecording, PhoneP!NewRecording, Phone!Part,
     PhoneP!Part, Phone!NoFile, PhoneP!NoFile, Phone!IdleDrain, PhoneP!IdleDrain
<1>2. PhoneP!FlushedIsKept => Phone!FlushedIsKept
  BY Zenon DEF Phone!FlushedIsKept, PhoneP!FlushedIsKept, Phone!Part, PhoneP!Part,
     Phone!Range, PhoneP!Range
<1>3. PhoneP!Part = Phone!Part
  BY DEF Phone!Part, PhoneP!Part
<1>4. PhoneP!BodyType = Phone!BodyType
  BY DEF Phone!BodyType, PhoneP!BodyType, Phone!Packet, PhoneP!Packet
<1> QED
  BY <1>1, <1>2, <1>3, <1>4 DEF Phone!vars, PhoneP!vars

\* A step of the intake.
LEMMA SameIntake ==
  /\ Intake!Init => IntakeP!Init
  /\ Intake!vars = IntakeP!vars
  /\ \A h \in Handler : Intake!Work(h) => IntakeP!Work(h)
  /\ \A h \in Handler : Intake!Sync(h) => IntakeP!Sync(h)
  /\ \A h \in Handler : \A p, b : Intake!Receive(h, p, b) => IntakeP!Receive(h, p, b)
  /\ Intake!ServerCrash => IntakeP!ServerCrash
<1> USE DEF Intake!Idle, IntakeP!Idle, Intake!At, IntakeP!At, Intake!Goto, IntakeP!Goto,
            Intake!Finish, IntakeP!Finish
<1>1. Intake!Init => IntakeP!Init
  BY Zenon DEF Intake!Init, IntakeP!Init
<1>2. \A h \in Handler : Intake!Work(h) => IntakeP!Work(h)
  BY Zenon DEF Intake!Work, IntakeP!Work, Intake!Admit, IntakeP!Admit, Intake!Handover,
     IntakeP!Handover, Intake!Abandon, IntakeP!Abandon, Intake!TimeOut, IntakeP!TimeOut,
     Intake!Publish, IntakeP!Publish, Intake!Lock, IntakeP!Lock, Intake!Refuse, IntakeP!Refuse,
     Intake!FindExisting, IntakeP!FindExisting, Intake!FindRoom, IntakeP!FindRoom,
     Intake!Stage, IntakeP!Stage, Intake!Rename, IntakeP!Rename, Intake!StorageFails,
     IntakeP!StorageFails, Intake!Mine, IntakeP!Mine, Intake!Accepted, IntakeP!Accepted,
     Intake!HasRoom, IntakeP!HasRoom
<1>3. \A h \in Handler : Intake!Sync(h) => IntakeP!Sync(h)
  BY Zenon DEF Intake!Sync, IntakeP!Sync
<1>4. \A h \in Handler : \A p, b : Intake!Receive(h, p, b) => IntakeP!Receive(h, p, b)
  BY Zenon DEF Intake!Receive, IntakeP!Receive
<1>5. Intake!ServerCrash => IntakeP!ServerCrash
  BY Zenon DEF Intake!ServerCrash, IntakeP!ServerCrash, Cardinality, Intake!Cardinality, IntakeP!Cardinality
<1> QED
  BY <1>1, <1>2, <1>3, <1>4, <1>5 DEF Intake!vars, IntakeP!vars

\* What is proved of a step of the outbox.
LEMMA OutboxSteps ==
  ASSUME PhoneP!OutboxInv, [Phone!Next]_(Phone!vars)
  PROVE  /\ PhoneP!OutboxInv'
         /\ PhoneP!FlushedIsKept => PhoneP!FlushedIsKept'
         /\ PhoneP!SentIsSettled => PhoneP!SentIsSettled'
         /\ PhoneP!SentIsSettled /\ PhoneP!ContentsInv => PhoneP!ContentsInv'
<1>1. [PhoneP!Next]_(PhoneP!vars)
  BY SamePhoneStep DEF Phone!vars, PhoneP!vars
<1>2. PhoneP!OutboxInv'
  BY <1>1, OutboxParameters, PhoneP!NextIsSound DEF PhoneP!Sound
<1>3. PhoneP!FlushedIsKept => PhoneP!FlushedIsKept'
  BY <1>1, OutboxParameters, PhoneP!KeptStep
<1>4. PhoneP!SentIsSettled => PhoneP!SentIsSettled'
  BY <1>1, OutboxParameters, PhoneP!SettledStep
<1>5. PhoneP!SentIsSettled /\ PhoneP!ContentsInv => PhoneP!ContentsInv'
  BY <1>1, OutboxParameters, PhoneP!ContentsStep
<1> QED
  BY <1>2, <1>3, <1>4, <1>5

\* What is proved of a step of the intake.
LEMMA IntakeSteps ==
  ASSUME IntakeP!IntakeInv, [IntakeP!Next]_(IntakeP!vars)
  PROVE  IntakeP!IntakeInv'
<1>1. IntakeP!TypeOK'
  BY IntakeParameters, IntakeP!TypeStep DEF IntakeP!IntakeInv
<1>2. IntakeP!LockIsExclusive'
  BY IntakeParameters, IntakeP!LockStep DEF IntakeP!IntakeInv
<1>3. IntakeP!Durable'
  BY IntakeParameters, IntakeP!DurableStep DEF IntakeP!IntakeInv, IntakeP!Durable
<1> QED
  BY <1>1, <1>2, <1>3 DEF IntakeP!IntakeInv, IntakeP!Durable

-----------------------------------------------------------------------------
(* What ties the two sides together. *)

\* The request the phone waits for is one it sent.
RequestIsSent ==
  conn # NoConn /\ conn.state = "sent" => <<Mac, conn.part, conn.body>> \in sent

\* A handler serves a request the phone sent.
HandlersServe ==
  \A h \in Handler : handler[h].pc # "idle" => <<Mac, handler[h].part, handler[h].body>> \in sent

\* What the server has published was sent by the phone.
CapturesWereSent ==
  \A p \in Phone!Part : capture[p] # NoBody => <<Mac, p, capture[p]>> \in sent

\* An answer has one addressee: the request it belongs to.
AnswersAreUnique ==
  /\ \A h, g \in Attached : h = g
  /\ \A h \in Attached : /\ handler[h].pc # "idle" /\ conn # NoConn /\ conn.state = "sent"
                         /\ handler[h].part = conn.part /\ handler[h].body = conn.body

TiesOK == RequestIsSent /\ HandlersServe /\ CapturesWereSent /\ AnswersAreUnique

DeliveryInv ==
  /\ PhoneP!OutboxInv /\ PhoneP!SentIsSettled /\ PhoneP!FlushedIsKept /\ PhoneP!ContentsInv
  /\ IntakeP!IntakeInv /\ TiesOK

\* Every handler is idle or serves a part the phone knows.
LEMMA HandlerType ==
  ASSUME IntakeP!IntakeInv, NEW h \in Handler
  PROVE  /\ DOMAIN handler = Handler
         /\ \/ handler[h] = IntakeP!Idle
            \/ handler[h] \in IntakeP!Active
  BY DEF IntakeP!IntakeInv, IntakeP!TypeOK

\* What the phone's types say of the upload in progress.
LEMMA ConnFacts ==
  ASSUME PhoneP!OutboxInv, conn # NoConn
  PROVE  /\ conn \in [state : {"verify", "sent", "receipt", "error"}, part : Phone!Part,
                      to : {Mac}, body : Phone!BodyType]
         /\ conn.part \in Phone!Part /\ conn.body \in Phone!BodyType /\ conn.to = Mac
<1>1. conn \in PhoneP!ConnType
  BY DEF PhoneP!OutboxInv, PhoneP!StateOK
<1>2. conn \in [state : {"verify", "sent", "receipt", "error"}, part : Phone!Part,
                to : {Mac}, body : Phone!BodyType]
  BY <1>1, SamePhone DEF PhoneP!ConnType
<1> QED
  BY <1>2

-----------------------------------------------------------------------------
(* Steps of the phone. *)

\* What a step of the phone does to its upload and to what it has sent: it
\* ends the upload, begins one, or sends the one it has verified.
LEMMA PhoneConn ==
  ASSUME PhoneP!OutboxInv, Phone!PhoneNext \/ Phone!Crash
  PROVE  /\ sent \subseteq sent'
         /\ \/ conn' = conn
            \/ conn' = NoConn
            \/ conn = NoConn /\ conn'.state = "verify"
            \/ /\ conn # NoConn /\ conn.state = "verify"
               /\ conn'.part = conn.part /\ conn'.body = conn.body /\ conn'.state = "sent"
               /\ <<Mac, conn.part, conn.body>> \in sent'
<1>1. CASE Phone!Start \/ Phone!Calls \/ \E r \in Recording : Phone!Journal(r)
  BY <1>1 DEF Phone!Start, Phone!Calls, Phone!Begin, Phone!Add, Phone!Stop, Phone!RecoverConnection,
     Phone!Pair, Phone!Journal, Phone!Seal, Phone!SealDamaged, Phone!SealFails, Phone!NothingToSeal,
     Phone!Write, Phone!AddRefused, Phone!OpenFails, Phone!WriteFails
<1>2. CASE Phone!Crash
  BY <1>2 DEF Phone!Crash
<1>3. CASE \/ Phone!TimerFires \/ Phone!ListFails \/ Phone!PassDone \/ Phone!CountPending
           \/ Phone!CountFails \/ Phone!UploadFails \/ Phone!UploadAcked
  BY <1>3 DEF Phone!TimerFires, Phone!ListFails, Phone!PassDone, Phone!CountPending,
     Phone!CountFails, Phone!UploadFails, Phone!UploadAcked
<1>4. ASSUME NEW p \in Phone!Part, Phone!UploadStart(p)
      PROVE  sent' = sent /\ (conn' = conn \/ (conn = NoConn /\ conn'.state = "verify"))
  BY <1>4 DEF Phone!UploadStart
<1>5. CASE Phone!UploadSend
  <2>1. conn # NoConn /\ conn.state = "verify" /\ sent' = sent \cup {<<paired, conn.part, conn.body>>}
        /\ conn' = [conn EXCEPT !.state = "sent", !.to = paired]
        /\ paired = Phone!Owner(conn.part)
    BY <1>5 DEF Phone!UploadSend
  <2>2. conn'.part = conn.part /\ conn'.body = conn.body /\ conn'.state = "sent" /\ conn'.to = paired
    BY <2>1, ConnFacts
  <2>3. PhoneP!OutboxInv'
    <3>1. Phone!Next
      BY <1>5 DEF Phone!Next, Phone!PhoneNext, Phone!Pump
    <3> QED
      BY <3>1, OutboxSteps
  <2>4. <<paired, conn.part, conn.body>> \in sent' /\ sent' \subseteq {Mac} \X PhoneP!Part \X PhoneP!BodyType
    BY <2>1, <2>3 DEF PhoneP!OutboxInv, PhoneP!StateOK
  <2>5. paired = Mac
    BY <2>4
  <2> QED
    BY <2>1, <2>2, <2>5
<1> QED
  BY <1>1, <1>2, <1>3, <1>4, <1>5 DEF Phone!PhoneNext, Phone!Pump

\* What closing the connection does to the handlers.
LEMMA DetachedEffect ==
  ASSUME IntakeP!IntakeInv, handler' = Detached, NEW h \in Handler
  PROVE  /\ handler'[h].pc = handler[h].pc /\ handler'[h].part = handler[h].part
         /\ handler'[h].body = handler[h].body /\ ~handler'[h].caller
         /\ handler'[h] \in IntakeP!Active \cup {IntakeP!Idle}
<1>1. handler'[h] = [handler[h] EXCEPT !.caller = FALSE]
  BY DEF Detached
<1>2. CASE handler[h] = IntakeP!Idle
  <2>1. ASSUME NEW i \in [pc : {"idle"}, part : {Free}, body : {NoBody}, caller : {FALSE}]
        PROVE  [i EXCEPT !.caller = FALSE] = i
    OBVIOUS
  <2>2. IntakeP!Idle \in [pc : {"idle"}, part : {Free}, body : {NoBody}, caller : {FALSE}]
    BY DEF IntakeP!Idle
  <2>3. handler'[h] = IntakeP!Idle
    BY <1>1, <1>2, <2>1, <2>2
  <2> QED
    BY <1>2, <2>3 DEF IntakeP!Idle
<1>3. CASE handler[h] \in IntakeP!Active
  BY <1>1, <1>3 DEF IntakeP!Active
<1> QED
  BY <1>2, <1>3, HandlerType

\* The intake does not depend on who waits for its answers.
LEMMA DetachedIntake ==
  ASSUME IntakeP!IntakeInv, handler' = Detached, UNCHANGED serverVars
  PROVE  IntakeP!IntakeInv'
<1>1. \A h \in Handler : /\ handler'[h].pc = handler[h].pc /\ handler'[h].part = handler[h].part
                         /\ handler'[h].body = handler[h].body
                         /\ handler'[h] \in IntakeP!Active \cup {IntakeP!Idle}
  BY DetachedEffect
<1>2. handler' \in [Handler -> IntakeP!Active \cup {IntakeP!Idle}]
  <2>1. handler' = [h \in Handler |-> handler'[h]]
    BY DEF Detached
  <2> QED
    BY <1>1, <2>1
<1>3. UNCHANGED <<permits, lock, capture, synced, space, acked>>
  BY DEF serverVars
<1>4. IntakeP!TypeOK'
  BY <1>2, <1>3 DEF IntakeP!IntakeInv, IntakeP!TypeOK
<1>5. IntakeP!LockIsExclusive'
  BY <1>1, <1>3 DEF IntakeP!IntakeInv, IntakeP!LockIsExclusive
<1>6. IntakeP!WorkIsSound'
  BY <1>1, <1>3 DEF IntakeP!IntakeInv, IntakeP!WorkIsSound, IntakeP!At, IntakeP!Mine, IntakeP!HasRoom
<1>7. IntakeP!SyncedIsPublished' /\ IntakeP!ReceiptIsDurable' /\ IntakeP!ReserveIsKept'
  BY <1>3 DEF IntakeP!IntakeInv, IntakeP!SyncedIsPublished, IntakeP!ReceiptIsDurable,
     IntakeP!ReserveIsKept
<1> QED
  BY <1>4, <1>5, <1>6, <1>7 DEF IntakeP!IntakeInv

\* A step of the phone is one of the outbox, and keeps the two sides tied.
LEMMA PhoneSteps ==
  ASSUME DeliveryInv, PhoneStep
  PROVE  Phone!Next /\ IntakeP!IntakeInv' /\ TiesOK'
<1>1. UNCHANGED serverVars /\ (Phone!PhoneNext \/ Phone!Crash)
      /\ handler' = IF conn' = NoConn THEN Detached ELSE handler
  BY DEF PhoneStep
<1>2. Phone!Next
  BY <1>1 DEF Phone!Next
<1>i. IntakeP!IntakeInv /\ PhoneP!OutboxInv /\ TiesOK
  BY DEF DeliveryInv
<1>3. UNCHANGED <<permits, lock, capture, synced, space, acked>>
  BY <1>1 DEF serverVars
<1>4. IntakeP!IntakeInv'
  <2>1. CASE conn' = NoConn
    BY <1>1, <1>i, <2>1, DetachedIntake
  <2>2. CASE conn' # NoConn
    <3>1. UNCHANGED IntakeP!vars
      BY <1>1, <1>3, <2>2 DEF IntakeP!vars
    <3> QED
      BY <1>i, <3>1, IntakeSteps
  <2> QED
    BY <2>1, <2>2
<1>5. \A h \in Handler : /\ handler'[h].pc = handler[h].pc /\ handler'[h].part = handler[h].part
                         /\ handler'[h].body = handler[h].body
                         /\ handler'[h].caller => handler[h].caller /\ conn' # NoConn
  BY <1>1, <1>i, DetachedEffect
<1>6. /\ sent \subseteq sent'
      /\ \/ conn' = conn
         \/ conn' = NoConn
         \/ conn = NoConn /\ conn'.state = "verify"
         \/ /\ conn # NoConn /\ conn.state = "verify"
            /\ conn'.part = conn.part /\ conn'.body = conn.body /\ conn'.state = "sent"
            /\ <<Mac, conn.part, conn.body>> \in sent'
  BY <1>1, <1>i, PhoneConn
<1>7. RequestIsSent'
  BY <1>6, <1>i DEF TiesOK, RequestIsSent
<1>8. HandlersServe'
  BY <1>5, <1>6, <1>i DEF TiesOK, HandlersServe
<1>9. CapturesWereSent'
  BY <1>3, <1>6, <1>i DEF TiesOK, CapturesWereSent
<1>10. AnswersAreUnique'
  <2>1. Attached' \subseteq Attached
    BY <1>5 DEF Attached
  <2>2. ASSUME NEW h \in Attached' PROVE conn' = conn
    <3>1. h \in Attached /\ conn' # NoConn
      BY <1>5, <2>1 DEF Attached
    <3>2. conn # NoConn /\ conn.state = "sent"
      BY <1>i, <3>1 DEF TiesOK, AnswersAreUnique
    <3> QED
      BY <1>6, <3>1, <3>2
  <2>3. ASSUME NEW h \in Attached'
        PROVE  /\ handler'[h].pc # "idle" /\ conn' # NoConn /\ conn'.state = "sent"
               /\ handler'[h].part = conn'.part /\ handler'[h].body = conn'.body
    <3>1. h \in Attached /\ h \in Handler
      BY <2>1 DEF Attached
    <3> QED
      BY <1>5, <1>i, <2>2, <3>1 DEF TiesOK, AnswersAreUnique
  <2> QED
    BY <1>i, <2>1, <2>3 DEF TiesOK, AnswersAreUnique
<1> QED
  BY <1>2, <1>4, <1>7, <1>8, <1>9, <1>10 DEF TiesOK

-----------------------------------------------------------------------------
(* Steps of the server. *)

\* The request that reaches the server is the one the phone waits for.
LEMMA DeliverSteps ==
  ASSUME DeliveryInv, NEW h \in Handler, Deliver(h)
  PROVE  UNCHANGED Phone!vars /\ IntakeP!IntakeInv' /\ TiesOK'
<1>i. IntakeP!IntakeInv /\ PhoneP!OutboxInv /\ TiesOK
  BY DEF DeliveryInv
<1>1. /\ conn # NoConn /\ conn.state = "sent" /\ Attached = {}
      /\ IntakeP!Receive(h, conn.part, conn.body)
      /\ UNCHANGED <<alive, paired, rec, disk, queue, store, drain, flushed, sent, conn>>
  BY SameIntake DEF Deliver, phoneVars
<1>2. /\ handler' = [handler EXCEPT ![h] = [pc |-> "waiting", part |-> conn.part,
                                           body |-> conn.body, caller |-> TRUE]]
      /\ UNCHANGED <<permits, lock, capture, synced, space, acked>>
  BY <1>1 DEF IntakeP!Receive
<1>3. conn.part \in Phone!Part /\ conn.body \in Phone!BodyType
  BY <1>1, <1>i, ConnFacts
<1>4. IntakeP!IntakeInv'
  <2>1. IntakeP!Next
    BY <1>1, <1>3 DEF IntakeP!Next
  <2> QED
    BY <1>i, <2>1, IntakeSteps
<1>5. UNCHANGED Phone!vars
  BY <1>1, <1>2 DEF Phone!vars, Held
<1>6. handler'[h] = [pc |-> "waiting", part |-> conn.part, body |-> conn.body, caller |-> TRUE]
      /\ \A g \in Handler : g # h => handler'[g] = handler[g]
  BY <1>2, <1>i, HandlerType
<1>7. RequestIsSent' /\ CapturesWereSent'
  BY <1>1, <1>2, <1>i DEF TiesOK, RequestIsSent, CapturesWereSent
<1>8. HandlersServe'
  BY <1>1, <1>6, <1>i DEF TiesOK, RequestIsSent, HandlersServe
<1>9. AnswersAreUnique'
  <2>1. Attached' = {h}
    BY <1>1, <1>6 DEF Attached
  <2> QED
    BY <1>1, <1>6, <2>1 DEF AnswersAreUnique
<1> QED
  BY <1>4, <1>5, <1>7, <1>8, <1>9 DEF TiesOK

\* What a step of one handler does to the handlers: it goes on with the same
\* request, keeps or loses its caller, or ends; the others do not notice.
LEMMA WorkEffect ==
  ASSUME IntakeP!IntakeInv, NEW h \in Handler, IntakeP!Work(h)
  PROVE  /\ \A g \in Handler : g # h => handler'[g] = handler[g]
         /\ \/ handler'[h].pc = "idle" /\ ~handler'[h].caller
            \/ /\ handler[h].pc # "idle" /\ handler'[h].pc # "idle"
               /\ handler'[h].part = handler[h].part /\ handler'[h].body = handler[h].body
               /\ handler'[h].caller => handler[h].caller
<1>t. DOMAIN handler = Handler /\ (handler[h] = IntakeP!Idle \/ handler[h] \in IntakeP!Active)
  BY HandlerType
<1>u. handler \in [Handler -> IntakeP!Active \cup {IntakeP!Idle}]
  BY DEF IntakeP!IntakeInv, IntakeP!TypeOK
<1>1. ASSUME NEW pc, pc # "idle", handler' = [handler EXCEPT ![h].pc = pc], handler[h].pc # "idle"
      PROVE  /\ \A g \in Handler : g # h => handler'[g] = handler[g]
             /\ handler'[h].pc # "idle" /\ handler'[h].caller = handler[h].caller
             /\ handler'[h].part = handler[h].part /\ handler'[h].body = handler[h].body
  <2>1. handler[h] \in IntakeP!Active
    BY <1>1, <1>t DEF IntakeP!Idle
  <2> QED
    BY <1>1, <1>u, <2>1 DEF IntakeP!Active
<1>2. ASSUME handler' = [handler EXCEPT ![h] = IntakeP!Idle]
      PROVE  /\ \A g \in Handler : g # h => handler'[g] = handler[g]
             /\ handler'[h].pc = "idle" /\ handler'[h].caller = FALSE
  BY <1>2, <1>u DEF IntakeP!Idle
<1>3. ASSUME handler' = [handler EXCEPT ![h].caller = FALSE], handler[h].caller
      PROVE  /\ \A g \in Handler : g # h => handler'[g] = handler[g]
             /\ handler[h].pc # "idle" /\ handler'[h].pc # "idle"
             /\ handler'[h].part = handler[h].part /\ handler'[h].body = handler[h].body
             /\ handler'[h].caller = FALSE
  <2>1. handler[h] \in IntakeP!Active
    BY <1>3, <1>t DEF IntakeP!Idle
  <2> QED
    BY <1>3, <1>u, <2>1 DEF IntakeP!Active, IntakeP!InMemory, IntakeP!Publishing
<1>4. CASE \/ IntakeP!Admit(h) \/ IntakeP!Handover(h) \/ IntakeP!Lock(h) \/ IntakeP!FindExisting(h)
           \/ IntakeP!FindRoom(h) \/ IntakeP!Stage(h) \/ IntakeP!Rename(h)
  <2>1. \/ IntakeP!Goto(h, "reading") \/ IntakeP!Goto(h, "queued") \/ IntakeP!Goto(h, "check")
        \/ IntakeP!Goto(h, "sync") \/ IntakeP!Goto(h, "room") \/ IntakeP!Goto(h, "staged")
    BY <1>4 DEF IntakeP!Admit, IntakeP!Handover, IntakeP!Lock, IntakeP!FindExisting, IntakeP!FindRoom,
       IntakeP!Stage, IntakeP!Rename
  <2>2. handler[h].pc # "idle"
    BY <1>4 DEF IntakeP!Admit, IntakeP!Handover, IntakeP!Lock, IntakeP!FindExisting, IntakeP!FindRoom,
       IntakeP!Stage, IntakeP!Rename, IntakeP!At
  <2> QED
    BY <1>1, <2>1, <2>2 DEF IntakeP!Goto
<1>5. CASE IntakeP!Abandon(h) \/ IntakeP!Refuse(h) \/ IntakeP!StorageFails(h)
  <2>1. handler' = [handler EXCEPT ![h] = IntakeP!Idle]
    BY <1>5 DEF IntakeP!Abandon, IntakeP!Refuse, IntakeP!StorageFails, IntakeP!Finish
  <2> QED
    BY <1>2, <2>1
<1>6. CASE IntakeP!TimeOut(h)
  <2>1. handler' = [handler EXCEPT ![h].caller = FALSE] /\ handler[h].caller
    BY <1>6 DEF IntakeP!TimeOut
  <2> QED
    BY <1>3, <2>1
<1> QED
  BY <1>4, <1>5, <1>6 DEF IntakeP!Work, IntakeP!Publish

\* What it does to the captures: it publishes its body where nothing was, and
\* gives no promise.
LEMMA WorkPublishes ==
  ASSUME IntakeP!IntakeInv, NEW h \in Handler, IntakeP!Work(h)
  PROVE  /\ synced' = synced /\ Held' = Held
         /\ \A p \in Phone!Part : \/ capture'[p] = capture[p]
                                  \/ /\ handler[h].pc # "idle" /\ p = handler[h].part
                                     /\ capture'[p] = handler[h].body
<1>t. capture \in [Phone!Part -> Phone!BodyType \cup {NoBody}] /\ synced \subseteq Phone!Part
  BY DEF IntakeP!IntakeInv, IntakeP!TypeOK
<1>1. CASE ~IntakeP!Rename(h)
  <2>1. UNCHANGED <<capture, synced>>
    BY <1>1 DEF IntakeP!Work, IntakeP!Publish, IntakeP!Admit, IntakeP!Handover, IntakeP!Abandon,
       IntakeP!TimeOut, IntakeP!Lock, IntakeP!Refuse, IntakeP!FindExisting, IntakeP!FindRoom,
       IntakeP!Stage, IntakeP!StorageFails
  <2> QED
    BY <2>1 DEF Held
<1>2. CASE IntakeP!Rename(h)
  <2>1. /\ handler[h].pc = "staged" /\ synced' = synced
        /\ capture' = [capture EXCEPT ![handler[h].part] = handler[h].body]
    BY <1>2 DEF IntakeP!Rename, IntakeP!At
  <2>2. capture[handler[h].part] = NoBody
    BY <2>1 DEF IntakeP!IntakeInv, IntakeP!WorkIsSound, IntakeP!At, IntakeP!Mine
  <2>3. handler[h].part \notin synced
    BY <2>2 DEF IntakeP!IntakeInv, IntakeP!SyncedIsPublished
  <2>4. \A p \in synced : capture'[p] = capture[p]
    BY <1>t, <2>1, <2>3
  <2>5. Held' = Held
    BY <2>1, <2>4 DEF Held
  <2> QED
    BY <1>t, <2>1, <2>5
<1> QED
  BY <1>1, <1>2

\* A phone that loses its handler sees an error; the pair stays tied.
LEMMA WorkSteps ==
  ASSUME DeliveryInv, NEW h \in Handler, Work(h)
  PROVE  [Phone!Next]_(Phone!vars) /\ IntakeP!IntakeInv' /\ TiesOK'
<1>i. IntakeP!IntakeInv /\ PhoneP!OutboxInv /\ TiesOK
  BY DEF DeliveryInv
<1>1. /\ IntakeP!Work(h)
      /\ conn' = IF handler[h].caller /\ ~handler'[h].caller THEN Answered("error") ELSE conn
      /\ UNCHANGED <<alive, paired, rec, disk, queue, store, drain, flushed, sent>>
  BY SameIntake DEF Work, phoneVars
<1>2. IntakeP!IntakeInv'
  <2>1. IntakeP!Next
    BY <1>1 DEF IntakeP!Next
  <2> QED
    BY <1>i, <2>1, IntakeSteps
<1>3. /\ \A g \in Handler : g # h => handler'[g] = handler[g]
      /\ \/ handler'[h].pc = "idle" /\ ~handler'[h].caller
         \/ /\ handler[h].pc # "idle" /\ handler'[h].pc # "idle"
            /\ handler'[h].part = handler[h].part /\ handler'[h].body = handler[h].body
            /\ handler'[h].caller => handler[h].caller
  BY <1>1, <1>i, WorkEffect
<1>4. /\ synced' = synced /\ Held' = Held
      /\ \A p \in Phone!Part : \/ capture'[p] = capture[p]
                               \/ /\ handler[h].pc # "idle" /\ p = handler[h].part
                                  /\ capture'[p] = handler[h].body
  BY <1>1, <1>i, WorkPublishes
<1>5. CapturesWereSent' /\ HandlersServe'
  BY <1>1, <1>3, <1>4, <1>i DEF TiesOK, CapturesWereSent, HandlersServe
<1>6. CASE handler[h].caller /\ ~handler'[h].caller
  <2>1. h \in Attached
    BY <1>6 DEF Attached
  <2>2. conn # NoConn /\ conn.state = "sent" /\ conn' = [conn EXCEPT !.state = "error"]
    BY <1>1, <1>6, <1>i, <2>1 DEF TiesOK, AnswersAreUnique, Answered
  <2>3. Phone!Next
    BY <1>1, <1>4, <2>2 DEF Phone!Next, Phone!ServerRefuses
  <2>4. conn'.state = "error"
    BY <1>i, <2>2, ConnFacts
  <2>5. Attached' = {}
    BY <1>3, <1>6, <1>i, <2>1 DEF Attached, TiesOK, AnswersAreUnique
  <2> QED
    BY <1>2, <1>5, <2>3, <2>4, <2>5 DEF TiesOK, RequestIsSent, AnswersAreUnique
<1>7. CASE ~(handler[h].caller /\ ~handler'[h].caller)
  <2>1. conn' = conn
    BY <1>1, <1>7
  <2>2. UNCHANGED Phone!vars
    BY <1>1, <1>4, <2>1 DEF Phone!vars
  <2>3. RequestIsSent'
    BY <1>1, <1>i, <2>1 DEF TiesOK, RequestIsSent
  <2>4. \A g \in Attached' : /\ g \in Attached /\ handler'[g].pc # "idle"
                             /\ handler'[g].part = handler[g].part /\ handler'[g].body = handler[g].body
    BY <1>3, <1>i DEF Attached, TiesOK, AnswersAreUnique
  <2>5. AnswersAreUnique'
    BY <1>i, <2>1, <2>4 DEF TiesOK, AnswersAreUnique
  <2> QED
    BY <1>2, <1>5, <2>2, <2>3, <2>5 DEF TiesOK
<1> QED
  BY <1>6, <1>7

\* A receipt makes the server hold what the phone sent, and answers only the
\* phone that still waits for it.
LEMMA AnswerSteps ==
  ASSUME DeliveryInv, NEW h \in Handler, Answer(h)
  PROVE  [Phone!Next]_(Phone!vars) /\ IntakeP!IntakeInv' /\ TiesOK'
<1>i. IntakeP!IntakeInv /\ PhoneP!OutboxInv /\ TiesOK
  BY DEF DeliveryInv
<1>1. /\ IntakeP!Sync(h)
      /\ conn' = IF handler[h].caller THEN Answered("receipt") ELSE conn
      /\ UNCHANGED <<alive, paired, rec, disk, queue, store, drain, flushed, sent>>
  BY SameIntake DEF Answer, phoneVars
<1>2. IntakeP!IntakeInv'
  <2>1. IntakeP!Next
    BY <1>1 DEF IntakeP!Next
  <2> QED
    BY <1>i, <2>1, IntakeSteps
<1>3. /\ handler[h].pc = "sync" /\ handler' = [handler EXCEPT ![h] = IntakeP!Idle]
      /\ synced' = synced \cup {handler[h].part} /\ capture' = capture
  BY <1>1 DEF IntakeP!Sync, IntakeP!At, IntakeP!Finish
<1>4. handler'[h].pc = "idle" /\ ~handler'[h].caller /\ \A g \in Handler : g # h => handler'[g] = handler[g]
  <2>1. handler \in [Handler -> IntakeP!Active \cup {IntakeP!Idle}]
    BY <1>i DEF IntakeP!IntakeInv, IntakeP!TypeOK
  <2> QED
    BY <1>3, <2>1 DEF IntakeP!Idle
<1> DEFINE m == <<Mac, handler[h].part, handler[h].body>>
<1>5. m \in sent /\ capture[handler[h].part] = handler[h].body
  BY <1>3, <1>i DEF TiesOK, HandlersServe, IntakeP!IntakeInv, IntakeP!WorkIsSound, IntakeP!At, IntakeP!Mine
<1>6. Held' = Held \cup {m}
  BY <1>3, <1>5 DEF Held
<1>7. CapturesWereSent' /\ HandlersServe'
  BY <1>1, <1>3, <1>4, <1>i DEF TiesOK, CapturesWereSent, HandlersServe
<1>8. CASE handler[h].caller
  <2>1. h \in Attached
    BY <1>8 DEF Attached
  <2>2. conn # NoConn /\ conn.state = "sent" /\ conn.part = handler[h].part /\ conn.body = handler[h].body
    BY <1>i, <2>1 DEF TiesOK, AnswersAreUnique
  <2>3. conn' = [conn EXCEPT !.state = "receipt"] /\ <<conn.to, conn.part, conn.body>> = m
    BY <1>1, <1>8, <1>i, <2>2, ConnFacts DEF Answered
  <2>4. Phone!Next
    <3> HIDE DEF m
    <3> QED
      BY <1>1, <1>5, <1>6, <2>2, <2>3 DEF Phone!Next, Phone!ServerStores
  <2>5. conn'.state = "receipt"
    BY <1>i, <2>2, <2>3, ConnFacts
  <2>6. Attached' = {}
    BY <1>4, <1>i, <2>1 DEF Attached, TiesOK, AnswersAreUnique
  <2> QED
    BY <1>2, <1>7, <2>4, <2>5, <2>6 DEF TiesOK, RequestIsSent, AnswersAreUnique
<1>9. CASE ~handler[h].caller
  <2>1. conn' = conn
    BY <1>1, <1>9
  <2>2. Phone!Next
    <3> HIDE DEF m
    <3> QED
      BY <1>1, <1>5, <1>6, <2>1 DEF Phone!Next, Phone!ServerStores
  <2>3. RequestIsSent'
    BY <1>1, <1>i, <2>1 DEF TiesOK, RequestIsSent
  <2>4. \A g \in Attached' : g \in Attached /\ g # h
    BY <1>4 DEF Attached
  <2>5. AnswersAreUnique'
    BY <1>4, <1>i, <2>1, <2>4 DEF TiesOK, AnswersAreUnique, Attached
  <2> QED
    BY <1>2, <1>7, <2>2, <2>3, <2>5 DEF TiesOK
<1> QED
  BY <1>8, <1>9

\* A crash of the server loses nothing it has promised; a phone that waits
\* sees an error.
LEMMA CrashSteps ==
  ASSUME DeliveryInv, ServerCrash
  PROVE  [Phone!Next]_(Phone!vars) /\ IntakeP!IntakeInv' /\ TiesOK'
<1>i. IntakeP!IntakeInv /\ PhoneP!OutboxInv /\ TiesOK
  BY DEF DeliveryInv
<1>1. /\ IntakeP!ServerCrash
      /\ conn' = IF Attached # {} THEN Answered("error") ELSE conn
      /\ UNCHANGED <<alive, paired, rec, disk, queue, store, drain, flushed, sent>>
  BY SameIntake DEF ServerCrash, phoneVars
<1>2. IntakeP!IntakeInv'
  <2>1. IntakeP!Next
    BY <1>1 DEF IntakeP!Next
  <2> QED
    BY <1>i, <2>1, IntakeSteps
<1>3. handler' = [h \in Handler |-> IntakeP!Idle] /\ synced' = synced
  BY <1>1 DEF IntakeP!ServerCrash
<1>4. PICK lost \in SUBSET {p \in Phone!Part : capture[p] # NoBody /\ p \notin synced} :
        capture' = [p \in Phone!Part |-> IF p \in lost THEN NoBody ELSE capture[p]]
  BY <1>1 DEF IntakeP!ServerCrash
<1>5. Held' = Held
  <2>1. synced \subseteq Phone!Part
    BY <1>i DEF IntakeP!IntakeInv, IntakeP!TypeOK
  <2>2. \A p \in synced : capture'[p] = capture[p]
    BY <1>4, <2>1
  <2> QED
    BY <1>3, <2>2 DEF Held
<1>6. \A h \in Handler : handler'[h].pc = "idle" /\ ~handler'[h].caller
  BY <1>3 DEF IntakeP!Idle
<1>7. HandlersServe' /\ CapturesWereSent'
  BY <1>1, <1>4, <1>6, <1>i DEF TiesOK, HandlersServe, CapturesWereSent
<1>8. AnswersAreUnique'
  BY <1>6 DEF AnswersAreUnique, Attached
<1>9. CASE Attached # {}
  <2>1. conn # NoConn /\ conn.state = "sent" /\ conn' = [conn EXCEPT !.state = "error"]
    BY <1>1, <1>9, <1>i DEF TiesOK, AnswersAreUnique, Answered
  <2>2. Phone!Next
    BY <1>1, <1>5, <2>1 DEF Phone!Next, Phone!ServerRefuses
  <2>3. conn'.state = "error"
    BY <1>i, <2>1, ConnFacts
  <2> QED
    BY <1>2, <1>7, <1>8, <2>2, <2>3 DEF TiesOK, RequestIsSent
<1>10. CASE Attached = {}
  <2>1. conn' = conn
    BY <1>1, <1>10
  <2>2. UNCHANGED Phone!vars
    BY <1>1, <1>5, <2>1 DEF Phone!vars
  <2>3. RequestIsSent'
    BY <1>1, <1>i, <2>1 DEF TiesOK, RequestIsSent
  <2> QED
    BY <1>2, <1>7, <1>8, <2>2, <2>3 DEF TiesOK
<1> QED
  BY <1>9, <1>10

-----------------------------------------------------------------------------
(* The refinement. *)

\* The initial states are initial states of the outbox and satisfy the
\* invariant.
LEMMA InitIsDelivery ==
  ASSUME Init PROVE Phone!Init /\ DeliveryInv
<1>1. Phone!Init /\ PhoneP!Init /\ IntakeP!Init
  BY SamePhone, SameIntake DEF Init
<1>2. /\ PhoneP!OutboxInv /\ PhoneP!SentIsSettled /\ PhoneP!FlushedIsKept
      /\ PhoneP!ContentsInv
  BY <1>1, OutboxParameters, PhoneP!InitIsSound, PhoneP!InitContents
<1>3. IntakeP!IntakeInv
  BY <1>1, IntakeParameters DEF IntakeP!Init, IntakeP!IntakeInv, IntakeP!TypeOK, IntakeP!Idle,
     IntakeP!LockIsExclusive, IntakeP!WorkIsSound, IntakeP!At, IntakeP!SyncedIsPublished,
     IntakeP!ReceiptIsDurable, IntakeP!ReserveIsKept, IntakeP!Publishing
<1>4. /\ \A h \in Handler : handler[h].pc = "idle" /\ ~handler[h].caller
      /\ \A p \in Phone!Part : capture[p] = NoBody
  BY <1>1 DEF IntakeP!Init, IntakeP!Idle
<1>5. conn = NoConn
  BY <1>1 DEF Phone!Init
<1>6. TiesOK
  BY <1>4, <1>5 DEF TiesOK, RequestIsSent, HandlersServe, CapturesWereSent, AnswersAreUnique, Attached
<1> QED
  BY <1>1, <1>2, <1>3, <1>6 DEF DeliveryInv

\* Every step of the pair is a step of the outbox or leaves it alone, and
\* preserves the invariant.
LEMMA NextIsDelivery ==
  ASSUME DeliveryInv, [Next]_vars PROVE [Phone!Next]_(Phone!vars) /\ DeliveryInv'
<1>1. [Phone!Next]_(Phone!vars) /\ IntakeP!IntakeInv' /\ TiesOK'
  <2>1. CASE Next
    BY <2>1, PhoneSteps, DeliverSteps, WorkSteps, AnswerSteps, CrashSteps DEF Next
  <2>2. CASE UNCHANGED vars
    <3>1. UNCHANGED <<alive, paired, rec, disk, queue, store, drain, conn, flushed, sent>>
          /\ UNCHANGED <<handler, permits, lock, capture, synced, space, acked>>
      BY <2>2 DEF vars, phoneVars, serverVars
    <3>2. UNCHANGED Phone!vars /\ UNCHANGED IntakeP!vars
      BY <3>1 DEF Phone!vars, IntakeP!vars, Held
    <3>3. TiesOK'
      BY <3>1 DEF DeliveryInv, TiesOK, RequestIsSent, HandlersServe, CapturesWereSent,
         AnswersAreUnique, Attached
    <3> QED
      BY <3>2, <3>3, IntakeSteps DEF DeliveryInv
  <2> QED
    BY <2>1, <2>2
<1> QED
  BY <1>1, OutboxSteps DEF DeliveryInv

\* The invariant that ties the two sides together.
THEOREM DeliveryIsSound == Spec => []DeliveryInv
<1>1. Init => DeliveryInv
  BY InitIsDelivery
<1>2. DeliveryInv /\ [Next]_vars => DeliveryInv'
  BY NextIsDelivery
<1> QED
  BY <1>1, <1>2, PTL DEF Spec

\* The intake is a server as the outbox needs it: with its synced captures
\* as what the server holds, every behaviour of the pair, with lost answers,
\* timeouts, retries and crashes of both, is one of the outbox.
THEOREM IntakeServesTheOutbox == Spec => ImplementsOutbox
<1>1. Init => Phone!Init
  BY InitIsDelivery
<1>2. DeliveryInv /\ [Next]_vars => [Phone!Next]_(Phone!vars)
  BY NextIsDelivery
<1> QED
  BY <1>1, <1>2, DeliveryIsSound, PTL DEF Spec, ImplementsOutbox, Phone!Spec

\* A flushed packet is in a journal of the phone or on the server's stable
\* storage, end to end.
THEOREM NothingIsEverLost == Spec => []NothingIsLost
<1>1. DeliveryInv => NothingIsLost
  BY SamePhone DEF DeliveryInv, NothingIsLost
<1> QED
  BY <1>1, DeliveryIsSound, PTL

\* At most one handler answers the phone, and it serves the request the
\* phone waits for: a late answer is never taken for a current one.
THEOREM AnswersAreForTheirRequests == Spec => []AnswersMatchRequests
<1>1. ASSUME DeliveryInv PROVE Cardinality(Attached) <= 1
  <2>1. \A h, g \in Attached : h = g
    BY <1>1 DEF DeliveryInv, TiesOK, AnswersAreUnique
  <2>2. CASE Attached = {}
    BY <2>2, FS_EmptySet
  <2>3. CASE Attached # {}
    <3>1. PICK h \in Attached : Attached = {h}
      BY <2>1, <2>3
    <3> QED
      BY <3>1, FS_Singleton
  <2> QED
    BY <2>2, <2>3
<1>2. DeliveryInv => AnswersMatchRequests
  BY <1>1 DEF DeliveryInv, TiesOK, AnswersAreUnique, AnswersMatchRequests
<1> QED
  BY <1>2, DeliveryIsSound, PTL

\* Whatever became of the attempts before, a request of the phone is never
\* refused as an invalid part or as a conflict: what is checked was sent, all
\* that was sent of a part are the same bytes, and these are acceptable.
THEOREM RetriesAreNeverRefused == Spec => []RetriesAreAccepted
<1>1. ASSUME DeliveryInv, NEW h \in Handler, handler[h].pc = "check"
      PROVE  /\ AcceptablePart(<<handler[h].part, handler[h].body>>)
             /\ capture[handler[h].part] \in {NoBody, handler[h].body}
  <2> DEFINE p == handler[h].part
             b == handler[h].body
  <2>1. <<Mac, p, b>> \in sent /\ p \in Phone!Part
    <3>1. handler[h].pc # "idle"
      BY <1>1
    <3>2. <<Mac, p, b>> \in sent
      BY <1>1, <3>1 DEF DeliveryInv, TiesOK, HandlersServe
    <3>3. handler[h] \in IntakeP!Active
      BY <1>1, HandlerType DEF DeliveryInv, IntakeP!Idle
    <3> QED
      BY <3>2, <3>3 DEF IntakeP!Active
  <2> HIDE DEF p, b
  <2>2. b.fresh # <<>> /\ PhoneP!BodyIsSound(p, b)
    BY <1>1, <2>1 DEF DeliveryInv, PhoneP!ContentsInv, PhoneP!SentIsSound
  <2>3. AcceptablePart(<<p, b>>)
    BY <2>2 DEF AcceptablePart, PhoneP!BodyIsSound
  <2>4. ASSUME capture[p] # NoBody PROVE capture[p] = b
    <3>1. <<Mac, p, capture[p]>> \in sent
      BY <1>1, <2>1, <2>4 DEF DeliveryInv, TiesOK, CapturesWereSent
    <3> QED
      BY <1>1, <2>1, <3>1 DEF DeliveryInv, PhoneP!SentIsSettled
  <2> QED
    BY <2>3, <2>4 DEF p, b
<1>2. DeliveryInv => RetriesAreAccepted
  BY <1>1 DEF RetriesAreAccepted
<1> QED
  BY <1>2, DeliveryIsSound, PTL
=============================================================================
