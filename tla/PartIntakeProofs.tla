-------------------------- MODULE PartIntakeProofs --------------------------
(***************************************************************************)
(* What PartIntake guarantees for every number of requests, parts, bodies, *)
(* permits and storage units.                                              *)
(*                                                                         *)
(* ReceiptIsDurable and ReserveIsKept are not inductive: they depend on    *)
(* what a thread has found out and still holds when it acts on it.  The    *)
(* publication lock is what keeps it true, so the invariant says who holds *)
(* the lock, and what each stage of a publication may rely on.             *)
(***************************************************************************)
EXTENDS PartIntake, FiniteSetTheorems, TLAPS

\* The lock belongs to the thread that publishes, so there is at most one.
LockIsExclusive == \A h \in Handler : handler[h].pc \in Publishing => lock = h

\* What a request may rely on at each stage.
WorkIsSound ==
  \A h \in Handler :
    /\ At(h, "room") => HasRoom
    /\ At(h, "room") \/ At(h, "staged") => Mine(h) = NoBody
    /\ At(h, "sync") => Mine(h) = handler[h].body

\* What was synced is there.
SyncedIsPublished == \A p \in synced : capture[p] # NoBody

IntakeInv ==
  /\ TypeOK /\ LockIsExclusive /\ WorkIsSound /\ SyncedIsPublished
  /\ ReceiptIsDurable /\ ReserveIsKept

-----------------------------------------------------------------------------
\* The types are preserved by every step.
LEMMA TypeStep == TypeOK /\ [Next]_vars => TypeOK'
<1> SUFFICES ASSUME TypeOK, [Next]_vars PROVE TypeOK'
  OBVIOUS
<1> USE IntakeAssumption DEF TypeOK
<1>a. Idle \notin Active /\ \A h \in Handler : At(h, "idle") <=> handler[h] = Idle
  BY DEF Idle, Active, At, InMemory, Publishing
<1>b. ASSUME NEW h \in Handler, NEW pc \in {"waiting"} \cup InMemory, ~At(h, "idle"), Goto(h, pc)
      PROVE  handler' \in [Handler -> Active \cup {Idle}]
  BY <1>a, <1>b DEF Goto, Active
<1>c. ASSUME NEW h \in Handler, handler' = [handler EXCEPT ![h] = Idle]
      PROVE  handler' \in [Handler -> Active \cup {Idle}]
  BY <1>c
<1>1. ASSUME NEW h \in Handler, NEW p \in PartId, NEW b \in Body, Receive(h, p, b)
      PROVE  TypeOK'
  BY <1>1 DEF Receive, Active
<1>2. ASSUME NEW h \in Handler, Admit(h) PROVE TypeOK'
  BY <1>2, <1>b DEF Admit, At, InMemory
<1>3. ASSUME NEW h \in Handler, Handover(h) PROVE TypeOK'
  BY <1>3, <1>b DEF Handover, At, InMemory
<1>4. ASSUME NEW h \in Handler, Abandon(h) PROVE TypeOK'
  BY <1>4, <1>c DEF Abandon
<1>5. ASSUME NEW h \in Handler, TimeOut(h) PROVE TypeOK'
  <2>1. handler[h] \in Active
    BY <1>5 DEF TimeOut, Idle
  <2>2. [handler[h] EXCEPT !.caller = FALSE] \in Active
    BY <2>1 DEF Active
  <2> QED
    BY <1>5, <2>2 DEF TimeOut
<1>6. ASSUME NEW h \in Handler, Lock(h) PROVE TypeOK'
  BY <1>6, <1>b DEF Lock, At, InMemory, Publishing
<1>7. ASSUME NEW h \in Handler, Refuse(h) PROVE TypeOK'
  BY <1>7, <1>c DEF Refuse, Finish
<1>8. ASSUME NEW h \in Handler, FindExisting(h) PROVE TypeOK'
  BY <1>8, <1>b DEF FindExisting, At, InMemory, Publishing
<1>9. ASSUME NEW h \in Handler, FindRoom(h) PROVE TypeOK'
  BY <1>9, <1>b DEF FindRoom, At, InMemory, Publishing
<1>10. ASSUME NEW h \in Handler, Stage(h) PROVE TypeOK'
  BY <1>10, <1>b DEF Stage, At, InMemory, Publishing
<1>11. ASSUME NEW h \in Handler, Rename(h) PROVE TypeOK'
  <2>1. handler[h] \in Active
    BY <1>11, <1>a DEF Rename, At, Idle
  <2>2. capture' \in [PartId -> Body \cup {NoBody}]
    BY <1>11, <2>1 DEF Rename, Active
  <2> QED
    BY <1>11, <1>b, <2>2 DEF Rename, At, InMemory, Publishing
<1>12. ASSUME NEW h \in Handler, StorageFails(h) PROVE TypeOK'
  BY <1>12, <1>c DEF StorageFails, Finish
<1>13. ASSUME NEW h \in Handler, Sync(h) PROVE TypeOK'
  <2>1. handler[h] \in Active
    BY <1>13, <1>a DEF Sync, At, Idle
  <2> QED
    BY <1>13, <1>c, <2>1 DEF Sync, Finish, Active
<1>14. CASE ServerCrash
  <2> PICK lost \in SUBSET {p \in PartId : capture[p] # NoBody /\ p \notin synced} :
        /\ capture' = [p \in PartId |-> IF p \in lost THEN NoBody ELSE capture[p]]
        /\ space' = space + Cardinality(lost)
    BY <1>14 DEF ServerCrash
  <2>1. Cardinality(lost) \in Nat
    BY FS_Subset, FS_CardinalityType
  <2> QED
    BY <1>14, <2>1 DEF ServerCrash
<1>15. CASE UNCHANGED vars
  BY <1>15 DEF vars
<1> QED
  BY <1>1, <1>2, <1>3, <1>4, <1>5, <1>6, <1>7, <1>8, <1>9, <1>10, <1>11, <1>12, <1>13, <1>14,
     <1>15 DEF Next, Work, Publish

\* TypeOK holds in every reachable state.
THEOREM TypeCorrect == Spec => []TypeOK
<1>1. Init => TypeOK
  BY IntakeAssumption DEF Init, TypeOK
<1> QED
  BY <1>1, TypeStep, PTL DEF Spec

-----------------------------------------------------------------------------
\* What a step of one request does to the requests.
LEMMA GotoEffect ==
  ASSUME TypeOK, NEW h \in Handler, NEW pc, Goto(h, pc), NEW g \in Handler
  PROVE  /\ handler'[g].pc = IF g = h THEN pc ELSE handler[g].pc
         /\ handler'[g].part = handler[g].part
         /\ handler'[g].body = handler[g].body
<1>1. handler[h] \in Active \cup {Idle}
  BY DEF TypeOK
<1> QED
  BY <1>1 DEF Goto, TypeOK, Active, Idle

\* A timeout of the HTTP side changes nothing but the caller flag.
LEMMA TimeOutEffect ==
  ASSUME TypeOK, NEW h \in Handler, TimeOut(h), NEW g \in Handler
  PROVE  /\ handler'[g].pc = handler[g].pc
         /\ handler'[g].part = handler[g].part
         /\ handler'[g].body = handler[g].body
<1>1. handler[h] \in Active \cup {Idle}
  BY DEF TypeOK
<1> QED
  BY <1>1 DEF TimeOut, TypeOK, Active, Idle

\* The lock and the stages of publication: the strengthening is preserved.
LEMMA LockStep == TypeOK /\ LockIsExclusive /\ [Next]_vars => LockIsExclusive'
<1> SUFFICES ASSUME TypeOK, LockIsExclusive, [Next]_vars,
                    NEW g \in Handler, handler'[g].pc \in Publishing
             PROVE  lock' = g
  BY DEF LockIsExclusive
<1> USE IntakeAssumption DEF TypeOK, LockIsExclusive, At, Publishing
<1>1. ASSUME NEW h \in Handler, NEW p \in PartId, NEW b \in Body, Receive(h, p, b)
      PROVE  lock' = g
  BY <1>1 DEF Receive
<1>2. ASSUME NEW h \in Handler,
             Admit(h) \/ Handover(h) \/ FindExisting(h) \/ FindRoom(h) \/ Stage(h) \/ Rename(h)
      PROVE  lock' = g
  <2> PICK pc : Goto(h, pc) /\ (pc \in Publishing => handler[h].pc \in Publishing)
    BY <1>2 DEF Admit, Handover, FindExisting, FindRoom, Stage, Rename
  <2> QED
    BY <1>2, GotoEffect DEF Admit, Handover, FindExisting, FindRoom, Stage, Rename
<1>3. ASSUME NEW h \in Handler, Abandon(h) PROVE lock' = g
  BY <1>3 DEF Abandon, Idle
<1>4. ASSUME NEW h \in Handler, TimeOut(h) PROVE lock' = g
  BY <1>4, TimeOutEffect DEF TimeOut
<1>5. ASSUME NEW h \in Handler, Lock(h) PROVE lock' = g
  BY <1>5, GotoEffect DEF Lock
<1>6. ASSUME NEW h \in Handler, Refuse(h) \/ StorageFails(h) \/ Sync(h)
      PROVE  lock' = g
  BY <1>6 DEF Refuse, StorageFails, Sync, Finish, Idle
<1>7. CASE ServerCrash
  BY <1>7 DEF ServerCrash, Idle
<1>8. CASE UNCHANGED vars
  BY <1>8 DEF vars
<1> QED
  BY <1>1, <1>2, <1>3, <1>4, <1>5, <1>6, <1>7, <1>8 DEF Next, Work, Publish

\* Receipts, room and reserve, together with what they depend on: the thread
\* that writes is the only one between looking and writing.
Durable == WorkIsSound /\ SyncedIsPublished /\ ReceiptIsDurable /\ ReserveIsKept

\* Every step of the intake preserves them.
LEMMA DurableStep ==
  TypeOK /\ LockIsExclusive /\ Durable /\ [Next]_vars => Durable'
<1> SUFFICES ASSUME TypeOK, LockIsExclusive, Durable, [Next]_vars PROVE Durable'
  OBVIOUS
<1> USE IntakeAssumption
<1> DEFINE Kept(g) == /\ handler'[g].pc \in {handler[g].pc} \cup ({"idle", "waiting", "reading", "queued", "check"})
                      /\ handler'[g].pc = handler[g].pc =>
                           handler'[g].part = handler[g].part /\ handler'[g].body = handler[g].body
<1>a. ASSUME \A g \in Handler : Kept(g), UNCHANGED <<capture, synced, space, acked>>
      PROVE  Durable'
  BY <1>a DEF Durable, WorkIsSound, SyncedIsPublished, ReceiptIsDurable, ReserveIsKept, At, Mine,
              HasRoom
<1>1. ASSUME NEW h \in Handler, NEW p \in PartId, NEW b \in Body, Receive(h, p, b)
      PROVE  Durable'
  <2>1. \A g \in Handler : Kept(g)
    BY <1>1 DEF Receive, TypeOK, At
  <2> QED
    BY <1>1, <1>a, <2>1 DEF Receive
<1>2. ASSUME NEW h \in Handler, Admit(h) \/ Handover(h) \/ Lock(h) PROVE Durable'
  <2>1. \A g \in Handler : Kept(g)
    BY <1>2, GotoEffect DEF Admit, Handover, Lock
  <2> QED
    BY <1>2, <1>a, <2>1 DEF Admit, Handover, Lock
<1>3. ASSUME NEW h \in Handler, Abandon(h) \/ Refuse(h) PROVE Durable'
  <2>1. \A g \in Handler : Kept(g)
    BY <1>3 DEF Abandon, Refuse, Finish, TypeOK, Idle, At
  <2> QED
    BY <1>3, <1>a, <2>1 DEF Abandon, Refuse
<1>4. ASSUME NEW h \in Handler, TimeOut(h) PROVE Durable'
  <2>1. \A g \in Handler : Kept(g)
    BY <1>4, TimeOutEffect
  <2> QED
    BY <1>4, <1>a, <2>1 DEF TimeOut
<1>5. CASE UNCHANGED vars
  BY <1>5, <1>a DEF vars
<1> USE DEF Durable, WorkIsSound, SyncedIsPublished, ReceiptIsDurable, ReserveIsKept, At, Mine, HasRoom
<1>6. ASSUME NEW h \in Handler, FindExisting(h) \/ FindRoom(h) PROVE Durable'
  BY <1>6, GotoEffect DEF FindExisting, FindRoom
<1>7. ASSUME NEW h \in Handler, Stage(h) PROVE Durable'
  <2>1. \A g \in Handler \ {h} : handler[g].pc # "room"
    BY <1>7 DEF Stage, LockIsExclusive, Publishing
  <2>2. \A g \in Handler : handler'[g].pc = "room" => FALSE
    BY <1>7, <2>1, GotoEffect DEF Stage
  <2>3. WorkIsSound'
    BY <1>7, <2>2, GotoEffect DEF Stage
  <2>4. ReserveIsKept'
    BY <1>7 DEF Stage, TypeOK
  <2> QED
    BY <1>7, <2>3, <2>4 DEF Stage
<1>8. ASSUME NEW h \in Handler, Rename(h) PROVE Durable'
  <2> DEFINE p == handler[h].part
  <2>1. p \in PartId /\ handler[h].body \in Body
    BY <1>8 DEF Rename, TypeOK, Active, Idle
  <2>2. capture[p] = NoBody /\ p \notin synced
    BY <1>8 DEF Rename
  <2>3. \A g \in Handler \ {h} : handler[g].pc \notin {"room", "staged", "sync"}
    BY <1>8 DEF Rename, LockIsExclusive, Publishing
  <2>4. capture' = [capture EXCEPT ![p] = handler[h].body]
    BY <1>8 DEF Rename
  <2>5. WorkIsSound'
    BY <1>8, <2>1, <2>3, <2>4, GotoEffect DEF Rename, TypeOK
  <2>6. SyncedIsPublished' /\ ReceiptIsDurable'
    BY <1>8, <2>2, <2>4 DEF Rename, TypeOK
  <2>7. ReserveIsKept'
    BY <1>8 DEF Rename, TypeOK
  <2> QED
    BY <2>5, <2>6, <2>7
<1>9. ASSUME NEW h \in Handler, StorageFails(h) PROVE Durable'
  <2>1. \A g \in Handler : handler'[g] = IF g = h THEN Idle ELSE handler[g]
    BY <1>9 DEF StorageFails, Finish, TypeOK
  <2>2. space' \in Int /\ space' >= space
    BY <1>9 DEF StorageFails, TypeOK
  <2> QED
    BY <1>9, <2>1, <2>2 DEF StorageFails, Idle, TypeOK
<1>10. ASSUME NEW h \in Handler, Sync(h) PROVE Durable'
  <2>1. \A g \in Handler : handler'[g] = IF g = h THEN Idle ELSE handler[g]
    BY <1>10 DEF Sync, Finish, TypeOK
  <2>2. capture[handler[h].part] = handler[h].body /\ handler[h].body # NoBody
    BY <1>10 DEF Sync, TypeOK, Active, Idle
  <2>3. WorkIsSound' /\ ReserveIsKept'
    BY <1>10, <2>1 DEF Sync, Idle
  <2>4. SyncedIsPublished' /\ ReceiptIsDurable'
    BY <1>10, <2>2 DEF Sync
  <2> QED
    BY <2>3, <2>4
<1>11. CASE ServerCrash
  <2> PICK lost \in SUBSET {p \in PartId : capture[p] # NoBody /\ p \notin synced} :
        /\ capture' = [p \in PartId |-> IF p \in lost THEN NoBody ELSE capture[p]]
        /\ space' = space + Cardinality(lost)
    BY <1>11 DEF ServerCrash
  <2>1. Cardinality(lost) \in Nat
    BY FS_Subset, FS_CardinalityType
  <2>2. WorkIsSound'
    BY <1>11 DEF ServerCrash, Idle
  <2>3. ReserveIsKept'
    BY <2>1 DEF TypeOK
  <2>4. \A p \in synced : p \in PartId /\ capture'[p] = capture[p]
    BY DEF TypeOK
  <2>5. SyncedIsPublished' /\ ReceiptIsDurable'
    BY <1>11, <2>4 DEF ServerCrash
  <2> QED
    BY <2>2, <2>3, <2>5
<1> QED
  BY <1>1, <1>2, <1>3, <1>4, <1>5, <1>6, <1>7, <1>8, <1>9, <1>10, <1>11 DEF Next, Work, Publish

\* The inductive invariant of the intake.
THEOREM IntakeIsSound == Spec => []IntakeInv
<1>1. Init => IntakeInv
  BY IntakeAssumption DEF Init, IntakeInv, TypeOK, Idle, LockIsExclusive, WorkIsSound, At,
     SyncedIsPublished, ReceiptIsDurable, ReserveIsKept, Publishing
<1>2. IntakeInv /\ [Next]_vars => IntakeInv'
  BY TypeStep, LockStep, DurableStep DEF IntakeInv, Durable
<1> QED
  BY <1>1, <1>2, PTL DEF Spec

\* A receipt is a promise: exactly the acknowledged bytes are published and
\* on stable storage, for any number of overlapping requests and crashes.
THEOREM ReceiptsAreDurable == Spec => []ReceiptIsDurable
  BY IntakeIsSound, PTL DEF IntakeInv

\* The reserve of the volume is never used up by overlapping publications.
THEOREM ReserveStaysFree == Spec => []ReserveIsKept
  BY IntakeIsSound, PTL DEF IntakeInv

-----------------------------------------------------------------------------
\* A part identity is never given other bytes: the only step that writes a
\* capture is Rename, and its thread has found, and kept, the place empty.
THEOREM CapturesAreNeverOverwritten == Spec => NeverOverwritten
<1>1. ASSUME IntakeInv, [Next]_vars, NEW p \in PartId, capture[p] # NoBody
      PROVE  capture'[p] \in {capture[p], NoBody}
  <2>1. ASSUME NEW h \in Handler, Rename(h) PROVE capture'[p] = capture[p]
    BY <1>1, <2>1 DEF Rename, IntakeInv, TypeOK, WorkIsSound, Mine, At
  <2>2. CASE ServerCrash
    BY <1>1, <2>2 DEF ServerCrash
  <2>3. CASE UNCHANGED capture
    BY <2>3
  <2> QED
    BY <1>1, <2>1, <2>2, <2>3 DEF Next, Work, Publish, Receive, Admit, Handover, Abandon, TimeOut,
       Lock, Refuse, FindExisting, FindRoom, Stage, StorageFails, Sync, vars
<1>2. IntakeInv /\ [Next]_vars =>
        [\A p \in PartId : capture[p] # NoBody => capture'[p] \in {capture[p], NoBody}]_vars
  BY <1>1
<1> QED
  BY <1>2, IntakeIsSound, PTL DEF Spec, NeverOverwritten

-----------------------------------------------------------------------------
\* Permits.  The number of bodies in memory changes only where the semaphore
\* does, and by the same amount.
LEMMA BodiesAreFinite == IsFiniteSet(Bodies) /\ Cardinality(Bodies) \in Nat
  BY FS_Subset, FS_CardinalityType, IntakeAssumption DEF Bodies

\* A permit is taken with a body and given back with it.
LEMMA PermitStep == TypeOK /\ PermitsFollowBodies /\ [Next]_vars => PermitsFollowBodies'
<1> SUFFICES ASSUME TypeOK, PermitsFollowBodies, [Next]_vars PROVE PermitsFollowBodies'
  OBVIOUS
<1>a. IsFiniteSet(Bodies) /\ Cardinality(Bodies) \in Nat /\ permits \in Int
  BY BodiesAreFinite DEF TypeOK
<1>b. ASSUME Bodies' = Bodies, permits' = permits PROVE PermitsFollowBodies'
  BY <1>b DEF PermitsFollowBodies
<1>c. ASSUME NEW h \in Bodies, Bodies' = Bodies \ {h}, permits' = permits + 1
      PROVE  PermitsFollowBodies'
  <2>1. Cardinality(Bodies \ {h}) = Cardinality(Bodies) - 1
    BY <1>a, FS_RemoveElement
  <2> QED
    BY <1>a, <1>c, <2>1 DEF PermitsFollowBodies
<1>1. ASSUME NEW h \in Handler, NEW p \in PartId, NEW b \in Body, Receive(h, p, b)
      PROVE  PermitsFollowBodies'
  <2>1. Bodies' = Bodies
    BY <1>1 DEF Bodies, Receive, TypeOK, At, InMemory, Publishing
  <2> QED
    BY <1>1, <1>b, <2>1 DEF Receive
<1>2. ASSUME NEW h \in Handler, Admit(h) PROVE PermitsFollowBodies'
  <2>1. Bodies' = Bodies \cup {h} /\ h \notin Bodies
    BY <1>2, GotoEffect DEF Bodies, Admit, At, InMemory, Publishing
  <2>2. Cardinality(Bodies \cup {h}) = Cardinality(Bodies) + 1
    BY <1>a, <2>1, FS_AddElement
  <2> QED
    BY <1>2, <1>a, <2>1, <2>2 DEF Admit, PermitsFollowBodies
<1>3. ASSUME NEW h \in Handler,
             Handover(h) \/ Lock(h) \/ FindExisting(h) \/ FindRoom(h) \/ Stage(h) \/ Rename(h)
      PROVE  PermitsFollowBodies'
  <2>1. PICK pc \in InMemory : Goto(h, pc) /\ handler[h].pc \in InMemory
    BY <1>3 DEF Handover, Lock, FindExisting, FindRoom, Stage, Rename, At, InMemory, Publishing
  <2>2. Bodies' = Bodies
    BY <2>1, GotoEffect DEF Bodies
  <2> QED
    BY <1>3, <1>b, <2>2 DEF Handover, Lock, FindExisting, FindRoom, Stage, Rename
<1>4. ASSUME NEW h \in Handler, Abandon(h) PROVE PermitsFollowBodies'
  <2>1. CASE At(h, "waiting")
    <3>1. Bodies' = Bodies /\ permits' = permits
      BY <1>4, <2>1 DEF Bodies, Abandon, TypeOK, At, Idle, InMemory, Publishing
    <3> QED
      BY <1>b, <3>1
  <2>2. CASE At(h, "reading")
    <3>1. h \in Bodies /\ Bodies' = Bodies \ {h} /\ permits' = permits + 1
      BY <1>4, <2>2 DEF Bodies, Abandon, TypeOK, At, Idle, InMemory, Publishing
    <3> QED
      BY <1>c, <3>1
  <2> QED
    BY <1>4, <2>1, <2>2 DEF Abandon
<1>5. ASSUME NEW h \in Handler, TimeOut(h) PROVE PermitsFollowBodies'
  <2>1. Bodies' = Bodies
    BY <1>5, TimeOutEffect DEF Bodies
  <2> QED
    BY <1>5, <1>b, <2>1 DEF TimeOut
<1>6. ASSUME NEW h \in Handler, Refuse(h) \/ StorageFails(h) \/ Sync(h)
      PROVE  PermitsFollowBodies'
  <2>1. h \in Bodies /\ Finish(h)
    BY <1>6 DEF Bodies, Refuse, StorageFails, Sync, At, InMemory, Publishing
  <2>2. Bodies' = Bodies \ {h} /\ permits' = permits + 1
    BY <2>1 DEF Bodies, Finish, TypeOK, Idle, InMemory, Publishing
  <2> QED
    BY <1>c, <2>1, <2>2
<1>7. CASE ServerCrash
  <2>1. Bodies' = {} /\ permits' = Permits
    BY <1>7 DEF Bodies, ServerCrash, Idle, InMemory, Publishing
  <2> QED
    BY <2>1, FS_EmptySet, IntakeAssumption DEF PermitsFollowBodies
<1>8. CASE UNCHANGED vars
  <2>1. Bodies' = Bodies /\ permits' = permits
    BY <1>8 DEF Bodies, vars
  <2> QED
    BY <1>b, <2>1
<1> QED
  BY <1>1, <1>2, <1>3, <1>4, <1>5, <1>6, <1>7, <1>8 DEF Next, Work, Publish

\* A permit is out exactly while a request holds its body in memory, and at
\* most `Permits' bodies are held, whatever times out, fails or crashes.
THEOREM PermitsAreExact == Spec => []PermitsFollowBodies
<1>1. Init => PermitsFollowBodies
  <2> SUFFICES ASSUME Init PROVE PermitsFollowBodies
    OBVIOUS
  <2>1. Bodies = {}
    BY DEF Init, Bodies, Idle, InMemory, Publishing
  <2> QED
    BY <2>1, FS_EmptySet, IntakeAssumption DEF Init, PermitsFollowBodies
<1> QED
  BY <1>1, PermitStep, TypeCorrect, PTL DEF Spec
=============================================================================
