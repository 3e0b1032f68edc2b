------------------------ MODULE ProviderRegistryProofs ------------------------
(***************************************************************************)
(* What ProviderRegistry guarantees for every number of windows, sessions, *)
(* cards, servers and writes.                                              *)
(*                                                                         *)
(* An activation publishes a copy of the settings it read when it began,   *)
(* and puts that copy back when it fails.  So the invariant speaks of the  *)
(* copies as well as of the file, and says that while an edit is under way *)
(* the lock is held by its editor and the file has not moved.              *)
(***************************************************************************)
EXTENDS ProviderRegistry, TLAPS

Gated == {"prepare", "check", "publish", "restart", "rollback", "restore"}
Activating == {"probe", "gate"} \cup Gated

Requests == [pc : {"ready", "restore"} \cup Preparing \cup Verifying,
             card : Card \cup {None}, stage : Stage,
             host : Host \cup {Local, None}, ref : Stamps, original : Files]

\* An edit runs under the lock, and its part with the worker inside the gate.
EditsHoldLocks ==
    \A e \in Editor : /\ editor[e].pc # "ready" => lock = e
                      /\ editor[e].pc \in Gated <=> gate = e

\* Revisions count writes, and an edit that will write has room for it.
WritesAreCounted ==
    /\ file.rev <= writes /\ file.id <= writes
    /\ \A e \in Editor :
          /\ editor[e].pc \in Preparing => writes < MaxWrites
          /\ editor[e].original.rev <= writes
          /\ editor[e].original.id <= writes

\* What an editor has settled before it goes on.
RequestsAreMeant ==
    \A e \in Editor : LET r == editor[e] IN
        /\ r.pc \in {"vault", "save", "delete"} => r.card \in Card
        /\ r.pc = "vault" => r.host \in Host
        /\ r.pc \in Gated \cup {"gate"} => r.stage = "live"
        /\ r.pc = "probe" => r.stage # "live"

EditInv ==
    TypeOK /\ EditsHoldLocks /\ WritesAreCounted /\ RequestsAreMeant

-----------------------------------------------------------------------------
\* Types of the values that are written.
LEMMA ChoiceType ==
  ASSUME NEW f \in Files, NEW c \in Card \cup {None}
  PROVE  Choice(f, c) \in Selected
BY RegistryAssumption DEF Choice, Off, Files, Saved, Selected, Stamps

\* A publication of a well-typed file is well typed and keeps its counters.
LEMMA PublishedType ==
  ASSUME NEW f \in Files, NEW s \in Stage, NEW c \in Card \cup {None}
  PROVE  /\ Published(f, s, c) \in Files
         /\ Published(f, s, c).rev = f.rev /\ Published(f, s, c).id = f.id
         /\ Published(f, s, c).cards = f.cards
<1> DEFINE g == [f EXCEPT !.effective[s] = Choice(f, c)]
<1>1. g \in Files /\ g.rev = f.rev /\ g.id = f.id /\ g.cards = f.cards
  BY ChoiceType DEF Files
<1>2. Inside(g.effective["diarization"]) \in Embedded \cup {None}
  BY DEF Inside
<1> DEFINE h == [g EXCEPT !.effective["stt"].model = Inside(g.effective["diarization"])]
<1>3. h \in Files /\ h.rev = g.rev /\ h.id = g.id /\ h.cards = g.cards
  <2> HIDE DEF g
  <2>1. "stt" \in Stage /\ g.effective["stt"] \in Selected
    BY <1>1 DEF Stage, Files
  <2>2. [g.effective["stt"] EXCEPT !.model = Inside(g.effective["diarization"])] \in Selected
    BY <1>2, <2>1 DEF Selected
  <2> QED
    BY <1>1, <2>1, <2>2 DEF Files
<1>4. Published(f, s, c) = IF s \in {"stt", "diarization"} THEN h ELSE g
  BY DEF Published
<1> QED
  BY <1>1, <1>3, <1>4

\* The next revision of a well-typed file is well typed.
LEMMA WrittenType ==
  ASSUME NEW f \in Files, f.rev <= writes, writes \in Stamps, writes < MaxWrites
  PROVE  /\ Written(f) \in Files
         /\ Written(f).rev = f.rev + 1 /\ Written(f).id = writes + 1
         /\ Written(f).cards = f.cards /\ Written(f).effective = f.effective
<1>0. MaxWrites \in Nat
  BY RegistryAssumption
<1>1. f.rev + 1 \in Stamps /\ writes + 1 \in Stamps
  BY <1>0 DEF Stamps, Files
<1>2. ASSUME NEW r \in Stamps, NEW i \in Stamps
      PROVE  LET g == [f EXCEPT !.rev = r, !.id = i] IN
             /\ g \in Files /\ g.rev = r /\ g.id = i
             /\ g.cards = f.cards /\ g.effective = f.effective
  BY DEF Files
<1> QED
  BY <1>1, <1>2 DEF Written

\* An editor at rest is well typed.
LEMMA ReadyType == Ready \in Requests /\ NoFile \in Files
<1>1. 0 \in Stamps
  BY RegistryAssumption DEF Stamps
<1>2. Absent \in Saved /\ Off \in Selected
  BY <1>1 DEF Absent, Off, Saved, Selected
<1>3. NoFile \in Files
  BY <1>1, <1>2 DEF NoFile, Nothing, Files
<1> QED
  BY <1>1, <1>3 DEF Ready, Requests, Stage

-----------------------------------------------------------------------------
\* How the steps of an edit change the editors and the locks.
LEMMA RequestEffect ==
  ASSUME TypeOK, NEW e \in Editor, NEW r \in Requests,
         editor' = [editor EXCEPT ![e] = r]
  PROVE  /\ editor' \in [Editor -> Requests]
         /\ editor'[e] = r
         /\ \A x \in Editor \ {e} : editor'[x] = editor[x]
BY DEF TypeOK, Requests

\* Leaving an edit resets the editor and gives back what it held.
LEMMA LeaveEffect ==
  ASSUME TypeOK, NEW e \in Editor, Leave(e)
  PROVE  /\ editor' \in [Editor -> Requests]
         /\ editor'[e] = Ready
         /\ \A x \in Editor \ {e} : editor'[x] = editor[x]
         /\ lock' = IF lock = e THEN None ELSE lock
         /\ gate' = IF gate = e THEN None ELSE gate
         /\ lock' \in Editor \cup {None} /\ gate' \in Editor \cup {None}
<1>1. editor' = [editor EXCEPT ![e] = Ready]
  BY DEF Leave
<1> QED
  BY <1>1, RequestEffect, ReadyType DEF Leave, TypeOK

\* Going on with an edit changes where its editor is, and nothing else of it.
LEMMA PcEffect ==
  ASSUME TypeOK, NEW e \in Editor, NEW pc \in {"restore"} \cup Preparing \cup Verifying,
         editor' = [editor EXCEPT ![e].pc = pc]
  PROVE  /\ editor' \in [Editor -> Requests]
         /\ editor'[e] = [editor[e] EXCEPT !.pc = pc]
         /\ editor'[e].pc = pc
         /\ editor'[e].card = editor[e].card /\ editor'[e].stage = editor[e].stage
         /\ editor'[e].host = editor[e].host /\ editor'[e].ref = editor[e].ref
         /\ editor'[e].original = editor[e].original
         /\ \A x \in Editor \ {e} : editor'[x] = editor[x]
<1>1. editor[e] \in Requests
  BY DEF TypeOK, Requests
<1> DEFINE r == [editor[e] EXCEPT !.pc = pc]
<1>2. /\ r \in Requests /\ r.pc = pc /\ r.card = editor[e].card
      /\ r.stage = editor[e].stage /\ r.host = editor[e].host
      /\ r.ref = editor[e].ref /\ r.original = editor[e].original
  BY <1>1 DEF Requests
<1>3. editor' = [editor EXCEPT ![e] = r]
  BY DEF TypeOK
<1> HIDE DEF r
<1>4. /\ editor' \in [Editor -> Requests] /\ editor'[e] = r
      /\ \A x \in Editor \ {e} : editor'[x] = editor[x]
  BY <1>2, <1>3, RequestEffect
<1> QED
  BY <1>2, <1>4 DEF r

\* The lock leaves room for one edit.
LEMMA Alone ==
  ASSUME EditInv, NEW e \in Editor, editor[e].pc # "ready" \/ lock = None
  PROVE  \A x \in Editor \ {e} : editor[x].pc = "ready"
BY RegistryAssumption DEF EditInv, EditsHoldLocks

\* A request that is admitted finds nobody else at work.
LEMMA EditEffect ==
  ASSUME EditInv, NEW e \in Editor, NEW r \in Requests, Edit(e, r)
  PROVE  /\ editor' \in [Editor -> Requests]
         /\ editor'[e] = r /\ lock' = e /\ editor[e].pc = "ready"
         /\ \A x \in Editor \ {e} : editor'[x] = editor[x] /\ editor[x].pc = "ready"
         /\ \A x \in Editor : gate # x
         /\ writes < MaxWrites
         /\ UNCHANGED <<file, vault, seen, gate, worker, backend, session, pinned, stack,
                        writes, undone, broken>>
<1>1. /\ editor[e].pc = "ready" /\ writes < MaxWrites /\ lock = None /\ lock' = e
      /\ editor' = [editor EXCEPT ![e] = r]
      /\ UNCHANGED <<file, vault, seen, gate, worker, backend, session, pinned, stack,
                     writes, undone, broken>>
  BY DEF Edit, Admitted, live, around
<1>2. \A x \in Editor \ {e} : editor[x].pc = "ready"
  BY <1>1, Alone
<1>3. \A x \in Editor : gate # x
  BY <1>1, <1>2 DEF EditInv, EditsHoldLocks, Gated
<1> QED
  BY <1>1, <1>2, <1>3, RequestEffect DEF EditInv

\* The three requests.
LEMMA SaveRequest ==
  ASSUME EditInv, NEW e \in Editor, NEW c \in Card, NEW h \in Host \cup {Local},
         NEW key \in {"new", "keep", "clear"}, BeginSave(e, c, h, key)
  PROVE  \E r \in Requests :
           /\ Edit(e, r)
           /\ r.pc = IF key = "new" THEN "vault" ELSE "save"
           /\ r.card = c /\ r.host = h /\ r.original = NoFile
           /\ r.ref = IF key = "keep" THEN Inherited(c, h) ELSE 0
           /\ r.pc = "vault" => h \in Host
<1> DEFINE ref == IF key = "keep" THEN Inherited(c, h) ELSE 0
           pc == IF key = "new" THEN "vault" ELSE "save"
           r == [Ready EXCEPT !.pc = pc, !.card = c, !.host = h, !.ref = ref]
<1>1. 0 \in Stamps
  BY RegistryAssumption DEF Stamps
<1>2. ref \in Stamps
  BY <1>1 DEF Inherited, EditInv, TypeOK, Files, Saved
<1>3. pc \in {"vault", "save"} /\ (pc = "vault" => h \in Host)
  BY DEF BeginSave, Hosts
<1>4. Ready \in Requests /\ Ready.original = NoFile
  BY ReadyType DEF Ready
<1>5. Edit(e, r)
  BY DEF BeginSave
<1> HIDE DEF ref, pc
<1>6. pc \in Preparing
  BY <1>3 DEF Preparing
<1>7. /\ r \in Requests
      /\ r.pc = pc /\ r.card = c /\ r.host = h /\ r.original = NoFile /\ r.ref = ref
  BY <1>2, <1>4, <1>6 DEF Requests
<1> QED
  BY <1>3, <1>5, <1>7 DEF ref, pc

\* BeginDelete() makes a well-typed request.
LEMMA DeleteRequest ==
  ASSUME EditInv, NEW e \in Editor, NEW c \in Card, BeginDelete(e, c)
  PROVE  \E r \in Requests :
           /\ Edit(e, r) /\ r.pc = "delete" /\ r.card = c /\ r.original = NoFile
<1> DEFINE r == [Ready EXCEPT !.pc = "delete", !.card = c]
<1>1. Ready \in Requests /\ Ready.original = NoFile
  BY ReadyType DEF Ready
<1>2. r \in Requests /\ r.pc = "delete" /\ r.card = c /\ r.original = NoFile
  BY <1>1 DEF Requests, Preparing
<1> QED
  BY <1>1, <1>2 DEF BeginDelete

\* BeginActivate() makes a well-typed request with a copy of the file.
LEMMA ActivateRequest ==
  ASSUME EditInv, NEW e \in Editor, NEW s \in Stage, NEW c \in Card \cup {None},
         BeginActivate(e, s, c)
  PROVE  \E r \in Requests :
           /\ Edit(e, r)
           /\ r.pc = IF s = "live" THEN "gate" ELSE "probe"
           /\ r.card = c /\ r.stage = s /\ r.original = file
<1> DEFINE pc == IF s = "live" THEN "gate" ELSE "probe"
           r == [Ready EXCEPT !.pc = pc, !.card = c, !.stage = s, !.original = file]
<1>1. Ready \in Requests
  BY ReadyType
<1>2. pc \in Preparing
  BY DEF Preparing
<1>3. file \in Files /\ 0 \in Stamps
  BY RegistryAssumption DEF EditInv, TypeOK, Stamps
<1> HIDE DEF pc
<1>4. /\ r \in Requests
      /\ r.pc = pc /\ r.card = c /\ r.stage = s /\ r.original = file
  BY <1>1, <1>2, <1>3 DEF Requests
<1>5. Edit(e, r)
  BY DEF BeginActivate, pc
<1> QED
  BY <1>1, <1>4, <1>5 DEF pc

\* Who saves, deletes or publishes writes a well-typed file of the next revision.
LEMMA CardWrite ==
  ASSUME EditInv, writes < MaxWrites, NEW c \in Card, NEW p \in Saved
  PROVE  LET f == Written([file EXCEPT !.cards[c] = p]) IN
         /\ f \in Files /\ f.rev = file.rev + 1 /\ f.id = writes + 1
         /\ f.cards = [file.cards EXCEPT ![c] = p] /\ f.effective = file.effective
<1> DEFINE g == [file EXCEPT !.cards[c] = p]
<1>1. file \in Files /\ writes \in Stamps /\ file.rev <= writes
  BY DEF EditInv, TypeOK, WritesAreCounted
<1>2. /\ g \in Files /\ g.rev = file.rev /\ g.cards = [file.cards EXCEPT ![c] = p]
      /\ g.effective = file.effective
  BY <1>1 DEF Files
<1> HIDE DEF g
<1>3. /\ Written(g) \in Files /\ Written(g).rev = g.rev + 1 /\ Written(g).id = writes + 1
      /\ Written(g).cards = g.cards /\ Written(g).effective = g.effective
  BY <1>1, <1>2, WrittenType
<1> QED
  BY <1>2, <1>3 DEF g

\* What activate() publishes is the next revision of the copy it began with.
LEMMA PublicationWrite ==
  ASSUME EditInv, NEW e \in Editor, writes < MaxWrites
  PROVE  LET f == Publication(e)  o == editor[e].original IN
         /\ f \in Files /\ f.rev = o.rev + 1 /\ f.id = writes + 1
         /\ f.cards = o.cards
         /\ f.effective = Published(o, editor[e].stage, editor[e].card).effective
<1> DEFINE o == editor[e].original
           g == Published(o, editor[e].stage, editor[e].card)
<1>1. /\ o \in Files /\ editor[e].stage \in Stage /\ editor[e].card \in Card \cup {None}
      /\ writes \in Stamps /\ o.rev <= writes
  BY DEF EditInv, TypeOK, WritesAreCounted
<1> HIDE DEF o
<1>2. g \in Files /\ g.rev = o.rev /\ g.cards = o.cards
  BY <1>1, PublishedType
<1> HIDE DEF g
<1>3. /\ Written(g) \in Files /\ Written(g).rev = g.rev + 1 /\ Written(g).id = writes + 1
      /\ Written(g).cards = g.cards /\ Written(g).effective = g.effective
  BY <1>1, <1>2, WrittenType
<1>4. Publication(e) = Written(g)
  BY DEF Publication, g, o
<1> QED
  BY <1>2, <1>3, <1>4 DEF g, o

\* The selection an activation prepares is well typed.
LEMMA MineType ==
  ASSUME TypeOK, NEW e \in Editor
  PROVE  Mine(e) \in Selected
<1>1. editor[e].original \in Files /\ editor[e].card \in Card \cup {None}
  BY DEF TypeOK
<1> QED
  BY <1>1, ChoiceType DEF Mine

-----------------------------------------------------------------------------
\* The steps that begin an edit.
LEMMA BeginStep ==
  ASSUME EditInv, NEW e \in Editor, NEW r \in Requests, Edit(e, r),
         r.pc \in {"vault", "save", "delete", "probe", "gate"},
         r.original.rev <= writes, r.original.id <= writes,
         r.pc \in {"vault", "save", "delete"} => r.card \in Card,
         r.pc = "vault" => r.host \in Host,
         r.pc = "gate" => r.stage = "live",
         r.pc = "probe" => r.stage # "live"
  PROVE  EditInv'
<1>1. /\ editor' \in [Editor -> Requests]
      /\ editor'[e] = r /\ lock' = e
      /\ \A x \in Editor \ {e} : editor'[x] = editor[x] /\ editor[x].pc = "ready"
      /\ \A x \in Editor : gate # x
      /\ writes < MaxWrites
      /\ UNCHANGED <<file, vault, seen, gate, worker, backend, session, pinned, stack,
                     writes, undone, broken>>
  BY EditEffect
<1>2. TypeOK'
  BY <1>1 DEF EditInv, TypeOK, Requests
<1>3. EditsHoldLocks'
  BY <1>1 DEF EditsHoldLocks, Gated
<1>4. WritesAreCounted'
  BY <1>1 DEF EditInv, WritesAreCounted, Preparing
<1>5. RequestsAreMeant'
  BY <1>1 DEF RequestsAreMeant, Gated
<1> QED
  BY <1>2, <1>3, <1>4, <1>5 DEF EditInv

\* The steps that end one.
LEMMA LeaveStep ==
  ASSUME EditInv, NEW e \in Editor, editor[e].pc # "ready", Leave(e),
         file' \in Files, writes' \in Stamps, writes <= writes',
         file'.rev <= writes', file'.id <= writes',
         worker' \in Selected, backend' \in {"legacy", "relayed"}, broken' \in BOOLEAN,
         UNCHANGED <<vault, seen, session, pinned, stack, undone>>
  PROVE  EditInv'
<1>1. /\ editor' \in [Editor -> Requests]
      /\ editor'[e] = Ready
      /\ \A x \in Editor \ {e} : editor'[x] = editor[x]
      /\ lock' = IF lock = e THEN None ELSE lock
      /\ gate' = IF gate = e THEN None ELSE gate
      /\ lock' \in Editor \cup {None} /\ gate' \in Editor \cup {None}
  BY LeaveEffect DEF EditInv
<1>2. \A x \in Editor \ {e} : editor[x].pc = "ready"
  BY Alone
<1>3. Ready.pc = "ready" /\ Ready.original.rev = 0 /\ Ready.original.id = 0
  BY DEF Ready, NoFile
<1>4. TypeOK'
  BY <1>1 DEF EditInv, TypeOK, Requests
<1>5. EditsHoldLocks'
  BY <1>1, <1>2, <1>3, RegistryAssumption DEF EditInv, EditsHoldLocks, Gated
<1>6. WritesAreCounted'
  <2>1. /\ writes \in Nat /\ writes' \in Nat
        /\ \A x \in Editor : /\ editor[x].original.rev \in Nat
                              /\ editor[x].original.id \in Nat
    BY RegistryAssumption DEF EditInv, TypeOK, Stamps, Files
  <2> QED
    BY <1>1, <1>2, <1>3, <2>1 DEF EditInv, WritesAreCounted, Preparing
<1>7. RequestsAreMeant'
  BY <1>1, <1>2, <1>3 DEF RequestsAreMeant, Gated
<1> QED
  BY <1>4, <1>5, <1>6, <1>7 DEF EditInv

\* The steps in between.
LEMMA GotoStep ==
  ASSUME EditInv, NEW e \in Editor, editor[e].pc # "ready",
         NEW pc \in Gated, Goto(e, pc), editor[e].pc \in Gated,
         pc \in Preparing => editor[e].pc \in Preparing,
         file' \in Files, writes' \in Stamps, writes <= writes',
         pc \in Preparing => writes' = writes,
         file'.rev <= writes', file'.id <= writes',
         worker' \in Selected, backend' \in {"legacy", "relayed"}, broken' \in BOOLEAN,
         undone' \subseteq Stamps,
         UNCHANGED <<vault, seen, session, pinned, stack>>
  PROVE  EditInv'
<1>0. pc \in {"restore"} \cup Preparing \cup Verifying
  BY DEF Gated, Preparing, Verifying
<1>1. /\ editor' \in [Editor -> Requests]
      /\ editor'[e].pc = pc
      /\ editor'[e].card = editor[e].card /\ editor'[e].stage = editor[e].stage
      /\ editor'[e].host = editor[e].host
      /\ editor'[e].original = editor[e].original
      /\ \A x \in Editor \ {e} : editor'[x] = editor[x]
      /\ UNCHANGED <<lock, gate>>
  BY <1>0, PcEffect DEF Goto, EditInv
<1>2. \A x \in Editor \ {e} : editor[x].pc = "ready"
  BY Alone
<1>4. TypeOK'
  BY <1>1 DEF EditInv, TypeOK, Requests
<1>5. EditsHoldLocks'
  BY <1>1, <1>2 DEF EditInv, EditsHoldLocks, Gated
<1>6. WritesAreCounted'
  <2>1. /\ writes \in Nat /\ writes' \in Nat
        /\ \A x \in Editor : /\ editor[x].original.rev \in Nat
                              /\ editor[x].original.id \in Nat
    BY RegistryAssumption DEF EditInv, TypeOK, Stamps, Files
  <2> QED
    BY <1>1, <1>2, <2>1 DEF EditInv, WritesAreCounted, Preparing
<1>7. RequestsAreMeant'
  BY <1>1, <1>2 DEF EditInv, RequestsAreMeant, Gated
<1> QED
  BY <1>4, <1>5, <1>6, <1>7 DEF EditInv

\* Every step keeps the lock, the gate, the count of writes and the types.
LEMMA EditStep == EditInv /\ [Next]_vars => EditInv'
<1> SUFFICES ASSUME EditInv, [Next]_vars PROVE EditInv'
  OBVIOUS
<1>a. /\ file \in Files /\ writes \in Stamps /\ worker \in Selected
      /\ backend \in {"legacy", "relayed"} /\ broken \in BOOLEAN /\ undone \subseteq Stamps
      /\ file.rev <= writes /\ file.id <= writes /\ writes <= writes
      /\ file.rev \in Nat /\ file.id \in Nat /\ writes \in Nat
      /\ writes < MaxWrites => writes + 1 \in Stamps
      /\ Off \in Selected
  <2>1. MaxWrites \in Nat /\ 0 \in Stamps
    BY RegistryAssumption DEF Stamps
  <2>2. Off \in Selected
    BY <2>1 DEF Off, Selected
  <2> QED
    BY <2>1, <2>2 DEF EditInv, TypeOK, WritesAreCounted, Stamps, Files
<1>b. ASSUME NEW e \in Editor, editor[e].pc \in Preparing PROVE writes < MaxWrites
  BY <1>b DEF EditInv, WritesAreCounted
<1>c. ASSUME NEW e \in Editor
      PROVE  /\ editor[e].original \in Files
             /\ editor[e].original.rev <= writes /\ editor[e].original.id <= writes
             /\ editor[e].original.rev \in Nat /\ editor[e].original.id \in Nat
  BY DEF EditInv, TypeOK, WritesAreCounted, Files, Stamps
<1>1. ASSUME NEW e \in Editor, Read(e) PROVE EditInv'
  BY <1>1 DEF Read, live, around, EditInv, TypeOK, EditsHoldLocks, WritesAreCounted,
     RequestsAreMeant, Files
<1>2. ASSUME NEW e \in Editor, NEW c \in Card, BeginDelete(e, c) PROVE EditInv'
  BY <1>2, <1>a, DeleteRequest, BeginStep DEF NoFile
<1>3. ASSUME NEW e \in Editor, NEW c \in Card, NEW h \in Host \cup {Local},
             NEW key \in {"new", "keep", "clear"}, BeginSave(e, c, h, key)
      PROVE  EditInv'
  <2> PICK r \in Requests :
           /\ Edit(e, r)
           /\ r.pc = IF key = "new" THEN "vault" ELSE "save"
           /\ r.card = c /\ r.host = h /\ r.original = NoFile
           /\ r.pc = "vault" => h \in Host
    BY <1>3, SaveRequest
  <2>1. r.original.rev <= writes /\ r.original.id <= writes
    BY <1>a DEF NoFile
  <2> QED
    BY <2>1, BeginStep
<1>4. ASSUME NEW e \in Editor, NEW s \in Stage, NEW c \in Card \cup {None},
             BeginActivate(e, s, c)
      PROVE  EditInv'
  <2> PICK r \in Requests :
           /\ Edit(e, r)
           /\ r.pc = IF s = "live" THEN "gate" ELSE "probe"
           /\ r.card = c /\ r.stage = s /\ r.original = file
    BY <1>4, ActivateRequest
  <2> QED
    BY <1>a, BeginStep
<1>5. ASSUME NEW e \in Editor, StoreKey(e) PROVE EditInv'
  <2> DEFINE r == [editor[e] EXCEPT !.pc = "save", !.ref = writes + 1]
  <2>0. writes < MaxWrites
    BY <1>5, <1>b DEF StoreKey, Preparing
  <2>1. /\ editor[e] \in Requests /\ editor[e].host \in Host /\ editor[e].card \in Card
    BY <1>5 DEF StoreKey, EditInv, TypeOK, Requests, RequestsAreMeant
  <2>2. /\ r \in Requests /\ r.pc = "save" /\ r.card = editor[e].card
        /\ r.original = editor[e].original
    BY <1>a, <2>0, <2>1 DEF Requests, Preparing
  <2>3. editor' = [editor EXCEPT ![e] = r]
    BY <1>5 DEF StoreKey, EditInv, TypeOK
  <2> HIDE DEF r
  <2>4. /\ editor' \in [Editor -> Requests] /\ editor'[e] = r
        /\ \A x \in Editor \ {e} : editor'[x] = editor[x]
    BY <2>2, <2>3, RequestEffect DEF EditInv
  <2>5. \A x \in Editor \ {e} : editor[x].pc = "ready"
    BY <1>5, Alone DEF StoreKey
  <2>6. UNCHANGED <<file, lock, seen, gate, worker, backend, session, pinned, stack, writes,
                   undone, broken>>
    BY <1>5 DEF StoreKey, live, around
  <2>7. DOMAIN vault' \subseteq Stamps /\ \A k \in DOMAIN vault' : vault'[k] \in Host
    <3>1. vault' = [k \in DOMAIN vault \cup {writes + 1} |->
                     IF k = writes + 1 THEN editor[e].host ELSE vault[k]]
      BY <1>5 DEF StoreKey
    <3> QED
      BY <1>a, <2>0, <2>1, <3>1 DEF EditInv, TypeOK
  <2>8. TypeOK'
    BY <2>4, <2>6, <2>7 DEF EditInv, TypeOK, Requests
  <2>9. EditsHoldLocks'
    BY <1>5, <2>2, <2>4, <2>5, <2>6 DEF StoreKey, EditInv, EditsHoldLocks, Gated
  <2>10. WritesAreCounted'
    BY <2>0, <2>2, <2>4, <2>5, <2>6 DEF EditInv, WritesAreCounted
  <2>11. RequestsAreMeant'
    BY <2>1, <2>2, <2>4, <2>5, <2>6 DEF EditInv, RequestsAreMeant, Gated
  <2> QED
    BY <2>8, <2>9, <2>10, <2>11 DEF EditInv
<1>6. ASSUME NEW e \in Editor, Save(e) PROVE EditInv'
  <2> DEFINE p == [stamp |-> IF editor[e].card \in Managed THEN writes + 1 ELSE 0,
                   host |-> editor[e].host, ref |-> editor[e].ref]
  <2>0. writes < MaxWrites /\ editor[e].card \in Card
    BY <1>6, <1>b DEF Save, Preparing, EditInv, RequestsAreMeant
  <2>1. p \in Saved
    BY <1>a, <2>0, RegistryAssumption DEF EditInv, TypeOK, Saved, Stamps
  <2>2. \/ UNCHANGED <<file, writes>>
        \/ file' = Written([file EXCEPT !.cards[editor[e].card] = p]) /\ writes' = writes + 1
    BY <1>6 DEF Save
  <2> HIDE DEF p
  <2>3. /\ file' \in Files /\ writes' \in Stamps /\ writes <= writes'
        /\ file'.rev <= writes' /\ file'.id <= writes'
    <3> DEFINE f == Written([file EXCEPT !.cards[editor[e].card] = p])
    <3>1. f \in Files /\ f.rev = file.rev + 1 /\ f.id = writes + 1
      BY <2>0, <2>1, CardWrite
    <3> HIDE DEF f
    <3>2. \/ UNCHANGED <<file, writes>>
          \/ file' = f /\ writes' = writes + 1
      BY <2>2 DEF f
    <3> QED
      BY <1>a, <2>0, <3>1, <3>2
  <2>4. /\ Leave(e) /\ UNCHANGED <<vault, seen, session, pinned, stack, undone>>
        /\ editor[e].pc # "ready"
        /\ worker' = worker /\ backend' = backend /\ broken' = broken
    BY <1>6 DEF Save, around
  <2> QED
    BY <1>a, <2>3, <2>4, LeaveStep
<1>7. ASSUME NEW e \in Editor, Delete(e) PROVE EditInv'
  <2>0. writes < MaxWrites /\ editor[e].card \in Card
    BY <1>7, <1>b DEF Delete, Preparing, EditInv, RequestsAreMeant
  <2>1. Absent \in Saved
    BY RegistryAssumption DEF Absent, Saved, Stamps
  <2>2. \/ UNCHANGED <<file, writes>>
        \/ /\ file' = Written([file EXCEPT !.cards[editor[e].card] = Absent])
           /\ writes' = writes + 1
    BY <1>7 DEF Delete
  <2>3. /\ file' \in Files /\ writes' \in Stamps /\ writes <= writes'
        /\ file'.rev <= writes' /\ file'.id <= writes'
    <3> DEFINE f == Written([file EXCEPT !.cards[editor[e].card] = Absent])
    <3>1. f \in Files /\ f.rev = file.rev + 1 /\ f.id = writes + 1
      BY <2>0, <2>1, CardWrite
    <3> HIDE DEF f
    <3>2. \/ UNCHANGED <<file, writes>>
          \/ file' = f /\ writes' = writes + 1
      BY <2>2 DEF f
    <3> QED
      BY <1>a, <2>0, <3>1, <3>2
  <2>4. /\ Leave(e) /\ UNCHANGED <<vault, seen, session, pinned, stack, undone>>
        /\ editor[e].pc # "ready"
        /\ worker' = worker /\ backend' = backend /\ broken' = broken
    BY <1>7 DEF Delete, around
  <2> QED
    BY <1>a, <2>3, <2>4, LeaveStep
<1>8. ASSUME NEW e \in Editor, ProbeStage(e) PROVE EditInv'
  <2>0. writes < MaxWrites
    BY <1>8, <1>b DEF ProbeStage, Preparing
  <2>2. \/ file' = editor[e].original /\ UNCHANGED writes
        \/ file' = Publication(e) /\ writes' = writes + 1
    BY <1>8 DEF ProbeStage
  <2>3. /\ file' \in Files /\ writes' \in Stamps /\ writes <= writes'
        /\ file'.rev <= writes' /\ file'.id <= writes'
    BY <1>a, <1>c, <2>0, <2>2, PublicationWrite
  <2>4. /\ Leave(e) /\ UNCHANGED <<vault, seen, session, pinned, stack, undone>>
        /\ editor[e].pc # "ready"
        /\ worker' = worker /\ backend' = backend /\ broken' = broken
    BY <1>8 DEF ProbeStage, around
  <2> QED
    BY <1>a, <2>3, <2>4, LeaveStep
<1>9. ASSUME NEW e \in Editor, TakeGate(e) PROVE EditInv'
  <2>1. /\ UNCHANGED <<file, vault, seen, worker, backend, session, pinned, stack, writes, undone,
                       broken>>
        /\ editor[e].pc = "gate"
    BY <1>9 DEF TakeGate, around
  <2>2. CASE Leave(e)
    BY <1>a, <2>1, <2>2, LeaveStep
  <2>3. CASE GateIsFree /\ gate' = e /\ editor' = [editor EXCEPT ![e].pc = "prepare"]
             /\ UNCHANGED lock
    <3>1. /\ editor' \in [Editor -> Requests]
          /\ editor'[e].pc = "prepare"
          /\ editor'[e].card = editor[e].card /\ editor'[e].stage = editor[e].stage
          /\ editor'[e].host = editor[e].host
          /\ editor'[e].original = editor[e].original
          /\ \A x \in Editor \ {e} : editor'[x] = editor[x]
      BY <2>3, PcEffect DEF EditInv, Preparing
    <3>2. \A x \in Editor \ {e} : editor[x].pc = "ready"
      BY <2>1, Alone
    <3>3. TypeOK'
      BY <2>1, <2>3, <3>1 DEF EditInv, TypeOK, Requests
    <3>4. EditsHoldLocks'
      BY <2>1, <2>3, <3>1, <3>2 DEF EditInv, EditsHoldLocks, Gated
    <3>5. WritesAreCounted'
      BY <2>1, <3>1, <3>2 DEF EditInv, WritesAreCounted, Preparing
    <3>6. RequestsAreMeant'
      BY <2>1, <3>1, <3>2 DEF EditInv, RequestsAreMeant, Gated
    <3> QED
      BY <3>3, <3>4, <3>5, <3>6 DEF EditInv
  <2> QED
    BY <1>9, <2>2, <2>3 DEF TakeGate
<1>10. ASSUME NEW e \in Editor, Prepare(e) PROVE EditInv'
  <2>1. /\ UNCHANGED <<file, vault, seen, backend, session, pinned, stack, writes, undone>>
        /\ editor[e].pc = "prepare"
        /\ worker' \in {Runs(Mine(e)), Off, worker}
        /\ broken' \in BOOLEAN
        /\ Leave(e) \/ Goto(e, "check") \/ Goto(e, "restore")
    BY <1>10, <1>a DEF Prepare, around
  <2>2. worker' \in Selected
    BY <1>a, <2>1, MineType DEF Runs, EditInv
  <2>3. "prepare" \in Gated \cap Preparing /\ "check" \in Gated /\ "restore" \in Gated
    BY DEF Gated, Preparing
  <2>4. CASE Leave(e)
    BY <1>a, <2>1, <2>2, <2>4, LeaveStep
  <2>5. CASE Goto(e, "check")
    BY <1>a, <2>1, <2>2, <2>3, <2>5, GotoStep
  <2>6. CASE Goto(e, "restore")
    BY <1>a, <2>1, <2>2, <2>3, <2>6, GotoStep
  <2> QED
    BY <2>1, <2>4, <2>5, <2>6
<1>11. ASSUME NEW e \in Editor, Check(e) PROVE EditInv'
  <2>1. /\ UNCHANGED <<file, vault, seen, worker, backend, session, pinned, stack, writes, undone,
                       broken>>
        /\ editor[e].pc = "check"
        /\ (Goto(e, "publish") \/ Goto(e, "restore"))
    BY <1>11 DEF Check, around
  <2>2. "check" \in Gated \cap Preparing /\ "publish" \in Gated /\ "restore" \in Gated
    BY DEF Gated, Preparing
  <2> QED
    BY <1>a, <2>1, <2>2, GotoStep
<1>12. ASSUME NEW e \in Editor, Publish(e) PROVE EditInv'
  <2>0. writes < MaxWrites
    BY <1>12, <1>b DEF Publish, Preparing
  <2>1. /\ UNCHANGED <<vault, seen, worker, backend, session, pinned, stack, undone, broken>>
        /\ editor[e].pc = "publish"
        /\ \/ file' = Publication(e) /\ writes' = writes + 1 /\ Leave(e)
           \/ file' = Publication(e) /\ writes' = writes + 1 /\ Goto(e, "restart")
           \/ UNCHANGED <<file, writes>> /\ Goto(e, "rollback")
    BY <1>12 DEF Publish, around
  <2>2. "publish" \in Gated /\ "restart" \in Gated \ Preparing /\ "rollback" \in Gated \ Preparing
    BY DEF Gated, Preparing
  <2>3. /\ file' \in Files /\ writes' \in Stamps /\ writes <= writes'
        /\ file'.rev <= writes' /\ file'.id <= writes'
    BY <1>a, <1>c, <2>0, <2>1, PublicationWrite
  <2>4. CASE Leave(e)
    BY <1>a, <2>1, <2>3, <2>4, LeaveStep
  <2>5. CASE Goto(e, "restart")
    BY <1>a, <2>1, <2>2, <2>3, <2>5, GotoStep
  <2>6. CASE Goto(e, "rollback")
    BY <1>a, <2>1, <2>2, <2>3, <2>6, GotoStep
  <2> QED
    BY <2>1, <2>4, <2>5, <2>6
<1>13. ASSUME NEW e \in Editor, Restart(e) PROVE EditInv'
  <2>1. /\ UNCHANGED <<file, vault, seen, worker, session, pinned, stack, writes, undone, broken>>
        /\ editor[e].pc = "restart"
        /\ backend' \in {"legacy", "relayed"}
        /\ Leave(e) \/ Goto(e, "rollback")
    BY <1>13 DEF Restart, around
  <2>2. "restart" \in Gated /\ "rollback" \in Gated \ Preparing
    BY DEF Gated, Preparing
  <2>3. CASE Leave(e)
    BY <1>a, <2>1, <2>3, LeaveStep
  <2>4. CASE Goto(e, "rollback")
    BY <1>a, <2>1, <2>2, <2>4, GotoStep
  <2> QED
    BY <2>1, <2>3, <2>4
<1>14. ASSUME NEW e \in Editor, Rollback(e) PROVE EditInv'
  <2>1. /\ UNCHANGED <<vault, seen, worker, backend, session, pinned, stack, writes, broken>>
        /\ editor[e].pc = "rollback"
        /\ file' = editor[e].original
        /\ undone' \in {undone, undone \cup {file.id}}
        /\ Goto(e, "restore")
    BY <1>14 DEF Rollback, around
  <2>2. "rollback" \in Gated /\ "restore" \in Gated \ Preparing
    BY DEF Gated, Preparing
  <2>3. undone' \subseteq Stamps
    BY <1>a, <2>1 DEF Files
  <2> QED
    BY <1>a, <1>c, <2>1, <2>2, <2>3, GotoStep
<1>15. ASSUME NEW e \in Editor, Restore(e) PROVE EditInv'
  <2>1. /\ UNCHANGED <<file, vault, seen, backend, session, pinned, stack, writes, undone>>
        /\ editor[e].pc = "restore"
        /\ worker' \in {Runs(editor[e].original.effective["live"]), Off, worker}
        /\ broken' \in BOOLEAN
        /\ Leave(e)
    BY <1>15, <1>a DEF Restore, around
  <2>2. worker' \in Selected
    BY <1>a, <1>c, <2>1 DEF Runs, Files, Stage
  <2> QED
    BY <1>a, <2>1, <2>2, LeaveStep
<1>16. ASSUME NEW e \in Editor, Crash(e) PROVE EditInv'
  <2>1. /\ UNCHANGED <<file, vault, seen, worker, backend, session, pinned, stack, writes, undone>>
        /\ editor[e].pc # "ready"
        /\ broken' \in BOOLEAN
        /\ Leave(e)
    BY <1>16, <1>a DEF Crash, around
  <2> QED
    BY <1>a, <2>1, LeaveStep
<1>17. ASSUME StackReads \/ StackStarts PROVE EditInv'
  <2>1. UNCHANGED <<file, vault, lock, gate, editor, seen, session, pinned, writes, undone>>
    BY <1>17 DEF StackReads, StackStarts, live
  <2>2. stack \in [on : BOOLEAN, live : Selected] /\ file.effective["live"] \in Selected
    BY <1>a DEF EditInv, TypeOK, Files, Stage
  <2>3. stack' \in [on : BOOLEAN, live : Selected]
    <3>1. stack' \in {[on |-> TRUE, live |-> file.effective["live"]],
                       [on |-> FALSE, live |-> Off]}
      BY <1>17 DEF StackReads, StackStarts, Started
    <3>2. \A o \in BOOLEAN, p \in Selected :
            [on |-> o, live |-> p] \in [on : BOOLEAN, live : Selected]
      BY Zenon
    <3> QED
      BY <1>a, <2>2, <3>1, <3>2
  <2>4. worker' \in Selected
    BY <1>17, <1>a, <2>2 DEF StackReads, StackStarts, live, Runs
  <2>5. backend' \in {"legacy", "relayed"} /\ broken' \in BOOLEAN
    BY <1>17, <1>a DEF StackReads, StackStarts, live
  <2> QED
    BY <2>1, <2>3, <2>4, <2>5
       DEF EditInv, TypeOK, EditsHoldLocks, WritesAreCounted, RequestsAreMeant
<1>18. ASSUME NEW s \in Session, OpenSession(s) \/ ReadSnapshot(s) \/ CloseSession(s)
       PROVE EditInv'
  <2>1. UNCHANGED <<file, vault, lock, gate, editor, seen, worker, backend, pinned, stack,
                   writes, undone, broken>>
    BY <1>18 DEF OpenSession, ReadSnapshot, CloseSession, sessionRest, live
  <2>2. session' \in [Session -> [pc : {"closed", "open", "relay"}, snapshot : Selected]]
    <3>1. file.effective["live"] \in Selected
      BY <1>a DEF Files, Stage
    <3>2. session \in [Session -> [pc : {"closed", "open", "relay"}, snapshot : Selected]]
      BY DEF EditInv, TypeOK
    <3>3. CASE OpenSession(s)
      BY <3>2, <3>3 DEF OpenSession
    <3>4. CASE ReadSnapshot(s)
      BY <1>a, <3>1, <3>2, <3>4 DEF ReadSnapshot, Closed
    <3>5. CASE CloseSession(s)
      BY <1>a, <3>2, <3>5 DEF CloseSession, Closed
    <3> QED
      BY <1>18, <3>3, <3>4, <3>5
  <2> QED
    BY <2>1, <2>2 DEF EditInv, TypeOK, EditsHoldLocks, WritesAreCounted, RequestsAreMeant
<1>19. ASSUME Pin \/ Unpin PROVE EditInv'
  <2>1. /\ UNCHANGED <<file, vault, lock, gate, editor, seen, worker, backend, session,
                       stack, writes, undone, broken>>
        /\ pinned' \in {file.effective["stt"], Off}
    BY <1>19 DEF Pin, Unpin, sessionRest, live
  <2>2. pinned' \in Selected
    BY <1>a, <2>1 DEF Files, Stage
  <2> QED
    BY <2>1, <2>2 DEF EditInv, TypeOK, EditsHoldLocks, WritesAreCounted, RequestsAreMeant
<1>20. CASE UNCHANGED vars
  BY <1>20 DEF vars, EditInv, TypeOK, EditsHoldLocks, WritesAreCounted, RequestsAreMeant
<1> QED
  BY <1>1, <1>2, <1>3, <1>4, <1>5, <1>6, <1>7, <1>8, <1>9, <1>10, <1>11, <1>12, <1>13, <1>14,
     <1>15, <1>16, <1>17, <1>18, <1>19, <1>20 DEF Next

\* It holds at first.
LEMMA EditInit == Init => EditInv
<1> SUFFICES ASSUME Init PROVE EditInv
  OBVIOUS
<1>1. 0 \in Stamps /\ 0 <= MaxWrites
  BY RegistryAssumption DEF Stamps
<1>2. PICK stt \in Embedding, d \in Embedded \cup {None}, m \in Managed \cup {None} :
          /\ file = [rev |-> 0, id |-> 0,
                     cards |-> [c \in Card |->
                         IF c \in {stt, d, m}
                         THEN [stamp |-> 0, host |-> Local, ref |-> 0]
                         ELSE Absent],
                     effective |-> [live |-> Imported(m),
                         stt |-> [Imported(stt) EXCEPT !.model = d],
                         diarization |-> Imported(d)]]
          /\ worker = Imported(m)
  BY DEF Init
<1>3. /\ stt \in Card /\ d \in Card \cup {None} /\ m \in Card \cup {None}
      /\ stt # None
  BY RegistryAssumption DEF Card
<1>4. \A c \in Card \cup {None} : Imported(c) \in Selected
  BY <1>1 DEF Imported, Off, Selected
<1>5. [Imported(stt) EXCEPT !.model = d] \in Selected
  BY <1>3, <1>4 DEF Selected
<1>6. file \in Files /\ file.rev = 0 /\ file.id = 0
  <2>1. [c \in Card |-> IF c \in {stt, d, m} THEN [stamp |-> 0, host |-> Local, ref |-> 0]
                        ELSE Absent] \in [Card -> Saved]
    BY <1>1 DEF Saved, Absent
  <2>2. [live |-> Imported(m), stt |-> [Imported(stt) EXCEPT !.model = d],
         diarization |-> Imported(d)] \in [Stage -> Selected]
    BY <1>3, <1>4, <1>5 DEF Stage
  <2> QED
    BY <1>1, <1>2, <2>1, <2>2 DEF Files
<1>7. Off \in Selected
  BY <1>1 DEF Off, Selected
<1>8. TypeOK
  BY <1>1, <1>2, <1>3, <1>4, <1>6, <1>7, ReadyType DEF Init, TypeOK, Requests, Closed,
     Started
<1>9. Ready.pc = "ready" /\ Ready.original.rev = 0 /\ Ready.original.id = 0
  BY DEF Ready, NoFile
<1>10. EditsHoldLocks
  BY <1>9, RegistryAssumption DEF Init, EditsHoldLocks, Gated
<1>11. WritesAreCounted
  BY <1>6, <1>9 DEF Init, WritesAreCounted, Preparing
<1>12. RequestsAreMeant
  BY <1>9 DEF Init, RequestsAreMeant, Gated
<1> QED
  BY <1>8, <1>10, <1>11, <1>12 DEF EditInv

\* The types hold in every reachable state.
THEOREM TypeCorrect == Spec => []TypeOK
<1>1. EditInv => TypeOK
  BY DEF EditInv
<1> QED
  BY <1>1, EditInit, EditStep, PTL DEF Spec

-----------------------------------------------------------------------------
(* The copy an activation works on is the file, until it has published.    *)

CopiesAreCurrent ==
    \A e \in Editor :
        editor[e].pc \in {"probe", "gate", "prepare", "check", "publish", "restore"}
            => file = editor[e].original

Others(e) == \A x \in Editor \ {e} : editor'[x] = editor[x] /\ editor[x].pc = "ready"

Kept(e) == /\ editor'[e].card = editor[e].card /\ editor'[e].stage = editor[e].stage
           /\ editor'[e].original = editor[e].original

(* What a step does to the settings, seen from the editor that takes it.   *)
Quiet ==
    /\ UNCHANGED <<file, vault, editor, writes, undone>>
    /\ pinned' \in {pinned, file.effective["stt"], Off}
    /\ \A s \in Session :
          session'[s].snapshot \in {session[s].snapshot, file.effective["live"], Off}
    /\ \A e \in Editor : \/ seen'[e] = seen[e]
                         \/ /\ seen'[e] = [rev |-> file.rev, id |-> file.id]
                            /\ editor[e].pc = "ready"

Begins(e) ==
    \/ \E c \in Card : BeginDelete(e, c)
    \/ \E c \in Card, h \in Host \cup {Local}, key \in {"new", "keep", "clear"} :
          BeginSave(e, c, h, key)
    \/ \E s \in Stage, c \in Card \cup {None} : BeginActivate(e, s, c)

Ends(e) ==
    /\ editor[e].pc # "ready" /\ editor'[e] = Ready /\ Others(e)
    /\ UNCHANGED <<file, vault, writes, undone, seen, session, pinned>>

GoesOn(e) ==
    /\ editor[e].pc \in Activating /\ Others(e) /\ Kept(e)
    /\ \/ editor'[e].pc \in {"prepare", "check", "publish"} /\ editor[e].pc \in Preparing
       \/ editor'[e].pc = "rollback" /\ editor[e].pc \in {"publish", "restart"}
       \/ editor'[e].pc = "restore" /\ editor[e].pc \in {"prepare", "check"}
    /\ UNCHANGED <<file, vault, writes, undone, seen, session, pinned>>

WritesCard(e) ==
    /\ editor[e].pc \in {"save", "delete"} /\ editor'[e] = Ready /\ Others(e)
    /\ writes < MaxWrites /\ writes' = writes + 1
    /\ file' \in Files /\ file'.rev = file.rev + 1 /\ file'.id = writes + 1
    /\ file'.effective = file.effective
    /\ \E c \in Card, p \in Saved :
          /\ file'.cards = [file.cards EXCEPT ![c] = p]
          /\ \/ editor[e].pc = "save" /\ p.host = editor[e].host /\ p.ref = editor[e].ref
             \/ p = Absent
    /\ UNCHANGED <<vault, undone, seen, session, pinned>>

Publishes(e) ==
    /\ editor[e].pc \in {"probe", "publish"} /\ Others(e)
    /\ writes < MaxWrites /\ writes' = writes + 1
    /\ file' = Publication(e) /\ file' \in Files
    /\ \/ editor'[e] = Ready
       \/ editor[e].pc = "publish" /\ editor'[e].pc = "restart" /\ Kept(e)
    /\ UNCHANGED <<vault, undone, seen, session, pinned>>

TakesBack(e) ==
    /\ editor[e].pc = "rollback" /\ editor'[e].pc = "restore" /\ Kept(e) /\ Others(e)
    /\ file' = editor[e].original
    /\ undone' = IF file.id = file'.id THEN undone ELSE undone \cup {file.id}
    /\ UNCHANGED <<vault, writes, seen, session, pinned>>

\* The effect of leaving, and of going on, with nobody else at work.
LEMMA LeaveAlone ==
  ASSUME EditInv, NEW e \in Editor, editor[e].pc # "ready", Leave(e)
  PROVE  editor'[e] = Ready /\ Others(e)
BY Alone, LeaveEffect DEF EditInv, Others

\* The same for a step that goes on.
LEMMA GotoAlone ==
  ASSUME EditInv, NEW e \in Editor, editor[e].pc # "ready",
         NEW pc \in {"restore"} \cup Preparing \cup Verifying,
         editor' = [editor EXCEPT ![e].pc = pc]
  PROVE  editor'[e].pc = pc /\ Kept(e) /\ Others(e)
BY Alone, PcEffect DEF EditInv, Kept, Others

\* Every step is of one of these kinds.
LEMMA StepKinds ==
  ASSUME EditInv, CopiesAreCurrent, [Next]_vars
  PROVE  \/ Quiet
         \/ \E e \in Editor : \/ Begins(e) \/ StoreKey(e) \/ Ends(e) \/ GoesOn(e)
                              \/ WritesCard(e) \/ Publishes(e) \/ TakesBack(e)
<1>1. ASSUME NEW e \in Editor, Read(e) PROVE Quiet
  BY <1>1 DEF Read, live, around, Quiet, EditInv, TypeOK
<1>2. ASSUME NEW e \in Editor, Save(e) PROVE Ends(e) \/ WritesCard(e)
  <2> DEFINE p == [stamp |-> IF editor[e].card \in Managed THEN writes + 1 ELSE 0,
                   host |-> editor[e].host, ref |-> editor[e].ref]
             c == editor[e].card
  <2>0. writes < MaxWrites /\ c \in Card /\ writes + 1 \in Stamps /\ 0 \in Stamps
    BY <1>2, RegistryAssumption
       DEF Save, Preparing, EditInv, TypeOK, RequestsAreMeant, WritesAreCounted, Stamps
  <2>1. p \in Saved /\ p.host = editor[e].host /\ p.ref = editor[e].ref
    BY <2>0 DEF EditInv, TypeOK, Saved
  <2>2. \/ UNCHANGED <<file, writes>>
        \/ file' = Written([file EXCEPT !.cards[c] = p]) /\ writes' = writes + 1
    BY <1>2 DEF Save
  <2>3. /\ Leave(e) /\ UNCHANGED <<vault, seen, session, pinned, undone>>
        /\ editor[e].pc = "save"
    BY <1>2 DEF Save, around
  <2>4. editor'[e] = Ready /\ Others(e)
    BY <2>3, LeaveAlone
  <2> HIDE DEF p, c
  <2>5. CASE UNCHANGED <<file, writes>>
    BY <2>3, <2>4, <2>5 DEF Ends
  <2>6. CASE file' = Written([file EXCEPT !.cards[c] = p]) /\ writes' = writes + 1
    <3>1. /\ file' \in Files /\ file'.rev = file.rev + 1 /\ file'.id = writes + 1
          /\ file'.cards = [file.cards EXCEPT ![c] = p] /\ file'.effective = file.effective
      BY <2>0, <2>1, <2>6, CardWrite
    <3> QED
      BY <2>0, <2>1, <2>3, <2>4, <2>6, <3>1 DEF WritesCard
  <2> QED
    BY <2>2, <2>5, <2>6
<1>3. ASSUME NEW e \in Editor, Delete(e) PROVE Ends(e) \/ WritesCard(e)
  <2> DEFINE c == editor[e].card
  <2>0. writes < MaxWrites /\ c \in Card /\ 0 \in Stamps
    BY <1>3, RegistryAssumption
       DEF Delete, Preparing, EditInv, TypeOK, RequestsAreMeant, WritesAreCounted, Stamps
  <2>1. Absent \in Saved
    BY <2>0 DEF Absent, Saved
  <2>2. \/ UNCHANGED <<file, writes>>
        \/ file' = Written([file EXCEPT !.cards[c] = Absent]) /\ writes' = writes + 1
    BY <1>3 DEF Delete
  <2>3. /\ Leave(e) /\ UNCHANGED <<vault, seen, session, pinned, undone>>
        /\ editor[e].pc = "delete"
    BY <1>3 DEF Delete, around
  <2>4. editor'[e] = Ready /\ Others(e)
    BY <2>3, LeaveAlone
  <2> HIDE DEF c
  <2>5. CASE UNCHANGED <<file, writes>>
    BY <2>3, <2>4, <2>5 DEF Ends
  <2>6. CASE file' = Written([file EXCEPT !.cards[c] = Absent]) /\ writes' = writes + 1
    <3>1. /\ file' \in Files /\ file'.rev = file.rev + 1 /\ file'.id = writes + 1
          /\ file'.cards = [file.cards EXCEPT ![c] = Absent]
          /\ file'.effective = file.effective
      BY <2>0, <2>1, <2>6, CardWrite
    <3> QED
      BY <2>0, <2>1, <2>3, <2>4, <2>6, <3>1 DEF WritesCard
  <2> QED
    BY <2>2, <2>5, <2>6
<1>4. ASSUME NEW e \in Editor, ProbeStage(e) PROVE Ends(e) \/ Publishes(e)
  <2>1. /\ Leave(e) /\ UNCHANGED <<vault, seen, session, pinned, undone>>
        /\ editor[e].pc = "probe"
        /\ \/ file' = Publication(e) /\ writes' = writes + 1
           \/ file' = editor[e].original /\ UNCHANGED writes
    BY <1>4 DEF ProbeStage, around
  <2>2. writes < MaxWrites /\ file = editor[e].original
    BY <2>1 DEF Preparing, EditInv, WritesAreCounted, CopiesAreCurrent
  <2>3. editor'[e] = Ready /\ Others(e)
    BY <2>1, LeaveAlone
  <2>4. Publication(e) \in Files
    BY <2>2, PublicationWrite
  <2> QED
    BY <2>1, <2>2, <2>3, <2>4 DEF Ends, Publishes
<1>5. ASSUME NEW e \in Editor, TakeGate(e) PROVE Ends(e) \/ GoesOn(e)
  <2>1. /\ UNCHANGED <<file, vault, writes, undone, seen, session, pinned>>
        /\ editor[e].pc = "gate"
        /\ Leave(e) \/ editor' = [editor EXCEPT ![e].pc = "prepare"]
    BY <1>5 DEF TakeGate, around
  <2>2. CASE Leave(e)
    BY <2>1, <2>2, LeaveAlone DEF Ends
  <2>3. CASE editor' = [editor EXCEPT ![e].pc = "prepare"]
    BY <2>1, <2>3, GotoAlone DEF GoesOn, Preparing, Activating
  <2> QED
    BY <2>1, <2>2, <2>3
<1>6. ASSUME NEW e \in Editor, Prepare(e) PROVE Ends(e) \/ GoesOn(e)
  <2>1. /\ UNCHANGED <<file, vault, writes, undone, seen, session, pinned>>
        /\ editor[e].pc = "prepare"
        /\ \/ Leave(e)
           \/ editor' = [editor EXCEPT ![e].pc = "check"]
           \/ editor' = [editor EXCEPT ![e].pc = "restore"]
    BY <1>6 DEF Prepare, Goto, around
  <2>2. CASE Leave(e)
    BY <2>1, <2>2, LeaveAlone DEF Ends
  <2>3. CASE editor' = [editor EXCEPT ![e].pc = "check"]
    BY <2>1, <2>3, GotoAlone DEF GoesOn, Preparing, Activating, Gated
  <2>4. CASE editor' = [editor EXCEPT ![e].pc = "restore"]
    BY <2>1, <2>4, GotoAlone DEF GoesOn, Preparing, Activating, Gated
  <2> QED
    BY <2>1, <2>2, <2>3, <2>4
<1>7. ASSUME NEW e \in Editor, Check(e) PROVE GoesOn(e)
  <2>1. /\ UNCHANGED <<file, vault, writes, undone, seen, session, pinned>>
        /\ editor[e].pc = "check"
        /\ \/ editor' = [editor EXCEPT ![e].pc = "publish"]
           \/ editor' = [editor EXCEPT ![e].pc = "restore"]
    BY <1>7 DEF Check, Goto, around
  <2>2. CASE editor' = [editor EXCEPT ![e].pc = "publish"]
    BY <2>1, <2>2, GotoAlone DEF GoesOn, Preparing, Activating, Gated
  <2>3. CASE editor' = [editor EXCEPT ![e].pc = "restore"]
    BY <2>1, <2>3, GotoAlone DEF GoesOn, Preparing, Activating, Gated
  <2> QED
    BY <2>1, <2>2, <2>3
<1>8. ASSUME NEW e \in Editor, Publish(e) PROVE Publishes(e) \/ GoesOn(e)
  <2>1. /\ UNCHANGED <<vault, undone, seen, session, pinned>>
        /\ editor[e].pc = "publish"
        /\ \/ /\ file' = Publication(e) /\ writes' = writes + 1
              /\ Leave(e) \/ editor' = [editor EXCEPT ![e].pc = "restart"]
           \/ editor' = [editor EXCEPT ![e].pc = "rollback"] /\ UNCHANGED <<file, writes>>
    BY <1>8 DEF Publish, Goto, around
  <2>2. writes < MaxWrites
    BY <2>1 DEF Preparing, EditInv, WritesAreCounted
  <2>3. Publication(e) \in Files
    BY <2>2, PublicationWrite
  <2>4. CASE Leave(e) /\ file' = Publication(e) /\ writes' = writes + 1
    BY <2>1, <2>2, <2>3, <2>4, LeaveAlone DEF Publishes
  <2>5. CASE editor' = [editor EXCEPT ![e].pc = "restart"] /\ file' = Publication(e)
             /\ writes' = writes + 1
    BY <2>1, <2>2, <2>3, <2>5, GotoAlone DEF Publishes, Verifying
  <2>6. CASE editor' = [editor EXCEPT ![e].pc = "rollback"] /\ UNCHANGED <<file, writes>>
    BY <2>1, <2>6, GotoAlone DEF GoesOn, Verifying, Activating, Gated
  <2> QED
    BY <2>1, <2>4, <2>5, <2>6
<1>9. ASSUME NEW e \in Editor, Restart(e) PROVE Ends(e) \/ GoesOn(e)
  <2>1. /\ UNCHANGED <<file, vault, writes, undone, seen, session, pinned>>
        /\ editor[e].pc = "restart"
        /\ Leave(e) \/ editor' = [editor EXCEPT ![e].pc = "rollback"]
    BY <1>9 DEF Restart, Goto, around
  <2>2. CASE Leave(e)
    BY <2>1, <2>2, LeaveAlone DEF Ends
  <2>3. CASE editor' = [editor EXCEPT ![e].pc = "rollback"]
    BY <2>1, <2>3, GotoAlone DEF GoesOn, Verifying, Activating, Gated
  <2> QED
    BY <2>1, <2>2, <2>3
<1>10. ASSUME NEW e \in Editor, Rollback(e) PROVE TakesBack(e)
  <2>1. /\ UNCHANGED <<vault, writes, seen, session, pinned>>
        /\ editor[e].pc = "rollback"
        /\ editor' = [editor EXCEPT ![e].pc = "restore"]
        /\ file' = editor[e].original
        /\ undone' = IF file.id = file'.id THEN undone ELSE undone \cup {file.id}
    BY <1>10 DEF Rollback, Goto, around
  <2> QED
    BY <2>1, GotoAlone DEF TakesBack
<1>11. ASSUME NEW e \in Editor, Restore(e) \/ Crash(e) PROVE Ends(e)
  <2>1. /\ UNCHANGED <<file, vault, writes, undone, seen, session, pinned>>
        /\ editor[e].pc # "ready" /\ Leave(e)
    BY <1>11 DEF Restore, Crash, around
  <2> QED
    BY <2>1, LeaveAlone DEF Ends
<1>12. ASSUME StackReads \/ StackStarts \/ UNCHANGED vars PROVE Quiet
  BY <1>12 DEF StackReads, StackStarts, vars, Quiet
<1>13. ASSUME NEW s \in Session, OpenSession(s) \/ ReadSnapshot(s) \/ CloseSession(s)
       PROVE  Quiet
  <2>1. UNCHANGED <<file, vault, editor, writes, undone, pinned, seen>>
    BY <1>13 DEF OpenSession, ReadSnapshot, CloseSession, sessionRest
  <2>2. \A t \in Session :
          session'[t].snapshot \in {session[t].snapshot, file.effective["live"], Off}
    <3>1. CASE OpenSession(s)
      BY <3>1 DEF OpenSession, EditInv, TypeOK
    <3>2. CASE ReadSnapshot(s)
      BY <3>2 DEF ReadSnapshot, Closed, EditInv, TypeOK
    <3>3. CASE CloseSession(s)
      BY <3>3 DEF CloseSession, Closed, EditInv, TypeOK
    <3> QED
      BY <1>13, <3>1, <3>2, <3>3
  <2> QED
    BY <2>1, <2>2 DEF Quiet
<1>14. ASSUME Pin \/ Unpin PROVE Quiet
  BY <1>14 DEF Pin, Unpin, sessionRest, Quiet
<1> QED
  BY <1>1, <1>2, <1>3, <1>4, <1>5, <1>6, <1>7, <1>8, <1>9, <1>10, <1>11, <1>12, <1>13, <1>14
     DEF Next, Begins

\* A request that begins: what it asks for, and that nobody else is at work.
LEMMA BeginEffect ==
  ASSUME EditInv, NEW e \in Editor, Begins(e)
  PROVE  /\ Others(e)
         /\ UNCHANGED <<file, vault, seen, session, pinned, writes, undone>>
         /\ seen[e].rev = file.rev
         /\ \/ editor'[e].pc = "delete"
            \/ /\ editor'[e].pc \in {"vault", "save"}
               /\ \/ editor'[e].ref = 0
                  \/ \E c \in Card : /\ editor'[e].ref = file.cards[c].ref
                                     /\ editor'[e].host = file.cards[c].host
            \/ /\ editor'[e].pc = IF editor'[e].stage = "live" THEN "gate" ELSE "probe"
               /\ editor'[e].original = file
               /\ editor'[e].card = None => editor'[e].stage # "stt"
               /\ editor'[e].card # None => /\ editor'[e].card \in Card
                                            /\ StageOf(editor'[e].card) = editor'[e].stage
               /\ Fits(file, editor'[e].stage, editor'[e].card)
<1>1. ASSUME NEW r \in Requests, Edit(e, r)
      PROVE  /\ editor'[e] = r /\ Others(e) /\ seen[e].rev = file.rev
             /\ UNCHANGED <<file, vault, seen, session, pinned, writes, undone>>
  <2>1. seen[e].rev = file.rev
    BY <1>1 DEF Edit, Admitted
  <2> QED
    BY <1>1, <2>1, EditEffect DEF Others
<1>2. ASSUME NEW c \in Card, BeginDelete(e, c)
      PROVE  \E r \in Requests : Edit(e, r) /\ r.pc = "delete"
  BY <1>2, DeleteRequest
<1>3. ASSUME NEW c \in Card, NEW h \in Host \cup {Local}, NEW key \in {"new", "keep", "clear"},
             BeginSave(e, c, h, key)
      PROVE  \E r \in Requests : /\ Edit(e, r) /\ r.pc \in {"vault", "save"}
                                 /\ \/ r.ref = 0
                                    \/ r.ref = file.cards[c].ref /\ r.host = file.cards[c].host
  <2> PICK r \in Requests :
           /\ Edit(e, r)
           /\ r.pc = IF key = "new" THEN "vault" ELSE "save"
           /\ r.host = h
           /\ r.ref = IF key = "keep" THEN Inherited(c, h) ELSE 0
    BY <1>3, SaveRequest
  <2>1. \/ r.ref = 0
        \/ r.ref = file.cards[c].ref /\ r.host = file.cards[c].host
    BY DEF Inherited
  <2>2. r.pc \in {"vault", "save"}
    OBVIOUS
  <2> QED
    BY <2>1, <2>2
<1>4. ASSUME NEW s \in Stage, NEW c \in Card \cup {None}, BeginActivate(e, s, c)
      PROVE  \E r \in Requests :
               /\ Edit(e, r) /\ r.pc = IF s = "live" THEN "gate" ELSE "probe"
               /\ r.card = c /\ r.stage = s /\ r.original = file
               /\ c = None => s # "stt"
               /\ c # None => c \in Card /\ StageOf(c) = s
               /\ Fits(file, s, c)
  <2>1. /\ c = None => s # "stt"
        /\ c # None => c \in Card /\ StageOf(c) = s
        /\ Fits(file, s, c)
    BY <1>4 DEF BeginActivate
  <2>2. \E r \in Requests :
           /\ Edit(e, r) /\ r.pc = IF s = "live" THEN "gate" ELSE "probe"
           /\ r.card = c /\ r.stage = s /\ r.original = file
    BY <1>4, ActivateRequest
  <2> QED
    BY <2>1, <2>2
<1>5. CASE \E c \in Card : BeginDelete(e, c)
  BY <1>1, <1>2, <1>5
<1>6. CASE \E c \in Card, h \in Host \cup {Local}, key \in {"new", "keep", "clear"} :
          BeginSave(e, c, h, key)
  <2> PICK c \in Card, h \in Host \cup {Local}, key \in {"new", "keep", "clear"} :
          BeginSave(e, c, h, key)
    BY <1>6
  <2> PICK r \in Requests : /\ Edit(e, r) /\ r.pc \in {"vault", "save"}
                            /\ \/ r.ref = 0
                               \/ r.ref = file.cards[c].ref /\ r.host = file.cards[c].host
    BY <1>3
  <2> QED
    BY <1>1
<1>7. CASE \E s \in Stage, c \in Card \cup {None} : BeginActivate(e, s, c)
  <2> PICK s \in Stage, c \in Card \cup {None} : BeginActivate(e, s, c)
    BY <1>7
  <2> PICK r \in Requests :
               /\ Edit(e, r) /\ r.pc = IF s = "live" THEN "gate" ELSE "probe"
               /\ r.card = c /\ r.stage = s /\ r.original = file
               /\ c = None => s # "stt"
               /\ c # None => c \in Card /\ StageOf(c) = s
               /\ Fits(file, s, c)
    BY <1>4
  <2> QED
    BY <1>1
<1> QED
  BY <1>5, <1>6, <1>7 DEF Begins

\* A key goes to the vault under a name nothing refers to yet.
LEMMA StoreEffect ==
  ASSUME EditInv, NEW e \in Editor, StoreKey(e)
  PROVE  /\ Others(e)
         /\ editor[e].pc = "vault" /\ editor'[e].pc = "save"
         /\ editor'[e].ref = writes + 1 /\ editor'[e].host = editor[e].host
         /\ vault' = [k \in DOMAIN vault \cup {writes + 1} |->
                        IF k = writes + 1 THEN editor[e].host ELSE vault[k]]
         /\ UNCHANGED <<file, seen, session, pinned, writes, undone>>
<1>1. editor[e] \in Requests
  BY DEF EditInv, TypeOK, Requests
<1>2. /\ editor'[e] = [editor[e] EXCEPT !.pc = "save", !.ref = writes + 1]
      /\ \A x \in Editor \ {e} : editor'[x] = editor[x]
  BY DEF StoreKey, EditInv, TypeOK
<1>3. /\ editor'[e].pc = "save" /\ editor'[e].ref = writes + 1
      /\ editor'[e].host = editor[e].host
  BY <1>1, <1>2 DEF Requests
<1> QED
  BY <1>2, <1>3, Alone DEF StoreKey, Others, around

\* While an activation has published nothing, its copy is the file.
LEMMA CopyStep ==
  ASSUME EditInv, CopiesAreCurrent, [Next]_vars PROVE CopiesAreCurrent'
<1> USE DEF CopiesAreCurrent
<1>0. Ready.pc = "ready"
  BY DEF Ready
<1>1. CASE Quiet
  BY <1>1 DEF Quiet
<1>2. ASSUME NEW e \in Editor, Begins(e) PROVE CopiesAreCurrent'
  BY <1>2, BeginEffect DEF Others
<1>3. ASSUME NEW e \in Editor, StoreKey(e) PROVE CopiesAreCurrent'
  BY <1>3, StoreEffect DEF Others
<1>4. ASSUME NEW e \in Editor, Ends(e) PROVE CopiesAreCurrent'
  BY <1>0, <1>4 DEF Ends, Others
<1>5. ASSUME NEW e \in Editor, GoesOn(e) PROVE CopiesAreCurrent'
  BY <1>5 DEF GoesOn, Others, Kept, Activating, Gated, Preparing
<1>6. ASSUME NEW e \in Editor, WritesCard(e) PROVE CopiesAreCurrent'
  BY <1>0, <1>6 DEF WritesCard, Others
<1>7. ASSUME NEW e \in Editor, Publishes(e) PROVE CopiesAreCurrent'
  BY <1>0, <1>7 DEF Publishes, Others
<1>8. ASSUME NEW e \in Editor, TakesBack(e) PROVE CopiesAreCurrent'
  BY <1>8 DEF TakesBack, Others, Kept
<1> QED
  BY <1>1, <1>2, <1>3, <1>4, <1>5, <1>6, <1>7, <1>8, StepKinds

-----------------------------------------------------------------------------
(* The effective pipeline.                                                 *)

Sound(f) ==
    LET stt == f.effective["stt"]  d == f.effective["diarization"] IN
    /\ stt.card \in STT
    /\ stt.model = Inside(d)
    /\ d.card \in Embedded => stt.card \in Embedding

PipelinesFit ==
    /\ Sound(file)
    /\ \A e \in Editor : editor[e].pc \in Activating =>
          LET r == editor[e] IN
          /\ Sound(r.original)
          /\ r.card = None => r.stage # "stt"
          /\ r.card # None => r.card \in Card /\ StageOf(r.card) = r.stage
          /\ Fits(r.original, r.stage, r.card)

\* A publication of what fits a sound pipeline is a sound pipeline.
LEMMA PublishedIsSound ==
  ASSUME NEW f \in Files, NEW s \in Stage, NEW c \in Card \cup {None},
         Sound(f), Fits(f, s, c), c = None => s # "stt",
         c # None => StageOf(c) = s
  PROVE  Sound(Published(f, s, c))
<1> DEFINE n == Choice(f, c)
           g == [f EXCEPT !.effective[s] = n]
           m == Inside(g.effective["diarization"])
           h == [g EXCEPT !.effective["stt"].model = m]
<1>0. /\ "stt" \in Stage /\ "diarization" \in Stage
      /\ f.effective \in [Stage -> Selected]
      /\ n \in Selected /\ n.card = c
  BY ChoiceType DEF Stage, Files, Choice, Off
<1>1. /\ g \in Files /\ g.effective = [f.effective EXCEPT ![s] = n]
  BY <1>0 DEF Files
<1> HIDE DEF n, g
<1>2. /\ h.effective["stt"].card = g.effective["stt"].card
      /\ h.effective["stt"].model = m
      /\ h.effective["diarization"] = g.effective["diarization"]
  <2>1. g.effective \in [Stage -> Selected] /\ DOMAIN g.effective = Stage
    BY <1>1 DEF Files
  <2> DEFINE q == [g.effective["stt"] EXCEPT !.model = m]
  <2>2. q.card = g.effective["stt"].card /\ q.model = m
    BY <1>0, <2>1 DEF Selected
  <2>3. h.effective = [g.effective EXCEPT !["stt"] = q]
    BY <1>1 DEF Files
  <2> HIDE DEF h, q
  <2> QED
    BY <1>0, <2>1, <2>2, <2>3
<1> HIDE DEF h, m
<1>3. Published(f, s, c) = IF s \in {"stt", "diarization"} THEN h ELSE g
  BY DEF Published, h, m, g, n
<1>4. CASE s = "live"
  BY <1>0, <1>1, <1>3, <1>4 DEF Sound, Stage
<1>5. CASE s = "stt"
  <2>1. c \in STT
    BY <1>5 DEF StageOf, Card, STT, Live
  <2>2. /\ g.effective["stt"].card = c
        /\ g.effective["diarization"] = f.effective["diarization"]
    BY <1>0, <1>1, <1>5
  <2>3. f.effective["diarization"].card \in Embedded => c \in Embedding
    BY <1>5 DEF Fits
  <2> QED
    BY <1>2, <1>3, <1>5, <2>1, <2>2, <2>3 DEF Sound, m
<1>6. CASE s = "diarization"
  <2>1. /\ g.effective["stt"] = f.effective["stt"]
        /\ g.effective["diarization"].card = c
    BY <1>0, <1>1, <1>6
  <2>2. c \in Embedded => f.effective["stt"].card \in Embedding
    BY <1>6 DEF Fits
  <2> QED
    BY <1>2, <1>3, <1>6, <2>1, <2>2 DEF Sound, m
<1> QED
  BY <1>4, <1>5, <1>6 DEF Stage

\* Every step leaves a pipeline that fits, in the file and in the copies.
LEMMA PipelineStep ==
  ASSUME EditInv, CopiesAreCurrent, PipelinesFit, [Next]_vars PROVE PipelinesFit'
<1> USE DEF PipelinesFit
<1>0. Ready.pc = "ready" /\ "ready" \notin Activating
  BY DEF Ready, Activating, Gated
<1>1. CASE Quiet
  BY <1>1 DEF Quiet, Sound, Fits
<1>2. ASSUME NEW e \in Editor, Begins(e) PROVE PipelinesFit'
  <2>1. Sound(file)'
    BY <1>2, BeginEffect DEF Sound
  <2>2. ASSUME NEW x \in Editor, x # e PROVE editor'[x].pc \notin Activating
    BY <1>0, <1>2, <2>2, BeginEffect DEF Others
  <2>3. editor'[e].pc \in Activating =>
          /\ editor'[e].original = file
          /\ editor'[e].card = None => editor'[e].stage # "stt"
          /\ editor'[e].card # None => /\ editor'[e].card \in Card
                                       /\ StageOf(editor'[e].card) = editor'[e].stage
          /\ Fits(file, editor'[e].stage, editor'[e].card)
    BY <1>2, BeginEffect DEF Activating, Gated
  <2> QED
    BY <2>1, <2>2, <2>3 DEF Sound, Fits
<1>3. ASSUME NEW e \in Editor, StoreKey(e) PROVE PipelinesFit'
  BY <1>0, <1>3, StoreEffect DEF Others, Sound, Activating, Gated
<1>4. ASSUME NEW e \in Editor, Ends(e) PROVE PipelinesFit'
  BY <1>0, <1>4 DEF Ends, Others, Sound
<1>5. ASSUME NEW e \in Editor, GoesOn(e) PROVE PipelinesFit'
  BY <1>0, <1>5 DEF GoesOn, Others, Kept, Sound, Fits
<1>6. ASSUME NEW e \in Editor, WritesCard(e) PROVE PipelinesFit'
  BY <1>0, <1>6 DEF WritesCard, Others, Sound
<1>7. ASSUME NEW e \in Editor, Publishes(e) PROVE PipelinesFit'
  <2> DEFINE o == editor[e].original  s == editor[e].stage  c == editor[e].card
  <2>1. /\ o \in Files /\ s \in Stage /\ c \in Card \cup {None}
        /\ editor[e].pc \in Activating /\ writes < MaxWrites
    BY <1>7 DEF EditInv, TypeOK, Publishes, Activating, Gated
  <2>2. Sound(Published(o, s, c))
    BY <2>1, PublishedIsSound
  <2>3. file'.effective = Published(o, s, c).effective
    BY <1>7, <2>1, PublicationWrite DEF Publishes
  <2>4. Sound(file)'
    BY <2>2, <2>3 DEF Sound
  <2> QED
    BY <1>0, <1>7, <2>1, <2>4 DEF Publishes, Others, Kept, Sound, Fits
<1>8. ASSUME NEW e \in Editor, TakesBack(e) PROVE PipelinesFit'
  <2>1. editor[e].pc \in Activating
    BY <1>8 DEF TakesBack, Activating, Gated
  <2> QED
    BY <1>0, <1>8, <2>1 DEF TakesBack, Others, Kept, Sound, Fits
<1> QED
  BY <1>1, <1>2, <1>3, <1>4, <1>5, <1>6, <1>7, <1>8, StepKinds

-----------------------------------------------------------------------------
(* The keys.                                                               *)

Given(p, v, w) ==
    p.ref # 0 => p.ref \in DOMAIN v /\ v[p.ref] = p.host /\ p.ref <= w

FileGiven(f, v, w) == /\ \A c \in Card : Given(f.cards[c], v, w)
                      /\ \A s \in Stage : Given(f.effective[s], v, w)

KeysAreGiven ==
    /\ FileGiven(file, vault, writes) /\ Given(pinned, vault, writes)
    /\ \A s \in Session : Given(session[s].snapshot, vault, writes)
    /\ \A e \in Editor :
          /\ editor[e].pc \in Activating => FileGiven(editor[e].original, vault, writes)
          /\ editor[e].pc = "save" /\ editor[e].ref # 0 =>
                /\ editor[e].ref \in DOMAIN vault
                /\ vault[editor[e].ref] = editor[e].host
                /\ editor[e].ref <= writes + 1

\* A publication takes its keys from the copy it was made from.
LEMMA PublishedIsGiven ==
  ASSUME NEW f \in Files, NEW s \in Stage, NEW c \in Card \cup {None}, FileGiven(f, vault, writes)
  PROVE  FileGiven(Published(f, s, c), vault, writes)
<1> DEFINE n == Choice(f, c)
           g == [f EXCEPT !.effective[s] = n]
           m == Inside(g.effective["diarization"])
           h == [g EXCEPT !.effective["stt"].model = m]
<1>0. "stt" \in Stage /\ n \in Selected /\ f.effective \in [Stage -> Selected]
  BY ChoiceType DEF Stage, Files
<1>1. Given(n, vault, writes)
  BY DEF FileGiven, Given, Choice, Off
<1>2. /\ g \in Files /\ g.effective = [f.effective EXCEPT ![s] = n] /\ g.cards = f.cards
  BY <1>0 DEF Files
<1> HIDE DEF n, g
<1>3. FileGiven(g, vault, writes)
  BY <1>0, <1>1, <1>2 DEF FileGiven
<1>4. /\ h.cards = g.cards
      /\ \A t \in Stage : /\ h.effective[t].ref = g.effective[t].ref
                           /\ h.effective[t].host = g.effective[t].host
  <2>1. g.effective \in [Stage -> Selected]
    BY <1>2 DEF Files
  <2> DEFINE q == [g.effective["stt"] EXCEPT !.model = m]
  <2>2. q.ref = g.effective["stt"].ref /\ q.host = g.effective["stt"].host
    BY <1>0, <2>1 DEF Selected
  <2>3. h.effective = [g.effective EXCEPT !["stt"] = q] /\ h.cards = g.cards
    BY <1>2 DEF Files
  <2> HIDE DEF h, q
  <2> QED
    BY <1>0, <2>1, <2>2, <2>3
<1> HIDE DEF h, m
<1>5. FileGiven(h, vault, writes)
  BY <1>3, <1>4 DEF FileGiven, Given
<1>6. Published(f, s, c) = IF s \in {"stt", "diarization"} THEN h ELSE g
  BY DEF Published, h, m, g, n
<1> QED
  BY <1>3, <1>5, <1>6

\* What was given stays given while the vault only gains names and writes grow.
LEMMA GivenStays ==
  ASSUME EditInv, writes' \in Nat, writes <= writes',
         UNCHANGED vault
         \/ \E h : vault' = [k \in DOMAIN vault \cup {writes + 1} |->
                              IF k = writes + 1 THEN h ELSE vault[k]]
  PROVE  /\ \A f \in Files : FileGiven(f, vault, writes) => FileGiven(f, vault', writes')
         /\ \A p \in Selected : Given(p, vault, writes) => Given(p, vault', writes')
<1>0. writes \in Nat
  BY RegistryAssumption DEF EditInv, TypeOK, Stamps
<1>1. ASSUME NEW r \in Nat, r \in DOMAIN vault, r <= writes
      PROVE  r \in DOMAIN vault' /\ vault'[r] = vault[r] /\ r <= writes'
  BY <1>0, <1>1
<1>2. ASSUME NEW p, p.ref \in Nat, Given(p, vault, writes) PROVE Given(p, vault', writes')
  BY <1>1, <1>2 DEF Given
<1>3. ASSUME NEW p \in Selected PROVE p.ref \in Nat
  BY RegistryAssumption DEF Selected, Stamps
<1>4. ASSUME NEW p \in Saved PROVE p.ref \in Nat
  BY RegistryAssumption DEF Saved, Stamps
<1>5. ASSUME NEW f \in Files, FileGiven(f, vault, writes) PROVE FileGiven(f, vault', writes')
  <2>1. /\ \A c \in Card : f.cards[c] \in Saved
        /\ \A s \in Stage : f.effective[s] \in Selected
    BY DEF Files
  <2> QED
    BY <1>2, <1>3, <1>4, <1>5, <2>1 DEF FileGiven
<1> QED
  BY <1>2, <1>3, <1>5

\* Every step leaves each key with the server it was given for.
LEMMA KeyStep ==
  ASSUME EditInv, EditInv', CopiesAreCurrent, KeysAreGiven, [Next]_vars PROVE KeysAreGiven'
<1> USE DEF KeysAreGiven
<1>0. /\ Ready.pc = "ready" /\ "ready" \notin Activating /\ "save" \notin Activating
      /\ "vault" \notin Activating /\ "delete" \notin Activating
  BY DEF Ready, Activating, Gated
<1>a. /\ file \in Files /\ pinned \in Selected /\ writes \in Nat /\ writes' \in Nat
      /\ \A s \in Session : session[s].snapshot \in Selected
      /\ \A e \in Editor : editor[e].original \in Files
  BY RegistryAssumption DEF EditInv, TypeOK, Stamps
<1>b. ASSUME writes <= writes',
             UNCHANGED vault
             \/ \E h : vault' = [k \in DOMAIN vault \cup {writes + 1} |->
                                  IF k = writes + 1 THEN h ELSE vault[k]]
      PROVE  /\ \A f \in Files : FileGiven(f, vault, writes) => FileGiven(f, vault', writes')
             /\ \A p \in Selected : Given(p, vault, writes) => Given(p, vault', writes')
  BY <1>a, <1>b, GivenStays
<1>1. CASE Quiet
  <2>1. Given(Off, vault, writes)
    BY DEF Given, Off
  <2>2. "stt" \in Stage /\ "live" \in Stage
    BY DEF Stage
  <2>3. /\ Given(pinned', vault', writes')
        /\ \A s \in Session : Given(session'[s].snapshot, vault', writes')
    BY <1>1, <2>1, <2>2 DEF Quiet, FileGiven
  <2> QED
    BY <1>1, <2>3 DEF Quiet, FileGiven, Given
<1>2. ASSUME NEW e \in Editor, Begins(e) PROVE KeysAreGiven'
  <2>1. /\ FileGiven(file', vault', writes') /\ Given(pinned', vault', writes')
        /\ \A s \in Session : Given(session'[s].snapshot, vault', writes')
        /\ UNCHANGED <<file, vault, writes>>
    BY <1>2, BeginEffect DEF FileGiven, Given
  <2>2. ASSUME NEW x \in Editor, x # e PROVE editor'[x].pc = "ready"
    BY <1>2, <2>2, BeginEffect DEF Others
  <2>3. editor'[e].pc \in Activating => editor'[e].original = file
    BY <1>0, <1>2, BeginEffect
  <2>4. editor'[e].pc = "save" /\ editor'[e].ref # 0 =>
          \E c \in Card : editor'[e].ref = file.cards[c].ref /\ editor'[e].host = file.cards[c].host
    BY <1>2, BeginEffect
  <2>5. editor'[e].pc = "save" /\ editor'[e].ref # 0 =>
                /\ editor'[e].ref \in DOMAIN vault
                /\ vault[editor'[e].ref] = editor'[e].host
                /\ editor'[e].ref <= writes + 1
    <3>1. \A c \in Card : file.cards[c].ref \in Nat
      BY <1>a, RegistryAssumption DEF Files, Saved, Stamps
    <3> QED
      BY <1>a, <2>4, <3>1 DEF FileGiven, Given
  <2>6. editor'[e].pc \in Activating => FileGiven(editor'[e].original, vault', writes')
    BY <2>1, <2>3 DEF FileGiven, Given
  <2> QED
    BY <1>0, <2>1, <2>2, <2>5, <2>6
<1>3. ASSUME NEW e \in Editor, StoreKey(e) PROVE KeysAreGiven'
  <2>1. /\ Others(e)
        /\ editor'[e].pc = "save"
        /\ editor'[e].ref = writes + 1 /\ editor'[e].host = editor[e].host
        /\ vault' = [k \in DOMAIN vault \cup {writes + 1} |->
                        IF k = writes + 1 THEN editor[e].host ELSE vault[k]]
        /\ UNCHANGED <<file, session, pinned, writes>>
    BY <1>3, StoreEffect
  <2>2. /\ \A f \in Files : FileGiven(f, vault, writes) => FileGiven(f, vault', writes')
        /\ \A p \in Selected : Given(p, vault, writes) => Given(p, vault', writes')
    <3>1. writes <= writes'
      BY <1>a, <2>1
    <3>2. \E h : vault' = [k \in DOMAIN vault \cup {writes + 1} |->
                            IF k = writes + 1 THEN h ELSE vault[k]]
      BY <2>1
    <3> QED
      BY <1>b, <3>1, <3>2
  <2>3. FileGiven(file', vault', writes')
    BY <1>a, <2>1, <2>2 DEF FileGiven, Given
  <2>4. /\ Given(pinned', vault', writes')
        /\ \A s \in Session : Given(session'[s].snapshot, vault', writes')
    BY <1>a, <2>1, <2>2 DEF Given
  <2>5. ASSUME NEW x \in Editor, x # e PROVE editor'[x].pc = "ready"
    BY <2>1, <2>5 DEF Others
  <2>6. /\ editor'[e].ref \in DOMAIN vault' /\ vault'[editor'[e].ref] = editor'[e].host
        /\ editor'[e].ref <= writes' + 1
    <3>1. writes + 1 \in DOMAIN vault' /\ vault'[writes + 1] = editor[e].host
      BY <2>1
    <3> QED
      BY <1>a, <2>1, <3>1
  <2> QED
    BY <1>0, <2>1, <2>3, <2>4, <2>5, <2>6
<1>4. ASSUME NEW e \in Editor, Ends(e) PROVE KeysAreGiven'
  BY <1>0, <1>4 DEF Ends, Others, FileGiven, Given
<1>5. ASSUME NEW e \in Editor, GoesOn(e) PROVE KeysAreGiven'
  <2>1. editor'[e].pc # "save"
    BY <1>5 DEF GoesOn
  <2> QED
    BY <1>0, <1>5, <2>1 DEF GoesOn, Others, Kept, FileGiven, Given
<1>6. ASSUME NEW e \in Editor, WritesCard(e) PROVE KeysAreGiven'
  <2>1. /\ \A f \in Files : FileGiven(f, vault, writes) => FileGiven(f, vault', writes')
        /\ \A p \in Selected : Given(p, vault, writes) => Given(p, vault', writes')
    BY <1>a, <1>b, <1>6 DEF WritesCard
  <2>2. /\ Given(pinned', vault', writes')
        /\ \A s \in Session : Given(session'[s].snapshot, vault', writes')
    BY <1>a, <1>6, <2>1 DEF WritesCard, Given
  <2>3. FileGiven(file', vault', writes')
    <3> PICK c \in Card, p \in Saved :
          /\ file'.cards = [file.cards EXCEPT ![c] = p]
          /\ \/ editor[e].pc = "save" /\ p.host = editor[e].host /\ p.ref = editor[e].ref
             \/ p = Absent
      BY <1>6 DEF WritesCard
    <3>1. Given(p, vault', writes')
      BY <1>6 DEF WritesCard, Given, Absent
    <3>2. FileGiven(file, vault, writes) /\ file.cards \in [Card -> Saved] /\ file'.effective = file.effective
      BY <1>a, <1>6 DEF Files, WritesCard
    <3>3. FileGiven(file, vault', writes')
      BY <1>a, <2>1, <3>2
    <3> QED
      BY <3>1, <3>2, <3>3 DEF FileGiven
  <2> QED
    BY <1>0, <1>6, <2>2, <2>3 DEF WritesCard, Others
<1>7. ASSUME NEW e \in Editor, Publishes(e) PROVE KeysAreGiven'
  <2> DEFINE o == editor[e].original  s == editor[e].stage  c == editor[e].card
             g == Published(o, s, c)
  <2>1. /\ o \in Files /\ s \in Stage /\ c \in Card \cup {None}
        /\ editor[e].pc \in Activating /\ writes < MaxWrites
    BY <1>7 DEF EditInv, TypeOK, Publishes, Activating, Gated
  <2>2. FileGiven(g, vault, writes) /\ g \in Files /\ g.cards = o.cards
    BY <2>1, PublishedIsGiven, PublishedType
  <2>3. file'.effective = g.effective /\ file'.cards = g.cards
    BY <1>7, <2>1, <2>2, PublicationWrite DEF Publishes
  <2>4. /\ \A f \in Files : FileGiven(f, vault, writes) => FileGiven(f, vault', writes')
        /\ \A p \in Selected : Given(p, vault, writes) => Given(p, vault', writes')
    BY <1>a, <1>b, <1>7 DEF Publishes
  <2> HIDE DEF g
  <2>5. FileGiven(file', vault', writes')
    <3>1. FileGiven(g, vault', writes')
      BY <2>2, <2>4
    <3> QED
      BY <2>3, <3>1 DEF FileGiven
  <2>6. /\ Given(pinned', vault', writes')
        /\ \A t \in Session : Given(session'[t].snapshot, vault', writes')
    BY <1>a, <1>7, <2>4 DEF Publishes, Given
  <2>7. FileGiven(o, vault', writes')
    BY <2>1, <2>4
  <2> QED
    BY <1>0, <1>7, <2>5, <2>6, <2>7 DEF Publishes, Others, Kept, FileGiven, Given
<1>8. ASSUME NEW e \in Editor, TakesBack(e) PROVE KeysAreGiven'
  <2>1. editor[e].pc \in Activating
    BY <1>8 DEF TakesBack, Activating, Gated
  <2> QED
    BY <1>0, <1>8, <2>1 DEF TakesBack, Others, Kept, FileGiven, Given
<1> QED
  BY <1>1, <1>2, <1>3, <1>4, <1>5, <1>6, <1>7, <1>8, StepKinds

-----------------------------------------------------------------------------
(* The screens.  A revision number that was taken back is used again, so   *)
(* the number alone does not name a file: a screen shows the file, an      *)
(* older revision, or a write that was taken back.  While an activation    *)
(* may still take its write back, the same must hold of its copy.          *)

Shows(v, f) == v.rev = f.rev /\ v.id = f.id

ScreensAreOld ==
    /\ \A x \in Editor :
          seen[x].id \in undone \/ Shows(seen[x], file) \/ seen[x].rev < file.rev
    /\ \A e \in Editor : editor[e].pc \in {"restart", "rollback"} =>
          LET o == editor[e].original IN
          \/ file = o
          \/ /\ file.rev = o.rev + 1 /\ o.id < file.id
             /\ \A x \in Editor :
                   \/ seen[x].id \in undone
                   \/ Shows(seen[x], file) \/ Shows(seen[x], o) \/ seen[x].rev < o.rev
    /\ NoBlindEdit

\* Every step leaves screens that are as old as their revision says.
LEMMA ScreenStep ==
  ASSUME EditInv, CopiesAreCurrent, ScreensAreOld, [Next]_vars PROVE ScreensAreOld'
<1> USE DEF ScreensAreOld, NoBlindEdit, Shows
<1>0. /\ Ready.pc = "ready" /\ "ready" \notin Preparing /\ "restore" \notin Preparing
      /\ "restart" \notin Preparing /\ "rollback" \notin Preparing
      /\ "probe" \in Preparing /\ "publish" \in Preparing /\ "save" \in Preparing
      /\ "delete" \in Preparing /\ "vault" \in Preparing
  BY DEF Ready, Preparing
<1>a. /\ file.rev \in Nat /\ file.id \in Nat /\ writes \in Nat /\ file.id <= writes
      /\ \A x \in Editor : seen[x].rev \in Nat /\ seen[x].id \in Nat
      /\ \A e \in Editor : /\ editor[e].original.rev \in Nat
                            /\ editor[e].original.id \in Nat
                            /\ editor[e].original.id <= writes
  BY RegistryAssumption DEF EditInv, TypeOK, WritesAreCounted, Files, Stamps
<1>1. CASE Quiet
  <2>1. ASSUME NEW x \in Editor
        PROVE  \/ seen'[x] = seen[x]
               \/ seen'[x].rev = file.rev /\ seen'[x].id = file.id /\ editor[x].pc = "ready"
    BY <1>1 DEF Quiet
  <2>2. UNCHANGED <<file, editor, undone>>
    BY <1>1 DEF Quiet
  <2>3. \A x \in Editor :
          seen'[x].id \in undone' \/ Shows(seen'[x], file') \/ seen'[x].rev < file'.rev
    BY <2>1, <2>2
  <2>4. NoBlindEdit'
    BY <1>0, <2>1, <2>2
  <2> QED
    BY <2>1, <2>2, <2>3, <2>4
<1>2. ASSUME NEW e \in Editor, Begins(e) PROVE ScreensAreOld'
  <2>1. /\ Others(e) /\ UNCHANGED <<file, seen, undone>> /\ seen[e].rev = file.rev
        /\ editor'[e].pc \in {"delete", "vault", "save", "gate", "probe"}
    BY <1>2, BeginEffect
  <2>2. seen[e].id \in undone \/ seen[e].id = file.id
    BY <1>a, <2>1
  <2> QED
    BY <1>0, <2>1, <2>2 DEF Others
<1>3. ASSUME NEW e \in Editor, StoreKey(e) PROVE ScreensAreOld'
  <2>1. /\ Others(e) /\ UNCHANGED <<file, seen, undone>>
        /\ editor[e].pc = "vault" /\ editor'[e].pc = "save"
    BY <1>3, StoreEffect
  <2> QED
    BY <1>0, <2>1 DEF Others
<1>4. ASSUME NEW e \in Editor, Ends(e) PROVE ScreensAreOld'
  BY <1>0, <1>4 DEF Ends, Others
<1>5. ASSUME NEW e \in Editor, GoesOn(e) PROVE ScreensAreOld'
  <2>1. /\ Others(e) /\ Kept(e) /\ UNCHANGED <<file, seen, undone>>
        /\ \/ editor'[e].pc \in {"prepare", "check", "publish"} /\ editor[e].pc \in Preparing
           \/ editor'[e].pc = "rollback" /\ editor[e].pc \in {"publish", "restart"}
           \/ editor'[e].pc = "restore"
    BY <1>5 DEF GoesOn
  <2>2. editor[e].pc = "publish" => file = editor[e].original
    BY DEF CopiesAreCurrent
  <2>3. NoBlindEdit'
    BY <1>0, <2>1 DEF Others
  <2>4. editor'[e].pc = "rollback" =>
          LET o == editor[e].original IN
          \/ file = o
          \/ /\ file.rev = o.rev + 1 /\ o.id < file.id
             /\ \A x \in Editor :
                   \/ seen[x].id \in undone
                   \/ Shows(seen[x], file) \/ Shows(seen[x], o) \/ seen[x].rev < o.rev
    BY <2>1, <2>2
  <2> QED
    BY <1>0, <2>1, <2>3, <2>4 DEF Others, Kept
<1>6. ASSUME NEW e \in Editor, WritesCard(e) PROVE ScreensAreOld'
  <2>1. /\ Others(e) /\ editor'[e] = Ready /\ UNCHANGED <<seen, undone>>
        /\ file'.rev = file.rev + 1
    BY <1>6 DEF WritesCard
  <2>2. \A x \in Editor : seen[x].id \in undone \/ seen[x].rev < file'.rev
    BY <1>a, <2>1
  <2> QED
    BY <1>0, <2>1, <2>2 DEF Others
<1>7. ASSUME NEW e \in Editor, Publishes(e) PROVE ScreensAreOld'
  <2> DEFINE o == editor[e].original
  <2>1. /\ Others(e) /\ UNCHANGED <<seen, undone>> /\ writes < MaxWrites
        /\ file' = Publication(e)
        /\ editor'[e] = Ready \/ (editor'[e].pc = "restart" /\ Kept(e))
    BY <1>7 DEF Publishes
  <2>2. file = o
    BY <1>7 DEF Publishes, CopiesAreCurrent
  <2>3. file'.rev = o.rev + 1 /\ file'.id = writes + 1
    BY <2>1, PublicationWrite
  <2>4. \A x \in Editor :
          \/ seen[x].id \in undone
          \/ Shows(seen[x], o) \/ seen[x].rev < o.rev
    BY <2>2
  <2>5. o.id < file'.id /\ \A x \in Editor : seen[x].id \in undone \/ seen[x].rev < file'.rev
    BY <1>a, <2>3, <2>4
  <2>6. NoBlindEdit'
    BY <1>0, <2>1 DEF Others
  <2> QED
    BY <1>0, <2>1, <2>3, <2>4, <2>5, <2>6 DEF Others, Kept
<1>8. ASSUME NEW e \in Editor, TakesBack(e) PROVE ScreensAreOld'
  <2> DEFINE o == editor[e].original
  <2>1. /\ Others(e) /\ UNCHANGED seen /\ file' = o /\ editor'[e].pc = "restore"
        /\ editor[e].pc = "rollback"
        /\ undone' = IF file.id = o.id THEN undone ELSE undone \cup {file.id}
    BY <1>8 DEF TakesBack
  <2>2. \A x \in Editor :
          seen[x].id \in undone' \/ Shows(seen[x], o) \/ seen[x].rev < o.rev
    BY <1>a, <2>1
  <2> QED
    BY <1>0, <2>1, <2>2 DEF Others
<1> QED
  BY <1>1, <1>2, <1>3, <1>4, <1>5, <1>6, <1>7, <1>8, StepKinds

-----------------------------------------------------------------------------
(* The sessions and the worker.                                            *)

Served == file.effective["live"].card \in Managed =>
              worker = file.effective["live"] \/ broken

Replacing == {"check", "publish", "rollback", "restore"}

SessionsHoldGate ==
    \A s \in Session : /\ session[s].pc # "closed" => gate = None
                       /\ session[s].pc # "relay" => session[s].snapshot = Off
                       /\ session[s].pc = "relay" =>
                             session[s].snapshot = file.effective["live"]

FileIsServed == (\A e \in Editor : editor[e].pc \notin Replacing) => Served

WorkerIsReplaced ==
    \A e \in Editor :
        editor[e].pc \in {"check", "publish"} /\ Mine(e).card \in Managed
            => worker = Mine(e) \/ broken

WorkersServe ==
    SessionsHoldGate /\ SessionsAreServed /\ FileIsServed /\ WorkerIsReplaced

\* What a publication makes effective for live sessions.
LEMMA PublishedLive ==
  ASSUME NEW f \in Files, NEW s \in Stage, NEW c \in Card \cup {None}
  PROVE  Published(f, s, c).effective["live"] =
            IF s = "live" THEN Choice(f, c) ELSE f.effective["live"]
<1> DEFINE n == Choice(f, c)
           g == [f EXCEPT !.effective[s] = n]
           m == Inside(g.effective["diarization"])
           h == [g EXCEPT !.effective["stt"].model = m]
<1>0. "live" \in Stage /\ "stt" \in Stage /\ n \in Selected
  BY ChoiceType DEF Stage
<1>1. g \in Files /\ g.effective = [f.effective EXCEPT ![s] = n]
  BY <1>0 DEF Files
<1>2. f.effective \in [Stage -> Selected]
  BY DEF Files
<1> HIDE DEF n, g
<1>3. h.effective["live"] = g.effective["live"]
  <2> DEFINE q == [g.effective["stt"] EXCEPT !.model = m]
  <2>1. h.effective = [g.effective EXCEPT !["stt"] = q] /\ g.effective \in [Stage -> Selected]
    BY <1>1 DEF Files
  <2> HIDE DEF h, q
  <2> QED
    BY <1>0, <2>1
<1> HIDE DEF h, m
<1>4. Published(f, s, c) = IF s \in {"stt", "diarization"} THEN h ELSE g
  BY DEF Published, h, m, g, n
<1> QED
  BY <1>0, <1>1, <1>2, <1>3, <1>4 DEF n

\* No session is open while the gate is closed.
LEMMA GateShut ==
  ASSUME EditInv, WorkersServe, NEW e \in Editor, editor[e].pc \in Gated
  PROVE  \A s \in Session : session[s].pc = "closed" /\ session[s].snapshot = Off
<1>1. gate = e
  BY DEF EditInv, EditsHoldLocks
<1>2. e # None
  BY RegistryAssumption
<1> QED
  BY <1>1, <1>2 DEF WorkersServe, SessionsHoldGate

\* With nobody at the worker, or with the file and the worker as they were,
\* a step of an editor outside the gate leaves the sessions served.
LEMMA ServedStays ==
  ASSUME EditInv, WorkersServe,
         UNCHANGED <<session, worker, broken>>, file'.effective["live"] = file.effective["live"],
         gate' = gate \/ gate' = None,
         \A e \in Editor : /\ editor[e].pc \notin Replacing
                           /\ editor'[e].pc \notin Replacing
  PROVE  WorkersServe'
<1>1. FileIsServed'
  BY DEF WorkersServe, FileIsServed, Served
<1>2. SessionsAreServed'
  BY DEF WorkersServe, SessionsAreServed
<1>3. SessionsHoldGate'
  BY DEF WorkersServe, SessionsHoldGate
<1>4. WorkerIsReplaced'
  BY DEF WorkerIsReplaced, Replacing
<1> QED
  BY <1>1, <1>2, <1>3, <1>4 DEF WorkersServe

\* With the gate shut, the sessions are safe whatever happens to the worker.
LEMMA ShutStays ==
  ASSUME EditInv, WorkersServe, NEW e \in Editor, editor[e].pc \in Gated,
         UNCHANGED session,
         Served' \/ editor'[e].pc \in Replacing,
         \A x \in Editor \ {e} : editor'[x].pc = "ready",
         editor'[e].pc \in {"check", "publish"} =>
            (Mine(e)'.card \in Managed => worker' = Mine(e)' \/ broken')
  PROVE  WorkersServe'
<1>1. \A s \in Session : session'[s].pc = "closed" /\ session'[s].snapshot = Off
  BY GateShut
<1>2. Off.card \notin Managed
  BY RegistryAssumption DEF Off, Card, Live
<1>3. SessionsAreServed'
  BY <1>1, <1>2 DEF SessionsAreServed
<1>4. SessionsHoldGate'
  BY <1>1 DEF SessionsHoldGate
<1>5. FileIsServed'
  BY DEF FileIsServed
<1>6. WorkerIsReplaced'
  BY DEF WorkerIsReplaced
<1> QED
  BY <1>3, <1>4, <1>5, <1>6 DEF WorkersServe

\* Every step leaves the sessions with the worker they read of.
LEMMA WorkerStep ==
  ASSUME EditInv, EditInv', CopiesAreCurrent, WorkersServe, [Next]_vars PROVE WorkersServe'
<1>0. /\ Ready.pc = "ready" /\ "ready" \notin Replacing /\ Off.card \notin Managed
      /\ None \notin Managed /\ "live" \in Stage
      /\ Replacing \subseteq Gated
  BY RegistryAssumption DEF Ready, Replacing, Off, Card, Live, Stage, Gated
<1>a. ASSUME NEW e \in Editor, editor[e].pc # "ready" \/ lock = None
      PROVE  \A x \in Editor \ {e} : editor[x].pc = "ready"
  BY <1>a, Alone
\* A window reads, or begins an edit, or writes a card.
<1>1. ASSUME NEW e \in Editor, Read(e) PROVE WorkersServe'
  BY <1>1 DEF Read, live, around, WorkersServe, SessionsHoldGate, SessionsAreServed, FileIsServed,
     Served, WorkerIsReplaced, Mine
<1>2. ASSUME NEW e \in Editor, Begins(e) PROVE WorkersServe'
  <2>1. /\ Others(e) /\ UNCHANGED file
        /\ editor'[e].pc \in {"delete", "vault", "save", "gate", "probe"}
    BY <1>2, BeginEffect
  <2>2. UNCHANGED <<session, worker, broken, gate>> /\ editor[e].pc = "ready"
    BY <1>2 DEF Begins, BeginDelete, BeginSave, BeginActivate, Edit, live, around
  <2>3. \A x \in Editor : editor[x].pc \notin Replacing /\ editor'[x].pc \notin Replacing
    BY <1>0, <2>1, <2>2 DEF Others, Replacing
  <2> QED
    BY <2>1, <2>2, <2>3, ServedStays
<1>3. ASSUME NEW e \in Editor, StoreKey(e) PROVE WorkersServe'
  <2>1. /\ Others(e) /\ UNCHANGED file
        /\ editor[e].pc = "vault" /\ editor'[e].pc = "save"
    BY <1>3, StoreEffect
  <2>2. UNCHANGED <<session, worker, broken, gate>>
    BY <1>3 DEF StoreKey, live, around
  <2>3. \A x \in Editor : editor[x].pc \notin Replacing /\ editor'[x].pc \notin Replacing
    BY <1>0, <2>1 DEF Others, Replacing
  <2> QED
    BY <2>1, <2>2, <2>3, ServedStays
<1>4. ASSUME NEW e \in Editor, Leave(e), editor[e].pc \notin Gated \cup {"ready"},
             UNCHANGED <<session, worker, broken>>,
             file'.effective["live"] = file.effective["live"]
      PROVE  WorkersServe'
  <2>1. editor'[e] = Ready /\ Others(e)
    BY <1>4, LeaveAlone
  <2>2. gate' = gate \/ gate' = None
    BY <1>4 DEF Leave
  <2>3. \A x \in Editor : editor[x].pc \notin Replacing /\ editor'[x].pc \notin Replacing
    BY <1>0, <1>4, <2>1 DEF Others
  <2> QED
    BY <1>4, <2>2, <2>3, ServedStays
<1>5. ASSUME NEW e \in Editor, Save(e) \/ Delete(e) PROVE WorkersServe'
  <2>1. Ends(e) \/ WritesCard(e)
    <3>1. ~ Quiet
      <4>1. editor'[e] = Ready /\ editor[e].pc \in {"save", "delete"}
        BY <1>5, LeaveAlone DEF Save, Delete
      <4> QED
        BY <1>0, <4>1 DEF Quiet
    <3>2. PICK x \in Editor : \/ Begins(x) \/ StoreKey(x) \/ Ends(x) \/ GoesOn(x)
                              \/ WritesCard(x) \/ Publishes(x) \/ TakesBack(x)
      BY <3>1, StepKinds
    <3>3. editor'[e] = Ready /\ editor[e].pc \in {"save", "delete"}
      BY <1>5, LeaveAlone DEF Save, Delete
    <3>4. Others(x)
      BY <3>2, BeginEffect, StoreEffect DEF Ends, GoesOn, WritesCard, Publishes, TakesBack
    <3>5. x = e
      BY <3>3, <3>4 DEF Others
    <3>6. ~ Begins(e) /\ ~ StoreKey(e)
      BY <1>0, <3>3, BeginEffect, StoreEffect
    <3>7. ~ GoesOn(e) /\ ~ Publishes(e) /\ ~ TakesBack(e)
      BY <3>3 DEF GoesOn, Publishes, TakesBack, Activating, Gated
    <3> QED
      BY <3>2, <3>5, <3>6, <3>7
  <2>2. file'.effective["live"] = file.effective["live"]
    BY <2>1 DEF Ends, WritesCard
  <2>3. /\ Leave(e) /\ UNCHANGED <<session, worker, broken>>
        /\ editor[e].pc \notin Gated \cup {"ready"}
    BY <1>5 DEF Save, Delete, around, Gated
  <2> QED
    BY <1>4, <2>2, <2>3
<1>6. ASSUME NEW e \in Editor, ProbeStage(e) PROVE WorkersServe'
  <2>1. /\ Leave(e) /\ UNCHANGED <<session, worker, broken>> /\ editor[e].pc = "probe"
        /\ file' = Publication(e) \/ file' = editor[e].original
    BY <1>6 DEF ProbeStage, around
  <2>2. /\ file = editor[e].original /\ editor[e].stage # "live" /\ writes < MaxWrites
        /\ editor[e].stage \in Stage /\ editor[e].card \in Card \cup {None} /\ file \in Files
    BY <2>1 DEF CopiesAreCurrent, EditInv, RequestsAreMeant, WritesAreCounted, Preparing, TypeOK
  <2>3. Publication(e).effective["live"] = file.effective["live"]
    BY <2>2, PublicationWrite, PublishedLive
  <2>4. file'.effective["live"] = file.effective["live"] /\ "probe" \notin Gated \cup {"ready"}
    BY <2>1, <2>2, <2>3 DEF Gated
  <2> QED
    BY <1>4, <2>1, <2>4
\* The gate is taken, and the worker replaced behind it.
<1>7. ASSUME NEW e \in Editor, TakeGate(e) PROVE WorkersServe'
  <2>1. /\ UNCHANGED <<file, session, worker, broken>> /\ editor[e].pc = "gate"
    BY <1>7 DEF TakeGate, around
  <2>2. "gate" \notin Gated \cup {"ready"}
    BY DEF Gated
  <2>3. CASE Leave(e)
    BY <1>4, <2>1, <2>2, <2>3
  <2>4. CASE GateIsFree /\ gate' = e /\ editor' = [editor EXCEPT ![e].pc = "prepare"]
    <3>1. editor'[e].pc = "prepare" /\ Others(e)
      BY <2>1, <2>4, GotoAlone DEF Preparing
    <3>2. \A x \in Editor : editor[x].pc \notin Replacing /\ editor'[x].pc \notin Replacing
      BY <1>0, <2>1, <3>1 DEF Others, Replacing
    <3>3. FileIsServed'
      BY <2>1, <3>2 DEF WorkersServe, FileIsServed, Served
    <3>4. SessionsHoldGate'
      BY <2>1, <2>4 DEF WorkersServe, SessionsHoldGate, GateIsFree
    <3>5. SessionsAreServed'
      BY <2>1 DEF WorkersServe, SessionsAreServed
    <3>6. WorkerIsReplaced'
      BY <3>2 DEF WorkerIsReplaced, Replacing
    <3> QED
      BY <3>3, <3>4, <3>5, <3>6 DEF WorkersServe
  <2> QED
    BY <1>7, <2>3, <2>4 DEF TakeGate
<1>8. ASSUME NEW e \in Editor, editor[e].pc \in Gated, Leave(e), UNCHANGED session, Served'
      PROVE  WorkersServe'
  <2>1. editor[e].pc # "ready"
    BY <1>8 DEF Gated
  <2>2. editor'[e] = Ready /\ \A x \in Editor \ {e} : editor'[x].pc = "ready"
    BY <1>8, <2>1, LeaveAlone DEF Others
  <2> QED
    BY <1>0, <1>8, <2>2, ShutStays
<1>9. ASSUME NEW e \in Editor, editor[e].pc \in Gated,
             NEW pc \in {"restore"} \cup Preparing \cup Verifying, Goto(e, pc),
             UNCHANGED session, pc \in Replacing \/ Served',
             pc \in {"check", "publish"} => (Mine(e).card \in Managed => worker' = Mine(e) \/ broken')
      PROVE  WorkersServe'
  <2>1. editor[e].pc # "ready"
    BY <1>9 DEF Gated
  <2>2. editor'[e].pc = pc /\ Kept(e) /\ \A x \in Editor \ {e} : editor'[x].pc = "ready"
    BY <1>9, <2>1, GotoAlone DEF Others, Goto
  <2>3. Mine(e)' = Mine(e)
    BY <2>2 DEF Mine, Kept
  <2> QED
    BY <1>9, <2>2, <2>3, ShutStays
<1>10. ASSUME NEW e \in Editor, Prepare(e) PROVE WorkersServe'
  <2>1. UNCHANGED <<file, session>> /\ editor[e].pc = "prepare" /\ editor[e].pc \in Gated
    BY <1>10 DEF Prepare, around, Gated
  <2>2. \A x \in Editor : editor[x].pc \notin Replacing
    BY <1>0, <1>a, <2>1 DEF Replacing
  <2>3. CASE worker' = Runs(Mine(e)) /\ Goto(e, "check")
    BY <1>9, <2>1, <2>3 DEF Runs, Replacing, Preparing
  <2>4. CASE Goto(e, "restore")
    BY <1>9, <2>1, <2>4 DEF Replacing
  <2>5. CASE UNCHANGED <<worker, broken>> /\ Leave(e)
    <3>1. Served'
      BY <2>1, <2>2, <2>5 DEF WorkersServe, FileIsServed, Served
    <3> QED
      BY <1>8, <2>1, <2>5, <3>1
  <2> QED
    BY <1>10, <2>3, <2>4, <2>5 DEF Prepare
<1>11. ASSUME NEW e \in Editor, Check(e) PROVE WorkersServe'
  <2>1. /\ UNCHANGED <<session, worker, broken>> /\ editor[e].pc = "check" /\ editor[e].pc \in Gated
        /\ (Goto(e, "publish") \/ Goto(e, "restore"))
    BY <1>11 DEF Check, around, Gated
  <2>2. Mine(e).card \in Managed => worker' = Mine(e) \/ broken'
    BY <2>1 DEF WorkersServe, WorkerIsReplaced
  <2> QED
    BY <1>9, <2>1, <2>2 DEF Replacing, Preparing
<1>12. ASSUME NEW e \in Editor, Publish(e) PROVE WorkersServe'
  <2>1. /\ UNCHANGED <<session, worker, broken>> /\ editor[e].pc = "publish" /\ editor[e].pc \in Gated
        /\ \/ file' = Publication(e) /\ (Leave(e) \/ Goto(e, "restart"))
           \/ Goto(e, "rollback")
    BY <1>12 DEF Publish, around, Gated
  <2>2. /\ editor[e].stage = "live" /\ writes < MaxWrites
        /\ editor[e].card \in Card \cup {None} /\ editor[e].original \in Files
    BY <2>1 DEF EditInv, RequestsAreMeant, WritesAreCounted, Preparing, TypeOK
  <2>3. Publication(e).effective["live"] = Mine(e)
    BY <1>0, <2>2, PublicationWrite, PublishedLive DEF Mine
  <2>4. file' = Publication(e) => Served'
    BY <2>1, <2>3 DEF WorkersServe, WorkerIsReplaced, Served
  <2>5. CASE file' = Publication(e) /\ Leave(e)
    BY <1>8, <2>1, <2>4, <2>5
  <2>6. CASE file' = Publication(e) /\ Goto(e, "restart")
    BY <1>9, <2>1, <2>4, <2>6 DEF Verifying
  <2>7. CASE Goto(e, "rollback")
    BY <1>9, <2>1, <2>7 DEF Verifying, Replacing
  <2> QED
    BY <2>1, <2>5, <2>6, <2>7
<1>13. ASSUME NEW e \in Editor, Restart(e) PROVE WorkersServe'
  <2>1. /\ UNCHANGED <<file, session, worker, broken>> /\ editor[e].pc = "restart"
        /\ editor[e].pc \in Gated /\ (Leave(e) \/ Goto(e, "rollback"))
    BY <1>13 DEF Restart, around, Gated
  <2>2. \A x \in Editor : editor[x].pc \notin Replacing
    BY <1>0, <1>a, <2>1 DEF Replacing
  <2>3. Served'
    BY <2>1, <2>2 DEF WorkersServe, FileIsServed, Served
  <2>4. CASE Leave(e)
    BY <1>8, <2>1, <2>3, <2>4
  <2>5. CASE Goto(e, "rollback")
    BY <1>9, <2>1, <2>5 DEF Verifying, Replacing
  <2> QED
    BY <2>1, <2>4, <2>5
<1>14. ASSUME NEW e \in Editor, Rollback(e) PROVE WorkersServe'
  <2>1. /\ UNCHANGED session /\ editor[e].pc \in Gated /\ Goto(e, "restore")
    BY <1>14 DEF Rollback, around, Gated
  <2> QED
    BY <1>9, <2>1 DEF Replacing
<1>15. ASSUME NEW e \in Editor, Restore(e) PROVE WorkersServe'
  <2>1. /\ UNCHANGED <<file, session>> /\ editor[e].pc = "restore" /\ editor[e].pc \in Gated
        /\ Leave(e)
        /\ worker' = Runs(editor[e].original.effective["live"]) \/ broken' = TRUE
    BY <1>15 DEF Restore, around, Gated
  <2>2. file = editor[e].original
    BY <2>1 DEF CopiesAreCurrent
  <2>3. Served'
    BY <2>1, <2>2 DEF Served, Runs
  <2> QED
    BY <1>8, <2>1, <2>3
<1>16. ASSUME NEW e \in Editor, Crash(e) PROVE WorkersServe'
  <2>1. /\ UNCHANGED <<file, session, worker>> /\ editor[e].pc # "ready" /\ Leave(e)
        /\ broken' = (broken \/ gate = e)
    BY <1>16 DEF Crash, around
  <2>2. CASE editor[e].pc \in Gated
    <3>1. gate = e
      BY <2>2 DEF EditInv, EditsHoldLocks
    <3>2. Served'
      BY <2>1, <3>1 DEF Served
    <3> QED
      BY <1>8, <2>1, <2>2, <3>2
  <2>3. CASE editor[e].pc \notin Gated
    <3>1. gate # e
      BY <2>3 DEF EditInv, EditsHoldLocks
    <3>2. broken' = broken
      BY <2>1, <3>1 DEF EditInv, TypeOK
    <3> QED
      BY <1>4, <2>1, <2>3, <3>2
  <2> QED
    BY <2>2, <2>3
\* The stack starts again; the sessions.
<1>17. ASSUME StackReads \/ StackStarts PROVE WorkersServe'
  <2>1. UNCHANGED <<file, gate, editor, session>> /\ broken \in BOOLEAN
    BY <1>17 DEF StackReads, StackStarts, live, EditInv, TypeOK
  <2>2. SessionsHoldGate'
    BY <2>1 DEF WorkersServe, SessionsHoldGate
  \* Nothing changed for the worker, or it is known to be another.
  <2>3. CASE broken' \/ (worker' = worker /\ (broken' \/ ~broken))
    <3>1. FileIsServed' /\ SessionsAreServed'
      BY <2>1, <2>3 DEF WorkersServe, FileIsServed, Served, SessionsAreServed
    <3>2. WorkerIsReplaced'
      BY <2>1, <2>3 DEF WorkersServe, WorkerIsReplaced, Mine
    <3> QED
      BY <2>2, <3>1, <3>2 DEF WorkersServe
  \* An undisturbed start: the worker runs what the file says.
  <2>4. CASE gate = None /\ worker' = Runs(file.effective["live"])
    <3>1. Served'
      BY <2>1, <2>4 DEF Served, Runs
    <3>2. SessionsAreServed'
      BY <1>0, <2>1, <2>2, <3>1 DEF SessionsAreServed, SessionsHoldGate, Served
    <3>3. \A e \in Editor : editor'[e].pc \notin Replacing
      BY <1>0, <2>1, <2>4, RegistryAssumption DEF EditInv, EditsHoldLocks
    <3>4. FileIsServed' /\ WorkerIsReplaced'
      BY <3>1, <3>3 DEF FileIsServed, WorkerIsReplaced, Replacing
    <3> QED
      BY <2>2, <3>2, <3>4 DEF WorkersServe
  <2>5. CASE StackReads
    BY <2>1, <2>3, <2>5 DEF StackReads, live
  <2>6. CASE StackStarts
    BY <2>1, <2>3, <2>4, <2>6 DEF StackStarts
  <2> QED
    BY <1>17, <2>5, <2>6
<1>18. ASSUME NEW s \in Session, OpenSession(s) \/ ReadSnapshot(s) \/ CloseSession(s)
       PROVE  WorkersServe'
  <2>1. UNCHANGED <<file, gate, editor, worker, broken>>
    BY <1>18 DEF OpenSession, ReadSnapshot, CloseSession, sessionRest, live
  <2>2. FileIsServed' /\ WorkerIsReplaced'
    BY <2>1 DEF WorkersServe, FileIsServed, WorkerIsReplaced, Served, Mine
  <2>3. session \in [Session -> [pc : {"closed", "open", "relay"}, snapshot : Selected]]
    BY DEF EditInv, TypeOK
  <2>4. CASE OpenSession(s)
    <3>1. /\ session'[s].pc = "open" /\ session'[s].snapshot = session[s].snapshot
          /\ session[s].pc = "closed" /\ gate = None
          /\ \A t \in Session \ {s} : session'[t] = session[t]
      BY <2>3, <2>4 DEF OpenSession
    <3>2. SessionsHoldGate'
      BY <2>1, <3>1 DEF WorkersServe, SessionsHoldGate
    <3>3. SessionsAreServed'
      BY <2>1, <3>1 DEF WorkersServe, SessionsAreServed
    <3> QED
      BY <2>2, <3>2, <3>3 DEF WorkersServe
  <2>5. CASE ReadSnapshot(s)
    <3> DEFINE p == file.effective["live"]
    <3>1. /\ \/ session'[s].pc = "relay" /\ session'[s].snapshot = p
             \/ session'[s].pc = "closed" /\ session'[s].snapshot = Off
          /\ session[s].pc = "open"
          /\ \A t \in Session \ {s} : session'[t] = session[t]
      BY <2>3, <2>5 DEF ReadSnapshot, Closed
    <3>2. gate = None
      BY <3>1 DEF WorkersServe, SessionsHoldGate
    <3>3. \A e \in Editor : editor[e].pc \notin Replacing
      BY <1>0, <3>2, RegistryAssumption DEF EditInv, EditsHoldLocks
    <3>4. Served
      BY <3>3 DEF WorkersServe, FileIsServed
    <3>5. SessionsHoldGate'
      BY <2>1, <3>1, <3>2 DEF WorkersServe, SessionsHoldGate
    <3>6. SessionsAreServed'
      BY <1>0, <2>1, <3>1, <3>4 DEF WorkersServe, SessionsAreServed, Served
    <3> QED
      BY <2>2, <3>5, <3>6 DEF WorkersServe
  <2>6. CASE CloseSession(s)
    <3>1. /\ session'[s].pc = "closed" /\ session'[s].snapshot = Off
          /\ \A t \in Session \ {s} : session'[t] = session[t]
      BY <2>3, <2>6 DEF CloseSession, Closed
    <3>2. SessionsHoldGate'
      BY <2>1, <3>1 DEF WorkersServe, SessionsHoldGate
    <3>3. SessionsAreServed'
      BY <1>0, <2>1, <3>1 DEF WorkersServe, SessionsAreServed
    <3> QED
      BY <2>2, <3>2, <3>3 DEF WorkersServe
  <2> QED
    BY <1>18, <2>4, <2>5, <2>6
<1>19. ASSUME Pin \/ Unpin \/ UNCHANGED vars PROVE WorkersServe'
  <2>1. UNCHANGED <<file, gate, editor, worker, broken, session>>
    BY <1>19 DEF Pin, Unpin, sessionRest, live, vars
  <2> QED
    BY <2>1 DEF WorkersServe, SessionsHoldGate, SessionsAreServed, FileIsServed, Served,
       WorkerIsReplaced, Mine
<1> QED
  BY <1>1, <1>2, <1>3, <1>5, <1>6, <1>7, <1>10, <1>11, <1>12, <1>13, <1>14, <1>15, <1>16, <1>17,
     <1>18, <1>19 DEF Next, Begins

-----------------------------------------------------------------------------
RegistryInv ==
    /\ EditInv /\ CopiesAreCurrent /\ PipelinesFit /\ KeysAreGiven
    /\ ScreensAreOld /\ WorkersServe

\* The invariant holds at first.
LEMMA RegistryInit == Init => RegistryInv
<1> SUFFICES ASSUME Init PROVE RegistryInv
  OBVIOUS
<1>1. PICK stt \in Embedding, d \in Embedded \cup {None}, m \in Managed \cup {None} :
          /\ file = [rev |-> 0, id |-> 0,
                     cards |-> [c \in Card |->
                         IF c \in {stt, d, m}
                         THEN [stamp |-> 0, host |-> Local, ref |-> 0]
                         ELSE Absent],
                     effective |-> [live |-> Imported(m),
                         stt |-> [Imported(stt) EXCEPT !.model = d],
                         diarization |-> Imported(d)]]
          /\ worker = Imported(m)
  BY DEF Init
<1>2. /\ \A e \in Editor : editor[e].pc = "ready" /\ seen[e].rev = 0 /\ seen[e].id = 0
      /\ "ready" \notin Activating /\ "ready" \notin Preparing
      /\ Off.ref = 0 /\ Off.card \notin Managed /\ file.rev = 0 /\ file.id = 0
      /\ \A s \in Session : session[s].pc = "closed" /\ session[s].snapshot = Off
      /\ pinned = Off
  BY <1>1, RegistryAssumption
     DEF Init, Ready, Closed, Activating, Gated, Preparing, Off, Card, Live
<1>3. /\ file.effective["live"] = Imported(m)
      /\ file.effective["stt"] = [Imported(stt) EXCEPT !.model = d]
      /\ file.effective["diarization"] = Imported(d)
      /\ \A c \in Card : file.cards[c].ref = 0
  BY <1>1 DEF Absent
<1>4. /\ stt \in Card /\ stt # None
      /\ \A c : Imported(c).card = c /\ Imported(c).ref = 0 /\ Imported(c).model = None
  BY RegistryAssumption DEF Imported, Off, Card, STT
<1>5. /\ file.effective["stt"].card = stt /\ file.effective["stt"].model = d
      /\ file.effective["stt"].ref = 0
  BY <1>3, <1>4 DEF Imported
<1>6. EditInv
  BY EditInit
<1>7. CopiesAreCurrent
  BY <1>2 DEF CopiesAreCurrent
<1>8. PipelinesFit
  <2>1. Sound(file)
    BY <1>3, <1>4, <1>5, RegistryAssumption DEF Sound, Inside, STT, Card
  <2> QED
    BY <1>2, <2>1 DEF PipelinesFit
<1>9. KeysAreGiven
  <2>1. \A s \in Stage : file.effective[s].ref = 0
    <3>1. file.effective["live"].ref = 0 /\ file.effective["diarization"].ref = 0
      BY <1>3, <1>4
    <3> QED
      BY <1>5, <3>1 DEF Stage
  <2> QED
    BY <1>2, <1>3, <2>1 DEF KeysAreGiven, FileGiven, Given
<1>10. ScreensAreOld
  BY <1>2 DEF ScreensAreOld, Shows, NoBlindEdit
<1>11. WorkersServe
  <2>1. SessionsHoldGate /\ SessionsAreServed
    BY <1>2 DEF SessionsHoldGate, SessionsAreServed
  <2>2. FileIsServed
    BY <1>1, <1>3 DEF FileIsServed, Served
  <2>3. WorkerIsReplaced
    BY <1>2 DEF WorkerIsReplaced
  <2> QED
    BY <2>1, <2>2, <2>3 DEF WorkersServe
<1> QED
  BY <1>6, <1>7, <1>8, <1>9, <1>10, <1>11 DEF RegistryInv

\* The registry is sound: edits exclude each other, copies are current while
\* they may be published, and pipelines, keys, screens and workers agree.
THEOREM RegistryIsSound == Spec => []RegistryInv
<1>1. RegistryInv /\ [Next]_vars => RegistryInv'
  <2> SUFFICES ASSUME RegistryInv, [Next]_vars PROVE RegistryInv'
    OBVIOUS
  <2>1. EditInv'
    BY EditStep DEF RegistryInv
  <2>2. CopiesAreCurrent'
    BY CopyStep DEF RegistryInv
  <2>3. PipelinesFit'
    BY PipelineStep DEF RegistryInv
  <2>4. KeysAreGiven'
    BY <2>1, KeyStep DEF RegistryInv
  <2>5. ScreensAreOld'
    BY ScreenStep DEF RegistryInv
  <2>6. WorkersServe'
    BY <2>1, WorkerStep DEF RegistryInv
  <2> QED
    BY <2>1, <2>2, <2>3, <2>4, <2>5, <2>6 DEF RegistryInv
<1> QED
  BY <1>1, RegistryInit, PTL DEF Spec

\* Every sequence of activations leaves a pipeline that can run (activate()).
THEOREM EveryPipelineRuns == Spec => []PipelineRuns
<1>1. RegistryInv => PipelineRuns
  BY DEF RegistryInv, PipelinesFit, Sound, PipelineRuns
<1> QED
  BY <1>1, RegistryIsSound, PTL

\* The key of every card, selection, session and queued job is in the vault and
\* was given for the server it goes to (_draft(), save(), key()).
THEOREM EveryKeyResolves == Spec => []KeysResolve
<1>1. RegistryInv => KeysResolve
  BY DEF RegistryInv, KeysAreGiven, FileGiven, Given, KeysResolve, Selections
<1> QED
  BY <1>1, RegistryIsSound, PTL

\* No edit is applied to settings its author did not see (_edit()).
THEOREM NobodyEditsBlindly == Spec => []NoBlindEdit
<1>1. RegistryInv => NoBlindEdit
  BY DEF RegistryInv, ScreensAreOld
<1> QED
  BY <1>1, RegistryIsSound, PTL

\* A live session relays to a worker that runs the settings it read (session_gate(),
\* activate()), although a start of the stack, which takes neither the lock nor the
\* gate, may fall between any two steps; SessionsAreServed names the exceptions.
THEOREM EverySessionIsServed == Spec => []SessionsAreServed
<1>1. RegistryInv => SessionsAreServed
  BY DEF RegistryInv, WorkersServe
<1> QED
  BY <1>1, RegistryIsSound, PTL
===============================================================================
