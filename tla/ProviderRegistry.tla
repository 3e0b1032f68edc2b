-------------------------- MODULE ProviderRegistry --------------------------
(***************************************************************************)
(* The provider settings of the local stack: providers.json and its key    *)
(* vault, the edits of several windows under one lock and an optimistic    *)
(* revision, the activation of a live provider (which replaces a worker    *)
(* process, publishes, may restart the backend and may have to go back),   *)
(* the live sessions that the relay pins with a shared gate, and the jobs  *)
(* that pin the whole pipeline.                                            *)
(*                                                                         *)
(* A write of a file is atomic (atomic_json); a lock is an flock, which    *)
(* the kernel releases when its process dies.  A request that finds a lock *)
(* taken or a revision stale is answered 409 and changes nothing, so such  *)
(* a request is not an action.                                             *)
(***************************************************************************)
EXTENDS Integers, FiniteSets

CONSTANTS
    Editor,    \* windows and phones that edit the settings
    Session,   \* live preview sessions of the relay
    Managed,   \* live cards whose worker the stack runs (whisperlivekit)
    External,  \* live cards that name a server
    Embedding, \* recognisers that can run an embedded diarization
    Remote,    \* recognisers that name a server (openai-compatible)
    Embedded,  \* the diarization inside the recogniser, a legacy import
    Host,      \* the servers a card may name
    MaxCards,  \* the limit of 64 cards
    MaxWrites  \* bound: writes of providers.json in one behaviour

None == "none"
Local == "local"
Card == Managed \cup External \cup Embedding \cup Remote \cup Embedded
Live == Managed \cup External
STT == Embedding \cup Remote
Stage == {"live", "stt", "diarization"}
StageOf(c) == IF c \in Live THEN "live"
              ELSE IF c \in STT THEN "stt" ELSE "diarization"
Hosts(c) == IF c \in External \cup Remote THEN Host ELSE {Local}

ASSUME RegistryAssumption ==
    /\ None \notin Card \cup Host \cup Editor /\ Local \notin Host
    /\ IsFiniteSet(Card)
    /\ MaxCards \in Nat \ {0} /\ MaxWrites \in Nat
    /\ Live \cap STT = {} /\ Live \cap Embedded = {} /\ STT \cap Embedded = {}
    /\ Managed \cap External = {} /\ Embedding \cap Remote = {}

VARIABLES
    file,      \* providers.json: revision, cards, effective selection
    vault,     \* provider-secrets.json: the host each key was given for
    lock,      \* .providers.lock: the editor that holds it
    gate,      \* live-provider-session.lock: its exclusive holder
    editor,    \* what each editor is doing
    seen,      \* the revision on each editor's screen, and its write
    session,   \* the relay's sessions
    worker,    \* the settings the live worker runs with
    backend,   \* the backend reads the relay (configurable), or did not yet
    pinned,    \* the recogniser pinned by a queued job
    stack,     \* a start of the stack under way, and the settings it read
    writes,    \* how many times providers.json was written
    undone,    \* history: the writes an activation took back
    broken     \* history: an activation died or could not go back, or a
               \* start of the stack that it overlapped changed the worker

vars == <<file, vault, lock, gate, editor, seen, session, worker, backend,
          pinned, stack, writes, undone, broken>>

(* A saved card: the version of its settings (told apart where a worker    *)
(* runs with them), its server and its key's version.  An effective        *)
(* selection is a copy of one; `model' is the embedded diarization that a  *)
(* recogniser runs with.                                                   *)
Stamps == 0 .. MaxWrites
Saved == [stamp : Stamps, host : Host \cup {Local, None}, ref : Stamps]
Selected == [card : Card \cup {None}, stamp : Stamps,
             host : Host \cup {Local, None}, ref : Stamps,
             model : Embedded \cup {None}]
Files == [rev : Stamps, id : Stamps, cards : [Card -> Saved],
          effective : [Stage -> Selected]]

Absent == [stamp |-> 0, host |-> None, ref |-> 0]
Off == [card |-> None, stamp |-> 0, host |-> None, ref |-> 0, model |-> None]
Nothing == [s \in Stage |-> Off]
NoFile == [rev |-> 0, id |-> 0, cards |-> [c \in Card |-> Absent],
           effective |-> Nothing]
Ready == [pc |-> "ready", card |-> None, stage |-> "live", host |-> None,
          ref |-> 0, original |-> NoFile]
Closed == [pc |-> "closed", snapshot |-> Off]
Started == [on |-> FALSE, live |-> Off]

(* Before and after the file holds the edit. *)
Preparing == {"vault", "save", "delete", "probe", "gate", "prepare", "check",
              "publish"}
Verifying == {"restart", "rollback"}

TypeOK ==
    /\ file \in Files
    /\ DOMAIN vault \subseteq Stamps /\ \A r \in DOMAIN vault : vault[r] \in Host
    /\ lock \in Editor \cup {None} /\ gate \in Editor \cup {None}
    /\ editor \in [Editor ->
          [pc : {"ready", "restore"} \cup Preparing \cup Verifying,
           card : Card \cup {None}, stage : Stage,
           host : Host \cup {Local, None}, ref : Stamps, original : Files]]
    /\ seen \in [Editor -> [rev : Stamps, id : Stamps]]
    /\ session \in [Session -> [pc : {"closed", "open", "relay"},
                                snapshot : Selected]]
    /\ worker \in Selected
    /\ backend \in {"legacy", "relayed"}
    /\ pinned \in Selected
    /\ stack \in [on : BOOLEAN, live : Selected]
    /\ writes \in Stamps /\ undone \subseteq Stamps
    /\ broken \in BOOLEAN

(* _legacy: the engine files of an older release, imported as revision 0.  *)
(* Its recogniser runs, with its own diarization when it has one, and so   *)
(* does its live worker, when one is enabled.                              *)
Imported(c) ==
    IF c = None THEN Off
    ELSE [card |-> c, stamp |-> 0, host |-> Local, ref |-> 0, model |-> None]

Init ==
    /\ \E stt \in Embedding, d \in Embedded \cup {None}, m \in Managed \cup {None} :
          /\ file = [rev |-> 0, id |-> 0,
                     cards |-> [c \in Card |->
                         IF c \in {stt, d, m}
                         THEN [stamp |-> 0, host |-> Local, ref |-> 0]
                         ELSE Absent],
                     effective |-> [live |-> Imported(m),
                         stt |-> [Imported(stt) EXCEPT !.model = d],
                         diarization |-> Imported(d)]]
          /\ worker = Imported(m)
    /\ vault = [r \in {} |-> None]
    /\ lock = None /\ gate = None
    /\ editor = [e \in Editor |-> Ready]
    /\ seen = [e \in Editor |-> [rev |-> 0, id |-> 0]]
    /\ session = [s \in Session |-> Closed]
    /\ backend = "legacy"
    /\ pinned = Off /\ stack = Started
    /\ writes = 0 /\ undone = {} /\ broken = FALSE

live == <<gate, worker, backend>>
around == <<session, pinned, stack>>

-----------------------------------------------------------------------------
(* Registry._edit: the lock, taken or refused at once, and the revision.   *)

Read(e) ==
    /\ editor[e].pc = "ready"
    /\ seen' = [seen EXCEPT ![e] = [rev |-> file.rev, id |-> file.id]]
    /\ UNCHANGED <<file, vault, lock, editor, live, around, writes, undone, broken>>

\* Mutant: the lock is not asked for.
MutAdmitted(e) == seen[e].rev = file.rev

Admitted(e) == lock = None /\ seen[e].rev = file.rev

Edit(e, request) ==
    /\ editor[e].pc = "ready" /\ writes < MaxWrites
    /\ Admitted(e)
    /\ lock' = e
    /\ editor' = [editor EXCEPT ![e] = request]
    /\ UNCHANGED <<file, vault, seen, live, around, writes, undone, broken>>

(* The edit is over, with or without success: the locks are released and   *)
(* the window keeps its revision until it reads again.                     *)
Leave(e) ==
    /\ editor' = [editor EXCEPT ![e] = Ready]
    /\ lock' = IF lock = e THEN None ELSE lock
    /\ gate' = IF gate = e THEN None ELSE gate

Goto(e, pc) == editor' = [editor EXCEPT ![e].pc = pc] /\ UNCHANGED <<lock, gate>>

\* Mutant: the revision is counted by the edit and again by its writer.
MutWritten(f) == [f EXCEPT !.rev = @ + 2, !.id = writes + 1]

Written(f) == [f EXCEPT !.rev = @ + 1, !.id = writes + 1]

-----------------------------------------------------------------------------
(* Registry.save: the key goes to the vault under a name of its own before *)
(* the card that refers to it goes to the file.                            *)

\* Mutant: a saved key follows its card to another host.
MutInherited(c, h) == file.cards[c].ref

(* _draft: an old key stays with a card that still names the same server. *)
Inherited(c, h) == IF file.cards[c].host = h THEN file.cards[c].ref ELSE 0

BeginSave(e, c, h, key) ==
    /\ h \in Hosts(c)
    /\ c \in Embedded => file.cards[c] # Absent
    /\ key = "new" => h # Local
    /\ key = "clear" => Inherited(c, h) # 0
    /\ Edit(e, [Ready EXCEPT
           !.pc = IF key = "new" THEN "vault" ELSE "save", !.card = c,
           !.host = h, !.ref = IF key = "keep" THEN Inherited(c, h) ELSE 0])

StoreKey(e) ==
    /\ editor[e].pc = "vault"
    /\ LET ref == writes + 1 IN
       /\ vault' = [r \in DOMAIN vault \cup {ref} |->
                      IF r = ref THEN editor[e].host ELSE vault[r]]
       /\ editor' = [editor EXCEPT ![e].pc = "save", ![e].ref = ref]
    /\ UNCHANGED <<file, lock, seen, live, around, writes, undone, broken>>

Save(e) ==
    /\ editor[e].pc = "save"
    /\ LET c == editor[e].card
           full == /\ file.cards[c] = Absent
                   /\ Cardinality({d \in Card : file.cards[d] # Absent})
                        >= MaxCards
           profile == [stamp |-> IF c \in Managed THEN writes + 1 ELSE 0,
                       host |-> editor[e].host, ref |-> editor[e].ref] IN
       IF full THEN UNCHANGED <<file, writes>>
       ELSE /\ file' = Written([file EXCEPT !.cards[c] = profile])
            /\ writes' = writes + 1
    /\ Leave(e)
    /\ UNCHANGED <<vault, seen, worker, backend, around, undone, broken>>

(* Registry.delete: an active card stays, and so do the keys that queued   *)
(* jobs may still need.                                                    *)
BeginDelete(e, c) ==
    Edit(e, [Ready EXCEPT !.pc = "delete", !.card = c])

Delete(e) ==
    /\ editor[e].pc = "delete"
    /\ LET c == editor[e].card IN
       IF file.cards[c] = Absent \/ \E s \in Stage : file.effective[s].card = c
       THEN UNCHANGED <<file, writes>>
       ELSE /\ file' = Written([file EXCEPT !.cards[c] = Absent])
            /\ writes' = writes + 1
    /\ Leave(e)
    /\ UNCHANGED <<vault, seen, worker, backend, around, undone, broken>>

-----------------------------------------------------------------------------
(* Registry.activate                                                       *)

Choice(f, c) ==
    IF c = None THEN Off
    ELSE [card |-> c, stamp |-> f.cards[c].stamp, host |-> f.cards[c].host,
          ref |-> f.cards[c].ref, model |-> None]

Inside(d) == IF d.card \in Embedded THEN d.card ELSE None

(* An embedded diarization needs a recogniser that can run it. *)
Fits(f, s, c) ==
    LET stt == IF s = "stt" THEN c ELSE f.effective["stt"].card
        d == IF s = "diarization" THEN c ELSE f.effective["diarization"].card
    IN  s \in {"stt", "diarization"} /\ d \in Embedded => stt \in Embedding

\* Mutant: a change of the diarization leaves the recogniser as it was.
MutPublished(f, s, c) ==
    LET g == [f EXCEPT !.effective[s] = Choice(f, c)] IN
    IF s = "stt"
    THEN [g EXCEPT !.effective["stt"].model = Inside(g.effective["diarization"])]
    ELSE g

(* publish(): the selection, and the recogniser told which diarization it  *)
(* runs inside.                                                            *)
Published(f, s, c) ==
    LET g == [f EXCEPT !.effective[s] = Choice(f, c)] IN
    IF s \in {"stt", "diarization"}
    THEN [g EXCEPT !.effective["stt"].model = Inside(g.effective["diarization"])]
    ELSE g

BeginActivate(e, s, c) ==
    /\ c = None => s # "stt"
    /\ c # None => StageOf(c) = s /\ file.cards[c] # Absent
    /\ Fits(file, s, c)
    /\ Edit(e, [Ready EXCEPT !.pc = IF s = "live" THEN "gate" ELSE "probe",
                             !.card = c, !.stage = s, !.original = file])

Mine(e) == Choice(editor[e].original, editor[e].card)

Publication(e) ==
    Written(Published(editor[e].original, editor[e].stage, editor[e].card))

(* A stage of the pipeline is probed, then published. *)
ProbeStage(e) ==
    /\ editor[e].pc = "probe"
    /\ \/ file' = Publication(e) /\ writes' = writes + 1
       \/ Mine(e) # Off /\ file' = editor[e].original /\ UNCHANGED writes
    /\ Leave(e)
    /\ UNCHANGED <<vault, seen, worker, backend, around, undone, broken>>

-----------------------------------------------------------------------------
(* local_stt_services.activate: sessions are gated out while the worker is *)
(* replaced; a failure restores the file and the worker of before.         *)

\* Mutant: the gate is taken although a session is relaying.
MutGateIsFree == gate = None

GateIsFree == gate = None /\ \A s \in Session : session[s].pc = "closed"

(* A recording that is under way refuses the activation as a session does. *)
TakeGate(e) ==
    /\ editor[e].pc = "gate"
    /\ \/ /\ GateIsFree
          /\ gate' = e
          /\ editor' = [editor EXCEPT ![e].pc = "prepare"]
          /\ UNCHANGED lock
       \/ Leave(e)
    /\ UNCHANGED <<file, vault, seen, worker, backend, around, writes, undone,
                   broken>>

(* start_configured: a worker with another command is stopped and replaced. *)
Runs(snapshot) == IF snapshot.card \in Managed THEN snapshot ELSE worker

Prepare(e) ==
    /\ editor[e].pc = "prepare"
    /\ \/ /\ worker' = Runs(Mine(e)) /\ Goto(e, "check")
          /\ broken' = (broken /\ Mine(e).card \notin Managed)
       \/ /\ Mine(e).card \in Managed
          /\ worker' \in {worker, Off} /\ Goto(e, "restore")
          /\ UNCHANGED broken
       \/ UNCHANGED <<worker, broken>> /\ Leave(e)
    /\ UNCHANGED <<file, vault, seen, backend, around, writes, undone>>

(* The provider answers a probe and the phone is still idle, or not. *)
Check(e) ==
    /\ editor[e].pc = "check"
    /\ \/ Goto(e, "publish")
       \/ Goto(e, "restore")
    /\ UNCHANGED <<file, vault, seen, worker, backend, around, writes, undone,
                   broken>>

Publish(e) ==
    /\ editor[e].pc = "publish"
    /\ \/ /\ file' = Publication(e) /\ writes' = writes + 1
          /\ IF backend = "relayed" THEN Leave(e) ELSE Goto(e, "restart")
       \/ Goto(e, "rollback") /\ UNCHANGED <<file, writes>>
    /\ UNCHANGED <<vault, seen, worker, backend, around, undone, broken>>

(* A backend that predates the relay is restarted once to read from it. *)
Restart(e) ==
    /\ editor[e].pc = "restart"
    /\ \/ Leave(e) /\ backend' = "relayed"
       \/ Goto(e, "rollback") /\ backend' \in {"legacy", "relayed"}
    /\ UNCHANGED <<file, vault, seen, worker, around, writes, undone, broken>>

Rollback(e) ==
    /\ editor[e].pc = "rollback"
    /\ file' = editor[e].original
    /\ undone' = IF file.id = file'.id THEN undone ELSE undone \cup {file.id}
    /\ Goto(e, "restore")
    /\ UNCHANGED <<vault, seen, worker, backend, around, writes, broken>>

(* The worker of before is started again, or its lock is taken by then. *)
Restore(e) ==
    /\ editor[e].pc = "restore"
    /\ LET previous == editor[e].original.effective["live"] IN
       \/ worker' = Runs(previous) /\ UNCHANGED broken
       \/ worker' \in {worker, Off} /\ broken' = TRUE
    /\ Leave(e)
    /\ UNCHANGED <<file, vault, seen, backend, around, writes, undone>>

(* The process of an editor dies: the kernel releases what it held. *)
Crash(e) ==
    /\ editor[e].pc # "ready"
    /\ Leave(e)
    /\ broken' = (broken \/ gate = e)
    /\ UNCHANGED <<file, vault, seen, worker, backend, around, writes, undone>>

(* The stack is started, or its settings applied again, by a process that  *)
(* takes neither the lock nor the gate: it reads the live settings ...     *)
StackReads ==
    /\ ~stack.on
    /\ stack' = [on |-> TRUE, live |-> file.effective["live"]]
    /\ UNCHANGED <<file, vault, lock, editor, seen, live, session, pinned,
                   writes, undone, broken>>

(* A worker holds the inference lock while it serves a session. *)
Serving ==
    \E s \in Session :
        session[s].snapshot.card \in Managed /\ session[s].snapshot = worker

(* ... and then sees to the worker of those settings, and to a backend     *)
(* that reads from the relay once there is a registry.  A worker that      *)
(* serves is not replaced.                                                 *)
StackStarts ==
    /\ stack.on
    /\ \/ /\ Serving => Runs(stack.live) = worker
          /\ worker' = Runs(stack.live)
          /\ backend' = IF file.rev > 0 THEN "relayed" ELSE backend
          /\ broken' = IF gate = None /\ stack.live = file.effective["live"]
                       THEN FALSE ELSE broken \/ worker' # worker
       \/ /\ worker' \in {worker} \cup (IF Serving THEN {} ELSE {Off})
          /\ broken' = (broken \/ worker' # worker)
          /\ UNCHANGED backend
    /\ stack' = Started
    /\ UNCHANGED <<file, vault, lock, gate, editor, seen, session, pinned,
                   writes, undone>>

-----------------------------------------------------------------------------
(* The relay's sessions and the queue of final jobs.                       *)

sessionRest == <<file, vault, lock, live, editor, seen, writes, undone, broken>>

OpenSession(s) ==
    /\ session[s].pc = "closed" /\ backend = "relayed"
    /\ gate = None
    /\ session' = [session EXCEPT ![s].pc = "open"]
    /\ UNCHANGED <<sessionRest, pinned, stack>>

Resolves(p) == p.ref # 0 => p.ref \in DOMAIN vault

ReadSnapshot(s) ==
    /\ session[s].pc = "open"
    /\ LET p == file.effective["live"] IN
       session' = [session EXCEPT ![s] =
           IF p # Off /\ Resolves(p) THEN [pc |-> "relay", snapshot |-> p]
           ELSE Closed]
    /\ UNCHANGED <<sessionRest, pinned, stack>>

(* A session drains its server after the recording stopped. *)
CloseSession(s) ==
    /\ session[s].pc = "relay"
    /\ session' = [session EXCEPT ![s] = Closed]
    /\ UNCHANGED <<sessionRest, pinned, stack>>

(* EngineConfig.load pins the recogniser in a job; the job ends.  A job    *)
(* whose recogniser needs no key has nothing to lose and is left out.      *)
Pin ==
    /\ pinned = Off /\ file.effective["stt"].ref # 0
    /\ pinned' = file.effective["stt"]
    /\ UNCHANGED <<sessionRest, session, stack>>

Unpin ==
    /\ pinned # Off
    /\ pinned' = Off
    /\ UNCHANGED <<sessionRest, session, stack>>

-----------------------------------------------------------------------------
Next ==
    \/ \E e \in Editor :
          \/ Read(e)
          \/ \E c \in Card : \/ BeginDelete(e, c)
                             \/ \E h \in Host \cup {Local},
                                   key \in {"new", "keep", "clear"} :
                                   BeginSave(e, c, h, key)
          \/ \E s \in Stage, c \in Card \cup {None} : BeginActivate(e, s, c)
          \/ StoreKey(e) \/ Save(e) \/ Delete(e) \/ ProbeStage(e)
          \/ TakeGate(e) \/ Prepare(e) \/ Check(e) \/ Publish(e)
          \/ Restart(e) \/ Rollback(e) \/ Restore(e) \/ Crash(e)
    \/ StackReads \/ StackStarts
    \/ \E s \in Session : OpenSession(s) \/ ReadSnapshot(s) \/ CloseSession(s)
    \/ Pin \/ Unpin

Spec == Init /\ [][Next]_vars

-----------------------------------------------------------------------------
Selections == {file.effective[s] : s \in Stage} \cup {pinned}
              \cup {session[s].snapshot : s \in Session}

(* Whatever was edited, cleared, deleted, rolled back or cut off by a      *)
(* crash, the key of every card, of every selection and of every queued    *)
(* job is in the vault, and was given for the very server it goes to.      *)
KeysResolve ==
    \A p \in {file.cards[c] : c \in Card} \cup Selections :
        p.ref # 0 => p.ref \in DOMAIN vault /\ vault[p.ref] = p.host

(* A session relays to a worker that runs the settings the session read,   *)
(* unless an activation died half-way or could not go back, or a start of  *)
(* the stack failed or met an activation (start_configured takes no gate)  *)
(* and changed the worker: then until the stack is started undisturbed or  *)
(* a worker is activated.                                                  *)
SessionsAreServed ==
    \A s \in Session :
        session[s].snapshot.card \in Managed =>
            worker = session[s].snapshot \/ broken

(* An edit is applied to the settings its author was looking at; the one   *)
(* exception is an author who saw a publication that was taken back.       *)
NoBlindEdit ==
    \A e \in Editor :
        editor[e].pc \in Preparing =>
            seen[e].id = file.id \/ seen[e].id \in undone

(* The effective pipeline can run after any sequence of selections: a      *)
(* diarization inside the recogniser is one that this recogniser was told  *)
(* to run and can run, and no recogniser runs one that is switched off.    *)
PipelineRuns ==
    LET stt == file.effective["stt"]  d == file.effective["diarization"] IN
    /\ stt.card \in STT
    /\ stt.model = Inside(d)
    /\ d.card \in Embedded => stt.card \in Embedding
=============================================================================
