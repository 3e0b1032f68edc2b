--------------------------- MODULE AudioDelivery ---------------------------
(***************************************************************************)
(* The phone's outbox and the server's intake, connected by HTTP: the      *)
(* delivery guarantee of docs/RECORDING_DURABILITY.md end to end.          *)
(*                                                                         *)
(* The request the phone waits for (conn) is served by the one handler     *)
(* whose `caller' flag is set.  When the phone gives up or dies, the flag  *)
(* is cleared and the handler goes on alone; when the server gives up or   *)
(* dies, the phone sees an error.  A request that the network delays past  *)
(* the phone's timeout is one whose handler is not admitted before it.     *)
(***************************************************************************)
EXTENDS Integers, Sequences, FiniteSets

CONSTANTS
  Recording, Opus, Mac, NoServer, NoConn, MaxPackets, PartAudio, PartPackets,
  Preroll, MaxStorage, MaxQueued, MaxOps, Faults,   \* see PhoneOutbox
  Handler, NoBody, Free, Permits, Reserve, Allowance, Capacity  \* see PartIntake

VARIABLES
  alive, paired, rec, disk, queue, store, drain, conn, flushed, sent,
  handler, permits, lock, capture, synced, space, acked

phoneVars  == <<alive, paired, rec, disk, queue, store, drain, flushed, sent>>
serverVars == <<permits, lock, capture, synced, space, acked>>
vars       == <<phoneVars, conn, handler, serverVars>>

\* What the server holds for good: the captures it has synced.
Held == {<<Mac, p, capture[p]>> : p \in synced}

Phone == INSTANCE PhoneOutbox WITH Server <- {Mac}, held <- Held

\* parse_part() and validate_preroll(): complete packets, at least one fresh
\* one, and as context only the packets of 80 ms before a later Opus part.
AcceptablePart(m) ==
  LET p == m[1] b == m[2]
  IN  /\ b.fresh # <<>> /\ Len(b.pre) + Len(b.fresh) <= PartPackets
      /\ b.pre # <<>> => p[1] \in Opus /\ p[2] > 0 /\ Len(b.pre) = Preroll

Intake == INSTANCE PartIntake WITH
  PartId <- Phone!Part, Body <- Phone!BodyType,
  Valid  <- {m \in Phone!Part \X Phone!BodyType : AcceptablePart(m)}

\* What PhoneOutbox and PartIntake assume of their parameters.
ASSUME DeliveryAssumption ==
  /\ IsFiniteSet(Recording) /\ Opus \subseteq Recording /\ NoServer # Mac
  /\ MaxPackets \in Nat \ {0} /\ PartAudio \in Nat \ {0} /\ Preroll \in Nat \ {0}
  /\ PartPackets \in Nat /\ PartPackets > Preroll
  /\ MaxStorage \in Nat /\ MaxQueued \in Nat /\ MaxOps \in Nat
  /\ Faults \subseteq {"journal", "directory"}
  /\ IsFiniteSet(Handler) /\ Free \notin Handler
  /\ Free \notin Phone!Part /\ NoBody \notin Phone!BodyType
  /\ Permits \in Nat \ {0} /\ Allowance \in Nat \ {0}
  /\ Reserve \in Nat /\ Capacity \in Nat /\ Reserve <= Capacity

Init == Intake!Init /\ Phone!Init

-----------------------------------------------------------------------------
\* Mutant: a handler keeps answering a phone that has given up.
MutDetached == handler

\* The phone closes its connection: the handler serving it, if any, goes on
\* without a caller.
Detached == [h \in Handler |-> [handler[h] EXCEPT !.caller = FALSE]]

PhoneStep ==
  /\ UNCHANGED serverVars
  /\ Phone!PhoneNext \/ Phone!Crash
  /\ handler' = IF conn' = NoConn THEN Detached ELSE handler

Attached == {h \in Handler : handler[h].caller}

\* The request reaches the server.
Deliver(h) ==
  /\ conn # NoConn /\ conn.state = "sent" /\ Attached = {}
  /\ Intake!Receive(h, conn.part, conn.body)
  /\ UNCHANGED <<phoneVars, conn>>

Answered(state) == [conn EXCEPT !.state = state]

\* A handler works; when it ends without a receipt, or the HTTP side times
\* out, a phone that still waits sees an error.
Work(h) ==
  /\ Intake!Work(h)
  /\ conn' = IF handler[h].caller /\ ~handler'[h].caller THEN Answered("error") ELSE conn
  /\ UNCHANGED phoneVars

\* Mutant: a late receipt answers whatever request is current.
MutAnswer(h) ==
  /\ Intake!Sync(h)
  /\ conn' = IF conn # NoConn THEN Answered("receipt") ELSE conn
  /\ UNCHANGED phoneVars

\* The receipt goes to the phone that still waits for this handler.
Answer(h) ==
  /\ Intake!Sync(h)
  /\ conn' = IF handler[h].caller THEN Answered("receipt") ELSE conn
  /\ UNCHANGED phoneVars

ServerCrash ==
  /\ Intake!ServerCrash
  /\ conn' = IF Attached # {} THEN Answered("error") ELSE conn
  /\ UNCHANGED phoneVars

Next ==
  \/ PhoneStep
  \/ \E h \in Handler : Deliver(h) \/ Work(h) \/ Answer(h)
  \/ ServerCrash

Spec == Init /\ [][Next]_vars

-----------------------------------------------------------------------------
(* Properties *)

\* The intake is a server as the outbox needs it: every step of the pair is
\* a step of PhoneOutbox with its external server, where what the server
\* "holds" are its synced captures.  What PhoneOutbox guarantees therefore
\* holds end to end, across lost answers, timeouts and crashes of both.
ImplementsOutbox == Phone!Spec

\* The phone deletes audio only when the server has the same bytes on stable
\* storage: every flushed packet is on one side or the other.
NothingIsLost == Phone!FlushedIsKept

\* A retry of the phone, whatever became of the attempts before, is never
\* refused as a conflict or as an invalid part.
RetriesAreAccepted ==
  \A h \in Handler : handler[h].pc = "check" =>
    /\ AcceptablePart(<<handler[h].part, handler[h].body>>)
    /\ capture[handler[h].part] \in {NoBody, handler[h].body}

\* At most one handler answers the phone, and it serves the request the
\* phone is waiting for: a late answer is never taken for a current one.
AnswersMatchRequests ==
  /\ Cardinality(Attached) <= 1
  /\ \A h \in Attached : /\ conn # NoConn /\ conn.state = "sent"
                         /\ handler[h].part = conn.part /\ handler[h].body = conn.body
=============================================================================
