------------------------------ MODULE RelayProofs ------------------------------
(***************************************************************************)
(* What Relay guarantees for every set of calls and however many           *)
(* connections the brain dials: the route is the one registered last, and  *)
(* the relay, the network and the connector together implement             *)
(* RelayPromise.                                                           *)
(***************************************************************************)
EXTENDS Relay, TLAPS

Answer(r) == {<<r, TRUE>>, <<r, FALSE>>}
FutureType == fut \in [Requests -> {NoFuture, Pending, CancelledFuture} \cup Answers]

\* A call leaves a trace once it has been framed to the brain.
Untraced(r) ==
    /\ r \notin performed
    /\ \A c \in Conns :
         /\ r \notin toBrain[c] /\ r \notin tasks[c]
         /\ \A ok \in BOOLEAN : <<r, ok>> \notin toRelay[c]

\* Nothing was framed for a call that has not passed "send".
UnsentUntraced ==
    \A r \in Requests : phase[r] \in {"idle", "offline", "body", "send"} => Untraced(r)

\* A call is framed once, on the connection it was routed to: while its frame
\* is unread or its task runs, it has not been performed.
FramedOnce ==
    \A c \in Conns, r \in Requests :
        /\ r \in toBrain[c] => c = via[r] /\ r \notin performed /\ r \notin tasks[c]
        /\ r \in tasks[c] => c = via[r] /\ r \notin performed

\* A positive answer, under way or delivered, is about a performed call.
AnswersAreEarned ==
    /\ \A c \in Conns, r \in Requests : <<r, TRUE>> \in toRelay[c] => r \in performed
    /\ \A r \in Requests : fut[r] = <<r, TRUE>> => r \in performed

\* A future holds an answer of its own call only, and a call that was answered
\* still holds it.
AnswersAreOwn ==
    \A r \in Requests :
        /\ fut[r] \in Answers => fut[r] \in Answer(r)
        /\ phase[r] = "answered" => fut[r] \in Answers

PromiseInv == UnsentUntraced /\ FramedOnce /\ AnswersAreEarned /\ AnswersAreOwn

-----------------------------------------------------------------------------
(* Types. *)

\* The outcomes of a future are told apart.
LEMMA FutureKinds ==
    /\ Pending \notin Answers /\ CancelledFuture \notin Answers /\ NoFuture \notin Answers
    /\ Pending # CancelledFuture /\ Pending # NoFuture
  BY DEF Pending, CancelledFuture, NoFuture, Answers

LEMMA AnswersOfCall ==
    ASSUME NEW r \in Requests, NEW ok \in BOOLEAN
    PROVE  <<r, ok>> \in Answers /\ <<r, ok>> \in Answer(r)
  BY DEF Answers, Answer

LEMMA TypeStep == TypeOK /\ FutureType /\ [Next]_vars => (TypeOK /\ FutureType)'
  <1> SUFFICES ASSUME TypeOK, FutureType, [Next]_vars PROVE (TypeOK /\ FutureType)'
    OBVIOUS
  <1> USE RelayBound DEF TypeOK, FutureType, Conns, vars, brainVars, netVars, relayVars
  <1>1. CASE Dial
    BY <1>1 DEF Dial, Off
  <1>2. CASE Return
    BY <1>2 DEF Return
  <1>3. CASE SayHello
    BY <1>3 DEF SayHello
  <1>4. ASSUME NEW c \in Conns, NEW r \in Requests, Receive(c, r) PROVE (TypeOK /\ FutureType)'
    BY <1>4 DEF Receive
  <1>5. ASSUME NEW c \in Conns, NEW r \in Requests, NEW reached \in BOOLEAN, Handle(c, r, reached)
        PROVE  (TypeOK /\ FutureType)'
    BY <1>5 DEF Handle, Answers
  <1>6. CASE Disconnected
    BY <1>6 DEF Disconnected, Off
  <1>7. CASE Stop
    BY <1>7 DEF Stop
  <1>8. ASSUME NEW c \in Conns, Break(c), closing' \subseteq closing
        PROVE  (TypeOK /\ FutureType)'
    BY <1>8 DEF Break
  <1>9. ASSUME NEW c \in Conns, Drop(c) \/ Severed(c) PROVE (TypeOK /\ FutureType)'
    <2>1. closing' \subseteq closing
      BY <1>9 DEF Drop, Severed
    <2>2. CASE Break(c)
      BY <1>8, <2>1, <2>2
    <2>3. CASE UNCHANGED <<netVars, relayVars, loop, selfWs, stop, tasks, performed>>
      BY <2>1, <2>3
    <2> QED
      BY <1>9, <2>2, <2>3 DEF Drop, Severed
  <1>10. CASE RelayRestarts
    BY <1>10 DEF RelayRestarts, InFlight, Over
  <1>11. ASSUME NEW c \in Conns, Register(c) PROVE (TypeOK /\ FutureType)'
    BY <1>11 DEF Register
  <1>12. ASSUME NEW c \in Conns, HelloLost(c) PROVE (TypeOK /\ FutureType)'
    BY <1>12 DEF HelloLost
  <1>13. ASSUME NEW c \in Conns, Teardown(c) PROVE (TypeOK /\ FutureType)'
    BY <1>13 DEF Teardown, Cancelled
  <1>14. ASSUME NEW c \in Conns, NEW r \in Requests, NEW ok \in BOOLEAN, Deliver(c, r, ok)
         PROVE  (TypeOK /\ FutureType)'
    BY <1>14, AnswersOfCall DEF Deliver, Resolved
  <1>15. ASSUME NEW r \in Requests, Arrive(r) PROVE (TypeOK /\ FutureType)'
    BY <1>15 DEF Arrive, To, InFlight, Over
  <1>16. ASSUME NEW r \in Requests, ReadBody(r) PROVE (TypeOK /\ FutureType)'
    BY <1>16 DEF ReadBody, To, InFlight, Over
  <1>17. ASSUME NEW r \in Requests, BodyFails(r) PROVE (TypeOK /\ FutureType)'
    BY <1>17 DEF BodyFails, To, InFlight, Over
  <1>18. ASSUME NEW r \in Requests, SendFrame(r) PROVE (TypeOK /\ FutureType)'
    BY <1>18 DEF SendFrame, To, InFlight, Over
  <1>19. ASSUME NEW r \in Requests, SendFails(r) PROVE (TypeOK /\ FutureType)'
    BY <1>19 DEF SendFails, To, InFlight, Over
  <1>20. ASSUME NEW r \in Requests, Wake(r) PROVE (TypeOK /\ FutureType)'
    BY <1>20 DEF Wake, To, InFlight, Over
  <1>21. ASSUME NEW r \in Requests, Expire(r) PROVE (TypeOK /\ FutureType)'
    BY <1>21 DEF Expire, To, InFlight, Over
  <1>22. CASE UNCHANGED vars
    BY <1>22
  <1> QED
    BY <1>1, <1>2, <1>3, <1>4, <1>5, <1>6, <1>7, <1>9, <1>10, <1>11, <1>12, <1>13, <1>14,
       <1>15, <1>16, <1>17, <1>18, <1>19, <1>20, <1>21, <1>22
       DEF Next, Connector, Network, Server

\* Every variable keeps its type: in particular the brain is routed to a
\* registered connection or to none, whatever is torn down in which order.
THEOREM RelayTypeCorrect == Spec => [](TypeOK /\ FutureType)
  <1>1. Init => TypeOK /\ FutureType
    BY RelayBound DEF Init, TypeOK, FutureType, Off, Conns, InFlight, Over
  <1> QED
    BY <1>1, TypeStep, PTL DEF Spec

\* The brain is routed to the connection it registered last while that one is
\* registered: no late teardown of an older one takes the route away.
THEOREM LatestIsRoutedHolds == Spec => []LatestIsRouted
  <1>1. Init => LatestIsRouted
    BY DEF Init, LatestIsRouted
  <1>2. LatestIsRouted /\ [Next]_vars => LatestIsRouted'
    <2> SUFFICES ASSUME LatestIsRouted, [Next]_vars PROVE LatestIsRouted'
      OBVIOUS
    <2> USE DEF LatestIsRouted, brainVars, netVars, relayVars
    <2>1. CASE Connector
      BY <2>1 DEF Connector, Dial, Return, SayHello, Disconnected, Stop, Receive, Handle
    <2>2. CASE Network
      BY <2>2 DEF Network, Drop, Severed, Break
    <2>3. CASE RelayRestarts
      BY <2>3 DEF RelayRestarts
    <2>4. ASSUME NEW c \in Conns, Register(c) \/ HelloLost(c) \/ Teardown(c) PROVE LatestIsRouted'
      BY <2>4 DEF Register, HelloLost, Teardown
    <2>5. ASSUME NEW c \in Conns, NEW r \in Requests, NEW ok \in BOOLEAN, Deliver(c, r, ok)
          PROVE  LatestIsRouted'
      BY <2>5 DEF Deliver
    <2>6. ASSUME NEW r \in Requests,
                 \/ Arrive(r) \/ ReadBody(r) \/ BodyFails(r) \/ SendFrame(r) \/ SendFails(r)
                 \/ Wake(r) \/ Expire(r)
          PROVE  LatestIsRouted'
      BY <2>6 DEF Arrive, ReadBody, BodyFails, SendFrame, SendFails, Wake, Expire
    <2>7. CASE UNCHANGED vars
      BY <2>7 DEF vars
    <2> QED
      BY <2>1, <2>2, <2>3, <2>4, <2>5, <2>6, <2>7 DEF Next, Server
  <1> QED
    BY <1>1, <1>2, PTL DEF Spec

-----------------------------------------------------------------------------
(* The promise. *)

Unsent == {"idle", "offline", "body", "send"}

\* A step that frames nothing and performs nothing keeps the invariant when
\* calls only move forward and futures take earned answers of their own.
LEMMA NothingFramed ==
    ASSUME FutureType, PromiseInv, UNCHANGED <<tasks, performed>>,
           \A c \in Conns : toBrain'[c] \subseteq toBrain[c] /\ toRelay'[c] \subseteq toRelay[c],
           \A r \in Requests :
               /\ phase'[r] \in Unsent => phase[r] \in Unsent
               /\ via'[r] = via[r] \/ phase[r] \in Unsent
               /\ \/ fut'[r] = fut[r] \/ fut'[r] \notin Answers
                  \/ fut'[r] = <<r, FALSE>>
                  \/ fut'[r] = <<r, TRUE>> /\ r \in performed
               /\ phase'[r] = "answered" => fut'[r] \in Answers
    PROVE  PromiseInv'
  <1> USE DEF PromiseInv, Unsent
  <1>1. UnsentUntraced'
    BY DEF UnsentUntraced, Untraced
  <1>2. FramedOnce'
    BY DEF FramedOnce, UnsentUntraced, Untraced
  <1>3. AnswersAreEarned'
    <2>1. \A r \in Requests : <<r, TRUE>> # <<r, FALSE>>
      OBVIOUS
    <2>2. \A r \in Requests : fut'[r] = <<r, TRUE>> => r \in performed'
      BY <2>1, AnswersOfCall DEF AnswersAreEarned
    <2> QED
      BY <2>2 DEF AnswersAreEarned
  <1>4. AnswersAreOwn'
    BY AnswersOfCall DEF AnswersAreOwn
  <1> QED
    BY <1>1, <1>2, <1>3, <1>4

LEMMA PromiseInvStep ==
    TypeOK /\ FutureType /\ PromiseInv /\ [Next]_vars => PromiseInv'
  <1> SUFFICES ASSUME TypeOK, FutureType, PromiseInv, [Next]_vars PROVE PromiseInv'
    OBVIOUS
  <1> USE DEF FutureType, brainVars, netVars, relayVars
  <1>0. \A r \in Requests : phase[r] = "answered" => fut[r] \in Answers
    BY DEF PromiseInv, AnswersAreOwn
  <1>1. CASE Dial \/ Return \/ SayHello \/ Stop
    BY <1>0, <1>1, NothingFramed DEF Dial, Return, SayHello, Stop
  <1>2. CASE Disconnected
    BY <1>0, <1>2, NothingFramed DEF Disconnected, TypeOK
  <1>3. ASSUME NEW c \in Conns, NEW r \in Requests, Receive(c, r) PROVE PromiseInv'
    <2> USE <1>3 DEF Receive, TypeOK, PromiseInv
    <2>1. UnsentUntraced'
      BY DEF UnsentUntraced, Untraced
    <2>2. FramedOnce'
      BY DEF FramedOnce
    <2>3. AnswersAreEarned' /\ AnswersAreOwn'
      BY DEF AnswersAreEarned, AnswersAreOwn
    <2> QED
      BY <2>1, <2>2, <2>3
  <1>4. ASSUME NEW c \in Conns, NEW r \in Requests, NEW reached \in BOOLEAN, Handle(c, r, reached)
        PROVE  PromiseInv'
    <2> USE <1>4 DEF Handle, TypeOK, PromiseInv
    <2>1. UnsentUntraced'
      BY DEF UnsentUntraced, Untraced
    <2>2. FramedOnce'
      BY DEF FramedOnce
    <2>3. AnswersAreEarned'
      BY DEF AnswersAreEarned
    <2>4. AnswersAreOwn'
      BY DEF AnswersAreOwn
    <2> QED
      BY <2>1, <2>2, <2>3, <2>4
  <1>5. ASSUME NEW c \in Conns, Break(c) PROVE PromiseInv'
    BY <1>0, <1>5, NothingFramed DEF Break, TypeOK
  <1>6. ASSUME NEW c \in Conns, Drop(c) \/ Severed(c) PROVE PromiseInv'
    <2>1. CASE Break(c)
      BY <1>5, <2>1
    <2>2. CASE UNCHANGED <<netVars, relayVars, loop, selfWs, stop, tasks, performed>>
      BY <1>0, <2>2, NothingFramed
    <2> QED
      BY <1>6, <2>1, <2>2 DEF Drop, Severed
  <1>7. CASE RelayRestarts
    BY <1>0, <1>7, FutureKinds, NothingFramed DEF RelayRestarts, TypeOK, InFlight, Unsent
  <1>8. ASSUME NEW c \in Conns, Register(c) \/ HelloLost(c) PROVE PromiseInv'
    BY <1>0, <1>8, NothingFramed DEF Register, HelloLost
  <1>9. ASSUME NEW c \in Conns, Teardown(c) PROVE PromiseInv'
    BY <1>0, <1>9, FutureKinds, NothingFramed DEF Teardown, Cancelled, TypeOK
  <1>10. ASSUME NEW c \in Conns, NEW r \in Requests, NEW ok \in BOOLEAN, Deliver(c, r, ok)
         PROVE  PromiseInv'
    <2>1. ok = TRUE => r \in performed
      BY <1>10 DEF Deliver, PromiseInv, AnswersAreEarned
    <2>2. \A s \in Requests :
            \/ fut'[s] = fut[s]
            \/ s = r /\ fut[s] = Pending /\ fut'[s] = <<r, ok>>
      BY <1>10 DEF Deliver, Resolved
    <2> QED
      BY <1>0, <1>10, <2>1, <2>2, FutureKinds, AnswersOfCall, NothingFramed DEF Deliver, TypeOK
  <1>11. ASSUME NEW r \in Requests, Arrive(r) PROVE PromiseInv'
    BY <1>0, <1>11, NothingFramed DEF Arrive, To, TypeOK, Unsent
  <1>12. ASSUME NEW r \in Requests, ReadBody(r) PROVE PromiseInv'
    BY <1>0, <1>12, FutureKinds, NothingFramed DEF ReadBody, To, TypeOK, Unsent
  <1>13. ASSUME NEW r \in Requests, BodyFails(r) \/ SendFails(r) PROVE PromiseInv'
    BY <1>0, <1>13, NothingFramed DEF BodyFails, SendFails, To, TypeOK, Unsent
  <1>14. ASSUME NEW r \in Requests, SendFrame(r) PROVE PromiseInv'
    <2> USE <1>14 DEF SendFrame, To, TypeOK, PromiseInv
    <2>1. UnsentUntraced'
      BY DEF UnsentUntraced, Untraced
    <2>2. FramedOnce'
      BY DEF FramedOnce, UnsentUntraced, Untraced
    <2>3. AnswersAreEarned' /\ AnswersAreOwn'
      BY DEF AnswersAreEarned, AnswersAreOwn
    <2> QED
      BY <2>1, <2>2, <2>3
  <1>15. ASSUME NEW r \in Requests, Wake(r) PROVE PromiseInv'
    BY <1>0, <1>15, NothingFramed DEF Wake, To, TypeOK, Unsent
  <1>16. ASSUME NEW r \in Requests, Expire(r) PROVE PromiseInv'
    BY <1>0, <1>16, FutureKinds, NothingFramed DEF Expire, To, TypeOK, Unsent
  <1>17. CASE UNCHANGED vars
    BY <1>0, <1>17, NothingFramed DEF vars
  <1> QED
    BY <1>1, <1>2, <1>3, <1>4, <1>6, <1>7, <1>8, <1>9, <1>10, <1>11, <1>12, <1>13, <1>14,
       <1>15, <1>16, <1>17
       DEF Next, Connector, Network, Server

\* A call is framed to the brain once, and an answer, wherever it is on its
\* way, belongs to its call and was earned: through losses, restarts and
\* time-outs.
THEOREM PromiseInvHolds == Spec => []PromiseInv
  <1>1. Init => TypeOK /\ FutureType /\ PromiseInv
    <2>1. Init => TypeOK /\ FutureType
      BY RelayBound DEF Init, TypeOK, FutureType, Off, Conns, InFlight, Over
    <2>2. Init => UnsentUntraced /\ FramedOnce
      BY DEF Init, UnsentUntraced, Untraced, FramedOnce
    <2>3. Init => AnswersAreEarned /\ AnswersAreOwn
      <3>1. \A r \in Requests : <<r, TRUE>> # NoFuture
        BY FutureKinds, AnswersOfCall
      <3> QED
        BY <3>1, FutureKinds DEF Init, AnswersAreEarned, AnswersAreOwn
    <2> QED
      BY <2>1, <2>2, <2>3 DEF PromiseInv
  <1> QED
    BY <1>1, TypeStep, PromiseInvStep, PTL DEF Spec

\* What a client sees of a call depends on its phase and, once it was answered,
\* on its future.
LEMMA StatusStays ==
    ASSUME NEW r \in Requests, phase'[r] = phase[r],
           phase[r] = "answered" => fut'[r] = fut[r]
    PROVE  StatusOf(r)' = StatusOf(r)
  BY DEF StatusOf, InFlight

LEMMA StatusWhile ==
    ASSUME NEW r \in Requests
    PROVE  /\ phase[r] = "idle" => StatusOf(r) = "idle"
           /\ phase[r] = "offline" => StatusOf(r) = "refused"
           /\ phase[r] \in InFlight => StatusOf(r) = "open"
           /\ phase[r] \in {"timeout", "error"} => StatusOf(r) = "failed"
           /\ phase[r] = "answered" /\ fut[r] = <<r, TRUE>> => StatusOf(r) = "answered"
           /\ phase[r] = "answered" /\ fut[r] = <<r, FALSE>> => StatusOf(r) = "failed"
  <1> USE DEF StatusOf, InFlight
  <1>1. <<r, TRUE>> # <<r, FALSE>>
    OBVIOUS
  <1>2. phase[r] = "idle" => StatusOf(r) = "idle"
    OBVIOUS
  <1>3. phase[r] = "offline" => StatusOf(r) = "refused"
    OBVIOUS
  <1>4. phase[r] \in InFlight => StatusOf(r) = "open"
    OBVIOUS
  <1>5. phase[r] \in {"timeout", "error"} => StatusOf(r) = "failed"
    OBVIOUS
  <1>6. phase[r] = "answered" /\ fut[r] = <<r, TRUE>> => StatusOf(r) = "answered"
    OBVIOUS
  <1>7. phase[r] = "answered" /\ fut[r] = <<r, FALSE>> => StatusOf(r) = "failed"
    BY <1>1
  <1> QED
    BY <1>2, <1>3, <1>4, <1>5, <1>6, <1>7

\* The same after a step.
LEMMA StatusThen ==
    ASSUME NEW r \in Requests
    PROVE  /\ phase'[r] = "offline" => StatusOf(r)' = "refused"
           /\ phase'[r] \in InFlight => StatusOf(r)' = "open"
           /\ phase'[r] \in {"timeout", "error"} => StatusOf(r)' = "failed"
           /\ phase'[r] = "answered" /\ fut'[r] = <<r, TRUE>> => StatusOf(r)' = "answered"
           /\ phase'[r] = "answered" /\ fut'[r] = <<r, FALSE>> => StatusOf(r)' = "failed"
  <1> USE DEF StatusOf, InFlight
  <1>1. <<r, TRUE>> # <<r, FALSE>>
    OBVIOUS
  <1>2. phase'[r] = "offline" => StatusOf(r)' = "refused"
    OBVIOUS
  <1>3. phase'[r] \in InFlight => StatusOf(r)' = "open"
    OBVIOUS
  <1>4. phase'[r] \in {"timeout", "error"} => StatusOf(r)' = "failed"
    OBVIOUS
  <1>5. phase'[r] = "answered" /\ fut'[r] = <<r, TRUE>> => StatusOf(r)' = "answered"
    OBVIOUS
  <1>6. phase'[r] = "answered" /\ fut'[r] = <<r, FALSE>> => StatusOf(r)' = "failed"
    BY <1>1
  <1> QED
    BY <1>2, <1>3, <1>4, <1>5, <1>6

\* A step that changes the phase of no call, or of one, and no answer given.
Keeps(calls) ==
    \A r \in calls : phase'[r] = phase[r] /\ (phase[r] = "answered" => fut'[r] = fut[r])

LEMMA Unseen ==
    ASSUME Keeps(Requests), performed' = performed
    PROVE  UNCHANGED Promise!vars
  <1>1. \A r \in Requests : StatusOf(r)' = StatusOf(r)
    BY StatusStays DEF Keeps
  <1> QED
    BY <1>1 DEF Seen, Promise!vars

LEMMA OneCallMoves ==
    ASSUME NEW r \in Requests, NEW s, Keeps(Requests \ {r}), StatusOf(r)' = s
    PROVE  Seen' = [Seen EXCEPT ![r] = s]
  <1>1. \A q \in Requests \ {r} : StatusOf(q)' = StatusOf(q)
    BY StatusStays DEF Keeps
  <1> QED
    BY <1>1 DEF Seen

LEMMA OneCallFails ==
    ASSUME NEW r \in Requests, Keeps(Requests \ {r}), performed' = performed,
           StatusOf(r) = "open", StatusOf(r)' = "failed"
    PROVE  Promise!Fail({r})
  <1>1. \A q \in Requests \ {r} : StatusOf(q)' = StatusOf(q)
    BY StatusStays DEF Keeps
  <1> QED
    BY <1>1 DEF Seen, Promise!Fail

LEMMA PromiseStep ==
    TypeOK /\ FutureType /\ PromiseInv /\ [Next]_vars => [Promise!Next]_(Promise!vars)
  <1> SUFFICES ASSUME TypeOK, FutureType, PromiseInv, [Next]_vars
               PROVE  Promise!Next \/ UNCHANGED Promise!vars
    OBVIOUS
  <1> USE DEF FutureType, Keeps, brainVars, netVars, relayVars
  <1>0. \A r \in Requests : phase[r] = "answered" => fut[r] \in Answers
    BY DEF PromiseInv, AnswersAreOwn
  <1>1. CASE Dial \/ Return \/ SayHello \/ Disconnected \/ Stop
    BY <1>1, Unseen DEF Dial, Return, SayHello, Disconnected, Stop
  <1>2. ASSUME NEW c \in Conns, NEW r \in Requests, Receive(c, r) PROVE UNCHANGED Promise!vars
    BY <1>2, Unseen DEF Receive
  <1>3. ASSUME NEW c \in Conns, NEW r \in Requests, NEW reached \in BOOLEAN, Handle(c, r, reached)
        PROVE  Promise!Next \/ UNCHANGED Promise!vars
    <2>1. CASE ~reached
      BY <1>3, <2>1, Unseen DEF Handle
    <2>2. CASE reached
      <3>1. r \notin performed /\ phase[r] \notin {"idle", "offline"}
        BY <1>3 DEF Handle, PromiseInv, FramedOnce, UnsentUntraced, Untraced
      <3>2. phase[r] = "answered" => fut[r] = <<r, FALSE>>
        BY <3>1 DEF PromiseInv, AnswersAreOwn, AnswersAreEarned, Answer
      <3>3. StatusOf(r) \in {"open", "failed"}
        BY <3>1, <3>2, StatusWhile DEF TypeOK, Over
      <3>4. Seen' = Seen
        BY <1>3, StatusStays DEF Handle, Seen
      <3>5. Promise!Perform(r)
        BY <1>3, <2>2, <3>1, <3>3, <3>4 DEF Handle, Promise!Perform, Seen
      <3> QED
        BY <3>5 DEF Promise!Next
    <2> QED
      BY <2>1, <2>2
  <1>4. ASSUME NEW c \in Conns, Drop(c) \/ Severed(c) PROVE UNCHANGED Promise!vars
    BY <1>4, Unseen DEF Drop, Severed, Break
  <1>5. CASE RelayRestarts
    <2> DEFINE lost == {r \in Requests : phase[r] \in InFlight}
    <2>1. \A r \in lost : StatusOf(r) = "open" /\ StatusOf(r)' = "failed"
      BY <1>5, StatusWhile, StatusThen DEF RelayRestarts, TypeOK
    <2>2. \A r \in Requests \ lost : StatusOf(r)' = StatusOf(r)
      BY <1>5, StatusStays DEF RelayRestarts, TypeOK
    <2>3. Promise!Fail(lost)
      BY <1>5, <2>1, <2>2 DEF RelayRestarts, Promise!Fail, Seen
    <2> QED
      BY <2>3 DEF Promise!Next
  <1>6. ASSUME NEW c \in Conns, Register(c) \/ HelloLost(c) PROVE UNCHANGED Promise!vars
    BY <1>6, Unseen DEF Register, HelloLost
  <1>7. ASSUME NEW c \in Conns, Teardown(c) PROVE UNCHANGED Promise!vars
    BY <1>0, <1>7, FutureKinds, Unseen DEF Teardown, Cancelled
  <1>8. ASSUME NEW c \in Conns, NEW r \in Requests, NEW ok \in BOOLEAN, Deliver(c, r, ok)
        PROVE  UNCHANGED Promise!vars
    <2>1. \A s \in Requests : fut[s] # Pending => fut'[s] = fut[s]
      BY <1>8 DEF Deliver, Resolved
    <2> QED
      BY <1>0, <1>8, <2>1, FutureKinds, Unseen DEF Deliver
  <1>9. ASSUME NEW r \in Requests, Arrive(r) PROVE Promise!Next
    <2>1. StatusOf(r) = "idle" /\ Keeps(Requests \ {r}) /\ performed' = performed
      BY <1>9, StatusWhile DEF Arrive, To, TypeOK
    <2>2. phase'[r] \in {"offline", "body"}
      BY <1>9 DEF Arrive, To, TypeOK
    <2>3. CASE phase'[r] = "offline"
      <3>1. Promise!Refuse(r)
        BY <2>1, <2>3, StatusThen, OneCallMoves DEF Promise!Refuse, Seen
      <3> QED
        BY <3>1 DEF Promise!Next
    <2>4. CASE phase'[r] = "body"
      <3>1. Promise!Take(r)
        BY <2>1, <2>4, StatusThen, OneCallMoves DEF Promise!Take, Seen, InFlight
      <3> QED
        BY <3>1 DEF Promise!Next
    <2> QED
      BY <2>2, <2>3, <2>4
  <1>10. ASSUME NEW r \in Requests, ReadBody(r) \/ SendFrame(r) PROVE UNCHANGED Promise!vars
    <2>1. phase[r] \in InFlight /\ phase'[r] \in InFlight /\ Keeps(Requests \ {r})
          /\ performed' = performed
      BY <1>10 DEF ReadBody, SendFrame, To, TypeOK, InFlight
    <2>2. StatusOf(r) = "open" /\ StatusOf(r)' = "open"
      BY <2>1, StatusWhile, StatusThen
    <2>3. Seen' = [Seen EXCEPT ![r] = "open"]
      BY <2>1, <2>2, OneCallMoves
    <2> QED
      BY <2>1, <2>2, <2>3 DEF Promise!vars, Seen
  <1>11. ASSUME NEW r \in Requests, BodyFails(r) \/ SendFails(r) \/ Expire(r) PROVE Promise!Next
    <2>1. phase[r] \in InFlight /\ phase'[r] \in {"timeout", "error"} /\ Keeps(Requests \ {r})
          /\ performed' = performed
      BY <1>11 DEF BodyFails, SendFails, Expire, To, TypeOK, InFlight
    <2>2. Promise!Fail({r})
      BY <2>1, StatusWhile, StatusThen, OneCallFails
    <2> QED
      BY <2>2 DEF Promise!Next
  <1>12. ASSUME NEW r \in Requests, Wake(r) PROVE Promise!Next
    <2>1. phase[r] \in InFlight /\ phase'[r] = "answered" /\ fut'[r] = fut[r]
          /\ Keeps(Requests \ {r}) /\ performed' = performed
      BY <1>12 DEF Wake, To, TypeOK, InFlight
    <2>2. CASE fut[r] = <<r, TRUE>>
      <3>1. r \in performed
        BY <2>2 DEF PromiseInv, AnswersAreEarned
      <3>2. Promise!Answer(r)
        BY <2>1, <2>2, <3>1, StatusWhile, StatusThen, OneCallMoves DEF Promise!Answer, Seen
      <3> QED
        BY <3>2 DEF Promise!Next
    <2>3. CASE fut[r] = <<r, FALSE>>
      <3>1. Promise!Fail({r})
        BY <2>1, <2>3, StatusWhile, StatusThen, OneCallFails
      <3> QED
        BY <3>1 DEF Promise!Next
    <2> QED
      BY <1>12, <2>2, <2>3 DEF Wake, PromiseInv, AnswersAreOwn, Answer
  <1>13. CASE UNCHANGED vars
    BY <1>13, Unseen DEF vars
  <1> QED
    BY <1>1, <1>2, <1>3, <1>4, <1>5, <1>6, <1>7, <1>8, <1>9, <1>10, <1>11, <1>12, <1>13
       DEF Next, Connector, Network, Server

\* The relay, the network and the connector together implement RelayPromise: a
\* call is performed at most once and answered with what was computed for it,
\* or it is refused, or it fails, whatever is lost, restarted or late.
THEOREM KeepsPromiseHolds == Spec => KeepsPromise
  <1>1. Init => Promise!Init
    <2>1. Init => \A r \in Requests : StatusOf(r) = "idle"
      BY StatusWhile DEF Init
    <2> QED
      BY <2>1 DEF Init, Promise!Init, Seen
  <1> QED
    BY <1>1, RelayTypeCorrect, PromiseStep, PromiseInvHolds, PTL DEF Spec, KeepsPromise, Promise!Spec
=============================================================================
