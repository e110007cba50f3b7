-------------------------------- MODULE Relay --------------------------------
(***************************************************************************)
(* `memcontext share` (relay.py): the relay server keeps, in memory, which *)
(* connection a brain can be reached on; the brain's connector dials out,  *)
(* serves the frames it receives and dials again when the connection is    *)
(* lost.  One brain (the table is keyed by brain and brains share nothing  *)
(* else); its connections are numbered in the order they are dialed.       *)
(*                                                                         *)
(* The two ends of a connection learn of its loss separately, so an old    *)
(* connection may still be registered when its successor is.  A hello that *)
(* fails verification changes nothing and is left out, and so is how long  *)
(* the connector backs off before it dials again.                          *)
(***************************************************************************)
EXTENDS Naturals, FiniteSets

CONSTANTS
    Requests,   \* calls of web clients
    MaxConns    \* bound: connections the brain dials

ASSUME RelayBound == MaxConns \in Nat \ {0}

VARIABLES
    \* the brain's connector
    loop,       \* where run() is, and on which connection
    selfWs,     \* self._ws: the last socket it served, 0 when none yet
    stop,       \* "no", or whether stop() found run() serving or between sockets
    closing,    \* sockets whose close stop() has scheduled
    tasks,      \* tasks[c]: the _handle tasks running for frames of c
    performed,  \* calls the local server was asked to perform
    \* the network
    dialed,     \* connections dialed so far
    up,         \* connections whose transport works
    hello,      \* connections whose hello the relay has not read
    toBrain,    \* toBrain[c]: calls framed to the brain and unread
    toRelay,    \* toRelay[c]: <<call, performed?>> answers unread
    \* the relay
    open,       \* connections whose register() loop runs
    table,      \* the connection the brain is routed to, 0 when offline
    latest,     \* the connection registered last (for the properties only)
    pending,    \* pending[c]: calls registered as awaiting an answer on c
    phase,      \* phase[r]: where _forward is for call r
    via,        \* via[r]: the connection r was routed to
    fut         \* fut[r]: the future r awaits, or what it was resolved with

brainVars == <<loop, selfWs, stop, closing, tasks, performed>>
netVars == <<dialed, up, hello, toBrain, toRelay>>
relayVars == <<open, table, latest, pending, phase, via, fut>>
vars == <<brainVars, netVars, relayVars>>

Conns == 1 .. MaxConns
Answers == Requests \X BOOLEAN
InFlight == {"body", "send", "waiting"}
Over == {"offline", "answered", "timeout", "error"}

\* a future that was not resolved with an answer
NoFuture == <<>>
Pending == <<"pending">>
CancelledFuture == <<"cancelled">>

Serving(c) == loop = [at |-> "serve", conn |-> c]
Off == [at |-> "off", conn |-> 0]

Init ==
    /\ loop = Off /\ selfWs = 0 /\ stop = "no" /\ closing = {}
    /\ tasks = [c \in Conns |-> {}] /\ performed = {}
    /\ dialed = 0 /\ up = {} /\ hello = {}
    /\ toBrain = [c \in Conns |-> {}] /\ toRelay = [c \in Conns |-> {}]
    /\ open = {} /\ table = 0 /\ latest = 0 /\ pending = [c \in Conns |-> {}]
    /\ phase = [r \in Requests |-> "idle"]
    /\ via = [r \in Requests |-> 0]
    /\ fut = [r \in Requests |-> NoFuture]

-----------------------------------------------------------------------------
(* The connector: run(), _handle() and stop()                              *)

\* top of the loop: stop() is looked at here and nowhere else
Dial ==
    /\ loop = Off /\ stop = "no" /\ dialed < MaxConns
    /\ dialed' = dialed + 1
    /\ loop' = [at |-> "dial", conn |-> dialed']
    /\ up' = up \cup {dialed'}
    /\ UNCHANGED <<selfWs, stop, closing, tasks, performed, hello, toBrain, toRelay, relayVars>>

Return ==
    /\ loop = Off /\ stop # "no"
    /\ loop' = [at |-> "done", conn |-> 0]
    /\ UNCHANGED <<selfWs, stop, closing, tasks, performed, netVars, relayVars>>

\* the relay's nonce signed; from here the socket is the one stop() closes
SayHello ==
    /\ loop.at = "dial" /\ loop.conn \in up
    /\ loop' = [loop EXCEPT !.at = "serve"]
    /\ selfWs' = loop.conn
    /\ hello' = hello \cup {loop.conn}
    /\ UNCHANGED <<stop, closing, tasks, performed, dialed, up, toBrain, toRelay, relayVars>>

\* one task per frame, so answers are not in the order of the calls
Receive(c, r) ==
    /\ Serving(c) /\ r \in toBrain[c]
    /\ toBrain' = [toBrain EXCEPT ![c] = @ \ {r}]
    /\ tasks' = [tasks EXCEPT ![c] = @ \cup {r}]
    /\ UNCHANGED <<loop, selfWs, stop, closing, performed, dialed, up, hello, toRelay, relayVars>>

\* the local server performs the call, or cannot be reached (502); the answer
\* is sent on the socket the frame came from, and lost with it
Handle(c, r, reached) ==
    /\ r \in tasks[c]
    /\ tasks' = [tasks EXCEPT ![c] = @ \ {r}]
    /\ performed' = IF reached THEN performed \cup {r} ELSE performed
    /\ toRelay' = IF c \in up THEN [toRelay EXCEPT ![c] = @ \cup {<<r, reached>>}] ELSE toRelay
    /\ UNCHANGED <<loop, selfWs, stop, closing, dialed, up, hello, toBrain, relayVars>>

\* dropped or closed: the read raises or the loop over the socket ends, and
\* frames that were not read yet are gone
Disconnected ==
    /\ loop.at \in {"dial", "serve"} /\ loop.conn \notin up
    /\ loop' = Off
    /\ toBrain' = [toBrain EXCEPT ![loop.conn] = {}]
    /\ UNCHANGED <<selfWs, stop, closing, tasks, performed, dialed, up, hello, toRelay, relayVars>>

\* Mutant: stop() only sets the event.
StopUnsevered ==
    /\ stop = "no"
    /\ stop' = IF loop.at = "serve" THEN "serving" ELSE "between"
    /\ UNCHANGED <<loop, selfWs, closing, tasks, performed, netVars, relayVars>>

Stop ==
    /\ stop = "no"
    /\ stop' = IF loop.at = "serve" THEN "serving" ELSE "between"
    /\ closing' = IF selfWs = 0 THEN closing ELSE closing \cup {selfWs}
    /\ UNCHANGED <<loop, selfWs, tasks, performed, netVars, relayVars>>

-----------------------------------------------------------------------------
(* The network                                                             *)

\* the transport of c ends; of the frames under way some are still delivered
Break(c) ==
    /\ up' = up \ {c}
    /\ \E kept \in SUBSET toBrain[c] : toBrain' = [toBrain EXCEPT ![c] = kept]
    /\ \E kept \in SUBSET toRelay[c] : toRelay' = [toRelay EXCEPT ![c] = kept]
    /\ UNCHANGED <<dialed, hello, relayVars, loop, selfWs, stop, tasks, performed>>

\* bound: only while the brain has a connection left to dial
Drop(c) ==
    /\ c \in up /\ dialed < MaxConns
    /\ Break(c)
    /\ UNCHANGED closing

\* the close that stop() scheduled
Severed(c) ==
    /\ c \in closing
    /\ closing' = closing \ {c}
    /\ IF c \in up THEN Break(c)
       ELSE UNCHANGED <<netVars, relayVars, loop, selfWs, stop, tasks, performed>>

-----------------------------------------------------------------------------
(* The relay: register()                                                   *)

\* Mutant: a brain already routed keeps its old connection.
RegisterIfFree(c) ==
    /\ c \in hello
    /\ hello' = hello \ {c}
    /\ open' = open \cup {c}
    /\ table' = IF table = 0 THEN c ELSE table
    /\ latest' = c
    /\ UNCHANGED <<brainVars, dialed, up, toBrain, toRelay, pending, phase, via, fut>>

\* the hello is read, from a socket that may have broken since: the brain is
\* routed here now, whatever it was routed to
Register(c) ==
    /\ c \in hello
    /\ hello' = hello \ {c}
    /\ open' = open \cup {c}
    /\ table' = c /\ latest' = c
    /\ UNCHANGED <<brainVars, dialed, up, toBrain, toRelay, pending, phase, via, fut>>

\* or the socket broke before the hello could be read
HelloLost(c) ==
    /\ c \in hello \ up
    /\ hello' = hello \ {c}
    /\ UNCHANGED <<brainVars, dialed, up, toBrain, toRelay, relayVars>>

\* a future is resolved once; a frame nobody waits for is dropped
Resolved(r, answer) ==
    IF fut[r] = Pending THEN [fut EXCEPT ![r] = answer] ELSE fut

\* Mutant: the frame's id is not looked at.
DeliverToAny(c, r, ok) ==
    /\ c \in open /\ <<r, ok>> \in toRelay[c]
    /\ toRelay' = [toRelay EXCEPT ![c] = @ \ {<<r, ok>>}]
    /\ \/ pending[c] = {} /\ UNCHANGED <<pending, fut>>
       \/ \E s \in pending[c] :
            /\ fut' = Resolved(s, <<r, ok>>)
            /\ pending' = [pending EXCEPT ![c] = @ \ {s}]
    /\ UNCHANGED <<brainVars, dialed, up, hello, toBrain, open, table, latest, phase, via>>

Deliver(c, r, ok) ==
    /\ c \in open /\ <<r, ok>> \in toRelay[c]
    /\ toRelay' = [toRelay EXCEPT ![c] = @ \ {<<r, ok>>}]
    /\ fut' = IF r \in pending[c] THEN Resolved(r, <<r, ok>>) ELSE fut
    /\ pending' = [pending EXCEPT ![c] = @ \ {r}]
    /\ UNCHANGED <<brainVars, dialed, up, hello, toBrain, open, table, latest, phase, via>>

Cancelled(waiting) ==
    [r \in Requests |-> IF r \in waiting /\ fut[r] = Pending THEN CancelledFuture ELSE fut[r]]

\* Mutant: the route goes whichever socket it points to.
TeardownAlways(c) ==
    /\ c \in open \ up
    /\ open' = open \ {c}
    /\ table' = 0
    /\ fut' = Cancelled(pending[c])
    /\ toRelay' = [toRelay EXCEPT ![c] = {}]
    /\ UNCHANGED <<brainVars, dialed, up, hello, toBrain, latest, pending, phase, via>>

\* the read raised: the route goes only if it is still this socket's, and every
\* call awaiting an answer on it is cancelled
Teardown(c) ==
    /\ c \in open \ up
    /\ open' = open \ {c}
    /\ table' = IF table = c THEN 0 ELSE table
    /\ fut' = Cancelled(pending[c])
    /\ toRelay' = [toRelay EXCEPT ![c] = {}]
    /\ UNCHANGED <<brainVars, dialed, up, hello, toBrain, latest, pending, phase, via>>

\* the relay keeps nothing: sockets and calls in flight go with the process
\* (bound: only while the brain has a connection left to dial)
RelayRestarts ==
    /\ dialed < MaxConns /\ dialed > 0
    /\ open' = {} /\ table' = 0 /\ latest' = 0 /\ hello' = {} /\ up' = {}
    /\ pending' = [c \in Conns |-> {}]
    /\ toRelay' = [c \in Conns |-> {}]
    /\ phase' = [r \in Requests |-> IF phase[r] \in InFlight THEN "error" ELSE phase[r]]
    /\ fut' = [r \in Requests |-> IF phase[r] \in InFlight THEN NoFuture ELSE fut[r]]
    /\ UNCHANGED <<brainVars, dialed, toBrain, via>>

-----------------------------------------------------------------------------
(* The relay: _forward()                                                   *)

To(r, step) == phase' = [phase EXCEPT ![r] = step]

Arrive(r) ==
    /\ phase[r] = "idle"
    /\ IF table = 0 THEN To(r, "offline") /\ UNCHANGED via
       ELSE To(r, "body") /\ via' = [via EXCEPT ![r] = table]
    /\ UNCHANGED <<brainVars, netVars, open, table, latest, pending, fut>>

\* the body is read on the connection chosen before it, whatever became of it
ReadBody(r) ==
    /\ phase[r] = "body"
    /\ To(r, "send")
    /\ fut' = [fut EXCEPT ![r] = Pending]
    /\ pending' = [pending EXCEPT ![via[r]] = @ \cup {r}]
    /\ UNCHANGED <<brainVars, netVars, open, table, latest, via>>

\* the client goes away while its body is read
BodyFails(r) ==
    /\ phase[r] = "body"
    /\ To(r, "error")
    /\ UNCHANGED <<brainVars, netVars, open, table, latest, pending, via, fut>>

SendFrame(r) ==
    /\ phase[r] = "send" /\ via[r] \in open
    /\ To(r, "waiting")
    /\ toBrain' = IF via[r] \in up THEN [toBrain EXCEPT ![via[r]] = @ \cup {r}] ELSE toBrain
    /\ UNCHANGED <<brainVars, dialed, up, hello, toRelay, open, table, latest, pending, via, fut>>

\* the send itself raises on a socket that is closed: no answer is awaited and
\* the entry in pending stays
SendFails(r) ==
    /\ phase[r] = "send" /\ via[r] \notin open \cap up
    /\ To(r, "error")
    /\ UNCHANGED <<brainVars, netVars, open, table, latest, pending, via, fut>>

Wake(r) ==
    /\ phase[r] = "waiting" /\ fut[r] \in Answers
    /\ To(r, "answered")
    /\ UNCHANGED <<brainVars, netVars, open, table, latest, pending, via, fut>>

\* Mutant: the future is awaited without a time limit.
ExpireWhenCancelled(r) ==
    /\ phase[r] = "waiting" /\ fut[r] = CancelledFuture
    /\ To(r, "timeout")
    /\ pending' = [pending EXCEPT ![via[r]] = @ \ {r}]
    /\ UNCHANGED <<brainVars, netVars, open, table, latest, via, fut>>

\* 60 seconds passed, the future was cancelled or the client went away: 504,
\* also when the answer was set a moment before and the call not yet resumed
Expire(r) ==
    /\ phase[r] = "waiting"
    /\ To(r, "timeout")
    /\ fut' = [fut EXCEPT ![r] = CancelledFuture]
    /\ pending' = [pending EXCEPT ![via[r]] = @ \ {r}]
    /\ UNCHANGED <<brainVars, netVars, open, table, latest, via>>

-----------------------------------------------------------------------------
Connector ==
    \/ Dial \/ Return \/ SayHello \/ Disconnected \/ Stop
    \/ \E c \in Conns, r \in Requests :
         Receive(c, r) \/ \E reached \in BOOLEAN : Handle(c, r, reached)

Network == \E c \in Conns : Drop(c) \/ Severed(c)

Server ==
    \/ RelayRestarts
    \/ \E c \in Conns : Register(c) \/ HelloLost(c) \/ Teardown(c)
    \/ \E c \in Conns, r \in Requests, ok \in BOOLEAN : Deliver(c, r, ok)
    \/ \E r \in Requests :
         \/ Arrive(r) \/ ReadBody(r) \/ BodyFails(r) \/ SendFrame(r) \/ SendFails(r)
         \/ Wake(r) \/ Expire(r)

Next == Connector \/ Network \/ Server

Spec == Init /\ [][Next]_vars

\* The event loops run what is ready; the timer of wait_for fires; a client
\* sends its body or goes away.  Nothing makes a connection break, a client
\* call or anybody call stop().
Fairness ==
    /\ WF_vars(Dial) /\ WF_vars(Return) /\ WF_vars(SayHello) /\ WF_vars(Disconnected)
    /\ \A c \in Conns :
         /\ WF_vars(Severed(c)) /\ WF_vars(Register(c) \/ HelloLost(c)) /\ WF_vars(Teardown(c))
    /\ \A r \in Requests :
         /\ WF_vars(ReadBody(r) \/ BodyFails(r))
         /\ WF_vars(SendFrame(r) \/ SendFails(r))
         /\ WF_vars(Expire(r) \/ Wake(r))

FairSpec == Spec /\ Fairness

-----------------------------------------------------------------------------
TypeOK ==
    /\ loop \in [at : {"off", "dial", "serve", "done"}, conn : {0} \cup Conns]
    /\ selfWs \in {0} \cup Conns /\ stop \in {"no", "serving", "between"}
    /\ closing \subseteq Conns
    /\ tasks \in [Conns -> SUBSET Requests] /\ performed \subseteq Requests
    /\ dialed \in {0} \cup Conns /\ up \subseteq Conns /\ hello \subseteq Conns
    /\ toBrain \in [Conns -> SUBSET Requests] /\ toRelay \in [Conns -> SUBSET Answers]
    /\ open \subseteq Conns /\ table \in {0} \cup open /\ latest \in {0} \cup Conns
    /\ pending \in [Conns -> SUBSET Requests]
    /\ phase \in [Requests -> {"idle"} \cup InFlight \cup Over]
    /\ via \in [Requests -> {0} \cup Conns]
    /\ \A r \in Requests : fut[r] \in {NoFuture, Pending, CancelledFuture} \cup Answers

\* The brain is routed to the connection it registered last, as long as that one
\* is registered: tearing down an older one, however late the relay notices its
\* loss, does not take the route away.
LatestIsRouted == \A c \in open : c = latest => table = c

\* What the client has seen of call r.  An answer made of another call's frame
\* would be none.
StatusOf(r) ==
    CASE phase[r] = "idle" -> "idle"
      [] phase[r] = "offline" -> "refused"
      [] phase[r] \in InFlight -> "open"
      [] phase[r] \in {"timeout", "error"} -> "failed"
      [] phase[r] = "answered" ->
           IF fut[r] = <<r, TRUE>> THEN "answered"
           ELSE IF fut[r] = <<r, FALSE>> THEN "failed" ELSE "mixed up"

Seen == [r \in Requests |-> StatusOf(r)]

\* The relay keeps the promise of RelayPromise, through every loss, restart,
\* time-out and late answer.
Promise == INSTANCE RelayPromise WITH status <- Seen

KeepsPromise == Promise!Spec

\* Every call a client makes through an online brain ends.
EveryCallEnds == \A r \in Requests : phase[r] \in InFlight ~> phase[r] \in Over

\* Two hellos can be read in the other order than they were sent: then an old
\* connection holds the route of the one the brain serves.
Eclipsed == \E c \in open : Serving(c) /\ c # latest

\* A brain that was not told to stop is reachable again after any loss, unless
\* its connection is eclipsed.
BrainComesBack ==
    table = 0 /\ ~Eclipsed ~> (table # 0 \/ Eclipsed \/ stop # "no")

\* stop() while a socket is served ends run(): the socket is closed under it.
StopEndsServing == stop = "serving" ~> loop.at = "done"
=============================================================================
