---------------------------- MODULE ExtractionQueue ----------------------------
(***************************************************************************)
(* The write path stores a turn and leaves its extraction to a background  *)
(* worker (extraction_queue.ThreadedQueue, started lazily by               *)
(* mcp_server._StoreBackend).  The queue lives in memory, the turn and its *)
(* extraction_status in the database: a process that dies loses the one    *)
(* and keeps the other.                                                    *)
(***************************************************************************)
EXTENDS Naturals, Sequences, SequencesExt

CONSTANTS
    MaxTurns,        \* bound: turns ever stored
    MaxFailures,     \* bound: extractions that raise
    MaxOpenFailures, \* bound: workers that cannot open the database
    MaxCrashes       \* bound: processes killed and restarted

ASSUME BoundsAssumption ==
    {MaxTurns, MaxFailures, MaxOpenFailures, MaxCrashes} \subseteq Nat

VARIABLES
    stored,     \* turns 1..stored are in the turns table
    status,     \* status[t]: extraction_status of turn t
    facts,      \* the turns whose claims are written
    main,       \* what the main thread is doing
    worker,     \* what the worker thread is doing
    q,          \* the items waiting in the queue
    taken,      \* the item the worker took, as a sequence of at most one
    unfinished, \* Queue.unfinished_tasks
    put,        \* history: turns this process enqueued, in order
    tried,      \* history: turns this process's worker finished with, in order
    spent       \* failures, open failures and crashes so far

queueVars == <<stored, status, facts, main, worker, q, taken, unfinished, put, tried, spent>>

Shutdown == 0
Turns == 1..MaxTurns

MainSteps == {"serving", "enqueue", "inline", "draining", "closing", "exited"}
WorkerSteps == {"none", "opening", "getting", "extracting", "wrote", "task_done", "dead"}

QueueInit ==
    /\ main = "serving" /\ worker = "none"
    /\ q = <<>> /\ taken = <<>> /\ unfinished = 0
    /\ put = <<>> /\ tried = <<>>
    /\ stored = 0 /\ facts = {}
    /\ status = [t \in Turns |-> "none"]
    /\ spent = [failures |-> 0, opens |-> 0, crashes |-> 0]

table == <<stored, status, facts>>
history == <<put, tried>>

Happens(kind, bound) ==
    /\ spent[kind] < bound
    /\ spent' = [spent EXCEPT ![kind] = @ + 1]

Enqueued(item) ==
    /\ q' = Append(q, item)
    /\ unfinished' = unfinished + 1

-----------------------------------------------------------------------------
(* The main thread. *)

\* The queue starts its worker when it is made, and is made once.
StartQueue == worker' = IF worker = "none" THEN "opening" ELSE worker

\* The turn is inserted with status pending; the first such store makes the queue.
StoreTurn ==
    /\ main = "serving" /\ stored < MaxTurns
    /\ main' = "enqueue"
    /\ stored' = stored + 1
    /\ status' = [status EXCEPT ![stored + 1] = "pending"]
    /\ StartQueue
    /\ UNCHANGED <<facts, q, taken, unfinished, history, spent>>

\* A turn that comes with its claims, or whose extractor is quick, is left to
\* nobody: see Extraction.
StoreInline ==
    /\ main = "serving" /\ stored < MaxTurns
    /\ main' = "inline"
    /\ stored' = stored + 1
    /\ status' = [status EXCEPT ![stored + 1] = "pending"]
    /\ UNCHANGED <<facts, worker, q, taken, unfinished, history, spent>>

Enqueue ==
    /\ main = "enqueue" /\ main' = "serving"
    /\ Enqueued(stored)
    /\ put' = Append(put, stored)
    /\ UNCHANGED <<table, worker, taken, tried, spent>>

Drain ==
    /\ main = "serving" /\ worker # "none"
    /\ main' = "draining"
    /\ UNCHANGED <<table, worker, q, taken, unfinished, history, spent>>

Drained ==
    /\ main = "draining" /\ unfinished = 0
    /\ main' = "serving"
    /\ UNCHANGED <<table, worker, q, taken, unfinished, history, spent>>

\* Mutant: the shutdown overtakes the backlog.
CloseAtOnce ==
    /\ main = "serving" /\ worker # "none"
    /\ main' = "closing"
    /\ q' = <<Shutdown>> \o q /\ unfinished' = unfinished + 1
    /\ UNCHANGED <<table, worker, taken, history, spent>>

CloseQueue ==
    /\ main = "serving" /\ worker # "none"
    /\ main' = "closing"
    /\ Enqueued(Shutdown)
    /\ UNCHANGED <<table, worker, taken, history, spent>>

\* Without a queue there is nothing to join.
Exit ==
    /\ \/ main = "closing" /\ worker = "dead"
       \/ main = "serving" /\ worker = "none"
    /\ main' = "exited"
    /\ UNCHANGED <<table, worker, q, taken, unfinished, history, spent>>

-----------------------------------------------------------------------------
(* The worker thread. *)

Worker(from, to) == worker = from /\ worker' = to

Open ==
    /\ Worker("opening", "getting")
    /\ UNCHANGED <<table, main, q, taken, unfinished, history, spent>>

\* open_database raises before the try: the thread ends with nobody to tell.
OpenFails ==
    /\ Worker("opening", "dead")
    /\ Happens("opens", MaxOpenFailures)
    /\ UNCHANGED <<table, main, q, taken, unfinished, history>>

Get ==
    /\ q # <<>>
    /\ Worker("getting", IF Head(q) = Shutdown THEN "task_done" ELSE "extracting")
    /\ taken' = <<Head(q)>> /\ q' = Tail(q)
    /\ UNCHANGED <<table, main, unfinished, history, spent>>

\* run_extraction's loop writes the claims ...
WriteFacts ==
    /\ Worker("extracting", "wrote")
    /\ facts' = facts \cup {taken[1]}
    /\ UNCHANGED <<stored, status, main, q, taken, unfinished, history, spent>>

\* ... and its last statement the status; a turn that yields none is skipped.
Finish ==
    /\ \/ Worker("wrote", "task_done") /\ status' = [status EXCEPT ![taken[1]] = "done"]
       \/ Worker("extracting", "task_done") /\ status' = [status EXCEPT ![taken[1]] = "skipped"]
    /\ tried' = Append(tried, taken[1])
    /\ UNCHANGED <<stored, facts, main, q, taken, unfinished, put, spent>>

\* Mutant: the task of a failing job is never marked done.
FailureNotCounted ==
    /\ \E from \in {"extracting", "wrote"} : Worker(from, "getting")
    /\ Happens("failures", MaxFailures)
    /\ tried' = Append(tried, taken[1]) /\ taken' = <<>>
    /\ UNCHANGED <<table, main, q, unfinished, put>>

\* An exception before the status is set is logged and swallowed.
ExtractionFails ==
    /\ \E from \in {"extracting", "wrote"} : Worker(from, "task_done")
    /\ Happens("failures", MaxFailures)
    /\ tried' = Append(tried, taken[1])
    /\ UNCHANGED <<table, main, q, taken, unfinished, put>>

TaskDone ==
    /\ Worker("task_done", IF taken[1] = Shutdown THEN "dead" ELSE "getting")
    /\ unfinished' = unfinished - 1
    /\ taken' = <<>>
    /\ UNCHANGED <<table, main, q, history, spent>>

-----------------------------------------------------------------------------
\* The process dies and another takes its place, on the same database.
ProcessDies ==
    /\ Happens("crashes", MaxCrashes)
    /\ main' = "serving" /\ worker' = "none"
    /\ q' = <<>> /\ taken' = <<>> /\ unfinished' = 0
    /\ put' = <<>> /\ tried' = <<>>
    /\ UNCHANGED table

MainNext == Enqueue \/ Drain \/ Drained \/ CloseQueue \/ Exit
-----------------------------------------------------------------------------
(* Properties. *)

QueueTypeOK ==
    /\ stored \in 0..MaxTurns /\ facts \subseteq 1..stored
    /\ status \in [Turns -> {"none", "pending", "done", "structured", "skipped"}]
    /\ main \in MainSteps /\ worker \in WorkerSteps
    /\ q \in Seq(Turns \cup {Shutdown})
    /\ taken \in Seq(Turns \cup {Shutdown}) /\ Len(taken) <= 1
    /\ unfinished \in Nat
    /\ put \in Seq(Turns) /\ tried \in Seq(Turns)
    /\ spent \in [{"failures", "opens", "crashes"} -> Nat]

\* When the server exits by closing the queue, the backlog has been worked off,
\* unless the worker never started.
CloseWorksOffBacklog ==
    main = "exited" /\ spent.opens = 0 => tried = put

\* Every turn that is enqueued is eventually worked on, also when the server
\* closes down meanwhile, unless the process dies or its worker never started.
EveryJobTried ==
    \A t \in Turns :
        Contains(put, t) ~> \/ Contains(tried, t) \/ ~Contains(put, t)
                            \/ spent.opens > 0

\* A drain eventually returns, unless the worker never started; a close does so
\* also then.
CallsReturn ==
    /\ main = "draining" ~> main # "draining" \/ spent.opens > 0
    /\ main = "closing" ~> main # "closing"
=============================================================================
