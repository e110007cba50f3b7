------------------------------ MODULE MCServing ------------------------------
EXTENDS HttpServer

\* two turns of a session, one of a second session, and another tenant's turn
\* in a session of the same name; the first turn yielded two claims.  Turns 5
\* and 6 are stored later, in either tenant's namespace, and in one of the first
\* states the other tenant's turn is, too.
MCTurns == 1 .. 6
MCSessOf == <<1, 1, 2, 1, 1, 1>>
MCNsOf == <<"home", "home", "home", "work", "home", "work">>
MCTurnOf == <<1, 1, 3, 4>>
MCAlike == {<<1, 1>>, <<1, 3>>, <<3, 1>>, <<3, 3>>, <<1, 4>>, <<4, 1>>, <<4, 4>>}
MCLineOf == <<"a", "b", "c", "a">>
MCToks == [fact |-> <<1, 1, 2, 2>>, episode |-> <<2, 2, 3, 1, 2, 2>>]
MCRequests ==
    {[door |-> "context", session |-> 1, ns |-> None, history |-> FALSE],
     [door |-> "query", session |-> 1, ns |-> "home", history |-> FALSE],
     [door |-> "query", session |-> None, ns |-> "home", history |-> TRUE],
     [door |-> "query", session |-> None, ns |-> None, history |-> FALSE],
     [door |-> "hook", session |-> 1, ns |-> "home", history |-> FALSE],
     [door |-> "hook", session |-> 1, ns |-> None, history |-> FALSE]}
MCInitialStatus ==
    {[c \in 1 .. 4 |-> IF c \in old THEN "superseded" ELSE "live"] : old \in {{}, {1}, {1, 4}}}
        \cup {[c \in 1 .. 4 |-> IF c = 4 THEN "unsaid" ELSE "live"]}

\* the server's own token, and a principal's that is granted one namespace to
\* read or another to write
MCCalls == {"own", "kim"} \X {"query", "prompt", "pre_tool", "post_tool", "store", "trace", "mcp", "discover"}
MCPaths == {[token |-> c[1], path |-> c[2]] : c \in MCCalls}
Reader == [ns |-> "home", write |-> FALSE]
Writer == [ns |-> "work", write |-> TRUE]
Nobody == [k \in {"own", "kim"} |-> None]
MCFirstGrants == {Nobody, [Nobody EXCEPT !["kim"] = Reader]}
MCGrants == {"kim"} \X {Reader, Writer}

\* three tools, the first embedded by another model, or the last not yet
MCTexts == {"old", "new"}
Vector(m) == [text |-> "old", model |-> m]
MCInitialTools ==
    {[schemas |-> <<"old", "old", "old">>, embedded |-> <<Vector("mini"), None, None>>],
     [schemas |-> <<"old", "old", None>>, embedded |-> <<None, None, None>>]}
MCCosines == {-1, 1}
==============================================================================
