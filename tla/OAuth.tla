-------------------------------- MODULE OAuth --------------------------------
(***************************************************************************)
(* MemContextOAuthProvider (mcp_oauth.py): clients, logins, authorization  *)
(* codes and token pairs, kept in memory and, for what has to outlive a    *)
(* restart, in a SQLite sidecar committed one write at a time.             *)
(*                                                                         *)
(* No handler awaits anything between its first and its last step, so the  *)
(* event loop runs one at a time: job is that handler, stopped between two *)
(* of its commits, where the process may die or the write may fail.        *)
(*                                                                         *)
(* A login stands for its rid and, once completed, for its code.  A pair k *)
(* stands for the access token and the refresh token minted together.  The *)
(* password page and its back-off are not modelled: logging in succeeds or *)
(* does not happen.                                                        *)
(***************************************************************************)
EXTENDS Naturals, FiniteSets, Sequences

CONSTANTS
    Clients,
    MaxLogins,   \* bound: authorization requests
    MaxPairs,    \* bound: token pairs minted
    MaxCrashes,  \* bound: restarts of the server
    MaxFailures  \* bound: sidecar writes that fail

ASSUME OAuthBounds == {MaxLogins, MaxPairs, MaxCrashes, MaxFailures} \subseteq Nat

Logins == 1 .. MaxLogins
Pairs == 1 .. MaxPairs

VARIABLES
    clients,  \* _clients: registrations cached
    asked,    \* asked[l]: the client whose authorization request l is, if made
    pending,  \* _pending: logins not completed
    codes,    \* _codes: logins whose code is not exchanged
    pairOf,   \* pairOf[k]: [client, login] of the pairs minted
    access,   \* _access: access tokens cached
    refresh,  \* _refresh: refresh tokens cached
    db,       \* the sidecar's tables: [clients, access, refresh]
    expired,  \* [codes, access]: those whose time is over
    job,      \* the handler in progress, a set of at most one
    got,      \* [clients, pairs]: what clients were answered with
    offered,  \* refresh tokens whose exchange was begun
    heir,     \* <<old, new>>: refresh token old was exchanged for pair new
    revoked,  \* [access, refresh]: tokens revoked
    spent     \* [crashes, failures] so far

memory == <<clients, pending, codes, access, refresh>>
ghosts == <<got, offered, heir, revoked>>
vars == <<memory, asked, pairOf, db, expired, job, ghosts, spent>>

Minted == DOMAIN pairOf
None == {}
Idle == job = None

Init ==
    /\ clients = {} /\ pending = {} /\ codes = {} /\ access = {} /\ refresh = {}
    /\ asked = <<>> /\ pairOf = <<>>
    /\ db = [clients |-> {}, access |-> {}, refresh |-> {}]
    /\ expired = [codes |-> {}, access |-> {}]
    /\ job = None
    /\ got = [clients |-> {}, pairs |-> {}]
    /\ offered = {} /\ heir = {} /\ revoked = [access |-> {}, refresh |-> {}]
    /\ spent = [crashes |-> 0, failures |-> 0]

\* what a lookup finds: the cache, else the sidecar
KnownClients == clients \cup db.clients
LiveRefresh == refresh \cup db.refresh
LiveAccess == (access \cup db.access) \ expired.access

Do(step, k, c) == job' = {[at |-> step, pair |-> k, client |-> c]}
Step(j, step) == job' = {[j EXCEPT !.at = step]}

-----------------------------------------------------------------------------
(* Registration and login                                                  *)

RegisterClient(c) ==
    /\ Idle /\ c \notin clients
    /\ clients' = clients \cup {c}
    /\ Do("persistClient", 0, c)
    /\ UNCHANGED <<pending, codes, access, refresh, asked, pairOf, db, expired, ghosts, spent>>

PersistClient ==
    \E j \in job :
        /\ j.at = "persistClient"
        /\ db' = [db EXCEPT !.clients = @ \cup {j.client}]
        /\ Step(j, "answer")
        /\ UNCHANGED <<memory, asked, pairOf, expired, ghosts, spent>>

\* get_client caches what it reads from the sidecar
Authorize(c) ==
    /\ Idle /\ c \in KnownClients /\ Len(asked) < MaxLogins
    /\ clients' = clients \cup {c}
    /\ asked' = Append(asked, c)
    /\ pending' = pending \cup {Len(asked')}
    /\ UNCHANGED <<codes, access, refresh, pairOf, db, expired, job, ghosts, spent>>

CompleteLogin(l) ==
    /\ Idle /\ l \in pending
    /\ pending' = pending \ {l}
    /\ codes' = codes \cup {l}
    /\ UNCHANGED <<clients, access, refresh, asked, pairOf, db, expired, job, ghosts, spent>>

-----------------------------------------------------------------------------
(* Codes and refresh tokens exchanged for a pair                           *)

\* a new pair, in the caches first
Mint(c, l) ==
    LET k == Len(pairOf) + 1 IN
    /\ k \in Pairs
    /\ pairOf' = Append(pairOf, [client |-> c, login |-> l])
    /\ access' = access \cup {k}

\* Mutant: the code is not taken out of _codes.
ExchangeCodeAgain(c, l) ==
    /\ Idle /\ c \in KnownClients
    /\ l \in codes \ expired.codes /\ asked[l] = c
    /\ clients' = clients \cup {c}
    /\ Mint(c, l)
    /\ refresh' = refresh \cup {Len(pairOf')}
    /\ Do("persistAccess", Len(pairOf'), c)
    /\ UNCHANGED <<codes, pending, asked, db, expired, ghosts, spent>>

\* load_authorization_code, then exchange_authorization_code
ExchangeCode(c, l) ==
    /\ Idle /\ c \in KnownClients
    /\ l \in codes \ expired.codes /\ asked[l] = c
    /\ clients' = clients \cup {c}
    /\ codes' = codes \ {l}
    /\ Mint(c, l)
    /\ refresh' = refresh \cup {Len(pairOf')}
    /\ Do("persistAccess", Len(pairOf'), c)
    /\ UNCHANGED <<pending, asked, db, expired, ghosts, spent>>

\* load_refresh_token, then the first line of exchange_refresh_token
ExchangeRefresh(c, k) ==
    /\ Idle /\ c \in KnownClients
    /\ k \in LiveRefresh /\ pairOf[k].client = c
    /\ Len(pairOf) < MaxPairs
    /\ clients' = clients \cup {c}
    /\ refresh' = refresh \ {k}
    /\ offered' = offered \cup {k}
    /\ Do("rotate", k, c)
    /\ UNCHANGED <<pending, codes, access, asked, pairOf, db, expired, got, heir, revoked, spent>>

\* Mutant: the old refresh token is dropped from the cache only.
RotateInMemory ==
    \E j \in job :
        /\ j.at = "rotate"
        /\ Mint(j.client, pairOf[j.pair].login)
        /\ refresh' = refresh \cup {Len(pairOf')}
        /\ heir' = heir \cup {<<j.pair, Len(pairOf')>>}
        /\ Do("persistAccess", Len(pairOf'), j.client)
        /\ UNCHANGED <<clients, pending, codes, asked, db, expired, got, offered, revoked, spent>>

\* the old token is deleted from the sidecar, in a commit of its own, and only
\* then is its heir minted
Rotate ==
    \E j \in job :
        /\ j.at = "rotate"
        /\ db' = [db EXCEPT !.refresh = @ \ {j.pair}]
        /\ Mint(j.client, pairOf[j.pair].login)
        /\ refresh' = refresh \cup {Len(pairOf')}
        /\ heir' = heir \cup {<<j.pair, Len(pairOf')>>}
        /\ Do("persistAccess", Len(pairOf'), j.client)
        /\ UNCHANGED <<clients, pending, codes, asked, expired, got, offered, revoked, spent>>

\* Mutant: the client is answered before its refresh token is durable.
PersistAccessOnly ==
    \E j \in job :
        /\ j.at = "persistAccess"
        /\ db' = [db EXCEPT !.access = @ \cup {j.pair}]
        /\ Step(j, "answer")
        /\ UNCHANGED <<memory, asked, pairOf, expired, ghosts, spent>>

PersistAccess ==
    \E j \in job :
        /\ j.at = "persistAccess"
        /\ db' = [db EXCEPT !.access = @ \cup {j.pair}]
        /\ Step(j, "persistRefresh")
        /\ UNCHANGED <<memory, asked, pairOf, expired, ghosts, spent>>

PersistRefresh ==
    \E j \in job :
        /\ j.at = "persistRefresh"
        /\ db' = [db EXCEPT !.refresh = @ \cup {j.pair}]
        /\ Step(j, "answer")
        /\ UNCHANGED <<memory, asked, pairOf, expired, ghosts, spent>>

\* the answer reaches the client, or the client is gone
Answer(reaches) ==
    \E j \in job :
        /\ j.at = "answer"
        /\ got' = IF ~reaches THEN got
                  ELSE IF j.pair = 0 THEN [got EXCEPT !.clients = @ \cup {j.client}]
                  ELSE [got EXCEPT !.pairs = @ \cup {j.pair}]
        /\ job' = None
        /\ UNCHANGED <<memory, asked, pairOf, db, expired, offered, heir, revoked, spent>>

-----------------------------------------------------------------------------
(* Verification, revocation, time and failure                              *)

\* load_access_token; what it reads from the sidecar it caches
VerifyAccess(k) ==
    /\ Idle /\ k \in LiveAccess
    /\ access' = access \cup {k}
    /\ UNCHANGED <<clients, pending, codes, refresh, asked, pairOf, db, expired, job, ghosts, spent>>

\* revoke_token takes the one token it is given out of the caches and of both
\* tables; the token minted with it stays
RevokeToken(kind, k) ==
    /\ Idle /\ k \in IF kind = "access" THEN LiveAccess ELSE LiveRefresh
    /\ access' = IF kind = "access" THEN access \ {k} ELSE access
    /\ refresh' = IF kind = "refresh" THEN refresh \ {k} ELSE refresh
    /\ db' = [db EXCEPT ![kind] = @ \ {k}]
    /\ revoked' = [revoked EXCEPT ![kind] = @ \cup {k}]
    /\ UNCHANGED <<clients, pending, codes, asked, pairOf, expired, job, got, offered, heir, spent>>

\* time passes; refresh tokens do not expire
Expire(kind, x) ==
    /\ x \in (IF kind = "codes" THEN codes ELSE Minted) \ expired[kind]
    /\ expired' = [expired EXCEPT ![kind] = @ \cup {x}]
    /\ UNCHANGED <<memory, asked, pairOf, db, job, ghosts, spent>>

\* a write to the sidecar raises: the request ends with an error, and what the
\* handler did in memory stays
WriteFails ==
    \E j \in job :
        /\ j.at # "answer"
        /\ spent.failures < MaxFailures
        /\ spent' = [spent EXCEPT !.failures = @ + 1]
        /\ job' = None
        /\ UNCHANGED <<memory, asked, pairOf, db, expired, ghosts>>

\* the process dies anywhere and starts again with what the sidecar holds
Restart ==
    /\ spent.crashes < MaxCrashes
    /\ spent' = [spent EXCEPT !.crashes = @ + 1]
    /\ clients' = {} /\ pending' = {} /\ codes' = {} /\ access' = {} /\ refresh' = {}
    /\ job' = None
    /\ UNCHANGED <<asked, pairOf, db, expired, ghosts>>

Next ==
    \/ \E c \in Clients : RegisterClient(c) \/ Authorize(c)
    \/ \E l \in Logins : CompleteLogin(l)
    \/ \E c \in Clients, l \in DOMAIN asked : ExchangeCode(c, l)
    \/ \E c \in Clients, k \in Minted : ExchangeRefresh(c, k)
    \/ PersistClient \/ Rotate \/ PersistAccess \/ PersistRefresh
    \/ \E reaches \in BOOLEAN : Answer(reaches)
    \/ \E k \in Minted :
         VerifyAccess(k) \/ \E kind \in {"access", "refresh"} : RevokeToken(kind, k)
    \/ \E l \in Logins : Expire("codes", l)
    \/ \E k \in Minted : Expire("access", k)
    \/ WriteFails \/ Restart

Spec == Init /\ [][Next]_vars

-----------------------------------------------------------------------------
Steps == {"persistClient", "rotate", "persistAccess", "persistRefresh", "answer"}

TypeOK ==
    /\ clients \subseteq Clients
    /\ asked \in Seq(Clients) /\ Len(asked) <= MaxLogins
    /\ pending \subseteq DOMAIN asked /\ codes \subseteq DOMAIN asked
    /\ pairOf \in Seq([client : Clients, login : DOMAIN asked])
    /\ access \subseteq Minted /\ refresh \subseteq Minted
    /\ db \in [clients : SUBSET Clients, access : SUBSET Minted, refresh : SUBSET Minted]
    /\ expired \in [codes : SUBSET Logins, access : SUBSET Pairs]
    /\ job \subseteq [at : Steps, pair : {0} \cup Minted, client : Clients] /\ Cardinality(job) <= 1
    /\ got.clients \subseteq Clients /\ got.pairs \subseteq Minted
    /\ offered \subseteq Minted /\ heir \subseteq Minted \X Minted
    /\ revoked \in [access : SUBSET Minted, refresh : SUBSET Minted]
    /\ spent.crashes \in 0 .. MaxCrashes /\ spent.failures \in 0 .. MaxFailures

\* What a client was answered with outlives every restart: its registration, its
\* access token until it expires, its refresh token until it is offered for
\* exchange or revoked ("a restart does NOT log every client out", says the class;
\* that "tokens live in memory (a restart invalidates them)", as the head of the
\* file still has it, is true only of a provider without a sidecar, not modelled).
AnsweredIsDurable ==
    /\ got.clients \subseteq db.clients
    /\ \A k \in got.pairs :
         /\ k \in db.access \cup revoked.access
         /\ k \in db.refresh \cup revoked.refresh \cup offered

\* A refresh token whose exchange was answered is never honoured again, by this
\* process or by one started on its sidecar.
ReplacedStaysOut ==
    \A h \in heir : h[2] \in got.pairs => h[1] \notin LiveRefresh

\* However often codes and refresh tokens are offered again, clients hold at most
\* one refresh token that works per completed login.
OneSessionPerLogin ==
    \A l \in DOMAIN asked :
        Cardinality({k \in got.pairs \cap LiveRefresh : pairOf[k].login = l}) <= 1

=============================================================================
