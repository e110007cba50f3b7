------------------------------ MODULE OAuthProofs ------------------------------
(***************************************************************************)
(* What the OAuth provider guarantees for every set of clients and however *)
(* many logins, pairs, crashes and failed writes there are: what a client  *)
(* was answered with is durable, a replaced refresh token stays out, and a *)
(* login has one session.                                                  *)
(***************************************************************************)
EXTENDS OAuth, FiniteSetTheorems, SequenceTheorems, TLAPS

OneJob == \A i, j \in job : i = j

PairsOfJobs ==
    \A j \in job : j.at \in {"rotate", "persistAccess", "persistRefresh"} => j.pair \in Minted

PairRecords == [client : Clients, login : DOMAIN asked]
JobRecords == [at : Steps, pair : {0} \cup Minted, client : Clients]

\* The types: the logs of logins and pairs, the handler in progress, the rest.
LogTypes ==
    /\ asked \in Seq(Clients) /\ Len(asked) <= MaxLogins
    /\ pairOf \in Seq(PairRecords) /\ Minted \subseteq Pairs

JobTypes == job \subseteq JobRecords /\ OneJob /\ PairsOfJobs

StateTypes ==
    /\ clients \subseteq Clients
    /\ pending \subseteq DOMAIN asked /\ codes \subseteq DOMAIN asked
    /\ access \subseteq Minted /\ refresh \subseteq Minted
    /\ db \in [clients : SUBSET Clients, access : SUBSET Minted, refresh : SUBSET Minted]
    /\ expired \in [codes : SUBSET Logins, access : SUBSET Pairs]
    /\ got \in [clients : SUBSET Clients, pairs : SUBSET Minted]
    /\ offered \subseteq Minted /\ heir \subseteq Minted \X Minted
    /\ revoked \in [access : SUBSET Minted, refresh : SUBSET Minted]
    /\ spent \in [crashes : 0 .. MaxCrashes, failures : 0 .. MaxFailures]

Types == LogTypes /\ JobTypes /\ StateTypes

Replaced == {h[1] : h \in heir}

\* What the handler in progress has done by the time it stops at a step.
JobInv ==
    \A j \in job :
        /\ j.at = "persistClient" => j.pair = 0
        /\ j.at = "rotate" => j.pair \in offered \ Replaced
        /\ j.at \in {"persistAccess", "persistRefresh"} => j.pair \notin offered
        /\ j.at = "persistRefresh" => j.pair \in db.access
        /\ j.at = "answer" /\ j.pair = 0 => j.client \in db.clients
        /\ j.at = "answer" /\ j.pair # 0 => j.pair \in db.access \cap db.refresh

\* A token whose exchange was begun is cached no more; one that was replaced is
\* out of the sidecar too.
OfferedStaysOut ==
    /\ offered \cap refresh = {}
    /\ Replaced \subseteq offered
    /\ Replaced \cap LiveRefresh = {}

\* A login whose code was not exchanged has no pair yet; of the pairs of one
\* login all but one were replaced.
OneLine ==
    /\ pending \cap codes = {}
    /\ \A k \in Minted : pairOf[k].login \notin pending \cup codes
    /\ \A k, m \in Minted \ Replaced : pairOf[k].login = pairOf[m].login => k = m

OAuthInv == JobInv /\ OfferedStaysOut /\ OneLine /\ AnsweredIsDurable

-----------------------------------------------------------------------------
(* Types. *)

LEMMA AtMostOne ==
    ASSUME NEW S, \A x, y \in S : x = y
    PROVE  IsFiniteSet(S) /\ Cardinality(S) \in {0, 1}
  <1>1. CASE S = {}
    BY <1>1, FS_EmptySet
  <1>2. CASE S # {}
    <2>1. PICK x \in S : TRUE
      BY <1>2
    <2>2. S = {x}
      BY <2>1
    <2> QED
      BY <2>2, FS_Singleton
  <1> QED
    BY <1>1, <1>2

\* A minted pair is a new one, the last; the others stay.
LEMMA Minting ==
    ASSUME NEW c \in Clients, NEW l \in DOMAIN asked, pairOf \in Seq(PairRecords), Mint(c, l)
    PROVE  /\ Len(pairOf') \in Pairs \ Minted
           /\ Minted' = Minted \cup {Len(pairOf')}
           /\ pairOf' \in Seq(PairRecords)
           /\ pairOf'[Len(pairOf')] = [client |-> c, login |-> l]
           /\ \A m \in Minted : pairOf'[m] = pairOf[m]
           /\ access' = access \cup {Len(pairOf')}
  <1> DEFINE new == [client |-> c, login |-> l]
  <1>1. new \in PairRecords
    BY DEF PairRecords
  <1>2. pairOf' = Append(pairOf, new) /\ Len(pairOf) + 1 \in Pairs
        /\ access' = access \cup {Len(pairOf) + 1}
    BY DEF Mint
  <1>3. Len(pairOf') = Len(pairOf) + 1 /\ Len(pairOf) \in Nat
    BY <1>1, <1>2
  <1>4. Minted = 1 .. Len(pairOf) /\ Minted' = 1 .. Len(pairOf')
    BY <1>1, <1>2 DEF Minted
  <1>5. pairOf' \in Seq(PairRecords)
    BY <1>1, <1>2
  <1>6. pairOf'[Len(pairOf')] = new /\ \A m \in Minted : pairOf'[m] = pairOf[m]
    BY <1>1, <1>2, <1>3, <1>4
  <1> QED
    BY <1>2, <1>3, <1>4, <1>5, <1>6

\* A login asked for is a new one, the last.
LEMMA Asking ==
    ASSUME NEW c \in Clients, asked \in Seq(Clients), asked' = Append(asked, c)
    PROVE  /\ asked' \in Seq(Clients)
           /\ Len(asked') = Len(asked) + 1
           /\ Len(asked') \notin DOMAIN asked
           /\ DOMAIN asked' = DOMAIN asked \cup {Len(asked')}
  <1>1. asked' \in Seq(Clients) /\ Len(asked') = Len(asked) + 1 /\ Len(asked) \in Nat
    OBVIOUS
  <1>2. DOMAIN asked = 1 .. Len(asked) /\ DOMAIN asked' = 1 .. Len(asked')
    BY <1>1
  <1> QED
    BY <1>1, <1>2

LEMMA TypesSuffice == Types => TypeOK
  <1> SUFFICES ASSUME Types PROVE TypeOK
    OBVIOUS
  <1>1. Cardinality(job) <= 1
    BY AtMostOne DEF Types, JobTypes, OneJob
  <1> QED
    BY <1>1 DEF Types, LogTypes, JobTypes, StateTypes, JobRecords, PairRecords, TypeOK

\* Steps that leave the logs alone, and those that mint a pair.
LEMMA LogsStay ==
    ASSUME LogTypes, UNCHANGED <<asked, pairOf>>
    PROVE  LogTypes' /\ Minted' = Minted /\ JobRecords' = JobRecords
  BY DEF LogTypes, PairRecords, JobRecords, Minted

LEMMA PairLogged ==
    ASSUME LogTypes, NEW c \in Clients, NEW l \in DOMAIN asked, Mint(c, l), UNCHANGED asked
    PROVE  /\ LogTypes' /\ Minted' = Minted \cup {Len(pairOf')}
           /\ Len(pairOf') \in Pairs \ Minted /\ access' = access \cup {Len(pairOf')}
  <1>1. PairRecords' = PairRecords
    BY DEF PairRecords
  <1> QED
    BY <1>1, Minting DEF LogTypes

\* The steps of the handler in progress.
LEMMA JobSteps ==
    ASSUME JobTypes, NEW j \in job, NEW step \in Steps, JobRecords' = JobRecords, Minted' = Minted,
           Step(j, step), step \in {"rotate", "persistAccess", "persistRefresh"} => j.pair \in Minted
    PROVE  JobTypes'
  <1>1. [j EXCEPT !.at = step] \in JobRecords /\ [j EXCEPT !.at = step].at = step
        /\ [j EXCEPT !.at = step].pair = j.pair
    BY DEF JobTypes, JobRecords
  <1> QED
    BY <1>1 DEF JobTypes, OneJob, PairsOfJobs, Step

LEMMA JobStarts ==
    ASSUME NEW step \in Steps, NEW k \in {0} \cup Minted', NEW c \in Clients, Do(step, k, c),
           step \in {"rotate", "persistAccess", "persistRefresh"} => k \in Minted'
    PROVE  JobTypes'
  BY DEF JobTypes, OneJob, PairsOfJobs, Do, JobRecords

LEMMA JobEnds == job' = None => JobTypes'
  BY DEF JobTypes, OneJob, PairsOfJobs, None

LEMMA OAuthTypeStep == Types /\ [Next]_vars => Types'
  <1> SUFFICES ASSUME LogTypes, JobTypes, StateTypes, [Next]_vars
               PROVE  LogTypes' /\ JobTypes' /\ StateTypes'
    BY DEF Types
  <1> DEFINE Goal == LogTypes' /\ JobTypes' /\ StateTypes'
  <1>0. ASSUME UNCHANGED job, JobRecords' = JobRecords, Minted' = Minted PROVE JobTypes'
    BY <1>0 DEF JobTypes, OneJob, PairsOfJobs
  <1> USE DEF memory, ghosts
  <1>1. ASSUME NEW c \in Clients, RegisterClient(c) PROVE Goal
    <2>1. UNCHANGED <<asked, pairOf>> /\ Do("persistClient", 0, c)
      BY <1>1 DEF RegisterClient
    <2> QED
      BY <1>1, <2>1, LogsStay, JobStarts DEF RegisterClient, StateTypes, Steps
  <1>2. ASSUME NEW c \in Clients, Authorize(c) PROVE Goal
    <2>1. DOMAIN asked \subseteq DOMAIN asked' /\ Len(asked') \in DOMAIN asked'
          /\ asked' \in Seq(Clients) /\ Len(asked') <= MaxLogins
      BY <1>2, Asking, OAuthBounds DEF Authorize, LogTypes
    <2>2. PairRecords \subseteq PairRecords'
      BY <2>1 DEF PairRecords
    <2>3. pairOf' = pairOf /\ Minted' = Minted /\ JobRecords' = JobRecords /\ job' = job
      BY <1>2 DEF Authorize, Minted, JobRecords
    <2>4. pairOf \in Seq(PairRecords')
      BY <2>2, SeqMonotonic DEF LogTypes
    <2>5. LogTypes'
      BY <2>1, <2>3, <2>4 DEF LogTypes, Pairs
    <2> QED
      BY <1>0, <1>2, <2>1, <2>3, <2>5 DEF Authorize, StateTypes
  <1>3. ASSUME NEW l \in Logins, CompleteLogin(l) PROVE Goal
    <2>1. UNCHANGED <<asked, pairOf, job>>
      BY <1>3 DEF CompleteLogin
    <2> QED
      BY <1>0, <1>3, <2>1, LogsStay DEF CompleteLogin, StateTypes
  <1>4. ASSUME NEW c \in Clients, NEW l \in DOMAIN asked, ExchangeCode(c, l) PROVE Goal
    <2>1. Mint(c, l) /\ UNCHANGED asked /\ Do("persistAccess", Len(pairOf'), c)
      BY <1>4 DEF ExchangeCode
    <2>2. LogTypes' /\ Minted' = Minted \cup {Len(pairOf')} /\ access' = access \cup {Len(pairOf')}
      BY <2>1, PairLogged
    <2>3. JobTypes'
      BY <2>1, <2>2, JobStarts DEF Steps
    <2> QED
      BY <1>4, <2>2, <2>3 DEF ExchangeCode, StateTypes
  <1>5. ASSUME NEW c \in Clients, NEW k \in Minted, ExchangeRefresh(c, k) PROVE Goal
    <2>1. UNCHANGED <<asked, pairOf>> /\ Do("rotate", k, c)
      BY <1>5 DEF ExchangeRefresh
    <2>2. LogTypes' /\ Minted' = Minted
      BY <2>1, LogsStay
    <2>3. JobTypes'
      BY <2>1, <2>2, JobStarts DEF Steps
    <2> QED
      BY <1>5, <2>2, <2>3 DEF ExchangeRefresh, StateTypes
  <1>6. CASE Rotate
    <2>1. PICK j \in job :
             /\ j.at = "rotate" /\ db' = [db EXCEPT !.refresh = @ \ {j.pair}]
             /\ Mint(j.client, pairOf[j.pair].login)
             /\ refresh' = refresh \cup {Len(pairOf')}
             /\ heir' = heir \cup {<<j.pair, Len(pairOf')>>}
             /\ Do("persistAccess", Len(pairOf'), j.client)
      BY <1>6 DEF Rotate
    <2>2. j.client \in Clients /\ j.pair \in Minted
      BY <2>1 DEF JobTypes, JobRecords, PairsOfJobs
    <2>3. pairOf[j.pair] \in PairRecords
      BY <2>2 DEF LogTypes, Minted
    <2>4. pairOf[j.pair].login \in DOMAIN asked /\ UNCHANGED asked
      BY <1>6, <2>3 DEF PairRecords, Rotate
    <2>5. LogTypes' /\ Minted' = Minted \cup {Len(pairOf')} /\ access' = access \cup {Len(pairOf')}
      BY <2>1, <2>2, <2>4, PairLogged
    <2>6. JobTypes'
      BY <2>1, <2>2, <2>5, JobStarts DEF Steps
    <2> QED
      BY <1>6, <2>1, <2>2, <2>5, <2>6 DEF Rotate, StateTypes
  <1>7. CASE PersistClient
    <2>1. PICK j \in job : db' = [db EXCEPT !.clients = @ \cup {j.client}] /\ Step(j, "answer")
      BY <1>7 DEF PersistClient
    <2>2. LogTypes' /\ Minted' = Minted /\ JobRecords' = JobRecords /\ UNCHANGED asked
      BY <1>7, LogsStay DEF PersistClient
    <2>3. JobTypes' /\ j.client \in Clients
      BY <2>1, <2>2, JobSteps DEF Steps, JobTypes, JobRecords
    <2> QED
      BY <1>7, <2>1, <2>2, <2>3 DEF PersistClient, StateTypes
  <1>8. CASE PersistAccess
    <2>1. PICK j \in job : j.at = "persistAccess" /\ db' = [db EXCEPT !.access = @ \cup {j.pair}]
                           /\ Step(j, "persistRefresh")
      BY <1>8 DEF PersistAccess
    <2>2. LogTypes' /\ Minted' = Minted /\ JobRecords' = JobRecords /\ UNCHANGED asked
      BY <1>8, LogsStay DEF PersistAccess
    <2>3. j.pair \in Minted
      BY <2>1 DEF JobTypes, PairsOfJobs
    <2>4. JobTypes'
      BY <2>1, <2>2, <2>3, JobSteps DEF Steps
    <2> QED
      BY <1>8, <2>1, <2>2, <2>3, <2>4 DEF PersistAccess, StateTypes
  <1>9. CASE PersistRefresh
    <2>1. PICK j \in job : j.at = "persistRefresh" /\ db' = [db EXCEPT !.refresh = @ \cup {j.pair}]
                           /\ Step(j, "answer")
      BY <1>9 DEF PersistRefresh
    <2>2. LogTypes' /\ Minted' = Minted /\ JobRecords' = JobRecords /\ UNCHANGED asked
      BY <1>9, LogsStay DEF PersistRefresh
    <2>3. j.pair \in Minted
      BY <2>1 DEF JobTypes, PairsOfJobs
    <2>4. JobTypes'
      BY <2>1, <2>2, <2>3, JobSteps DEF Steps
    <2> QED
      BY <1>9, <2>1, <2>2, <2>3, <2>4 DEF PersistRefresh, StateTypes
  <1>10. ASSUME NEW reaches \in BOOLEAN, Answer(reaches) PROVE Goal
    <2>1. LogTypes' /\ Minted' = Minted /\ JobTypes' /\ UNCHANGED asked
      BY <1>10, LogsStay, JobEnds DEF Answer
    <2>2. PICK j \in job : got' = IF ~reaches THEN got
                                  ELSE IF j.pair = 0 THEN [got EXCEPT !.clients = @ \cup {j.client}]
                                  ELSE [got EXCEPT !.pairs = @ \cup {j.pair}]
      BY <1>10 DEF Answer
    <2>3. j.client \in Clients /\ j.pair \in {0} \cup Minted
      BY DEF JobTypes, JobRecords
    <2> QED
      BY <1>10, <2>1, <2>2, <2>3 DEF Answer, StateTypes
  <1>11. ASSUME NEW k \in Minted,
                \/ VerifyAccess(k) \/ \E kind \in {"access", "refresh"} : RevokeToken(kind, k)
         PROVE  Goal
    <2>1. UNCHANGED <<asked, pairOf, job>>
      BY <1>11 DEF VerifyAccess, RevokeToken
    <2>2. LogTypes' /\ Minted' = Minted /\ JobTypes'
      BY <1>0, <2>1, LogsStay
    <2> QED
      BY <1>11, <2>1, <2>2 DEF VerifyAccess, RevokeToken, StateTypes
  <1>12. ASSUME \/ \E l \in Logins : Expire("codes", l)
                \/ \E k \in Minted : Expire("access", k)
         PROVE  Goal
    <2>1. UNCHANGED <<asked, pairOf, job>>
      BY <1>12 DEF Expire
    <2>2. LogTypes' /\ Minted' = Minted /\ JobTypes' /\ Minted \subseteq Pairs
      BY <1>0, <2>1, LogsStay DEF LogTypes
    <2> QED
      BY <1>12, <2>1, <2>2 DEF Expire, StateTypes
  <1>13. CASE WriteFails \/ Restart
    <2>1. LogTypes' /\ Minted' = Minted /\ JobTypes' /\ UNCHANGED asked
      BY <1>13, LogsStay, JobEnds DEF WriteFails, Restart
    <2>2. MaxCrashes \in Nat /\ MaxFailures \in Nat
      BY OAuthBounds
    <2>3. spent' \in [crashes : 0 .. MaxCrashes, failures : 0 .. MaxFailures]
      BY <1>13, <2>2 DEF WriteFails, Restart, StateTypes
    <2> QED
      BY <1>13, <2>1, <2>3 DEF WriteFails, Restart, StateTypes
  <1>14. CASE UNCHANGED vars
    BY <1>0, <1>14, LogsStay DEF vars, StateTypes
  <1> QED
    BY <1>1, <1>2, <1>3, <1>4, <1>5, <1>6, <1>7, <1>8, <1>9, <1>10, <1>11, <1>12, <1>13, <1>14
       DEF Next

LEMMA OAuthTypesHold == Spec => []Types
  <1>1. Init => LogTypes
    BY OAuthBounds DEF Init, LogTypes, Minted
  <1>2. Init => JobTypes
    BY DEF Init, JobTypes, OneJob, PairsOfJobs, None
  <1>3. Init => StateTypes
    BY OAuthBounds DEF Init, StateTypes
  <1>4. Init => Types
    BY <1>1, <1>2, <1>3 DEF Types
  <1> QED
    BY <1>4, OAuthTypeStep, PTL DEF Spec

\* Every variable keeps its type: no handler, crash or failed write leaves a
\* token that was never minted, or two handlers under way.
THEOREM OAuthTypeCorrect == Spec => []TypeOK
  BY OAuthTypesHold, TypesSuffice, PTL

-----------------------------------------------------------------------------
(* What the sidecar keeps. *)

LEMMA FirstsGrow ==
    ASSUME NEW H, NEW x, NEW y
    PROVE  {h[1] : h \in H \cup {<<x, y>>}} = {h[1] : h \in H} \cup {x}
  <1>1. <<x, y>>[1] = x
    OBVIOUS
  <1> QED
    BY <1>1

LEMMA OAuthInvStep == Types /\ Types' /\ OAuthInv /\ [Next]_vars => OAuthInv'
  <1> SUFFICES ASSUME Types, Types', OAuthInv, [Next]_vars PROVE OAuthInv'
    OBVIOUS
  <1>0. OneJob /\ PairsOfJobs /\ offered \subseteq Minted /\ heir \subseteq Minted \X Minted
        /\ pending \subseteq DOMAIN asked /\ codes \subseteq DOMAIN asked
        /\ refresh \subseteq Minted
    BY DEF Types, JobTypes, StateTypes
  <1>l. 0 \notin Minted /\ \A k \in Minted : pairOf[k].login \in DOMAIN asked
    <2>1. 0 \notin Minted
      BY OAuthBounds DEF Types, LogTypes, Pairs
    <2>2. \A k \in Minted : pairOf[k] \in PairRecords
      BY DEF Types, LogTypes, Minted
    <2> QED
      BY <2>1, <2>2 DEF PairRecords
  <1>d. /\ db \in [clients : SUBSET Clients, access : SUBSET Minted, refresh : SUBSET Minted]
        /\ got \in [clients : SUBSET Clients, pairs : SUBSET Minted]
        /\ revoked \in [access : SUBSET Minted, refresh : SUBSET Minted]
    BY DEF Types, StateTypes
  <1> USE <1>0, <1>l DEF OAuthInv, memory, ghosts
  <1>1. ASSUME NEW c \in Clients, RegisterClient(c) PROVE OAuthInv'
    BY <1>1 DEF RegisterClient, Do, JobInv, OfferedStaysOut, OneLine, AnsweredIsDurable, Replaced,
                LiveRefresh, Minted
  <1>2. ASSUME NEW c \in Clients, Authorize(c) PROVE OAuthInv'
    <2>1. Len(asked') \notin DOMAIN asked /\ pending' = pending \cup {Len(asked')}
      BY <1>2, Asking DEF Authorize, Types, LogTypes
    <2>2. OneLine'
      BY <1>2, <2>1 DEF Authorize, OneLine, Replaced, Minted
    <2> QED
      BY <1>2, <2>2 DEF Authorize, JobInv, OfferedStaysOut, AnsweredIsDurable, Replaced, LiveRefresh
  <1>3. ASSUME NEW l \in Logins, CompleteLogin(l) PROVE OAuthInv'
    BY <1>3 DEF CompleteLogin, JobInv, OfferedStaysOut, OneLine, AnsweredIsDurable, Replaced,
                LiveRefresh, Minted
  <1>4. ASSUME NEW c \in Clients, NEW l \in DOMAIN asked, ExchangeCode(c, l) PROVE OAuthInv'
    <2> DEFINE k == Len(pairOf')
    <2>1. /\ k \notin Minted /\ Minted' = Minted \cup {k} /\ pairOf'[k] = [client |-> c, login |-> l]
          /\ \A m \in Minted : pairOf'[m] = pairOf[m]
      BY <1>4, Minting DEF ExchangeCode, Types, LogTypes
    <2>2. k \notin offered /\ k \notin Replaced
      BY <2>1 DEF Replaced
    <2>3. JobInv'
      BY <1>4, <2>2 DEF ExchangeCode, Do, JobInv
    <2>4. OfferedStaysOut'
      BY <1>4, <2>2 DEF ExchangeCode, OfferedStaysOut, Replaced, LiveRefresh
    <2>5. OneLine'
      BY <1>4, <2>1 DEF ExchangeCode, OneLine, Replaced
    <2> QED
      BY <1>4, <2>3, <2>4, <2>5 DEF ExchangeCode, AnsweredIsDurable
  <1>5. ASSUME NEW c \in Clients, NEW k \in Minted, ExchangeRefresh(c, k) PROVE OAuthInv'
    <2>1. k \notin Replaced
      BY <1>5 DEF ExchangeRefresh, OfferedStaysOut
    <2>2. JobInv'
      BY <1>5, <2>1 DEF ExchangeRefresh, Do, JobInv, Replaced
    <2>3. OfferedStaysOut'
      BY <1>5 DEF ExchangeRefresh, OfferedStaysOut, Replaced, LiveRefresh
    <2> QED
      BY <1>5, <2>2, <2>3 DEF ExchangeRefresh, OneLine, AnsweredIsDurable, Replaced, Minted
  <1>6. CASE Rotate
    <2>1. PICK j \in job :
             /\ j.at = "rotate" /\ db' = [db EXCEPT !.refresh = @ \ {j.pair}]
             /\ Mint(j.client, pairOf[j.pair].login)
             /\ refresh' = refresh \cup {Len(pairOf')}
             /\ heir' = heir \cup {<<j.pair, Len(pairOf')>>}
             /\ Do("persistAccess", Len(pairOf'), j.client)
      BY <1>6 DEF Rotate
    <2> DEFINE k == Len(pairOf')
    <2>2. j.pair \in Minted /\ j.client \in Clients /\ j.pair \in offered \ Replaced
      BY <2>1 DEF Types, JobTypes, JobRecords, PairsOfJobs, JobInv
    <2>3. /\ k \notin Minted /\ Minted' = Minted \cup {k} /\ pairOf'[k].login = pairOf[j.pair].login
          /\ \A m \in Minted : pairOf'[m] = pairOf[m]
      <3>1. pairOf \in Seq(PairRecords)
        BY DEF Types, LogTypes
      <3>2. pairOf[j.pair].login \in DOMAIN asked /\ Mint(j.client, pairOf[j.pair].login)
        BY <2>1, <2>2
      <3>3. pairOf'[k] = [client |-> j.client, login |-> pairOf[j.pair].login]
        BY <2>2, <3>1, <3>2, Minting
      <3> QED
        BY <2>2, <3>1, <3>2, <3>3, Minting
    <2>4. Replaced' = Replaced \cup {j.pair} /\ k \notin offered
      <3>1. Replaced' = Replaced \cup {j.pair}
        BY <2>1, FirstsGrow DEF Replaced
      <3> QED
        BY <2>3, <3>1
    <2>5. JobInv'
      BY <1>6, <2>1, <2>4 DEF Rotate, Do, JobInv
    <2>6. OfferedStaysOut'
      BY <1>6, <1>d, <2>1, <2>2, <2>3, <2>4 DEF Rotate, OfferedStaysOut, LiveRefresh
    <2>7. OneLine'
      BY <1>6, <2>2, <2>3, <2>4 DEF Rotate, OneLine
    <2>8. AnsweredIsDurable'
      BY <1>6, <1>d, <2>1, <2>2 DEF Rotate, AnsweredIsDurable
    <2> QED
      BY <2>5, <2>6, <2>7, <2>8
  <1>7. CASE PersistClient
    <2>1. PICK j \in job : /\ j.at = "persistClient" /\ db' = [db EXCEPT !.clients = @ \cup {j.client}]
                           /\ Step(j, "answer")
      BY <1>7 DEF PersistClient
    <2>2. [j EXCEPT !.at = "answer"].pair = 0 /\ [j EXCEPT !.at = "answer"].client = j.client
          /\ [j EXCEPT !.at = "answer"].at = "answer"
      BY <2>1 DEF JobInv, Types, JobTypes, JobRecords
    <2>3. JobInv'
      BY <1>d, <2>1, <2>2 DEF JobInv, Step
    <2> QED
      BY <1>7, <1>d, <2>1, <2>3
         DEF PersistClient, OfferedStaysOut, OneLine, AnsweredIsDurable, Replaced, LiveRefresh, Minted
  <1>8. CASE PersistAccess
    <2>1. PICK j \in job : j.at = "persistAccess" /\ db' = [db EXCEPT !.access = @ \cup {j.pair}]
                           /\ Step(j, "persistRefresh")
      BY <1>8 DEF PersistAccess
    <2>2. [j EXCEPT !.at = "persistRefresh"].pair = j.pair
          /\ [j EXCEPT !.at = "persistRefresh"].at = "persistRefresh"
      BY DEF Types, JobTypes, JobRecords
    <2>3. JobInv'
      BY <1>8, <1>d, <2>1, <2>2 DEF PersistAccess, JobInv, Step
    <2> QED
      BY <1>8, <1>d, <2>1, <2>3
         DEF PersistAccess, OfferedStaysOut, OneLine, AnsweredIsDurable, Replaced, LiveRefresh, Minted
  <1>9. CASE PersistRefresh
    <2>1. PICK j \in job : j.at = "persistRefresh" /\ db' = [db EXCEPT !.refresh = @ \cup {j.pair}]
                           /\ Step(j, "answer")
      BY <1>9 DEF PersistRefresh
    <2>2. [j EXCEPT !.at = "answer"].pair = j.pair /\ [j EXCEPT !.at = "answer"].at = "answer"
          /\ j.pair \in Minted /\ j.pair \notin offered /\ j.pair \in db.access
      BY <2>1 DEF Types, JobTypes, JobRecords, PairsOfJobs, JobInv
    <2>3. j.pair \in db'.access /\ j.pair \in db'.refresh /\ j.pair # 0
      BY <1>d, <2>1, <2>2
    <2>5. JobInv'
      BY <2>1, <2>2, <2>3 DEF JobInv, Step
    <2>4. OfferedStaysOut'
      BY <1>9, <1>d, <2>1, <2>2 DEF PersistRefresh, OfferedStaysOut, Replaced, LiveRefresh
    <2> QED
      BY <1>9, <1>d, <2>1, <2>4, <2>5
         DEF PersistRefresh, OneLine, AnsweredIsDurable, Replaced, LiveRefresh, Minted
  <1>10. ASSUME NEW reaches \in BOOLEAN, Answer(reaches) PROVE OAuthInv'
    <2>1. PICK j \in job : /\ j.at = "answer"
                           /\ got' = IF ~reaches THEN got
                                  ELSE IF j.pair = 0 THEN [got EXCEPT !.clients = @ \cup {j.client}]
                                  ELSE [got EXCEPT !.pairs = @ \cup {j.pair}]
      BY <1>10 DEF Answer
    <2>2. AnsweredIsDurable'
      BY <1>10, <1>d, <2>1 DEF Answer, JobInv, AnsweredIsDurable
    <2> QED
      BY <1>10, <2>2
         DEF Answer, None, JobInv, OfferedStaysOut, OneLine, Replaced, LiveRefresh, Minted
  <1>11. ASSUME NEW k \in Minted, VerifyAccess(k) PROVE OAuthInv'
    BY <1>11 DEF VerifyAccess, Idle, None, JobInv, OfferedStaysOut, OneLine, AnsweredIsDurable, Replaced,
                 LiveRefresh, Minted
  <1>12. ASSUME NEW k \in Minted, NEW kind \in {"access", "refresh"}, RevokeToken(kind, k)
         PROVE  OAuthInv'
    <2>1. JobInv'
      BY <1>12 DEF RevokeToken, Idle, None, JobInv
    <2>2. AnsweredIsDurable'
      BY <1>12, <1>d DEF RevokeToken, AnsweredIsDurable
    <2>3. OfferedStaysOut'
      BY <1>12, <1>d DEF RevokeToken, OfferedStaysOut, Replaced, LiveRefresh
    <2> QED
      BY <1>12, <2>1, <2>2, <2>3 DEF RevokeToken, OneLine, Replaced, Minted
  <1>13. ASSUME NEW kind, NEW x, Expire(kind, x) PROVE OAuthInv'
    BY <1>13 DEF Expire, JobInv, OfferedStaysOut, OneLine, AnsweredIsDurable, Replaced, LiveRefresh, Minted
  <1>14. CASE WriteFails
    BY <1>14 DEF WriteFails, None, JobInv, OfferedStaysOut, OneLine, AnsweredIsDurable, Replaced,
                 LiveRefresh, Minted
  <1>15. CASE Restart
    BY <1>15 DEF Restart, None, JobInv, OfferedStaysOut, OneLine, AnsweredIsDurable, Replaced,
                 LiveRefresh, Minted
  <1>16. CASE UNCHANGED vars
    BY <1>16 DEF vars, JobInv, OfferedStaysOut, OneLine, AnsweredIsDurable, Replaced, LiveRefresh, Minted
  <1> QED
    BY <1>1, <1>2, <1>3, <1>4, <1>5, <1>6, <1>7, <1>8, <1>9, <1>10, <1>11, <1>12, <1>13, <1>14,
       <1>15, <1>16
       DEF Next

\* The inductive invariant: what a handler has committed by each of its steps,
\* that offered tokens stay out of the cache and replaced ones out of the
\* sidecar, and that the pairs of a login form one line.
THEOREM OAuthInvHolds == Spec => []OAuthInv
  <1>1. Init => OAuthInv
    BY DEF Init, OAuthInv, JobInv, OfferedStaysOut, OneLine, AnsweredIsDurable, Replaced, LiveRefresh,
           None, Minted
  <1> QED
    BY <1>1, OAuthTypesHold, OAuthInvStep, PTL DEF Spec

\* What a client was answered with outlives every restart, whichever commit of
\* whichever handler the process died before.
THEOREM AnsweredIsDurableHolds == Spec => []AnsweredIsDurable
  BY OAuthInvHolds, PTL DEF OAuthInv

\* A refresh token that was exchanged is honoured no more, by this process or
\* by one started on its sidecar.
THEOREM ReplacedStaysOutHolds == Spec => []ReplacedStaysOut
  <1>1. OAuthInv => ReplacedStaysOut
    BY DEF OAuthInv, OfferedStaysOut, Replaced, ReplacedStaysOut
  <1> QED
    BY <1>1, OAuthInvHolds, PTL

\* However often codes and refresh tokens are offered again, clients hold at
\* most one working refresh token per completed login.
THEOREM OneSessionPerLoginHolds == Spec => []OneSessionPerLogin
  <1>1. Types /\ OAuthInv => OneSessionPerLogin
    <2> SUFFICES ASSUME Types, OAuthInv, NEW l \in DOMAIN asked
                 PROVE  Cardinality({k \in got.pairs \cap LiveRefresh : pairOf[k].login = l}) <= 1
      BY DEF OneSessionPerLogin
    <2>1. \A k \in got.pairs \cap LiveRefresh : k \in Minted \ Replaced
      BY DEF Types, StateTypes, OAuthInv, OfferedStaysOut
    <2>2. \A k, m \in {q \in got.pairs \cap LiveRefresh : pairOf[q].login = l} : k = m
      BY <2>1 DEF OAuthInv, OneLine
    <2> QED
      BY <2>2, AtMostOne
  <1>2. Spec => []Types
    BY OAuthTypesHold
  <1> QED
    BY <1>1, <1>2, OAuthInvHolds, PTL
=============================================================================
