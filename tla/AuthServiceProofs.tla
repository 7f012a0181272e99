-------------------------- MODULE AuthServiceProofs --------------------------
(***************************************************************************)
(* Proofs about the authentication service for every set of IPs, pubkeys, *)
(* tasks and challenge strings, and every TTL and capacity.               *)
(***************************************************************************)
EXTENDS AuthService, TLAPS

USE AuthAssumption

Pcs == {"idle", "len", "get", "push", "mint", "remove"}

(***************************************************************************)
(* Lemmas about the task records the handlers update with EXCEPT.          *)
(***************************************************************************)

\* The idle task is a task.
LEMMA IdleType == Idle \in Task
<1>1. (CHOOSE i \in Ips : TRUE) \in Ips /\ (CHOOSE p \in Pubkeys : TRUE) \in Pubkeys
  OBVIOUS
<1>2. NoChallenge \in Challenge \cup {NoChallenge}
  OBVIOUS
<1>. QED
  BY <1>1, <1>2 DEF Idle, Task

\* A request started on an idle task is a task.
LEMMA StartType ==
  ASSUME NEW op \in {"challenge", "tokens"}, NEW pc \in Pcs,
         NEW ip \in Ips, NEW pk \in Pubkeys, NEW id \in Ids \cup {0}
  PROVE  /\ [Idle EXCEPT !.op = op, !.pc = pc, !.ip = ip, !.pubkey = pk] \in Task
         /\ [Idle EXCEPT !.op = op, !.pc = pc, !.ip = ip, !.pubkey = pk,
                         !.id = id] \in Task
BY IdleType, ZenonT(60) DEF Task, Pcs

\* Moving a task to another program counter keeps the task map typed.
LEMMA SetPc ==
  ASSUME NEW tk \in [Tasks -> Task], NEW t \in Tasks, NEW pc \in Pcs
  PROVE  [tk EXCEPT ![t].pc = pc] \in [Tasks -> Task]
<1>2. [tk[t] EXCEPT !.pc = pc] \in Task
  BY ZenonT(60) DEF Task, Pcs
<1>. QED
  BY <1>2, Zenon

\* The mint step records the challenge it read.
LEMMA SetPcSnap ==
  ASSUME NEW tk \in [Tasks -> Task], NEW t \in Tasks, NEW pc \in Pcs,
         NEW c \in Challenge
  PROVE  [tk EXCEPT ![t].pc = pc, ![t].snap = c] \in [Tasks -> Task]
<1>1. [[tk[t] EXCEPT !.pc = pc] EXCEPT !.snap = c] \in Task
  BY ZenonT(60) DEF Task, Pcs
<1>. QED
  BY <1>1, Zenon

(***************************************************************************)
(* Lemmas about the store's methods.                                       *)
(***************************************************************************)

\* push(ip, challenge) keeps the store a map from IPs to challenges.
LEMMA PushType ==
  ASSUME NEW s, DOMAIN s \subseteq Ips, \A i \in DOMAIN s : s[i] \in Challenge,
         NEW ip \in Ips, NEW c \in Challenge
  PROVE  LET s2 == [i \in DOMAIN s \cup {ip} |-> IF i = ip THEN c ELSE s[i]]
         IN  /\ DOMAIN s2 = DOMAIN s \cup {ip}
             /\ DOMAIN s2 \subseteq Ips
             /\ \A i \in DOMAIN s2 : s2[i] \in Challenge
             /\ s2[ip] = c
             /\ \A i \in DOMAIN s2 \ {ip} : s2[i] = s[i]
OBVIOUS

(***************************************************************************)
(* The inductive invariant.  Every challenge in the store was pushed for  *)
(* an authorized pubkey (ChallengePush consults validator_auther first),  *)
(* so a token minted from it, and every access token refreshed from such  *)
(* a token, is for an authorized pubkey.                                   *)
(***************************************************************************)
StoreAuthorized == \A i \in DOMAIN store : store[i].pubkey \in Authorized

IInv ==
  /\ TypeOK
  /\ StoreAuthorized
  /\ TokensOnlyForAuthorized
  /\ AccessBoundedByRefresh

\* The service starts with an empty store and no tokens.
LEMMA IInvInit == Init => IInv
<1> SUFFICES ASSUME Init PROVE IInv
  OBVIOUS
<1>1. task \in [Tasks -> Task]
  BY IdleType DEF Init
<1>. QED
  BY <1>1 DEF Init, IInv, TypeOK, StoreAuthorized, TokensOnlyForAuthorized,
             AccessBoundedByRefresh, Times

\* Steps that change neither the store nor the tokens keep the invariant
\* once they keep the task map typed.
LEMMA TasksOnly ==
  ASSUME IInv, task' \in [Tasks -> Task],
         UNCHANGED <<store, now, health, fresh, access, refresh, minted>>
  PROVE  IInv'
BY DEF IInv, TypeOK, StoreAuthorized, TokensOnlyForAuthorized,
       AccessBoundedByRefresh

\* Every step of the service keeps the invariant.
LEMMA IInvNext == IInv /\ [Next]_vars => IInv'
<1> SUFFICES ASSUME IInv, [Next]_vars PROVE IInv'
  OBVIOUS
<1>0. /\ task \in [Tasks -> Task]
      /\ DOMAIN store \subseteq Ips /\ \A i \in DOMAIN store : store[i] \in Challenge
      /\ now \in Times /\ fresh \subseteq Ids
      /\ access \subseteq Claims /\ refresh \subseteq Claims
  BY DEF IInv, TypeOK
<1>1. ASSUME NEW t \in Tasks, NEW ip \in Ips, NEW pk \in Pubkeys,
             StartChallenge(t, ip, pk)
      PROVE  IInv'
  <2>1. task' \in [Tasks -> Task]
    BY <1>0, <1>1, StartType DEF StartChallenge, Pcs
  <2>. QED
    BY <1>1, <2>1, TasksOnly DEF StartChallenge
<1>2. ASSUME NEW t \in Tasks, NEW ip \in Ips, NEW pk \in Pubkeys,
             NEW id \in Ids \ fresh, StartTokens(t, ip, pk, id)
      PROVE  IInv'
  <2>1. task' \in [Tasks -> Task]
    BY <1>0, <1>2, StartType DEF StartTokens, Pcs
  <2>. QED
    BY <1>2, <2>1, TasksOnly DEF StartTokens
<1>3. ASSUME NEW t \in Tasks, ChallengeLen(t) PROVE IInv'
  <2>1. task' \in [Tasks -> Task]
    <3>1. [task EXCEPT ![t].pc = "get"] \in [Tasks -> Task]
      BY <1>0, SetPc DEF Pcs
    <3>2. [task EXCEPT ![t] = Idle] \in [Tasks -> Task]
      BY <1>0, IdleType
    <3>3. task' = [task EXCEPT ![t].pc = "get"] \/ task' = [task EXCEPT ![t] = Idle]
      BY <1>3 DEF ChallengeLen, Finish
    <3>. QED
      BY <3>1, <3>2, <3>3
  <2>. QED
    BY <1>3, <2>1, TasksOnly DEF ChallengeLen
<1>4. ASSUME NEW t \in Tasks, ChallengeGet(t) PROVE IInv'
  <2>1. task' \in [Tasks -> Task]
    <3>1. [task EXCEPT ![t].pc = "push"] \in [Tasks -> Task]
      BY <1>0, SetPc DEF Pcs
    <3>2. [task EXCEPT ![t] = Idle] \in [Tasks -> Task]
      BY <1>0, IdleType
    <3>3. task' = [task EXCEPT ![t].pc = "push"] \/ task' = [task EXCEPT ![t] = Idle]
      BY <1>4 DEF ChallengeGet, Finish
    <3>. QED
      BY <3>1, <3>2, <3>3
  <2>. QED
    BY <1>4, <2>1, TasksOnly DEF ChallengeGet
<1>5. ASSUME NEW t \in Tasks, TokensRemove(t) PROVE IInv'
  <2>1. task' \in [Tasks -> Task]
    BY <1>0, <1>5, IdleType DEF TokensRemove, Finish
  <2>2. DOMAIN store' \subseteq DOMAIN store /\ \A i \in DOMAIN store' : store'[i] = store[i]
    BY <1>5 DEF TokensRemove, Remove
  <2>. QED
    BY <1>0, <1>5, <2>1, <2>2 DEF TokensRemove, IInv, TypeOK, StoreAuthorized,
       TokensOnlyForAuthorized, AccessBoundedByRefresh
<1>6. CASE RemoveAllExpired
  <2>1. DOMAIN store' \subseteq DOMAIN store /\ \A i \in DOMAIN store' : store'[i] = store[i]
    BY <1>6 DEF RemoveAllExpired
  <2>. QED
    BY <1>0, <1>6, <2>1 DEF RemoveAllExpired, IInv, TypeOK, StoreAuthorized,
       TokensOnlyForAuthorized, AccessBoundedByRefresh
<1>7. CASE Tick
  BY <1>7 DEF Tick, IInv, TypeOK, StoreAuthorized, TokensOnlyForAuthorized,
     AccessBoundedByRefresh, Times
<1>8. ASSUME NEW h \in {Healthy, Unhealthy}, HealthChange(h) PROVE IInv'
  BY <1>8 DEF HealthChange, IInv, TypeOK, StoreAuthorized, TokensOnlyForAuthorized,
     AccessBoundedByRefresh
<1>9. CASE UNCHANGED vars
  BY <1>9 DEF vars, IInv, TypeOK, StoreAuthorized, TokensOnlyForAuthorized,
     AccessBoundedByRefresh
<1>10. ASSUME NEW t \in Tasks, ChallengePush(t) PROVE IInv'
  <2>1. task' \in [Tasks -> Task]
    BY <1>0, <1>10, IdleType DEF ChallengePush, Finish
  <2>2. CASE task[t].pubkey \notin Authorized
    BY <1>10, <2>1, <2>2, TasksOnly DEF ChallengePush
  <2>3. CASE task[t].pubkey \in Authorized
    <3> DEFINE id == CHOOSE i \in fresh : TRUE
               c == [id |-> id, pubkey |-> task[t].pubkey, at |-> now]
    <3>1. fresh # {} /\ store' = Push(task[t].ip, c)
      BY <1>10, <2>3 DEF ChallengePush
    <3>2. c \in Challenge /\ task[t].ip \in Ips
      BY <1>0, <3>1 DEF Challenge, Task
    <3>3. /\ DOMAIN store' = DOMAIN store \cup {task[t].ip}
          /\ DOMAIN store' \subseteq Ips
          /\ \A i \in DOMAIN store' : store'[i] \in Challenge
          /\ store'[task[t].ip] = c
          /\ \A i \in DOMAIN store' \ {task[t].ip} : store'[i] = store[i]
      BY <1>0, <3>1, <3>2, PushType DEF Push
    <3>4. StoreAuthorized'
      BY <2>3, <3>3 DEF IInv, StoreAuthorized
    <3>5. fresh' \subseteq Ids
      BY <1>0, <1>10, <2>3 DEF ChallengePush
    <3>. QED
      BY <1>10, <2>1, <3>3, <3>4, <3>5 DEF ChallengePush, IInv, TypeOK,
         TokensOnlyForAuthorized, AccessBoundedByRefresh
  <2>. QED
    BY <2>2, <2>3
<1>11. ASSUME NEW r \in refresh, RefreshAccessToken(r) PROVE IInv'
  <2> DEFINE a == [ip |-> r.ip, pubkey |-> r.pubkey, exp |-> now + AccessTtl]
  <2>1. access' = access \cup {a} /\ now < r.exp
    BY <1>0, <1>11 DEF RefreshAccessToken, Expired, Claims, Times
  <2>2. a \in Claims
    BY <1>0 DEF Claims, Times, MaxTtl
  <2>3. a.exp < r.exp + AccessTtl
    BY <2>1, <1>0 DEF Claims, Times
  <2>. QED
    BY <1>11, <2>1, <2>2, <2>3 DEF RefreshAccessToken, IInv, TypeOK,
       StoreAuthorized, TokensOnlyForAuthorized, AccessBoundedByRefresh
<1>12. ASSUME NEW t \in Tasks, TokensMint(t) PROVE IInv'
  <2> DEFINE ip == task[t].ip
             c == store[ip]
             ac == [ip |-> ip, pubkey |-> c.pubkey, exp |-> c.at + AccessTtl]
             rf == [ip |-> ip, pubkey |-> c.pubkey, exp |-> c.at + RefreshTtl]
             mt == [ip |-> ip, challenge |-> c, at |-> now]
  <2>1. CASE ~(/\ health = Healthy /\ ip \in DOMAIN store
               /\ c.pubkey = task[t].pubkey /\ c.id = task[t].id)
    <3>1. task' = [task EXCEPT ![t] = Idle]
      BY <1>12, <2>1 DEF TokensMint, Finish
    <3>2. task' \in [Tasks -> Task]
      BY <1>0, <3>1, IdleType
    <3>. QED
      BY <1>12, <2>1, <3>2, TasksOnly DEF TokensMint
  <2>2. CASE /\ health = Healthy /\ ip \in DOMAIN store
             /\ c.pubkey = task[t].pubkey /\ c.id = task[t].id
    <3>1. /\ access' = access \cup {ac}
          /\ refresh' = refresh \cup {rf}
          /\ minted' = minted \cup {mt}
          /\ task' = [task EXCEPT ![t].pc = "remove", ![t].snap = c]
          /\ UNCHANGED <<store, now, health, fresh>>
      BY <1>12, <2>2 DEF TokensMint
    <3>2. c \in Challenge /\ ip \in Ips /\ c.pubkey \in Authorized
      BY <1>0, <2>2 DEF IInv, StoreAuthorized
    <3>3. task' \in [Tasks -> Task]
      BY <1>0, <3>1, <3>2, SetPcSnap DEF Pcs
    <3>4. ac \in Claims /\ rf \in Claims /\ mt \in [ip : Ips, challenge : Challenge, at : Times]
      BY <1>0, <3>2 DEF Challenge, Claims, Times, MaxTtl
    <3>5. ac.exp < rf.exp + AccessTtl
      BY <3>2, AuthAssumption DEF Challenge, Times
    <3>6. AccessBoundedByRefresh'
      <4> SUFFICES ASSUME NEW a \in access'
                   PROVE  \E r \in refresh' : /\ r.ip = a.ip /\ r.pubkey = a.pubkey
                                              /\ a.exp < r.exp + AccessTtl
        BY DEF AccessBoundedByRefresh
      <4>1. CASE a = ac
        BY <3>1, <3>5, <4>1
      <4>2. CASE a \in access
        BY <3>1, <4>2 DEF IInv, AccessBoundedByRefresh
      <4>. QED
        BY <3>1, <4>1, <4>2
    <3>7. TokensOnlyForAuthorized'
      BY <3>1, <3>2 DEF IInv, TokensOnlyForAuthorized
    <3>. QED
      BY <1>0, <3>1, <3>3, <3>4, <3>6, <3>7 DEF IInv, TypeOK, StoreAuthorized
  <2>. QED
    BY <2>1, <2>2
<1>13. QED
  BY <1>1, <1>2, <1>3, <1>4, <1>5, <1>6, <1>7, <1>8, <1>9, <1>10, <1>11,
     <1>12 DEF Next

\* Every reachable state of the service is well typed: the store maps IPs
\* to challenges and every token's expiry lies within one TTL of the clock.
THEOREM AuthTypeCorrect == Spec => []TypeOK
<1>1. IInv => TypeOK
  BY DEF IInv
<1>. QED
  BY <1>1, IInvInit, IInvNext, PTL DEF Spec

\* generate_auth_tokens and refresh_access_token only ever issue tokens for
\* a pubkey validator_auther authorizes, however the request tasks
\* interleave around the store's lock.
THEOREM TokensOnlyForAuthorizedThm == Spec => []TokensOnlyForAuthorized
<1>1. IInv => TokensOnlyForAuthorized
  BY DEF IInv
<1>. QED
  BY <1>1, IInvInit, IInvNext, PTL DEF Spec

\* refresh_access_token never buys access past the refresh token it was
\* given: every access token expires within access_ttl of the expiry of a
\* refresh token of the same ip and pubkey (needs refresh_ttl >= 1).
THEOREM AccessBoundedByRefreshThm == Spec => []AccessBoundedByRefresh
<1>1. IInv => AccessBoundedByRefresh
  BY DEF IInv
<1>. QED
  BY <1>1, IInvInit, IInvNext, PTL DEF Spec
=============================================================================
