---------------------------- MODULE AuthService ----------------------------
(***************************************************************************)
(* The challenge/response authentication of src/relayer/src/auth_service.rs *)
(* over the challenge store of src/relayer/src/auth_challenges.rs.         *)
(*                                                                         *)
(* The store is a KeyedPriorityQueue<IpAddr, Reverse<AuthChallenge>> under *)
(* a tokio Mutex: a map from IP to challenge, each method one critical     *)
(* section.  The RPC handlers run as concurrent tokio tasks; a handler     *)
(* that takes the lock more than once is split at each lock, and other     *)
(* tasks may run between its steps.  A task slot of Tasks holds one        *)
(* in-flight request.  Time is a counter; a timestamp t is expired when    *)
(* t <= now (expires_at_utc.le(now)).                                      *)
(***************************************************************************)
EXTENDS Naturals, FiniteSets

CONSTANTS
  Ips,            \* client IP addresses
  Pubkeys,        \* validator identities that may ask for a challenge
  Authorized,     \* the pubkeys validator_auther.is_authorized accepts
  Tasks,          \* concurrent request tasks
  Ids,            \* challenge strings (generate_challenge_token), all distinct
  Capacity,       \* AUTH_CHALLENGES_CAPACITY
  ChallengeTtl, AccessTtl, RefreshTtl,
  MaxTime         \* the last instant the model reaches

ASSUME AuthAssumption ==
  /\ Ips # {} /\ Pubkeys # {}
  /\ Authorized \subseteq Pubkeys
  /\ IsFiniteSet(Ids) /\ Ids \subseteq Nat \ {0}
  /\ Capacity \in Nat
  /\ {ChallengeTtl, AccessTtl, RefreshTtl, MaxTime} \subseteq Nat
  /\ RefreshTtl >= 1

Times == 0..MaxTime
Healthy == "Healthy"
Unhealthy == "Unhealthy"

\* An AuthChallenge, with the instant `at` it was made: the challenge expires
\* at at + challenge_ttl, its access claims at at + access_ttl and its
\* refresh claims at at + refresh_ttl.
Challenge == [id : Ids, pubkey : Pubkeys, at : Times]
NoChallenge == [id |-> 0, pubkey |-> CHOOSE p \in Pubkeys : TRUE, at |-> 0]
\* Claims of a signed token: expiries lie within one TTL of the instants.
MaxTtl == IF AccessTtl < RefreshTtl THEN RefreshTtl ELSE AccessTtl
Claims == [ip : Ips, pubkey : Pubkeys, exp : 0..(MaxTime + MaxTtl)]

VARIABLES
  store,     \* ip -> its AuthChallenge, for the IPs in the store
  now,       \* Utc::now()
  health,    \* the shared HealthState
  fresh,     \* challenge strings not yet handed out
  task,      \* task -> the request it is running and where it is
  access,    \* access tokens minted so far (their claims)
  refresh,   \* refresh tokens minted so far (their claims)
  minted     \* history: per token mint, the challenge it consumed and when

vars == <<store, now, health, fresh, task, access, refresh, minted>>

Idle == [op |-> "idle", pc |-> "idle", ip |-> CHOOSE i \in Ips : TRUE,
         pubkey |-> CHOOSE p \in Pubkeys : TRUE, id |-> 0, snap |-> NoChallenge]

Expired(t) == t <= now

-----------------------------------------------------------------------------
(* AuthChallenges: each method runs under the store's lock.               *)

\* len()
StoreLen == Cardinality(DOMAIN store)

\* push(ip, challenge): inserts, replacing the challenge of ip if any.
Push(ip, c) == [i \in DOMAIN store \cup {ip} |-> IF i = ip THEN c ELSE store[i]]

\* remove(ip)
Remove(ip) == [i \in DOMAIN store \ {ip} |-> store[i]]

\* remove_all_expired(), run by the expiration task at every interval tick:
\* pop the earliest-expiring challenge while it is expired.  The queue is
\* ordered by expiry, so this removes exactly the expired challenges.
RemoveAllExpired ==
  /\ store' = [i \in {j \in DOMAIN store : ~Expired(store[j].at + ChallengeTtl)}
                 |-> store[i]]
  /\ UNCHANGED <<now, health, fresh, task, access, refresh, minted>>

-----------------------------------------------------------------------------
(* generate_auth_challenge: three critical sections.                       *)

\* A new request starts on an idle task.
StartChallenge(t, ip, pk) ==
  /\ task[t].op = "idle"
  /\ task' = [task EXCEPT ![t] = [Idle EXCEPT !.op = "challenge", !.pc = "len",
                                              !.ip = ip, !.pubkey = pk]]
  /\ UNCHANGED <<store, now, health, fresh, access, refresh, minted>>

Finish(t) == task' = [task EXCEPT ![t] = Idle]

\* check_health, then len().await >= AUTH_CHALLENGES_CAPACITY.
ChallengeLen(t) ==
  /\ task[t].pc = "len"
  /\ IF health = Healthy /\ StoreLen < Capacity
       THEN task' = [task EXCEPT ![t].pc = "get"]
       ELSE Finish(t)
  /\ UNCHANGED <<store, now, health, fresh, access, refresh, minted>>

\* get_priority(ip).await: an unexpired challenge is returned as it is.
ChallengeGet(t) ==
  /\ task[t].pc = "get"
  /\ IF task[t].ip \in DOMAIN store
        /\ ~Expired(store[task[t].ip].at + ChallengeTtl)
       THEN Finish(t)
       ELSE task' = [task EXCEPT ![t].pc = "push"]
  /\ UNCHANGED <<store, now, health, fresh, access, refresh, minted>>

\* Mutant: validator_auther is not consulted.
ChallengePushUnchecked(t) ==
  /\ task[t].pc = "push"
  /\ fresh # {}
  /\ LET id == CHOOSE i \in fresh : TRUE
     IN  /\ store' = Push(task[t].ip, [id |-> id, pubkey |-> task[t].pubkey, at |-> now])
         /\ fresh' = fresh \ {id}
  /\ Finish(t)
  /\ UNCHANGED <<now, health, access, refresh, minted>>

\* The role, length and authorization checks, then a fresh challenge string
\* and push(ip, challenge).await.  (A rejected role or key length ends the
\* request like an unauthorized key: with no change of state.)
ChallengePush(t) ==
  /\ task[t].pc = "push"
  /\ IF task[t].pubkey \in Authorized
       THEN /\ fresh # {}
            /\ LET id == CHOOSE i \in fresh : TRUE
               IN  /\ store' = Push(task[t].ip,
                                    [id |-> id, pubkey |-> task[t].pubkey, at |-> now])
                   /\ fresh' = fresh \ {id}
       ELSE UNCHANGED <<store, fresh>>
  /\ Finish(t)
  /\ UNCHANGED <<now, health, access, refresh, minted>>

-----------------------------------------------------------------------------
(* generate_auth_tokens: get_priority, mint, then remove.                  *)

\* A client at ip that holds pubkey's key signs "{pubkey}-{id}".
StartTokens(t, ip, pk, id) ==
  /\ task[t].op = "idle"
  /\ task' = [task EXCEPT ![t] = [Idle EXCEPT !.op = "tokens", !.pc = "mint",
                                              !.ip = ip, !.pubkey = pk, !.id = id]]
  /\ UNCHANGED <<store, now, health, fresh, access, refresh, minted>>

\* check_health; get_priority(ip).await (no expiry check); the pubkey and
\* "{pubkey}-{challenge}" comparisons; the signature check; signing both
\* tokens with the claims of the challenge read.
TokensMint(t) ==
  /\ task[t].pc = "mint"
  /\ LET ip == task[t].ip
         c  == store[ip]
     IN  IF /\ health = Healthy
            /\ ip \in DOMAIN store
            /\ c.pubkey = task[t].pubkey
            /\ c.id = task[t].id
           THEN /\ access' = access \cup
                             {[ip |-> ip, pubkey |-> c.pubkey, exp |-> c.at + AccessTtl]}
                /\ refresh' = refresh \cup
                             {[ip |-> ip, pubkey |-> c.pubkey, exp |-> c.at + RefreshTtl]}
                /\ minted' = minted \cup {[ip |-> ip, challenge |-> c, at |-> now]}
                /\ task' = [task EXCEPT ![t].pc = "remove", ![t].snap = c]
           ELSE /\ Finish(t)
                /\ UNCHANGED <<access, refresh, minted>>
  /\ UNCHANGED <<store, now, health, fresh>>

\* remove(&client_ip).await: whatever challenge the IP has now.
TokensRemove(t) ==
  /\ task[t].pc = "remove"
  /\ store' = Remove(task[t].ip)
  /\ Finish(t)
  /\ UNCHANGED <<now, health, fresh, access, refresh, minted>>

-----------------------------------------------------------------------------
(* refresh_access_token: no lock, one step.                                *)

\* Mutant: the new access token runs from the refresh token's expiry.
RefreshAccessTokenFromExpiry(r) ==
  /\ health = Healthy
  /\ ~Expired(r.exp)
  /\ access' = access \cup {[ip |-> r.ip, pubkey |-> r.pubkey, exp |-> r.exp + AccessTtl]}
  /\ UNCHANGED <<store, now, health, fresh, task, refresh, minted>>

\* Mutant: a refresh token expiring at this very instant is still accepted.
RefreshAccessTokenLate(r) ==
  /\ health = Healthy
  /\ r.exp >= now
  /\ access' = access \cup {[ip |-> r.ip, pubkey |-> r.pubkey, exp |-> now + AccessTtl]}
  /\ UNCHANGED <<store, now, health, fresh, task, refresh, minted>>

\* A refresh token that verifies and has not expired buys a new access token
\* for its ip and pubkey, valid for access_ttl from now.
RefreshAccessToken(r) ==
  /\ health = Healthy
  /\ ~Expired(r.exp)
  /\ access' = access \cup {[ip |-> r.ip, pubkey |-> r.pubkey, exp |-> now + AccessTtl]}
  /\ UNCHANGED <<store, now, health, fresh, task, refresh, minted>>

-----------------------------------------------------------------------------
(* Environment: time and the health flag.                                  *)

Tick ==
  /\ now < MaxTime
  /\ now' = now + 1
  /\ UNCHANGED <<store, health, fresh, task, access, refresh, minted>>

HealthChange(h) ==
  /\ health' = h
  /\ UNCHANGED <<store, now, fresh, task, access, refresh, minted>>

Init ==
  /\ store = [i \in {} |-> NoChallenge]
  /\ now = 0
  /\ health = Healthy
  /\ fresh = Ids
  /\ task = [t \in Tasks |-> Idle]
  /\ access = {}
  /\ refresh = {}
  /\ minted = {}

Next ==
  \/ \E t \in Tasks :
       \/ \E ip \in Ips, pk \in Pubkeys : StartChallenge(t, ip, pk)
       \/ \E ip \in Ips, pk \in Pubkeys, id \in Ids \ fresh : StartTokens(t, ip, pk, id)
       \/ ChallengeLen(t) \/ ChallengeGet(t) \/ ChallengePush(t)
       \/ TokensMint(t) \/ TokensRemove(t)
  \/ \E r \in refresh : RefreshAccessToken(r)
  \/ RemoveAllExpired
  \/ Tick
  \/ \E h \in {Healthy, Unhealthy} : HealthChange(h)

Spec == Init /\ [][Next]_vars

-----------------------------------------------------------------------------
(* Properties.                                                             *)

Task == [op : {"idle", "challenge", "tokens"},
         pc : {"idle", "len", "get", "push", "mint", "remove"},
         ip : Ips, pubkey : Pubkeys, id : Ids \cup {0},
         snap : Challenge \cup {NoChallenge}]

TypeOK ==
  /\ DOMAIN store \subseteq Ips /\ \A i \in DOMAIN store : store[i] \in Challenge
  /\ now \in Times
  /\ health \in {Healthy, Unhealthy}
  /\ fresh \subseteq Ids
  /\ task \in [Tasks -> Task]
  /\ access \subseteq Claims /\ refresh \subseteq Claims
  /\ minted \subseteq [ip : Ips, challenge : Challenge, at : Times]

\* Tokens, minted from a challenge or from a refresh token, are only ever
\* for a pubkey validator_auther authorizes: the check made when the
\* challenge was pushed carries over to every token derived from it.
TokensOnlyForAuthorized ==
  \A a \in access \cup refresh : a.pubkey \in Authorized

\* A refresh token never buys access beyond its own expiry: every access
\* token expires before some refresh token of the same ip and pubkey
\* expires plus one access_ttl (refresh never extends the refresh token).
AccessBoundedByRefresh ==
  \A a \in access : \E r \in refresh :
    /\ r.ip = a.ip /\ r.pubkey = a.pubkey
    /\ a.exp < r.exp + AccessTtl

\* The store never holds more than AUTH_CHALLENGES_CAPACITY challenges
\* (spec 4.F: "Max size: 100,000").
StoreWithinCapacity ==
  StoreLen <= Capacity

\* Tokens are only minted from a challenge that has not expired (spec 9:
\* Issued -> consumed by TokenMint | expired -> NoChallenge).
MintedOnlyFromLiveChallenge ==
  \A m \in minted : ~(m.challenge.at + ChallengeTtl <= m.at)

\* A live challenge leaves the store only when it is consumed by its own
\* token mint, or replaced by re-issuance for its IP (spec 9).
LiveChallengeNotLost ==
  [][\A ip \in DOMAIN store :
       (/\ ~Expired(store[ip].at + ChallengeTtl)
        /\ ip \notin DOMAIN store')
         => \E t \in Tasks : task[t].pc = "remove" /\ task[t].snap = store[ip]]_vars

=============================================================================
