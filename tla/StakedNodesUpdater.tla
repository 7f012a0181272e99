------------------------- MODULE StakedNodesUpdater -------------------------
(***************************************************************************)
(* The staked_nodes_updater_thread of                                      *)
(* src/core/src/staked_nodes_updater_service.rs.  Every                    *)
(* PK_TO_STAKE_REFRESH_DURATION it fetches the vote accounts (current,     *)
(* then delinquent) from the RPC node, builds a map from validator         *)
(* identity to activated stake, and swaps it into the StakedNodes that the *)
(* QUIC servers read for stake-weighted QoS.  A failed fetch is logged and *)
(* retried after a sleep; the last map stays in place.                     *)
(*                                                                         *)
(* A vote account is a record of its node identity (or BadKey, a string    *)
(* Pubkey::from_str rejects) and its activated stake.  The RPC answer is   *)
(* the sequence current ++ delinquent.  Time is abstracted to `due`:       *)
(* last_stakes.elapsed() > PK_TO_STAKE_REFRESH_DURATION.                   *)
(***************************************************************************)
EXTENDS Naturals, Sequences, Functions

CONSTANTS
  Nodes,        \* validator identities
  BadKey,       \* a node_pubkey string that does not parse
  Answers,      \* the vote-account lists the RPC node may report
  MaxChanges,   \* bound on changes of the cluster's vote accounts
  MaxErrors     \* bound on failed get_vote_accounts calls

VoteAccount == [node : Nodes \cup {BadKey}, stake : Nat]

ASSUME StakedNodesAssumption ==
  /\ BadKey \notin Nodes
  /\ Answers \subseteq Seq(VoteAccount) /\ Answers # {}
  /\ MaxChanges \in Nat /\ MaxErrors \in Nat

VARIABLES
  cluster,   \* the vote accounts get_vote_accounts would return now
  changes,   \* cluster changes so far
  shared,    \* the stake map inside shared_staked_nodes
  due,       \* last_stakes.elapsed() > PK_TO_STAKE_REFRESH_DURATION
  errors,    \* failed fetches so far
  builtFrom  \* history: the answer the shared map was built from

vars == <<cluster, changes, shared, due, errors, builtFrom>>

\* Mutant: an unparsable node_pubkey is kept instead of skipped.
BuildStakeMapKeepsBad(accts) ==
  LET nodes == {accts[i].node : i \in 1..Len(accts)}
      last(n) == CHOOSE i \in 1..Len(accts) :
                   accts[i].node = n /\ \A j \in (i + 1)..Len(accts) : accts[j].node # n
  IN  [n \in nodes |-> accts[last(n)].stake]

\* .filter_map(Pubkey::from_str(..).ok()?).collect::<HashMap<_, _>>():
\* a later vote account of the same identity overwrites an earlier one.
BuildStakeMap(accts) ==
  LET nodes == {accts[i].node : i \in 1..Len(accts)} \ {BadKey}
      last(n) == CHOOSE i \in 1..Len(accts) :
                   accts[i].node = n /\ \A j \in (i + 1)..Len(accts) : accts[j].node # n
  IN  [n \in nodes |-> accts[last(n)].stake]

Init ==
  /\ cluster \in Answers
  /\ changes = 0
  /\ shared = [n \in {} |-> 0]     \* StakedNodes::default()
  /\ due = FALSE                   \* last_stakes = Instant::now() at start
  /\ errors = 0
  /\ builtFrom = << >>

\* try_refresh_pk_to_stake when due: get_vote_accounts succeeds, the new map
\* is swapped in under the write lock, and last_stakes = now.
Refresh ==
  /\ due
  /\ shared' = BuildStakeMap(cluster)
  /\ builtFrom' = cluster
  /\ due' = FALSE
  /\ UNCHANGED <<cluster, changes, errors>>

\* get_vote_accounts fails: warn, sleep; last_stakes is not touched, so the
\* next iteration is due again at once.
RefreshFails ==
  /\ due /\ errors < MaxErrors
  /\ errors' = errors + 1
  /\ UNCHANGED <<cluster, changes, shared, due, builtFrom>>

\* Mutant: the not-due iterations also swap in their fresh, empty map
\* (an Ok(_) arm for Ok(true)).
ElapseWipes ==
  /\ ~due
  /\ due' = TRUE
  /\ shared' = [n \in {} |-> 0]
  /\ UNCHANGED <<cluster, changes, errors, builtFrom>>

\* PK_TO_STAKE_REFRESH_DURATION passes (the not-due iterations sleep 1 s
\* and change nothing).
Elapse ==
  /\ ~due
  /\ due' = TRUE
  /\ UNCHANGED <<cluster, changes, shared, errors, builtFrom>>

ClusterChange(a) ==
  /\ changes < MaxChanges /\ a # cluster
  /\ cluster' = a
  /\ changes' = changes + 1
  /\ UNCHANGED <<shared, due, errors, builtFrom>>

UpdaterThread == Refresh \/ RefreshFails \/ Elapse

Next == UpdaterThread \/ \E a \in Answers : ClusterChange(a)

Spec == Init /\ [][Next]_vars

\* The thread loops while !exit and time passes.
FairSpec == Spec /\ WF_vars(Refresh) /\ WF_vars(Elapse)

-----------------------------------------------------------------------------
(* Properties.                                                             *)

TypeOK ==
  /\ cluster \in Answers
  /\ changes \in 0..MaxChanges
  /\ DOMAIN shared \subseteq Nodes /\ \A n \in DOMAIN shared : shared[n] \in Nat
  /\ due \in BOOLEAN
  /\ errors \in 0..MaxErrors
  /\ builtFrom \in Answers \cup {<< >>}

\* Once the cluster's vote accounts stop changing, the shared stake map
\* comes to describe them and stays so, whatever fetches failed before.
EventuallyCurrent == <>[](shared = BuildStakeMap(cluster))

\* The stake the map gives an identity is the total activated stake of its
\* vote accounts in the answer the map was built from, also when the
\* identity has several vote accounts (current and delinquent).
TotalStake(accts, n) ==
  LET f[i \in 0..Len(accts)] ==
        IF i = 0 THEN 0
        ELSE f[i - 1] + (IF accts[i].node = n THEN accts[i].stake ELSE 0)
  IN  f[Len(accts)]
StakeIsNodeTotal ==
  \A n \in DOMAIN shared : shared[n] = TotalStake(builtFrom, n)
=============================================================================
