--------------------- MODULE StakedNodesUpdaterProofs ----------------------
(***************************************************************************)
(* Proofs about the staked-nodes updater for every set of identities and  *)
(* every set of RPC answers.                                               *)
(***************************************************************************)
EXTENDS StakedNodesUpdater, WellFoundedInduction, TLAPS

USE StakedNodesAssumption

(***************************************************************************)
(* collect::<HashMap<_, _>>() keeps, for every identity, the stake of its *)
(* last vote account.  BuildStakeMap names that account with CHOOSE; it    *)
(* exists because a non-empty set of indexes has a largest element, taken  *)
(* here as the least distance to the end of the answer (the less-than      *)
(* relation on Nat is well founded).                                       *)
(***************************************************************************)
LEMMA LastIndexExists ==
  \A accts \in Seq(VoteAccount) : \A n :
    (\E k \in 1..Len(accts) : accts[k].node = n) =>
      \E i \in 1..Len(accts) :
        accts[i].node = n /\ \A j \in (i + 1)..Len(accts) : accts[j].node # n
<1> SUFFICES ASSUME NEW accts \in Seq(VoteAccount), NEW n,
                    NEW k \in 1..Len(accts), accts[k].node = n
             PROVE  \E i \in 1..Len(accts) :
                      accts[i].node = n /\ \A j \in (i + 1)..Len(accts) : accts[j].node # n
  OBVIOUS
<1> DEFINE L == Len(accts)
           I == {i \in 1..L : accts[i].node = n}
           T == {L - i : i \in I}
<1>1. T \subseteq Nat /\ T # {}
  OBVIOUS
<1>2. PICK m \in T : \A y \in T : ~(<<y, m>> \in OpToRel(<, Nat))
  BY <1>1, NatLessThanWellFounded, WFMin
<1>3. \A y \in T : ~(y < m)
  BY <1>1, <1>2 DEF OpToRel
<1>4. PICK i \in I : m = L - i
  OBVIOUS
<1>5. ASSUME NEW j \in (i + 1)..L, accts[j].node = n PROVE FALSE
  <2>1. L - j \in T /\ L - j < m
    BY <1>4, <1>5
  <2>2. QED
    BY <1>3, <2>1
<1>6. QED
  BY <1>4, <1>5

\* The map the updater swaps in has only identities that parsed (the
\* unparsable key is skipped by filter_map) and a stake for each of them.
LEMMA BuildStakeMapType ==
  ASSUME NEW accts \in Seq(VoteAccount)
  PROVE  /\ DOMAIN BuildStakeMap(accts) \subseteq Nodes
         /\ \A n \in DOMAIN BuildStakeMap(accts) : BuildStakeMap(accts)[n] \in Nat
<1> DEFINE nodes == {accts[i].node : i \in 1..Len(accts)} \ {BadKey}
           last(n) == CHOOSE i \in 1..Len(accts) :
                        accts[i].node = n /\ \A j \in (i + 1)..Len(accts) : accts[j].node # n
<1>0. \A i \in 1..Len(accts) : accts[i] \in VoteAccount
  OBVIOUS
<1>1. BuildStakeMap(accts) = [n \in nodes |-> accts[last(n)].stake]
  BY DEF BuildStakeMap
<1>2. nodes \subseteq Nodes
  BY <1>0 DEF VoteAccount
<1>3. ASSUME NEW n \in nodes PROVE accts[last(n)].stake \in Nat
  <2>1. \E k \in 1..Len(accts) : accts[k].node = n
    BY <1>3
  <2>2. \E i \in 1..Len(accts) :
          accts[i].node = n /\ \A j \in (i + 1)..Len(accts) : accts[j].node # n
    BY <2>1, LastIndexExists
  <2>3. last(n) \in 1..Len(accts)
    BY <2>2, Zenon
  <2>4. QED
    BY <1>0, <2>3 DEF VoteAccount
<1>4. QED
  BY <1>1, <1>2, <1>3

-----------------------------------------------------------------------------
\* Every step of the updater thread and of the cluster keeps TypeOK.
LEMMA TypeInit == Init => TypeOK
<1> SUFFICES ASSUME Init PROVE TypeOK
  OBVIOUS
<1>1. DOMAIN shared = {}
  BY DEF Init
<1>2. due \in BOOLEAN
  BY Zenon DEF Init
<1>3. QED
  BY <1>1, <1>2 DEF Init, TypeOK

LEMMA TypeNext == TypeOK /\ [Next]_vars => TypeOK'
<1> SUFFICES ASSUME TypeOK, [Next]_vars PROVE TypeOK'
  OBVIOUS
<1> USE DEF TypeOK
<1>1. CASE Refresh
  <2>1. cluster \in Seq(VoteAccount)
    OBVIOUS
  <2>2. QED
    BY <1>1, <2>1, BuildStakeMapType DEF Refresh
<1>2. CASE RefreshFails
  BY <1>2 DEF RefreshFails
<1>3. CASE Elapse
  BY <1>3 DEF Elapse
<1>4. ASSUME NEW a \in Answers, ClusterChange(a) PROVE TypeOK'
  BY <1>4 DEF ClusterChange
<1>5. CASE UNCHANGED vars
  BY <1>5 DEF vars
<1>6. QED
  BY <1>1, <1>2, <1>3, <1>4, <1>5 DEF Next, UpdaterThread

(***************************************************************************)
(* Theorems.                                                               *)
(***************************************************************************)

\* The stake map the QUIC servers read holds only identities that parsed as
\* Pubkeys, each with a stake, whatever the RPC node answered and however
\* often get_vote_accounts failed; the failure and retry counters stay
\* within their bounds.
THEOREM StakedTypeCorrect == Spec => []TypeOK
  BY TypeInit, TypeNext, PTL DEF Spec

=============================================================================
