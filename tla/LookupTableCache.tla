-------------------------- MODULE LookupTableCache --------------------------
(***************************************************************************)
(* The address-lookup-table cache and the OFAC filter that reads it.       *)
(*                                                                         *)
(*  - core/src/ofac.rs: is_tx_ofac_related walks the transaction's static  *)
(*    keys, then each address-table lookup, resolving every writable and  *)
(*    readonly index in the cached table, and returns on the first denied  *)
(*    address.                                                             *)
(*  - transaction-relayer/src/main.rs: the lookup_table_refresher thread   *)
(*    calls refresh_address_lookup_table, which fetches every account of   *)
(*    the lookup-table program, upserts each one that deserializes, and    *)
(*    then retains only the keys it upserted.                              *)
(*                                                                         *)
(* The packet arm of the relayer (relayer.rs:743) evaluates the filter     *)
(* against the cache at any moment, including in the middle of a refresh. *)
(* The chain is the environment: tables are created, extended (append      *)
(* only) and closed while the refresher runs.                              *)
(***************************************************************************)
EXTENDS Naturals, Sequences, Functions

CONSTANTS
    Tables,          \* pubkeys of lookup-table accounts
    Keys,            \* account addresses
    Ofac,            \* the OFAC address set
    MaxLen,          \* bound on a table's length
    MaxChanges,      \* bound on the chain's create/extend/close steps
    MaxDecodeErrors, \* bound on the deserialization failures of a run
    Txs              \* the transactions the filter is evaluated on

ASSUME LookupTableAssumption ==
    /\ Ofac \subseteq Keys
    /\ MaxLen \in Nat /\ MaxChanges \in Nat /\ MaxDecodeErrors \in Nat
    /\ Txs \subseteq [keys : Seq(Keys),
                      lookups : Seq([table : Tables, writable : Seq(0..MaxLen),
                                     readonly : Seq(0..MaxLen)])]

\* An index is a u8 into the table's address list (0-based).
Idx == 0..MaxLen
Lookup == [table : Tables, writable : Seq(Idx), readonly : Seq(Idx)]
Tx == [keys : Seq(Keys), lookups : Seq(Lookup)]

Account == [status : {"none", "open", "closed"}, addrs : Seq(Keys)]

VARIABLES
    chain,     \* the lookup-table accounts on chain
    changes,   \* chain steps taken so far
    cache,     \* the DashMap<Pubkey, AddressLookupTableAccount>
    rpc,       \* refresher: "idle" between passes, "upsert" inside one
    fetched,   \* the accounts returned by get_program_accounts
    todo,      \* fetched accounts the for-loop has not visited yet
    newPubkeys,\* the new_pubkeys set of the current pass
    decodeErrs \* deserialization failures so far

vars == <<chain, changes, cache, rpc, fetched, todo, newPubkeys, decodeErrs>>

(***************************************************************************)
(* The filter (ofac.rs).  Each loop returns true at the first element     *)
(* that passes its test and false after the last; found[i] is whether one *)
(* of the first i elements did, so the loop returns found[Len(tests)].     *)
(***************************************************************************)
FirstHit(tests) ==
    LET found[i \in 0..Len(tests)] ==
          IF i = 0 THEN FALSE ELSE found[i - 1] \/ tests[i]
    IN  found[Len(tests)]

\* is_ofac_address_in_static_keys: .iter().any(|acc| ofac.contains(acc)).
InStaticKeys(keys) ==
    FirstHit([i \in 1..Len(keys) |-> keys[i] \in Ofac])

\* The inner loop over writable_indexes.chain(readonly_indexes):
\* addresses.get(idx) is None past the end and the index is skipped.
ScanIndexes(idxs, addrs) ==
    FirstHit([j \in 1..Len(idxs) |->
                idxs[j] < Len(addrs) /\ addrs[idxs[j] + 1] \in Ofac])

\* Mutant: the readonly indexes are not chained onto the writable ones.
WalkLookupsWritableOnly(lookups, c) ==
    FirstHit([i \in 1..Len(lookups) |->
                /\ lookups[i].table \in DOMAIN c
                /\ ScanIndexes(lookups[i].writable, c[lookups[i].table])])

\* is_ofac_address_in_lookup_table: a lookup whose table is not in the
\* cache contributes nothing.
WalkLookups(lookups, c) ==
    FirstHit([i \in 1..Len(lookups) |->
                /\ lookups[i].table \in DOMAIN c
                /\ ScanIndexes(lookups[i].writable \o lookups[i].readonly,
                               c[lookups[i].table])])

IsTxOfacRelated(tx, c) ==
    InStaticKeys(tx.keys) \/ WalkLookups(tx.lookups, c)

(***************************************************************************)
(* The refresher (main.rs).                                                *)
(***************************************************************************)
\* Mutant: new_pubkeys outlives the pass instead of being rebuilt.
RefreshFetchKeepsNewPubkeys ==
    /\ rpc = "idle"
    /\ LET live == {t \in Tables : chain[t].status = "open"} IN
         /\ fetched' = [t \in live |-> chain[t].addrs]
         /\ todo' = live
    /\ rpc' = "upsert"
    /\ UNCHANGED <<chain, changes, cache, newPubkeys, decodeErrs>>

\* One call of refresh_address_lookup_table gets past get_program_accounts:
\* it holds every account of the program at this moment.  A failed fetch
\* returns through `?` before touching the cache, a stutter.
RefreshFetch ==
    /\ rpc = "idle"
    /\ LET live == {t \in Tables : chain[t].status = "open"} IN
         /\ fetched' = [t \in live |-> chain[t].addrs]
         /\ todo' = live
    /\ newPubkeys' = {}
    /\ rpc' = "upsert"
    /\ UNCHANGED <<chain, changes, cache, decodeErrs>>

\* One iteration of the for-loop: AddressLookupTable::deserialize fails
\* (logged, skipped) or the table is inserted and its key remembered.
RefreshEntry(t) ==
    /\ rpc = "upsert" /\ t \in todo
    /\ todo' = todo \ {t}
    /\ \/ /\ decodeErrs < MaxDecodeErrors
          /\ decodeErrs' = decodeErrs + 1
          /\ UNCHANGED <<cache, newPubkeys>>
       \/ /\ newPubkeys' = newPubkeys \cup {t}
          /\ cache' = [x \in DOMAIN cache \cup {t} |->
                          IF x = t THEN fetched[t] ELSE cache[x]]
          /\ UNCHANGED decodeErrs
    /\ UNCHANGED <<chain, changes, rpc, fetched>>

\* Mutant: the pass ends without the retain.
RefreshRetainSkipped ==
    /\ rpc = "upsert" /\ todo = {}
    /\ rpc' = "idle"
    /\ UNCHANGED <<chain, changes, cache, fetched, todo, newPubkeys, decodeErrs>>

\* lookup_table.retain(|pubkey, _| new_pubkeys.contains(pubkey)).
RefreshRetain ==
    /\ rpc = "upsert" /\ todo = {}
    /\ cache' = Restrict(cache, DOMAIN cache \cap newPubkeys)
    /\ rpc' = "idle"
    /\ UNCHANGED <<chain, changes, fetched, todo, newPubkeys, decodeErrs>>

(***************************************************************************)
(* The chain: a table is created empty, extended by appending, and closed. *)
(***************************************************************************)
ChainStep(t) ==
    /\ changes < MaxChanges
    /\ changes' = changes + 1
    /\ \/ /\ chain[t].status = "none"
          /\ chain' = [chain EXCEPT ![t].status = "open"]
       \/ /\ chain[t].status = "open" /\ Len(chain[t].addrs) < MaxLen
          /\ \E k \in Keys : chain' = [chain EXCEPT ![t].addrs = Append(@, k)]
       \/ /\ chain[t].status = "open"
          /\ chain' = [chain EXCEPT ![t].status = "closed"]
    /\ UNCHANGED <<cache, rpc, fetched, todo, newPubkeys, decodeErrs>>

Init ==
    /\ chain \in [Tables -> {[status |-> "none", addrs |-> <<>>]}]
    /\ changes = 0
    /\ cache = [t \in {} |-> <<>>]
    /\ rpc = "idle"
    /\ fetched = [t \in {} |-> <<>>]
    /\ todo = {}
    /\ newPubkeys = {}
    /\ decodeErrs = 0

Next ==
    \/ RefreshFetch
    \/ \E t \in Tables : RefreshEntry(t)
    \/ RefreshRetain
    \/ \E t \in Tables : ChainStep(t)

Spec == Init /\ [][Next]_vars

\* The thread ticks every second and refreshes once refresh_duration has
\* elapsed; the fetch is assumed to succeed eventually.
FairSpec == Spec /\ WF_vars(RefreshFetch)
                 /\ \A t \in Tables : WF_vars(RefreshEntry(t))
                 /\ WF_vars(RefreshRetain)

-----------------------------------------------------------------------------
(***************************************************************************)
(* Properties                                                              *)
(***************************************************************************)
TypeOK ==
    /\ chain \in [Tables -> Account]
    /\ changes \in 0..MaxChanges
    /\ DOMAIN cache \subseteq Tables
    /\ \A t \in DOMAIN cache : cache[t] \in Seq(Keys)
    /\ rpc \in {"idle", "upsert"}
    /\ DOMAIN fetched \subseteq Tables
    /\ todo \subseteq DOMAIN fetched
    /\ newPubkeys \subseteq DOMAIN fetched
    /\ decodeErrs \in 0..MaxDecodeErrors

\* The denied addresses a transaction reaches, as spec 4.D defines them:
\* its static keys, and every in-range writable or readonly index of a
\* lookup whose table is cached.
Reached(tx, c) ==
    Range(tx.keys) \cup
    UNION { { c[l.table][i + 1] :
                i \in {i \in Range(l.writable) \cup Range(l.readonly) :
                         i < Len(c[l.table])} } :
            l \in {l \in Range(tx.lookups) : l.table \in DOMAIN c} }

\* In every state the cache passes through, including the middle of a
\* refresh, the early-returning walk of is_tx_ofac_related gives the
\* verdict spec 4.D defines on the cache's current content.
FilterMatchesSpec ==
    \A tx \in Txs : IsTxOfacRelated(tx, cache) <=> Reached(tx, cache) \cap Ofac # {}

\* The open tables as the chain holds them.
Current == [t \in {t \in Tables : chain[t].status = "open"} |-> chain[t].addrs]

\* Once the chain stops changing, refresh passes bring the cache to the
\* chain's open tables exactly: new tables and extensions are added and
\* closed tables removed by the retain.
EventuallyCurrent == <>[](cache = Current)

\* Spec 4.C: after the pass, only entries whose table was absent from the
\* fetch are removed; an entry that failed to deserialize is skipped.
RetainRemovesOnlyAbsent ==
    [][\A t \in DOMAIN cache \ DOMAIN cache' : t \notin DOMAIN fetched]_vars
=============================================================================
