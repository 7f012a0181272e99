----------------------- MODULE LookupTableCacheProofs -----------------------
(***************************************************************************)
(* Proofs about the OFAC filter of ofac.rs and the lookup-table refresher *)
(* of main.rs, for every set of tables, keys and transactions that        *)
(* satisfies LookupTableAssumption.                                        *)
(***************************************************************************)
EXTENDS LookupTableCache, WellFoundedInduction, TLAPS

USE LookupTableAssumption

-----------------------------------------------------------------------------
(* The early-returning loops of ofac.rs.                                   *)

\* Every non-empty set of naturals has a least element: the proofs about the
\* loops pick the first index where a claim fails.
LEMMA LeastNat ==
  \A T \in SUBSET Nat : T # {} => \E m \in T : \A k \in T : ~(k < m)
<1> SUFFICES ASSUME NEW T \in SUBSET Nat, T # {}
             PROVE  \E m \in T : \A k \in T : ~(k < m)
  OBVIOUS
<1>1. PICK m \in T : \A k \in T : ~(<<k, m>> \in OpToRel(<, Nat))
  BY NatLessThanWellFounded, WFMin
<1> QED  BY <1>1 DEF OpToRel

\* One iteration of a loop that returns at the first passing test, with the
\* verdict so far as the function g: the shape of found in FirstHit.
HitStep(tests, g, i) == IF i = 0 THEN FALSE ELSE g[i - 1] \/ tests[i]

\* FirstHit is the last entry of the function found.
LEMMA FirstHitIsFound ==
  ASSUME NEW tests
  PROVE  FirstHit(tests) =
           (CHOOSE f : f = [i \in 0..Len(tests) |-> HitStep(tests, f, i)])[Len(tests)]
BY DEF FirstHit, HitStep

\* The loop has a verdict after each element: the recursive function found
\* exists.
LEMMA FoundExists ==
  ASSUME NEW tests \in Seq(BOOLEAN)
  PROVE  \E f : f = [i \in 0..Len(tests) |-> HitStep(tests, f, i)]
<1> DEFINE Ok(n, g) == /\ g \in [0..n -> BOOLEAN]
                       /\ \A i \in 0..n : g[i] = HitStep(tests, g, i)
           T == {n \in 0..Len(tests) : ~\E g : Ok(n, g)}
<1>1. T = {}
  <2> SUFFICES ASSUME T # {} PROVE FALSE
    OBVIOUS
  <2>0. T \in SUBSET Nat
    OBVIOUS
  <2>1. PICK m \in T : \A k \in T : ~(k < m)
    BY <2>0, LeastNat
  <2>2. CASE m = 0
    <3> DEFINE g0 == [i \in 0..0 |-> FALSE]
    <3>1. Ok(0, g0)
      BY DEF HitStep
    <3> QED  BY <2>1, <2>2, <3>1
  <2>3. CASE m # 0
    <3>1. m - 1 \in 0..Len(tests) /\ m - 1 < m
      BY <2>1, <2>3
    <3>0. m - 1 \notin T
      BY <2>1, <3>1, Zenon
    <3>2. PICK g : Ok(m - 1, g)
      BY <3>0, <3>1, Zenon
    <3> DEFINE h == [i \in 0..m |-> IF i < m THEN g[i] ELSE HitStep(tests, g, m)]
    <3>3. m \in 1..Len(tests)
      BY <2>1, <2>3
    <3>4. HitStep(tests, g, m) \in BOOLEAN
      <4>1. g[m - 1] \in BOOLEAN /\ tests[m] \in BOOLEAN
        BY <3>2, <3>3
      <4> QED  BY <3>3, <4>1, Zenon DEF HitStep
    <3>5. h \in [0..m -> BOOLEAN]
      BY <3>2, <3>4
    <3>6. ASSUME NEW i \in 0..m PROVE h[i] = HitStep(tests, h, i)
      <4>1. CASE i = 0
        <5>1. h[0] = g[0] /\ 0 \in 0..(m - 1)
          BY <2>3, <3>3
        <5> QED  BY <4>1, <5>1, <3>2 DEF HitStep
      <4>2. CASE i \in 1..(m - 1)
        <5>1. h[i] = g[i] /\ h[i - 1] = g[i - 1]
          BY <4>2
        <5>2. g[i] = HitStep(tests, g, i)
          BY <3>2, <4>2
        <5> QED  BY <5>1, <5>2 DEF HitStep
      <4>3. CASE i = m
        <5>1. h[m] = HitStep(tests, g, m) /\ h[m - 1] = g[m - 1]
          BY <2>3, <3>3
        <5> QED  BY <4>3, <5>1 DEF HitStep
      <4> QED  BY <4>1, <4>2, <4>3
    <3>7. Ok(m, h)
      BY <3>5, <3>6
    <3> QED  BY <2>1, <3>7
  <2> QED  BY <2>2, <2>3
<1>2. PICK g : Ok(Len(tests), g)
  <2>1. Len(tests) \in 0..Len(tests)
    OBVIOUS
  <2> QED  BY <1>1, <2>1, Zenon
<1>3. g = [i \in 0..Len(tests) |-> HitStep(tests, g, i)]
  BY <1>2
<1> QED  BY <1>3

\* After i elements the loop has found a passing one exactly when one of
\* the first i passes.
LEMMA FoundIsAny ==
  ASSUME NEW tests \in Seq(BOOLEAN), NEW f,
         f = [i \in 0..Len(tests) |-> HitStep(tests, f, i)]
  PROVE  \A n \in 0..Len(tests) : f[n] = \E i \in 1..n : tests[i]
<1> DEFINE T == {n \in 0..Len(tests) : f[n] # \E i \in 1..n : tests[i]}
<1> SUFFICES ASSUME T # {} PROVE FALSE
  OBVIOUS
<1>0. T \in SUBSET Nat
  OBVIOUS
<1>1. PICK m \in T : \A k \in T : ~(k < m)
  BY <1>0, LeastNat
<1>2. CASE m = 0
  <2>1. f[0] = FALSE
    BY DEF HitStep
  <2> QED  BY <1>1, <1>2, <2>1
<1>3. CASE m # 0
  <2>1. m - 1 \in 0..Len(tests) /\ m - 1 < m /\ m \in 1..Len(tests)
    BY <1>1, <1>3
  <2>2. f[m - 1] = \E i \in 1..(m - 1) : tests[i]
    BY <1>1, <2>1, Zenon
  <2>3. f[m] = (f[m - 1] \/ tests[m])
    BY <2>1 DEF HitStep
  <2>4. tests[m] \in BOOLEAN
    BY <2>1
  <2>5. (\E i \in 1..m : tests[i]) <=> (\E i \in 1..(m - 1) : tests[i]) \/ tests[m]
    BY <2>1
  <2>6. f[m] = \E i \in 1..m : tests[i]
    BY <2>2, <2>3, <2>4, <2>5, Zenon
  <2> QED  BY <1>1, <2>6
<1> QED  BY <1>2, <1>3

\* A loop that returns true at the first passing test returns whether any
\* test passes.
LEMMA FirstHitIsAny ==
  ASSUME NEW tests \in Seq(BOOLEAN)
  PROVE  FirstHit(tests) = \E i \in 1..Len(tests) : tests[i]
<1> DEFINE F == CHOOSE f : f = [i \in 0..Len(tests) |-> HitStep(tests, f, i)]
<1>1. F = [i \in 0..Len(tests) |-> HitStep(tests, F, i)]
  BY FoundExists
<1>2. FirstHit(tests) = F[Len(tests)]
  BY FirstHitIsFound
<1>3. Len(tests) \in 0..Len(tests)
  OBVIOUS
<1> QED  BY <1>1, <1>2, <1>3, FoundIsAny

-----------------------------------------------------------------------------
(* What is_tx_ofac_related computes.                                      *)

\* A lookup of the transactions the filter is given.
LookupT == [table : Tables, writable : Seq(0..MaxLen), readonly : Seq(0..MaxLen)]

\* Some index of idxs resolves, in addrs, to a denied address.
Hits(idxs, addrs) == \E i \in Range(idxs) : i < Len(addrs) /\ addrs[i + 1] \in Ofac

\* .iter().any(..) over the static keys finds a denied key exactly when
\* the key set meets the OFAC set.
LEMMA StaticKeysSpec ==
  ASSUME NEW keys \in Seq(Keys)
  PROVE  InStaticKeys(keys) <=> Range(keys) \cap Ofac # {}
<1> DEFINE tests == [i \in 1..Len(keys) |-> keys[i] \in Ofac]
<1>1. tests \in Seq(BOOLEAN)
  OBVIOUS
<1>2. InStaticKeys(keys) = \E i \in 1..Len(tests) : tests[i]
  BY <1>1, FirstHitIsAny DEF InStaticKeys
<1>3. (\E i \in 1..Len(tests) : tests[i]) <=> \E i \in 1..Len(keys) : keys[i] \in Ofac
  <2>1. Len(tests) = Len(keys)
    OBVIOUS
  <2>2. \A i \in 1..Len(keys) : tests[i] <=> keys[i] \in Ofac
    BY Zenon
  <2> QED  BY <2>1, <2>2, Zenon
<1>4. (\E i \in 1..Len(keys) : keys[i] \in Ofac) <=> (Range(keys) \cap Ofac # {})
  <2>1. ASSUME NEW i \in 1..Len(keys), keys[i] \in Ofac PROVE Range(keys) \cap Ofac # {}
    <3>1. keys[i] \in Range(keys)
      BY DEF Range
    <3> QED  BY <2>1, <3>1
  <2>2. ASSUME Range(keys) \cap Ofac # {} PROVE \E i \in 1..Len(keys) : keys[i] \in Ofac
    <3>1. PICK y \in Range(keys) : y \in Ofac
      BY <2>2
    <3>2. PICK i \in DOMAIN keys : keys[i] = y
      BY <3>1 DEF Range
    <3> QED  BY <3>1, <3>2
  <2> QED  BY <2>1, <2>2
<1> QED  BY <1>2, <1>3, <1>4, Zenon

\* The loop over the indexes of one lookup returns true exactly when one of
\* them is in range and resolves to a denied address: an index past the end
\* is skipped, never read.
LEMMA ScanSpec ==
  ASSUME NEW idxs \in Seq(Nat), NEW addrs \in Seq(Keys)
  PROVE  ScanIndexes(idxs, addrs) = Hits(idxs, addrs)
<1> DEFINE tests == [j \in 1..Len(idxs) |->
                       idxs[j] < Len(addrs) /\ addrs[idxs[j] + 1] \in Ofac]
<1>1. tests \in Seq(BOOLEAN)
  OBVIOUS
<1>2. ScanIndexes(idxs, addrs) = \E j \in 1..Len(tests) : tests[j]
  BY <1>1, FirstHitIsAny DEF ScanIndexes
<1>3. (\E j \in 1..Len(tests) : tests[j])
        <=> \E j \in 1..Len(idxs) : idxs[j] < Len(addrs) /\ addrs[idxs[j] + 1] \in Ofac
  <2>1. Len(tests) = Len(idxs)
    OBVIOUS
  <2>2. \A j \in 1..Len(idxs) :
          tests[j] <=> idxs[j] < Len(addrs) /\ addrs[idxs[j] + 1] \in Ofac
    BY Zenon
  <2> QED  BY <2>1, <2>2, Zenon
<1>4. (\E j \in 1..Len(idxs) : idxs[j] < Len(addrs) /\ addrs[idxs[j] + 1] \in Ofac)
        <=> Hits(idxs, addrs)
  <2>1. ASSUME NEW j \in 1..Len(idxs), idxs[j] < Len(addrs), addrs[idxs[j] + 1] \in Ofac
        PROVE  Hits(idxs, addrs)
    <3>1. idxs[j] \in Range(idxs)
      BY DEF Range
    <3> QED  BY <2>1, <3>1 DEF Hits
  <2>2. ASSUME Hits(idxs, addrs)
        PROVE  \E j \in 1..Len(idxs) : idxs[j] < Len(addrs) /\ addrs[idxs[j] + 1] \in Ofac
    <3>1. PICK i \in Range(idxs) : i < Len(addrs) /\ addrs[i + 1] \in Ofac
      BY <2>2 DEF Hits
    <3>2. PICK j \in DOMAIN idxs : idxs[j] = i
      BY <3>1 DEF Range
    <3> QED  BY <3>1, <3>2
  <2> QED  BY <2>1, <2>2
<1> QED  BY <1>2, <1>3, <1>4, Zenon DEF Hits

\* writable_indexes.iter().chain(readonly_indexes.iter()) visits the indexes
\* of both lists.
LEMMA RangeConcat ==
  ASSUME NEW w \in Seq(Nat), NEW r \in Seq(Nat)
  PROVE  Range(w \o r) = Range(w) \cup Range(r)
<1>0. DOMAIN (w \o r) = 1..(Len(w) + Len(r))
  OBVIOUS
<1>1. ASSUME NEW y \in Range(w \o r) PROVE y \in Range(w) \cup Range(r)
  <2>1. PICK j \in 1..(Len(w) + Len(r)) : (w \o r)[j] = y
    BY <1>0 DEF Range
  <2>2. CASE j <= Len(w)
    <3>1. j \in DOMAIN w /\ w[j] = y
      BY <2>1, <2>2
    <3> QED  BY <3>1 DEF Range
  <2>3. CASE j > Len(w)
    <3>1. j - Len(w) \in DOMAIN r /\ r[j - Len(w)] = y
      BY <2>1, <2>3
    <3> QED  BY <3>1 DEF Range
  <2> QED  BY <2>2, <2>3
<1>2. ASSUME NEW y \in Range(w) PROVE y \in Range(w \o r)
  <2>0. PICK j \in DOMAIN w : w[j] = y
    BY DEF Range
  <2>1. j \in 1..Len(w) /\ w[j] = y
    BY <2>0
  <2>2. j \in DOMAIN (w \o r) /\ (w \o r)[j] = y
    BY <2>1
  <2> QED  BY <2>2 DEF Range
<1>3. ASSUME NEW y \in Range(r) PROVE y \in Range(w \o r)
  <2>0. PICK j \in DOMAIN r : r[j] = y
    BY DEF Range
  <2>1. j \in 1..Len(r) /\ r[j] = y
    BY <2>0
  <2>2. Len(w) + j \in DOMAIN (w \o r) /\ (w \o r)[Len(w) + j] = y
    BY <2>1
  <2> QED  BY <2>2 DEF Range
<1> QED  BY <1>1, <1>2, <1>3

\* A lookup hits when its table is cached and one of its writable or
\* readonly indexes resolves to a denied address.
LookupHits(l, c) ==
  /\ l.table \in DOMAIN c
  /\ \E i \in Range(l.writable) \cup Range(l.readonly) :
       i < Len(c[l.table]) /\ c[l.table][i + 1] \in Ofac

\* The loop over the address-table lookups returns true exactly when one of
\* them hits.
LEMMA WalkSpec ==
  ASSUME NEW lookups \in Seq(LookupT), NEW c,
         \A t \in DOMAIN c : c[t] \in Seq(Keys)
  PROVE  WalkLookups(lookups, c) <=> \E l \in Range(lookups) : LookupHits(l, c)
<1> DEFINE test(l) == /\ l.table \in DOMAIN c
                      /\ ScanIndexes(l.writable \o l.readonly, c[l.table])
           tests == [i \in 1..Len(lookups) |-> test(lookups[i])]
<1>1. ASSUME NEW l \in LookupT PROVE test(l) = LookupHits(l, c)
  <2>1. CASE l.table \in DOMAIN c
    <3>1. l.writable \in Seq(Nat) /\ l.readonly \in Seq(Nat)
      BY DEF LookupT
    <3>2. l.writable \o l.readonly \in Seq(Nat) /\ c[l.table] \in Seq(Keys)
      BY <2>1, <3>1
    <3>3. ScanIndexes(l.writable \o l.readonly, c[l.table])
            = Hits(l.writable \o l.readonly, c[l.table])
      BY <3>2, ScanSpec
    <3>4. Range(l.writable \o l.readonly) = Range(l.writable) \cup Range(l.readonly)
      BY <3>1, RangeConcat
    <3> QED  BY <2>1, <3>3, <3>4 DEF Hits, LookupHits
  <2>2. CASE l.table \notin DOMAIN c
    BY <2>2 DEF LookupHits
  <2> QED  BY <2>1, <2>2
<1>2. ASSUME NEW i \in 1..Len(lookups)
      PROVE  tests[i] = LookupHits(lookups[i], c) /\ tests[i] \in BOOLEAN
  <2>1. lookups[i] \in LookupT
    OBVIOUS
  <2>2. LookupHits(lookups[i], c) \in BOOLEAN
    BY DEF LookupHits
  <2> QED  BY <1>1, <2>1, <2>2
<1>3. tests \in Seq(BOOLEAN)
  BY <1>2
<1>4. WalkLookups(lookups, c) = \E i \in 1..Len(tests) : tests[i]
  BY <1>3, FirstHitIsAny DEF WalkLookups
<1>5. (\E i \in 1..Len(tests) : tests[i])
        <=> \E i \in 1..Len(lookups) : LookupHits(lookups[i], c)
  <2>1. Len(tests) = Len(lookups)
    OBVIOUS
  <2> QED  BY <1>2, <2>1, Zenon
<1>6. (\E i \in 1..Len(lookups) : LookupHits(lookups[i], c))
        <=> \E l \in Range(lookups) : LookupHits(l, c)
  <2>1. ASSUME NEW i \in 1..Len(lookups), LookupHits(lookups[i], c)
        PROVE  \E l \in Range(lookups) : LookupHits(l, c)
    <3>1. lookups[i] \in Range(lookups)
      BY DEF Range
    <3> QED  BY <2>1, <3>1
  <2>2. ASSUME NEW l \in Range(lookups), LookupHits(l, c)
        PROVE  \E i \in 1..Len(lookups) : LookupHits(lookups[i], c)
    <3>1. PICK i \in DOMAIN lookups : lookups[i] = l
      BY DEF Range
    <3> QED  BY <2>2, <3>1
  <2> QED  BY <2>1, <2>2
<1> QED  BY <1>4, <1>5, <1>6, Zenon

\* is_tx_ofac_related answers, on any cache, whether the addresses the
\* transaction reaches meet the OFAC set: the early returns of its loops
\* skip nothing that could change the verdict.
LEMMA FilterSpec ==
  ASSUME NEW c, \A t \in DOMAIN c : c[t] \in Seq(Keys), NEW tx \in Txs
  PROVE  IsTxOfacRelated(tx, c) <=> Reached(tx, c) \cap Ofac # {}
<1>1. tx.keys \in Seq(Keys) /\ tx.lookups \in Seq(LookupT)
  BY DEF LookupT
<1>2. InStaticKeys(tx.keys) <=> Range(tx.keys) \cap Ofac # {}
  BY <1>1, StaticKeysSpec
<1>3. WalkLookups(tx.lookups, c) <=> \E l \in Range(tx.lookups) : LookupHits(l, c)
  BY <1>1, WalkSpec
<1> DEFINE Via(l) == { c[l.table][i + 1] :
                         i \in {i \in Range(l.writable) \cup Range(l.readonly) :
                                  i < Len(c[l.table])} }
           Cached == {l \in Range(tx.lookups) : l.table \in DOMAIN c}
<1>4. Reached(tx, c) = Range(tx.keys) \cup UNION {Via(l) : l \in Cached}
  BY DEF Reached
<1>5. (\E l \in Range(tx.lookups) : LookupHits(l, c))
        <=> (UNION {Via(l) : l \in Cached}) \cap Ofac # {}
  <2>1. ASSUME NEW l \in Range(tx.lookups), LookupHits(l, c)
        PROVE  (UNION {Via(l2) : l2 \in Cached}) \cap Ofac # {}
    <3>1. PICK i \in Range(l.writable) \cup Range(l.readonly) :
            i < Len(c[l.table]) /\ c[l.table][i + 1] \in Ofac
      BY <2>1 DEF LookupHits
    <3>2. l \in Cached
      BY <2>1 DEF LookupHits
    <3>3. c[l.table][i + 1] \in Via(l)
      BY <3>1
    <3> QED  BY <3>1, <3>2, <3>3
  <2>2. ASSUME (UNION {Via(l2) : l2 \in Cached}) \cap Ofac # {}
        PROVE  \E l \in Range(tx.lookups) : LookupHits(l, c)
    <3>1. PICK l \in Cached : Via(l) \cap Ofac # {}
      BY <2>2
    <3>2. PICK i \in Range(l.writable) \cup Range(l.readonly) :
            i < Len(c[l.table]) /\ c[l.table][i + 1] \in Ofac
      BY <3>1
    <3> QED  BY <3>1, <3>2 DEF LookupHits
  <2> QED  BY <2>1, <2>2
<1> QED  BY <1>2, <1>3, <1>4, <1>5 DEF IsTxOfacRelated

-----------------------------------------------------------------------------
(* The refresher keeps the cache well formed.                              *)

\* Every account get_program_accounts returned holds a list of addresses.
FetchedOk == \A t \in DOMAIN fetched : fetched[t] \in Seq(Keys)

\* TypeOK is not inductive by itself: an upsert copies fetched[t] into the
\* cache, so the fetched accounts must be address lists too.
IInv == TypeOK /\ FetchedOk

\* The refresher starts with an empty cache and no pass under way.
LEMMA IInvInit == Init => IInv
<1> SUFFICES ASSUME Init PROVE IInv
  OBVIOUS
<1>1. chain \in [Tables -> Account]
  <2>1. [status |-> "none", addrs |-> << >>] \in Account
    BY DEF Account
  <2>2. chain \in [Tables -> {[status |-> "none", addrs |-> << >>]}]
    BY DEF Init
  <2> QED  BY <2>1, <2>2
<1> QED  BY <1>1 DEF Init, IInv, TypeOK, FetchedOk

\* Each step of the refresher thread and of the chain keeps IInv.
LEMMA IInvNext == IInv /\ [Next]_vars => IInv'
<1> SUFFICES ASSUME IInv, [Next]_vars PROVE IInv'
  OBVIOUS
<1> USE DEF IInv, TypeOK, FetchedOk
<1>1. CASE RefreshFetch
  <2> DEFINE live == {t \in Tables : chain[t].status = "open"}
  <2>1. fetched' = [t \in live |-> chain[t].addrs] /\ todo' = live
    BY <1>1 DEF RefreshFetch
  <2>2. \A t \in live : chain[t].addrs \in Seq(Keys)
    BY DEF Account
  <2> QED  BY <1>1, <2>1, <2>2 DEF RefreshFetch
<1>2. ASSUME NEW t \in Tables, RefreshEntry(t) PROVE IInv'
  <2>1. t \in DOMAIN fetched /\ fetched[t] \in Seq(Keys)
    BY <1>2 DEF RefreshEntry
  <2>2. CASE /\ decodeErrs < MaxDecodeErrors
             /\ decodeErrs' = decodeErrs + 1
             /\ UNCHANGED <<cache, newPubkeys>>
    BY <1>2, <2>2 DEF RefreshEntry
  <2>3. CASE /\ newPubkeys' = newPubkeys \cup {t}
             /\ cache' = [x \in DOMAIN cache \cup {t} |->
                            IF x = t THEN fetched[t] ELSE cache[x]]
             /\ UNCHANGED decodeErrs
    <3>1. DOMAIN cache' \subseteq Tables /\ \A x \in DOMAIN cache' : cache'[x] \in Seq(Keys)
      BY <2>1, <2>3
    <3> QED  BY <1>2, <2>1, <2>3, <3>1 DEF RefreshEntry
  <2> QED  BY <1>2, <2>2, <2>3 DEF RefreshEntry
<1>3. CASE RefreshRetain
  BY <1>3 DEF RefreshRetain, Restrict
<1>4. ASSUME NEW t \in Tables, ChainStep(t) PROVE IInv'
  <2>1. chain' \in [Tables -> Account]
    <3>1. CASE chain[t].status = "none" /\ chain' = [chain EXCEPT ![t].status = "open"]
      BY <3>1, ZenonT(60) DEF Account
    <3>2. CASE /\ chain[t].status = "open" /\ Len(chain[t].addrs) < MaxLen
               /\ \E k \in Keys : chain' = [chain EXCEPT ![t].addrs = Append(@, k)]
      <4>1. PICK k \in Keys : chain' = [chain EXCEPT ![t].addrs = Append(@, k)]
        BY <3>2
      <4>2. Append(chain[t].addrs, k) \in Seq(Keys)
        BY DEF Account
      <4> QED  BY <4>1, <4>2, ZenonT(60) DEF Account
    <3>3. CASE chain[t].status = "open" /\ chain' = [chain EXCEPT ![t].status = "closed"]
      BY <3>3, ZenonT(60) DEF Account
    <3> QED  BY <1>4, <3>1, <3>2, <3>3 DEF ChainStep
  <2> QED  BY <1>4, <2>1 DEF ChainStep
<1>5. CASE UNCHANGED vars
  BY <1>5 DEF vars
<1> QED  BY <1>1, <1>2, <1>3, <1>4, <1>5 DEF Next

(***************************************************************************)
(* Theorems.                                                               *)
(***************************************************************************)

\* The refresher keeps the cache a map from lookup-table keys to address
\* lists and every counter of the pass within its bound, whatever the chain
\* does between get_program_accounts and the retain.
THEOREM LookupTypeCorrect == Spec => []TypeOK
<1>1. Spec => []IInv
  BY IInvInit, IInvNext, PTL DEF Spec
<1> QED  BY <1>1, PTL DEF IInv

\* In every state the cache passes through, including the middle of a
\* refresh pass after some upserts and before the retain, the OFAC check of
\* the packet arm (is_tx_ofac_related with its early returns) drops a
\* transaction exactly when one of its static keys, or an in-range index of
\* a lookup into a cached table, names a denied address (spec 4.D).
THEOREM FilterMatchesSpecThm == Spec => []FilterMatchesSpec
<1>1. TypeOK => FilterMatchesSpec
  BY FilterSpec DEF TypeOK, FilterMatchesSpec
<1> QED  BY <1>1, LookupTypeCorrect, PTL


====
