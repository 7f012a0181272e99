------------------------ MODULE MC_LookupTableCache ------------------------
EXTENDS LookupTableCache

CONSTANTS T1, T2, ka, kb

\* Two tables, so that one can be closed or fail to decode while the other
\* is upserted; one clean and one denied address.
MCTables == {T1, T2}
MCKeys == {ka, kb}
MCOfac == {kb}

\* Lookups over both tables with an empty, an in-range and an out-of-range
\* (index 2 of a table of at most 2) writable list, and an empty or
\* in-range readonly list.
MCLookups == [table : MCTables,
              writable : {<<>>, <<0>>, <<2, 1>>},
              readonly : {<<>>, <<1>>}]

\* Transactions with a clean or a denied static key and up to two lookups.
MCTxs == [keys : {<<ka>>, <<ka, kb>>},
          lookups : {<<>>} \cup {<<l>> : l \in MCLookups}
                           \cup {<<l, m>> : l, m \in MCLookups}]
=============================================================================
