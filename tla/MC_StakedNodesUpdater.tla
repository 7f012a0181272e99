----------------------- MODULE MC_StakedNodesUpdater -----------------------
EXTENDS StakedNodesUpdater

CONSTANTS n1, n2, bad

\* Three answers of the RPC node: two plain identities; an identity with a
\* current and a delinquent vote account next to an unparsable key; one
\* identity alone (the other has left the cluster).
MCAnswers ==
  { << [node |-> n1, stake |-> 1], [node |-> n2, stake |-> 1] >>,
    << [node |-> n1, stake |-> 1], [node |-> bad, stake |-> 1],
       [node |-> n1, stake |-> 2] >>,
    << [node |-> n2, stake |-> 2] >> }
=============================================================================
