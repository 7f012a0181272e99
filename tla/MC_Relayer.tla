---------------------------- MODULE MC_Relayer ----------------------------
(* Small instance of Relayer for TLC: two validators that take turns as   *)
(* leaders, two slots per epoch, a lookahead of two slots (so a window    *)
(* can straddle an epoch the cache does not hold yet), and batches that   *)
(* exercise the discard flag, the denylist and chunking.                  *)
EXTENDS Relayer

CONSTANTS v1, v2, c1, c2, c3, p1, p2, p3

MCValidators == {v1, v2}
MCConns == {c1, c2}
MCPackets == {p1, p2, p3}
MCDiscard == {p2}
MCUndecodable == {}
MCOfacRelated == {p3}
\* One batch with a discarded packet, a denied one and a packet that survives
\* twice into two chunks, the second of which meets a full channel.
MCInputBatches == {<<p2, p3, p1, p1>>}
MCMaxSlot == 1
MCLookahead == 2
\* v1 leads slots 0 and 3, v2 slots 1 and 2: the window at 0 names both
\* within epoch 0, the window at 1 straddles the boundary to epoch 1, which
\* the cache never holds, and a refresh racing the epoch turn caches epoch
\* 1's leaders at epoch 0's slots.
MCTrueLeader == [s \in 0..(MCMaxSlot + MCLookahead) |->
                   IF s \in {0, 3} THEN v1 ELSE v2]
=============================================================================
