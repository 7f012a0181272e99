-------------------------- MODULE MC_SlotPipeline --------------------------
EXTENDS SlotPipeline

CONSTANTS a1, a2

\* Two RPC servers: enough for two threads to race on highest_slot.
MCServers == {a1, a2}

=============================================================================
