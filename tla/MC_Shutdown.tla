---------------------------- MODULE MC_Shutdown ----------------------------
\* Two subscription threads, so that one can stop while the other still
\* sends; channel bounds of 1, so that both sends can block.
EXTENDS Shutdown

CONSTANTS s1, s2

MCServers == {s1, s2}
=============================================================================
