--------------------------- MODULE MC_FetchStage ---------------------------
EXTENDS FetchStage

\* Batches of one or two packets against a limit of two: a drain can end
\* on an empty channel, exactly at the limit, or past it.
MCSizes == {1, 2}
=============================================================================
