CONSTANTS
  v1 = v1  v2 = v2  c1 = c1  c2 = c2  c3 = c3  p1 = p1  p2 = p2  p3 = p3
  NoConn = NoConn
  NoVal = NoVal
  Validators <- MCValidators
  Conns <- MCConns
  Packets <- MCPackets
  Discard <- MCDiscard
  Undecodable <- MCUndecodable
  OfacRelated <- MCOfacRelated
  OfacEnabled = TRUE
  InputBatches <- MCInputBatches
  BatchSize = 1
  QueueCap = 2
  ForwardAll = FALSE
  Lookahead <- MCLookahead
  MaxSlot <- MCMaxSlot
  SlotsPerEpoch = 2
  TrueLeader <- MCTrueLeader
  SlotQCap = 1
  SubQCap = 1
  DelayQCap = 1
SPECIFICATION FairSpec
INVARIANT TypeOK
INVARIANT ForwardedPacketsAdmissible
PROPERTY ClosedEventuallyRemoved
