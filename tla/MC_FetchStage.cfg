CONSTANTS
  Sizes <- MCSizes
  Limit = 2
  FwdCap = 2
  TpuCap = 1
  MaxBatches = 6

SPECIFICATION FairSpec
\* Once the environment's batches are used up the forwarder blocks in
\* recv(), as the thread does when no traffic arrives.
CHECK_DEADLOCK FALSE
INVARIANT TypeOK
INVARIANT ForwardedInOrder
PROPERTY ForwardedEventuallySent

