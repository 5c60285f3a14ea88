\* The relay of tpws: data still waiting in a leg that is shut down.
SPECIFICATION FairSpec
CONSTANTS
  TxCap = 1
  RxCap = 2
  Settings <- MCSettings
  Sends <- MCSends
INVARIANT ShutWhenEmpty
CHECK_DEADLOCK FALSE
