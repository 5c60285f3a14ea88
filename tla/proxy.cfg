\* The relay of tpws: five option sets, two units each way.
SPECIFICATION FairSpec
CONSTANTS
  TxCap = 1
  RxCap = 2
  Settings <- MCSettings
  Sends <- MCSends
INVARIANTS TypeOK RelayIntact LossHasReason MaskFits
PROPERTY LegsReleased
CHECK_DEADLOCK FALSE
