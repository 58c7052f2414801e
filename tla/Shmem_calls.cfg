CONSTANTS
  spi = spi
  wf = wf
  wspr = wspr
  None = None
  Ipc = {wf, wspr}
  N = 2
  MaxPending = 2
  Use <- Receivers
  NoWait <- Wspr
  Abandoned <- Nobody
SPECIFICATION FairSpec
INVARIANTS TypeOK NotReentrant
PROPERTIES EachCallServedOnce EveryCallReturns
