CONSTANTS
  spi = spi
  wf = wf
  wspr = wspr
  None = None
  Ipc = {wf}
  N = 2
  MaxPending = 2
  Use <- TwoWaterfalls
  NoWait <- Nobody
  Abandoned <- Nobody
SPECIFICATION Spec
INVARIANTS HandOver
