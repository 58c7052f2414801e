CONSTANTS
  spi = spi
  wf = wf
  wspr = wspr
  None = None
  Ipc = {spi, wspr}
  N = 2
  MaxPending = 2
  Use <- SpiAndWspr
  NoWait <- Wspr
  Abandoned <- Wspr
SPECIFICATION Spec
INVARIANTS RequestNotForgotten
CHECK_DEADLOCK FALSE
