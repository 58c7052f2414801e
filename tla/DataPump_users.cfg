CONSTANTS
  snd1 = snd1
  snd2 = snd2
  web = web
  pump = pump
  None = None
  Snd = {snd1, snd2}
  Web = {}
  Rank <- Priority
  nrx_bufs = 3
  W = 5
  MaxLag = 4
  MaxAhead = 1
SPECIFICATION FairSpec
INVARIANTS TypeOK
PROPERTIES OverrunNoticed PumpStops InterruptServed
