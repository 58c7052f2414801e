CONSTANTS
  snd1 = snd1
  snd2 = snd2
  web = web
  pump = pump
  None = None
  Snd = {snd1}
  Web = {web}
  Rank <- Priority
  nrx_bufs = 2
  W = 4
  MaxLag = 3
  MaxAhead = 1
SPECIFICATION Spec
INVARIANTS RunsForUsers
