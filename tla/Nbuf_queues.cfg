CONSTANTS
  Ndesc = {c2s, s2c}
  Data = {snd, msg}
  ND_LOWAT = 1
  ND_HIWAT = 2
  NNBUF = 9
SPECIFICATION Spec
INVARIANTS TypeOK BufferInUseKept QueueBounded NoLeak
PROPERTIES QueuesAreFifos
