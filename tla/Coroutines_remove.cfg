CONSTANTS
  main = main
  snd = snd
  search = search
  pump = pump
  wf = wf
  Task = {main, snd, pump}
  Main = main
  Lock = {spi_lock}
  NoTask = NoTask
  NoLock = NoLock
  BasePrio <- ThreeLevels
  NoPrioInv = {}
  BusyHelper = NoTask
  Itask = NoTask
  LongRunner = {}
  Sleepable = {}
  Ephemeral = {snd}
  RemovesWaiters = TRUE
  SleepKind = {"none"}
  MaxTicket = 4
SPECIFICATION Spec
INVARIANTS NoHungLock
CHECK_DEADLOCK FALSE
