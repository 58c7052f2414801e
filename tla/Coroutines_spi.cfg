CONSTANTS
  main = main
  snd = snd
  search = search
  pump = pump
  wf = wf
  Task = {main, snd, pump}
  Main = main
  Lock = {spi_lock}
  NoTask = NoTask
  NoLock = NoLock
  BasePrio <- ThreeLevels
  NoPrioInv = {}
  BusyHelper = pump
  Itask = snd
  LongRunner = {main}
  Sleepable = {main}
  Ephemeral = {}
  RemovesWaiters = FALSE
  SleepKind = {"none", "deadline"}
  MaxTicket = 4
SPECIFICATION Spec
INVARIANTS TypeOK Exclusion TokensAccountedFor StoppedTaskHasWaker
  PriorityGivenBack
PROPERTIES LocksArePriorityLocks
CHECK_DEADLOCK FALSE
