CONSTANTS
  main = main
  snd = snd
  search = search
  pump = pump
  wf = wf
  Task = {main, snd, search}
  Main = main
  Lock = {spi_lock}
  NoTask = NoTask
  NoLock = NoLock
  BasePrio <- TwoLevels
  NoPrioInv = {search}
  BusyHelper = NoTask
  Itask = NoTask
  LongRunner = {search}
  Sleepable = {search}
  Ephemeral = {snd}
  RemovesWaiters = FALSE
  SleepKind = {"none", "test"}
  MaxTicket = 3
SPECIFICATION Spec
INVARIANTS IndInv NoHungLock QueuesConsistent PendingSleepServed
  WakeupMakesRunnable
CHECK_DEADLOCK FALSE
