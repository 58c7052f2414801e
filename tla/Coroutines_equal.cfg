CONSTANTS
  main = main
  snd = snd
  search = search
  pump = pump
  wf = wf
  Task = {main, snd, search}
  Main = main
  Lock = {spi_lock}
  NoTask = NoTask
  NoLock = NoLock
  BasePrio <- OneLevel
  NoPrioInv = {}
  BusyHelper = NoTask
  Itask = NoTask
  LongRunner = {}
  Sleepable = {}
  Ephemeral = {}
  RemovesWaiters = FALSE
  SleepKind = {"deadline"}
  MaxTicket = 4
SPECIFICATION FairSpec
PROPERTIES FirstComeFirstServed EveryWaiterServed
