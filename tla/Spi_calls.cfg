CONSTANTS
  spi_pump = spi_pump
  gps = gps
  search = search
  web = web
  None = None
  Task = {spi_pump, gps, search, web}
  Rank <- Priority
  Pump = spi_pump
  Call <- Calls
  Retries = 2
SPECIFICATION FairSpec
INVARIANTS TypeOK ReplyIsOwn PrevBelongsToACall
PROPERTIES ImplementsPort EveryGetAnswered
