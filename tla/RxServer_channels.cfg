CONSTANTS
  page = page
  krec = krec
  None = None
  N_CONNS = 3
  rx_chans = 1
  Client = {page, krec}
  KiwiUI = {page}
  Socket <- PageAndSound
  monitors_max = 1
  Faults = {"spi_busy", "no_tasks"}
SPECIFICATION FairSpec
INVARIANTS TypeOK SocketServesOne ExtUserIsExt NoLeakedChannel
  UsedIsBusy WakesSound
PROPERTIES ChannelsAreLeased ChannelsComeBack
CHECK_DEADLOCK FALSE
