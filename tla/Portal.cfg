SPECIFICATION PortalSpec
CONSTANTS
  None = None
  film = film
  show = show
  series = series
  Items = {film, show, series}
  SeasonsOf <- MCSeasonsOf
  Histories <- MCHistories
  MoviePilotHas = {film}
  MaxRows = 3
  MaxFlight = 2
  MaxEvents = 4
  Codes = {1, 2}
  DailyLimit = 1
  Cooldown = 2
INVARIANTS PortalTypeOK OneOpenRequest RowOfShownWork BusyWhileWriting NoDeadSpinner
INVARIANTS NoDuplicateCode ReadyImageIsAlive AccountBusy
PROPERTY RefreshSpaced
CHECK_DEADLOCK FALSE
