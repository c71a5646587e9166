SPECIFICATION AdminSpec
CONSTANTS
  None = None
  MaxFlight = 2
  MaxEvents = 4
  Days = {1, 2}
  Today = 2
  People = {u1, u2}
  u1 = u1
  u2 = u2
  Groups = {g1, g2}
  g1 = g1
  g2 = g2
INVARIANTS AdminTypeOK OneHandler NoStuckSpinner ShownDateIsChosen
INVARIANTS FormIsOfItsUser VerdictShownWasGiven NoRevokedPreview
PROPERTIES ShowsLatest BlankKeepsSecret
CHECK_DEADLOCK FALSE
