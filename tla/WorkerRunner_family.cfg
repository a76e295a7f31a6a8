SPECIFICATION Spec
CONSTANTS
  bot = bot
  helper = helper
  child = child
  grandchild = grandchild
  None = None
  Workers = {bot, child}
  Parent <- Family
  AutoEnd = TRUE
  AddedIn = {"idle", "ready"}
  Quits = {bot}
  Fails = {}
  LateChildren = FALSE
PROPERTIES
  RemainingAreCancelled
CHECK_DEADLOCK FALSE
