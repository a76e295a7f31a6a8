SPECIFICATION Spec
CONSTANTS
  bot = bot
  helper = helper
  child = child
  grandchild = grandchild
  None = None
  Workers = {bot, helper, child}
  Parent <- Family
  AutoEnd = TRUE
  AddedIn = {"idle", "setup", "starting", "ready", "cancelling"}
  Quits = {helper, child}
  Fails = {helper, child}
  LateChildren = FALSE
INVARIANTS
  ChildrenFirst
PROPERTIES
  ImplementsSession
  EndsByItself
CHECK_DEADLOCK FALSE
