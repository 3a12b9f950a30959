CONSTANTS
  x1 = x1
  x2 = x2
  Apps = {x1, x2}
  Given = {1}
  Fresh = {2, 3, 4}
  Paths = {1, 2, 3, 4}
  Styles = {"normal", "immediately"}
  Questions = {"RequestSaveState", "QueryEndSession"}
  Asked = {x1}
  Setting = {x2}
  Reconnecting = {x1}
  MaxMail = 1
  MaxFrames = 1
SPECIFICATION FairDbusSpec
INVARIANTS Registry RestartFits
PROPERTIES ComesBack QueryIsAnswered
CHECK_DEADLOCK FALSE
