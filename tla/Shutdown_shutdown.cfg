CONSTANTS
  Systems <- MCSystems
  Hooks <- MCHooks
  Inhibitions <- MCInhibitions
  Options = {"halt", "reboot", "suspend", "switch-user"}
SPECIFICATION Spec
INVARIANTS
  InhibitedNotOffered
PROPERTIES
  NothingUnasked
  EndsAsAsked
  HooksMatch
CHECK_DEADLOCK FALSE
