CONSTANTS
  Joiners = {"a", "b"}
  DefaultRetries = 3
  MaxErrors = 1
SPECIFICATION JoinSpec
CHECK_DEADLOCK FALSE
PROPERTY JoinAppears
