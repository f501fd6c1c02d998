SPECIFICATION Spec
CONSTANTS
  Workers = 2
  File = {gui, cli}
  Package = {gui, cli}
  Gui = gui
  MaxVersion = 3
  Checksummed = {1, 3}
  Impatient = FALSE
  MaxLaunches = 2
  MaxScripts = 2
INVARIANTS TypeOK  OnlyVerified 
PROPERTIES  UpdateEnds
CHECK_DEADLOCK FALSE
