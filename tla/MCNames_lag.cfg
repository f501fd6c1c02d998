SPECIFICATION NamesSpec
CONSTANTS
  Refresher = {recv, gui}
  Receiver = recv
  Gui = gui
  Ip = {1, 2, 3}
  Me = 1
  Octet <- MCOctet
  Label <- MCLabel
  Service = {w1, w2}
  Sanitized <- MCSanitized
  Query <- MCQuery
  MaxEvents = 3
INVARIANT NeverLags
CHECK_DEADLOCK FALSE
