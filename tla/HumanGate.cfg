CONSTANTS
  Channels = {terminal, browser}
  terminal = terminal
  browser = browser
  idea1 = idea1
  idea2 = idea2
  Nodes = {idea1, idea2}
  About <- Mixed
  Blank = Blank
  MaxStarts = 3
SPECIFICATION Spec
INVARIANTS OwnReply NoGhost RestoredIsOpen
PROPERTIES AskReturns
CHECK_DEADLOCK FALSE
