SPECIFICATION Spec
CONSTANTS
  r1 = r1
  g1 = g1
  d1 = d1
  NoConv = NoConv
  Rooms = {r1}
  Groups = {g1}
  DMs = {d1}
  MaxOps = 4
  MaxDials = 3
INVARIANTS
  StoreMirrorsServer
  ScreenMirrorsServer
  DeletedHistoryIsGone
CHECK_DEADLOCK FALSE
