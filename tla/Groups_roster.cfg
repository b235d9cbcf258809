CONSTANTS
  me = me
  b = b
  c = c
  Nobody = Nobody
  Users <- MCUsers
  Me = me
  MaxActs = 2
  MaxAsks = 1
  MaxGen = 2
  MaxSends = 1
  MaxFlight = 1
SPECIFICATION Spec
INVARIANTS
  RosterFollowsServer
  NoStrangerWrapped
CHECK_DEADLOCK FALSE
