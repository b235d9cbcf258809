SPECIFICATION Spec
CONSTANTS
  s1 = s1
  s2 = s2
  NoServer = NoServer
  Servers = {s1, s2}
  Encrypted = {s1}
  Configured <- MCConfigured
  Ladder = 2
  MaxGen = 2
INVARIANTS
  HelloSaysLastSync
CHECK_DEADLOCK FALSE
