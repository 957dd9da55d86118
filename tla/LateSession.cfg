SPECIFICATION Spec
CONSTANTS
  None = None
  Chats = {c1}
  Users = {u1}
  Jobs = {j1,j2}
  Runs = {r1,r2,r3}
  MaxReadOnly = 1
  MaxSessions = 2
  MaxVanish = 1
  MaxFaults = 0
  MaxResets = 1
  MaxCommits = 0
  MaxCrashes = 0
SYMMETRY Symmetry
INVARIANTS ClearedStaysCleared
