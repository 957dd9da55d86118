SPECIFICATION Spec
CONSTANTS
  None = None
  Chats = {c1}
  Users = {u1}
  Jobs = {j1,j2}
  Runs = {r1,r2,r3}
  MaxReadOnly = 1
  MaxSessions = 1
  MaxVanish = 0
  MaxFaults = 0
  MaxResets = 0
  MaxCommits = 0
  MaxCrashes = 0
PROPERTIES SessionKept
