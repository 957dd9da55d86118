SPECIFICATION FairSpec
CONSTANTS
  None = None
  Chats = {c1}
  Users = {u1}
  Jobs = {j1}
  Runs = {r1,r2}
  MaxReadOnly = 1
  MaxSessions = 1
  MaxVanish = 0
  MaxFaults = 0
  MaxResets = 1
  MaxCommits = 0
  MaxCrashes = 1
PROPERTIES RunsEnd HandlersEnd JobsSettle
