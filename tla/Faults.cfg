SPECIFICATION Spec
CONSTANTS
  None = None
  Chats = {c1}
  Users = {u1}
  Jobs = {j1}
  Runs = {r1,r2}
  MaxReadOnly = 1
  MaxSessions = 1
  MaxVanish = 1
  MaxFaults = 1
  MaxResets = 1
  MaxCommits = 1
  MaxCrashes = 1
SYMMETRY Symmetry
INVARIANTS LockInv NoUnapprovedMutation ExecutingIsRunning DecidedContextIsRun InProgressHasRun
PROPERTIES LifecycleKept
