\* A shutdown against boots, crashes and pending restarts, under fair scheduling.
SPECIFICATION FairSpec
CONSTANTS
  app = app
  db = db
  c1 = c1
  c2 = c2
  u1 = u1
  Inst = {app}
  Deps <- NoDeps
  StartedDeps = {}
  AppInst = {app}
  AlwaysOn = {}
  MaxRetries <- Retry1
  OnFailure = {}
  Stepped = {}
  Converging = {}
  Multi = {}
  Exits = {"exit1"}
  Uptimes = {FALSE}
  Clients = {c1}
  Users = {}
  UserOps = {}
  Reaper = reaper
  None = none
  Limited = {}
  Sweeps = {TRUE}
  MaxProc = 2
  MaxCrash = 0
PROPERTIES
  SealedForGood
  ConnectionsAreAnswered
  CrashesAreNoticed
  ShutdownEnds
\* The daemon exits once its shutdown is over.
CHECK_DEADLOCK FALSE
