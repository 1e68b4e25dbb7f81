\* A supervised app that crash-loops while a connection wakes it and a user pins it.
SPECIFICATION Spec
CONSTANTS
  app = app
  db = db
  c1 = c1
  c2 = c2
  u1 = u1
  Inst = {app}
  Deps <- NoDeps
  StartedDeps = {}
  AppInst = {app}
  AlwaysOn = {}
  MaxRetries <- Retry1
  OnFailure = {}
  Stepped = {app}
  Converging = {app}
  Multi = {app}
  Exits = {"exit1"}
  Uptimes = {FALSE}
  Clients = {c1}
  Users = {u1}
  UserOps = {"pin"}
  Reaper = reaper
  None = none
  Limited = {}
  Sweeps = {}
  MaxProc = 3
  MaxCrash = 0
INVARIANTS
  TypeOK
  RegisteredIsWatched
  BootingMeansInFlight
  CrashLoopIsBounded
