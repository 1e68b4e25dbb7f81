\* An app that a command and sleep-all stop at any moment of its life.
SPECIFICATION Spec
CONSTANTS
  app = app
  db = db
  c1 = c1
  c2 = c2
  u1 = u1
  Inst = {app}
  Deps <- NoDeps
  StartedDeps = {}
  AppInst = {app}
  AlwaysOn = {}
  MaxRetries <- Retry1
  OnFailure = {app}
  Stepped = {}
  Converging = {}
  Multi = {}
  Exits = {"exit0", "exit1"}
  Uptimes = {FALSE}
  Clients = {c1}
  Users = {u1}
  UserOps = {"off", "on"}
  Reaper = reaper
  None = none
  Limited = {}
  Sweeps = {FALSE}
  MaxProc = 2
  MaxCrash = 0
PROPERTIES
  CancelledStaysCancelled
  OffStaysQuiet
INVARIANTS
  RegisteredIsRecorded
