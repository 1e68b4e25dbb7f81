\* An app and the database it depends on: crashes of both, of the daemon, stops and sleep.
SPECIFICATION Spec
CONSTANTS
  app = app
  db = db
  c1 = c1
  c2 = c2
  u1 = u1
  Inst = {app, db}
  Deps <- AppOnDb
  StartedDeps = {}
  AppInst = {app}
  AlwaysOn = {}
  MaxRetries <- NoRetry
  OnFailure = {}
  Stepped = {}
  Converging = {}
  Multi = {app}
  Exits = {"exit1"}
  Uptimes = {FALSE}
  Clients = {c1}
  Users = {u1}
  UserOps = {"stop"}
  Reaper = reaper
  None = none
  Limited = {db}
  Sweeps = {}
  MaxProc = 1
  MaxCrash = 1
INVARIANTS
  RegisteredHoldsDeps
  WaitersHaveFlight
