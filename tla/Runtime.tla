------------------------------ MODULE Runtime -------------------------------
(***************************************************************************)
(* The daemon's lifecycle core (internal/runtime) with the connections     *)
(* that drive it (internal/proxy): instances are booted on demand, hold    *)
(* their dependencies, are watched, restarted after a crash, stopped by a  *)
(* command, by the idle reaper or by StopAll.                              *)
(*                                                                         *)
(* Goroutines are modelled as program counters.  A step is one critical    *)
(* section of Runtime.mu, one call of the registry, or one external event; *)
(* what the code does between two of those touches nothing shared.  The    *)
(* registry records and their methods are those of Registry.               *)
(*                                                                         *)
(* The n-th process started for an instance has pid n: pids are not        *)
(* reused.  Tasks, convergence drift, file watching and log runs have      *)
(* modules of their own.                                                   *)
(***************************************************************************)
EXTENDS Registry, FiniteSets

CONSTANTS
  Inst,        \* the declared instances, all of them enabled services
  Deps,        \* Deps[n]: the instances n boots and holds (lazy ones left out)
  StartedDeps, \* pairs <<n, d>>: n waits for d only to be Started
  AppInst,     \* instances supervised as long-running apps
  AlwaysOn,    \* instances the idle policy keeps on
  MaxRetries,  \* MaxRetries[n]: the restart budget; 0 for policy "no"
  OnFailure,   \* instances that restart only after a non-zero exit
  Stepped,     \* instances with setup and on_ready steps
  Converging,  \* instances whose engine converges structure after a start
  Multi,       \* instances whose plan starts more than one process
  Uptimes,     \* subset of BOOLEAN: may a process outlive the stability window
  Clients,     \* connections to the proxy
  Users,       \* control-plane callers
  UserOps,     \* what they may ask for: "stop", "off", "on", "pin"
  Exits,       \* how a process may end by itself: "exit0", "exit1"
  Reaper,      \* the idle reaper's goroutine
  None,        \* no instance
  Limited,     \* instances with an idle time: their own or the stack's
  Sweeps,      \* StopAll for a sleep (FALSE), for the shutdown (TRUE), or none
  MaxProc,     \* bound: processes ever started per instance
  MaxCrash     \* bound: crashes of the daemon itself

ASSUME ConstantsOK ==
  /\ IsFiniteSet(Inst) /\ Inst # {}
  /\ Deps \in [Inst -> SUBSET Inst]
  /\ StartedDeps \subseteq Inst \X Inst
  /\ AppInst \subseteq Inst /\ AlwaysOn \subseteq Inst
  /\ OnFailure \subseteq Inst /\ Stepped \subseteq Inst
  /\ Converging \subseteq Inst /\ Multi \subseteq Inst
  /\ MaxRetries \in [Inst -> Nat]
  /\ Uptimes \subseteq BOOLEAN /\ Uptimes # {}
  /\ Sweeps \subseteq BOOLEAN
  /\ Exits \subseteq {"exit0", "exit1"}
  /\ MaxProc \in Nat /\ MaxCrash \in Nat
  /\ Limited \subseteq Inst
  /\ None \notin Inst
  /\ Inst \cap (Users \cup {Reaper}) = {}

Proc == 1..MaxProc

\* Every goroutine that may be inside Stop: a command, the reaper, and the one
\* StopAll spawns for each name of its sweep (called by that name).
Stopper == Users \cup {Reaper} \cup Inst

VARIABLES
  reg,          \* reg[n]: the registry's record
  procs,        \* procs[n]: the registered process, NoPid if none
  deps,         \* deps[n]: the dependencies the registered process holds
  readyPending, \* running, but left not ready by a failed on_ready
  restarts,     \* restarts[n]: whose restartEntry is pending, NoPid if none
  off,          \* taken out of this run
  shuttingDown,
  os,           \* os[n][p]: "unborn", "alive", or how the process exited
  pidfile,      \* pidfile[n]: the pid on disk, NoPid if there is no file
  flight,       \* flight[n]: the boot in flight (singleflight group)
  watch,        \* watch[n][p]: the goroutine waiting for process p
  timer,        \* timer[n][p]: the restart goroutine scheduled after p's exit
  client,       \* client[c]: a proxied connection
  stop,         \* stop[t]: a call of Stop
  due,          \* names the reaper still has to stop in this tick
  sweep,        \* StopAll: "no", "snap", "wait", "exit"
  life          \* the daemon: crashes so far, and whether it is up

maps    == <<procs, deps, readyPending, restarts>>    \* under Runtime.mu
gates   == <<off, shuttingDown>>
world   == <<os, pidfile>>                            \* survives the daemon
control == <<due, sweep, life>>

vars == <<reg, maps, gates, world, flight, watch, timer, client, stop, control>>

NoFlight == [pc |-> "none", cond |-> "healthy", todo |-> {}, held |-> {},
             dep |-> None, p |-> NoPid]
NoWatch  == [pc |-> "none", held |-> {}]
NoStop   == [pc |-> "none", at |-> None, held |-> {}, p |-> NoPid]
NoClient == [pc |-> "out", at |-> None]

FlightPc == {"none", "enter", "deps", "depcall", "depwait", "depup", "prep",
             "spawn", "ready", "register", "running", "pid", "converge",
             "onready", "notready", "reread", "rerun", "rerunning", "unwind",
             "failing", "failed"}

FlightRec == [pc : FlightPc, cond : {"healthy", "started"},
              todo : SUBSET Inst, held : SUBSET Inst,
              dep : Inst \cup {None}, p : Proc \cup {NoPid}]

WatchRec == [pc : {"none", "wait", "deaf", "release", "reap", "decide",
                   "crash", "sched", "giveup", "done"},
             held : SUBSET Inst]

TimerPc == {"none", "armed", "fired", "call", "done"}

ClientRec == [pc : {"out", "call", "wait", "up", "dialed", "held"},
              at : Inst \cup {None}]

StopRec == [pc : {"none", "take", "reset", "kill", "release", "reap"},
            at : Inst \cup {None}, held : SUBSET Inst, p : Proc \cup {NoPid}]

OsState == {"unborn", "alive", "exit0", "exit1"}

TypeOK ==
  /\ reg \in [Inst -> Record]
  /\ procs \in [Inst -> Proc \cup {NoPid}]
  /\ deps \in [Inst -> SUBSET Inst]
  /\ readyPending \subseteq Inst
  /\ restarts \in [Inst -> Proc \cup {NoPid}]
  /\ off \subseteq Inst
  /\ shuttingDown \in BOOLEAN
  /\ os \in [Inst -> [Proc -> OsState]]
  /\ pidfile \in [Inst -> Proc \cup {NoPid}]
  /\ flight \in [Inst -> FlightRec]
  /\ watch \in [Inst -> [Proc -> WatchRec]]
  /\ timer \in [Inst -> [Proc -> TimerPc]]
  /\ client \in [Clients -> ClientRec]
  /\ stop \in [Stopper -> StopRec]
  /\ due \subseteq Inst
  /\ sweep \in {"no", "snap", "wait", "exit"}
  /\ life \in [crashes : Nat, up : BOOLEAN]

Init ==
  /\ reg = [n \in Inst |-> Fresh]
  /\ procs = [n \in Inst |-> NoPid]
  /\ deps = [n \in Inst |-> {}]
  /\ readyPending = {} /\ off = {} /\ due = {}
  /\ restarts = [n \in Inst |-> NoPid]
  /\ shuttingDown = FALSE
  /\ os = [n \in Inst |-> [p \in Proc |-> "unborn"]]
  /\ pidfile = [n \in Inst |-> NoPid]
  /\ flight = [n \in Inst |-> NoFlight]
  /\ watch = [n \in Inst |-> [p \in Proc |-> NoWatch]]
  /\ timer = [n \in Inst |-> [p \in Proc |-> "none"]]
  /\ client = [c \in Clients |-> NoClient]
  /\ stop = [t \in Stopper |-> NoStop]
  /\ sweep = "no"
  /\ life = [crashes |-> 0, up |-> TRUE]

-----------------------------------------------------------------------------
(* Helpers *)

Alive(n, p) == p # NoPid /\ os[n][p] = "alive"

\* What bootCond and bootLocked both ask first: is it up already?
Running(n) == reg[n].state \in RunningState /\ Alive(n, procs[n])

\* One registry call on one instance.
Update(n, rec) == reg' = [reg EXCEPT ![n] = rec]

\* Release called once for every name of held.
ReleaseAll(held) ==
  reg' = [d \in Inst |-> IF d \in held THEN Release(reg[d]) ELSE reg[d]]

\* singleflight.Group.Do: join the boot in flight for d, or start one.  The
\* condition is that of the caller that starts it.
DoJoinOnly(f, d, cond) == f         \* mutant: nobody starts the boot
Do(f, d, cond) ==
  IF f[d].pc = "none"
  THEN [f EXCEPT ![d] = [NoFlight EXCEPT !.pc = "enter", !.cond = cond]]
  ELSE f

\* The condition dependant n asks of dependency d.
CondOf(n, d) == IF <<n, d>> \in StartedDeps THEN "started" ELSE "healthy"

\* What Stop, watch and a failed converge leave of n's holds in the map.
HoldsKept(n) == deps                \* mutant: the entry stays behind
HoldsDropped(n) == [deps EXCEPT ![n] = {}]

\* The pending restart of n is removed from the map.
RestartKept(n) == restarts          \* mutant: the entry stays behind
RestartDropped(n) == [restarts EXCEPT ![n] = NoPid]

\* `go r.watch(name, proc)`.
Unwatched(n, p) == watch            \* mutant: nobody waits for the process
Watched(n, p) == [watch EXCEPT ![n][p].pc = "wait"]

\* The restart goroutine of p still owns the pending entry.
OwnsAnyway(n, p) == TRUE            \* mutant: it does not look
Owns(n, p) == restarts[n] = p

OneTooMany(n, i) == i.restarts <= MaxRetries[n] + 1     \* mutant: off by one
WithinBudget(n, i) == i.restarts <= MaxRetries[n]

Kill(n, p) == os' = [os EXCEPT ![n][p] = IF @ = "alive" THEN "exit1" ELSE @]

\* bootCond's first check.
GateAlwaysOpen == TRUE      \* mutant: the gate is forgotten
Gate == ~shuttingDown

NeverOff(n) == FALSE        \* mutant: the check is forgotten
IsOff(n) == n \in off

\* Every connection that joined the boot of n gets the same answer.
NobodyAnswered(n, ok) == client     \* mutant: the joined callers are forgotten
Answered(n, ok) ==
  [c \in Clients |->
     IF client[c].pc = "wait" /\ client[c].at = n
     THEN IF ok THEN [client[c] EXCEPT !.pc = "up"] ELSE NoClient
     ELSE client[c]]

\* The boot of n ends: the group forgets it and its callers are answered.
Finish(n, ok) ==
  /\ flight' = [m \in Inst |->
       IF m = n THEN NoFlight
       ELSE IF flight[m].pc = "depwait" /\ flight[m].dep = n
            THEN [flight[m] EXCEPT !.pc = IF ok THEN "depup" ELSE "failing"]
            ELSE flight[m]]
  /\ client' = Answered(n, ok)

-----------------------------------------------------------------------------
(* Connections (proxy.handle) *)

\* bootCond's first line.  A refusal leaves everything as it is.
ClientCall(c, n) ==
  /\ life.up /\ client[c].pc = "out"
  /\ Gate
  /\ client' = [client EXCEPT ![c] = [pc |-> "call", at |-> n]]
  /\ UNCHANGED <<reg, maps, gates, world, flight, watch, timer, stop, control>>

\* The rest of bootCond: return at once, or wait for the boot in flight.
ClientBoot(c) ==
  LET n == client[c].at IN
  /\ client[c].pc = "call"
  /\ IF Running(n)
     THEN /\ client' = [client EXCEPT ![c].pc = "up"]
          /\ UNCHANGED flight
     ELSE /\ client' = [client EXCEPT ![c].pc = "wait"]
          /\ flight' = Do(flight, n, "healthy")
  /\ UNCHANGED <<reg, maps, gates, world, watch, timer, stop, control>>

\* dialBackend and the handshake: they need a live backend.
ClientDial(c) ==
  /\ client[c].pc = "up"
  /\ client' = [client EXCEPT ![c] =
       IF \E p \in Proc : Alive(client[c].at, p)
       THEN [@ EXCEPT !.pc = "dialed"] ELSE NoClient]
  /\ UNCHANGED <<reg, maps, gates, world, flight, watch, timer, stop, control>>

\* A handshake that fails ends the connection before it was counted.
ClientRefused(c) ==
  /\ client[c].pc = "dialed"
  /\ client' = [client EXCEPT ![c] = NoClient]
  /\ UNCHANGED <<reg, maps, gates, world, flight, watch, timer, stop, control>>

ClientAcquire(c) ==
  /\ client[c].pc = "dialed"
  /\ client' = [client EXCEPT ![c].pc = "held"]
  /\ Update(client[c].at, Acquire(reg[client[c].at]))
  /\ UNCHANGED <<maps, gates, world, flight, watch, timer, stop, control>>

\* splice returned: either side closed.
ClientRelease(c) ==
  /\ client[c].pc = "held"
  /\ client' = [client EXCEPT ![c] = NoClient]
  /\ Update(client[c].at, Release(reg[client[c].at]))
  /\ UNCHANGED <<maps, gates, world, flight, watch, timer, stop, control>>

-----------------------------------------------------------------------------
(* The boot in flight (bootLocked, bootDeps, executePlan, rerunOnReady) *)

At(n, pc) == flight[n].pc = pc

Goto(n, pc) == flight' = [flight EXCEPT ![n].pc = pc]

FlightEnter(n) ==
  LET rerun == n \in readyPending /\ Alive(n, procs[n])
      start == ~rerun /\ ~Running(n)
  IN
  /\ At(n, "enter")
  /\ \/ /\ rerun
        /\ Goto(n, "reread")
        /\ UNCHANGED <<reg, client>>
     \/ /\ ~rerun /\ Running(n)
        /\ Finish(n, TRUE)
        /\ UNCHANGED reg
     \/ /\ start /\ IsOff(n)
        /\ Finish(n, FALSE)
        /\ UNCHANGED reg
     \/ /\ start /\ ~IsOff(n)
        /\ Update(n, MarkBooting(reg[n]))
        /\ flight' = [flight EXCEPT ![n] = [@ EXCEPT !.pc = "deps",
                                                    !.todo = Deps[n]]]
        /\ UNCHANGED client
  /\ UNCHANGED <<maps, gates, world, watch, timer, stop, control>>

\* The next dependency, through bootCond: its shutdown gate here.
FlightDeps(n) ==
  /\ At(n, "deps")
  /\ \/ /\ flight[n].todo = {}
        /\ Goto(n, "prep")
     \/ \E d \in flight[n].todo :
          flight' = [flight EXCEPT ![n] =
            [@ EXCEPT !.pc = IF Gate THEN "depcall" ELSE "failing", !.dep = d]]
  /\ UNCHANGED <<reg, maps, gates, world, watch, timer, client, stop, control>>

FlightDepCall(n) ==
  LET d == flight[n].dep IN
  /\ At(n, "depcall")
  /\ flight' = IF Running(d)
               THEN [flight EXCEPT ![n].pc = "depup"]
               ELSE Do([flight EXCEPT ![n].pc = "depwait"], d, CondOf(n, d))
  /\ UNCHANGED <<reg, maps, gates, world, watch, timer, client, stop, control>>

FlightDepAcquire(n) ==
  LET d == flight[n].dep IN
  /\ At(n, "depup")
  /\ Update(d, Acquire(reg[d]))
  /\ flight' = [flight EXCEPT ![n] =
       [flight[n] EXCEPT !.pc = "deps", !.todo = @ \ {d},
                         !.held = @ \cup {d}]]
  /\ UNCHANGED <<maps, gates, world, watch, timer, client, stop, control>>

\* Resolve, Provision, Download, setup, Plan: any of them may fail, and a setup
\* that does taints the instance.
FlightPrep(n) ==
  /\ At(n, "prep")
  /\ \/ /\ \E pc \in {"spawn", "failing"} : Goto(n, pc)
        /\ UNCHANGED reg
     \/ /\ n \in Stepped
        /\ Update(n, SetTainted(reg[n]))
        /\ Goto(n, "failing")
  /\ UNCHANGED <<maps, gates, world, watch, timer, client, stop, control>>

\* cmd.Start succeeds or does not; the bound MaxProc makes it fail.
FlightSpawn(n) ==
  /\ At(n, "spawn")
  /\ \/ /\ Goto(n, "failing")
        /\ UNCHANGED os
     \/ \E p \in Proc :
          /\ os[n][p] = "unborn"
          /\ \A q \in Proc : q < p => os[n][q] # "unborn"
          /\ os' = [os EXCEPT ![n][p] = "alive"]
          /\ flight' = [flight EXCEPT ![n] = [@ EXCEPT !.pc = "ready", !.p = p]]
  /\ UNCHANGED <<reg, maps, gates, pidfile, watch, timer, client, stop,
                 control>>

\* The readiness gate: passed, or given up and the process stopped.
FlightReady(n) ==
  /\ At(n, "ready")
  /\ \/ /\ Alive(n, flight[n].p)
        /\ Goto(n, "register")
        /\ UNCHANGED os
     \/ /\ Kill(n, flight[n].p)
        /\ Goto(n, "failing")
  /\ UNCHANGED <<reg, maps, gates, pidfile, watch, timer, client, stop,
                 control>>

FlightRegister(n) ==
  /\ At(n, "register")
  /\ procs' = [procs EXCEPT ![n] = flight[n].p]
  /\ deps' = [deps EXCEPT ![n] = flight[n].held]
  /\ Goto(n, "running")
  /\ UNCHANGED <<reg, readyPending, restarts, gates, world, watch, timer,
                 client, stop, control>>

FlightRunning(n) ==
  /\ At(n, "running")
  /\ Update(n, MarkRunning(SetIdlePolicy(reg[n], n \in AlwaysOn), flight[n].p))
  /\ Goto(n, "pid")
  /\ UNCHANGED <<maps, gates, world, watch, timer, client, stop, control>>

\* writePidfile, then `go r.watch(name, proc)`.
WrittenOnce(n) == IF pidfile[n] = NoPid THEN flight[n].p ELSE pidfile[n]  \* mutant
Written(n) == flight[n].p
FlightPid(n) ==
  /\ At(n, "pid")
  /\ pidfile' = [pidfile EXCEPT ![n] = Written(n)]
  /\ watch' = Watched(n, flight[n].p)
  /\ Goto(n, IF n \in Converging THEN "converge" ELSE "onready")
  /\ UNCHANGED <<reg, maps, gates, os, timer, client, stop, control>>

\* Converge is skipped when nothing drifted.  When it fails the process is
\* dropped from the maps first, so that its watcher does nothing.
FlightConverge(n) ==
  /\ At(n, "converge")
  /\ \/ /\ \/ UNCHANGED reg
           \/ Update(n, ClearTainted(reg[n]))
        /\ Goto(n, "onready")
        /\ UNCHANGED <<procs, deps>>
     \/ /\ Update(n, SetTainted(reg[n]))
        /\ procs' = [procs EXCEPT ![n] = NoPid]
        /\ deps' = HoldsDropped(n)
        /\ Goto(n, "unwind")
  /\ UNCHANGED <<readyPending, restarts, gates, world, watch, timer, client,
                 stop, control>>

FlightUnwind(n) ==
  /\ At(n, "unwind")
  /\ Kill(n, flight[n].p)
  /\ pidfile' = [pidfile EXCEPT ![n] = NoPid]
  /\ Goto(n, "failing")
  /\ UNCHANGED <<reg, maps, gates, watch, timer, client, stop, control>>

\* The on_ready steps run for a Healthy boot only.  When they fail the command
\* is left running and the boot fails.
FlightOnReady(n) ==
  /\ At(n, "onready")
  /\ \/ /\ Finish(n, TRUE)
        /\ UNCHANGED readyPending
     \/ /\ n \in Stepped /\ flight[n].cond = "healthy"
        /\ readyPending' = readyPending \cup {n}
        /\ Goto(n, "notready")
        /\ UNCHANGED client
  /\ UNCHANGED <<reg, procs, deps, restarts, gates, world, watch, timer, stop,
                 control>>

FlightNotReady(n) ==
  /\ At(n, "notready")
  /\ Update(n, MarkFailed(reg[n]))
  /\ Finish(n, FALSE)
  /\ UNCHANGED <<maps, gates, world, watch, timer, stop, control>>

\* rerunOnReady takes the process from the map again: it may be gone by now.
FlightReread(n) ==
  /\ At(n, "reread")
  /\ flight' = [flight EXCEPT ![n] = [@ EXCEPT !.pc = "rerun", !.p = procs[n]]]
  /\ UNCHANGED <<reg, maps, gates, world, watch, timer, client, stop, control>>

\* The steps again and nothing else.
FlightRerun(n) ==
  /\ At(n, "rerun")
  /\ \/ /\ readyPending' = readyPending \ {n}
        /\ Goto(n, "rerunning")
        /\ UNCHANGED <<reg, client>>
     \/ /\ Update(n, MarkFailed(reg[n]))
        /\ Finish(n, FALSE)
        /\ UNCHANGED readyPending
  /\ UNCHANGED <<procs, deps, restarts, gates, world, watch, timer, stop,
                 control>>

FlightRerunning(n) ==
  /\ At(n, "rerunning") /\ flight[n].p # NoPid
  /\ Update(n, MarkRunning(reg[n], flight[n].p))
  /\ Finish(n, TRUE)
  /\ UNCHANGED <<maps, gates, world, watch, timer, stop, control>>

\* bootLocked's `fail`: release what is held, then record the failure.
FlightFailing(n) ==
  /\ At(n, "failing")
  /\ ReleaseAll(flight[n].held)
  /\ flight' = [flight EXCEPT ![n] = [@ EXCEPT !.pc = "failed", !.held = {}]]
  /\ UNCHANGED <<maps, gates, world, watch, timer, client, stop, control>>

FlightFailed(n) ==
  /\ At(n, "failed")
  /\ Update(n, MarkFailed(reg[n]))
  /\ Finish(n, FALSE)
  /\ UNCHANGED <<maps, gates, world, watch, timer, stop, control>>

-----------------------------------------------------------------------------
(* The crash watcher (watch) and the restart it may schedule *)

\* A backend exits by itself, with status 0 or not.
Exit(n, p) ==
  /\ os[n][p] = "alive"
  /\ \E how \in Exits : os' = [os EXCEPT ![n][p] = how]
  /\ UNCHANGED <<reg, maps, gates, pidfile, flight, watch, timer, client, stop,
                 control>>

WatchAt(n, p, pc) == watch[n][p].pc = pc

WatchGoto(n, p, pc) == watch' = [watch EXCEPT ![n][p].pc = pc]

WatchExit(n, p) ==
  /\ WatchAt(n, p, "wait")
  /\ ~Alive(n, p)
  /\ IF procs[n] # p
     THEN /\ WatchGoto(n, p, "done")
          /\ UNCHANGED <<procs, deps, readyPending>>
     ELSE /\ procs' = [procs EXCEPT ![n] = NoPid]
          /\ deps' = HoldsDropped(n)
          /\ readyPending' = readyPending \ {n}
          /\ watch' = [watch EXCEPT ![n][p] = [pc |-> "release", held |-> deps[n]]]
  /\ UNCHANGED <<reg, restarts, gates, world, flight, timer, client, stop,
                 control>>

\* The Wait of several processes has one value for all its callers, and the one
\* that closes the log run may have it: watch is never told.
WatchDeaf(n, p) ==
  /\ n \in Multi /\ WatchAt(n, p, "wait")
  /\ ~Alive(n, p)
  /\ WatchGoto(n, p, "deaf")
  /\ UNCHANGED <<reg, maps, gates, world, flight, timer, client, stop, control>>

WatchRelease(n, p) ==
  /\ WatchAt(n, p, "release")
  /\ ReleaseAll(watch[n][p].held)
  /\ watch' = [watch EXCEPT ![n][p] = [pc |-> "reap", held |-> {}]]
  /\ UNCHANGED <<maps, gates, world, flight, timer, client, stop, control>>

\* removePidfile and MarkReaped.
WatchReap(n, p) ==
  /\ WatchAt(n, p, "reap")
  /\ pidfile' = [pidfile EXCEPT ![n] = NoPid]
  /\ Update(n, MarkReaped(reg[n]))
  /\ WatchGoto(n, p, IF shuttingDown THEN "done" ELSE "decide")
  /\ UNCHANGED <<maps, gates, os, flight, timer, client, stop, control>>

\* restartSpec and shouldRestart.
Restartable(n, p) ==
  MaxRetries[n] > 0 /\ (n \in OnFailure => os[n][p] = "exit1")

\* ResetRestart after a long enough uptime, IncRestart, and the verdict; or, for
\* an exit that is not retried, what the registry is left with.
WatchDecide(n, p) ==
  /\ WatchAt(n, p, "decide")
  /\ \/ /\ Restartable(n, p)
        /\ \E stable \in Uptimes :
             LET i == IncRestart(IF stable THEN ResetRestart(reg[n]) ELSE reg[n])
             IN  /\ Update(n, i)
                 /\ WatchGoto(n, p, IF WithinBudget(n, i)
                                    THEN "crash" ELSE "giveup")
     \/ /\ ~Restartable(n, p)
        /\ IF n \in AppInst /\ os[n][p] = "exit0"
           THEN UNCHANGED reg                    \* SetError: the text only
           ELSE Update(n, MarkFailed(reg[n]))
        /\ WatchGoto(n, p, "done")
  /\ UNCHANGED <<maps, gates, world, flight, timer, client, stop, control>>

WatchGiveUp(n, p) ==
  /\ WatchAt(n, p, "giveup")
  /\ Update(n, MarkFailed(reg[n]))
  /\ WatchGoto(n, p, "done")
  /\ UNCHANGED <<maps, gates, world, flight, timer, client, stop, control>>

WatchCrash(n, p) ==
  /\ WatchAt(n, p, "crash")
  /\ Update(n, MarkCrashing(reg[n]))
  /\ WatchGoto(n, p, "sched")
  /\ UNCHANGED <<maps, gates, world, flight, timer, client, stop, control>>

\* scheduleRestart: a pending entry is superseded by the new one.
WatchSchedule(n, p) ==
  /\ WatchAt(n, p, "sched")
  /\ restarts' = [restarts EXCEPT ![n] = p]
  /\ timer' = [timer EXCEPT ![n][p] = "armed"]
  /\ WatchGoto(n, p, "done")
  /\ UNCHANGED <<reg, procs, deps, readyPending, gates, world, flight, client,
                 stop, control>>

\* The delay passed, and the goroutine still owns the pending entry.
TimerFires(n, p) ==
  /\ timer[n][p] = "armed"
  /\ Owns(n, p)
  /\ restarts' = RestartDropped(n)
  /\ timer' = [timer EXCEPT ![n][p] = "fired"]
  /\ UNCHANGED <<reg, procs, deps, readyPending, gates, world, flight, watch,
                 client, stop, control>>

\* Cancelled by Stop or superseded: before the delay passed, or just after.
TimerCancelled(n, p) ==
  /\ timer[n][p] = "armed"
  /\ ~Owns(n, p)
  /\ timer' = [timer EXCEPT ![n][p] = "done"]
  /\ UNCHANGED <<reg, maps, gates, world, flight, watch, client, stop, control>>

\* The shutdown check, and bootCond's.
TimerGate(n, p) ==
  /\ timer[n][p] = "fired"
  /\ timer' = [timer EXCEPT ![n][p] = IF Gate THEN "call" ELSE "done"]
  /\ UNCHANGED <<reg, maps, gates, world, flight, watch, client, stop, control>>

TimerBoot(n, p) ==
  /\ timer[n][p] = "call"
  /\ flight' = IF Running(n) THEN flight ELSE Do(flight, n, "healthy")
  /\ timer' = [timer EXCEPT ![n][p] = "done"]
  /\ UNCHANGED <<reg, maps, gates, world, watch, client, stop, control>>

-----------------------------------------------------------------------------
(* Stop, for whoever calls it *)

StopAt(t, pc) == stop[t].pc = pc

\* Stop's critical section: everything the maps know of n is taken at once.
\* Cancelling the pending restart is dropping its entry.
Take(t, n) ==
  /\ procs' = [procs EXCEPT ![n] = NoPid]
  /\ deps' = HoldsDropped(n)
  /\ readyPending' = readyPending \ {n}
  /\ restarts' = RestartDropped(n)
  /\ stop' = [stop EXCEPT ![t] =
       [pc |-> "reset", at |-> n, held |-> deps[n], p |-> procs[n]]]

\* A call already under way reaches its critical section.
StopTake(t) ==
  /\ StopAt(t, "take")
  /\ Take(t, stop[t].at)
  /\ UNCHANGED <<reg, gates, world, flight, watch, timer, client, control>>

\* ResetRestart; with nothing taken, Stop returns there.
StopReset(t) ==
  LET n == stop[t].at IN
  /\ StopAt(t, "reset")
  /\ Update(n, ResetRestart(reg[n]))
  /\ stop' = [stop EXCEPT ![t] = IF @.p = NoPid /\ @.held = {} THEN NoStop
                                 ELSE [@ EXCEPT !.pc = "kill"]]
  /\ UNCHANGED <<maps, gates, world, flight, watch, timer, client, control>>

\* The stop steps and p.Stop: it returns with the process gone (SIGKILL at the
\* latest).
StopKill(t) ==
  /\ StopAt(t, "kill")
  /\ IF stop[t].p = NoPid THEN UNCHANGED os ELSE Kill(stop[t].at, stop[t].p)
  /\ stop' = [stop EXCEPT ![t].pc = "release"]
  /\ UNCHANGED <<reg, maps, gates, pidfile, flight, watch, timer, client,
                 control>>

StopRelease(t) ==
  /\ StopAt(t, "release")
  /\ ReleaseAll(stop[t].held)
  /\ stop' = [stop EXCEPT ![t] = [@ EXCEPT !.pc = "reap", !.held = {}]]
  /\ UNCHANGED <<maps, gates, world, flight, watch, timer, client, control>>

\* removePidfile and MarkReaped.
StopReap(t) ==
  LET n == stop[t].at IN
  /\ StopAt(t, "reap")
  /\ pidfile' = [pidfile EXCEPT ![n] = NoPid]
  /\ Update(n, MarkReaped(reg[n]))
  /\ stop' = [stop EXCEPT ![t] = NoStop]
  /\ UNCHANGED <<maps, gates, os, flight, watch, timer, client, control>>

-----------------------------------------------------------------------------
(* Who stops: commands, the reaper, StopAll *)

UserStop(u, n) ==
  /\ life.up /\ "stop" \in UserOps /\ StopAt(u, "none")
  /\ Take(u, n)
  /\ UNCHANGED <<reg, gates, world, flight, watch, timer, client, control>>

\* SetOff(name, true): the mark, then Stop.
UserOff(u, n) ==
  /\ life.up /\ "off" \in UserOps /\ StopAt(u, "none")
  /\ off' = off \cup {n}
  /\ stop' = [stop EXCEPT ![u] = [NoStop EXCEPT !.pc = "take", !.at = n]]
  /\ UNCHANGED <<reg, maps, shuttingDown, world, flight, watch, timer, client,
                 control>>

\* SetOff(name, false).
UserOn(u, n) ==
  /\ life.up /\ "on" \in UserOps /\ StopAt(u, "none")
  /\ n \in off
  /\ off' = off \ {n}
  /\ UNCHANGED <<reg, maps, shuttingDown, world, flight, watch, timer, client,
                 stop, control>>

UserPin(u, n) ==
  /\ life.up /\ "pin" \in UserOps /\ StopAt(u, "none")
  /\ Update(n, ToggleKeepAwake(reg[n]))
  /\ UNCHANGED <<maps, gates, world, flight, watch, timer, client, stop,
                 control>>

\* A tick: the names due are read once, and stopped one after the other.
ReaperTick ==
  /\ life.up /\ ~shuttingDown
  /\ due = {} /\ StopAt(Reaper, "none")
  /\ due' = {n \in Inst : Reapable(reg[n], n \in Limited)}
  /\ due' # {}
  /\ UNCHANGED <<reg, maps, gates, world, flight, watch, timer, client, stop,
                 sweep, life>>

ReaperStop(n) ==
  /\ n \in due /\ StopAt(Reaper, "none")
  /\ due' = due \ {n}
  /\ Take(Reaper, n)
  /\ UNCHANGED <<reg, gates, world, flight, watch, timer, client, sweep, life>>

\* `doze sleep` (StopAll alone), or the daemon's shutdown: BeginShutdown first.
SweepBegin ==
  /\ life.up /\ sweep = "no"
  /\ \E final \in Sweeps : shuttingDown' = (shuttingDown \/ final)
  /\ sweep' = "snap"
  /\ UNCHANGED <<reg, maps, off, world, flight, watch, timer, client, stop,
                 due, life>>

SweepNames == {n \in Inst : procs[n] # NoPid \/ restarts[n] # NoPid}

\* One pass: a Stop for every name in the maps; none left ends StopAll.
SweepSnapshot ==
  /\ sweep = "snap"
  /\ IF SweepNames = {}
     THEN /\ sweep' = IF shuttingDown THEN "exit" ELSE "no"
          /\ UNCHANGED stop
     ELSE /\ sweep' = "wait"
          /\ stop' = [t \in Stopper |->
               IF t \in SweepNames THEN [NoStop EXCEPT !.pc = "take", !.at = t]
               ELSE stop[t]]
  /\ UNCHANGED <<reg, maps, gates, world, flight, watch, timer, client, due,
                 life>>

\* wg.Wait, then another pass, unless the budget has run out.
SweepPassed ==
  /\ sweep = "wait"
  /\ \A n \in Inst : StopAt(n, "none")
  /\ sweep' \in {"snap", IF shuttingDown THEN "exit" ELSE "no"}
  /\ UNCHANGED <<reg, maps, gates, world, flight, watch, timer, client, stop,
                 due, life>>

-----------------------------------------------------------------------------
(* A crash of the daemon, and Reconcile at its next start *)

\* Everything in memory is gone; processes and pidfiles stay (where the kernel
\* does not kill the children with their parent).
Dies ==
  /\ reg' = [n \in Inst |-> Fresh]
  /\ procs' = [n \in Inst |-> NoPid]
  /\ deps' = [n \in Inst |-> {}]
  /\ readyPending' = {} /\ off' = {} /\ due' = {}
  /\ restarts' = [n \in Inst |-> NoPid]
  /\ shuttingDown' = FALSE
  /\ flight' = [n \in Inst |-> NoFlight]
  /\ watch' = [n \in Inst |-> [p \in Proc |-> NoWatch]]
  /\ timer' = [n \in Inst |-> [p \in Proc |-> "none"]]
  /\ client' = [c \in Clients |-> NoClient]
  /\ stop' = [t \in Stopper |-> NoStop]
  /\ sweep' = "no"
  /\ UNCHANGED <<os, pidfile>>

DaemonCrash ==
  /\ life.up /\ life.crashes < MaxCrash
  /\ life' = [crashes |-> life.crashes + 1, up |-> FALSE]
  /\ Dies

\* rerunOnReady asks the process it has read for its pid: without one it panics,
\* and the daemon is gone.
Panic(n) ==
  /\ At(n, "rerunning") /\ flight[n].p = NoPid
  /\ life' = [life EXCEPT !.up = FALSE]
  /\ Dies

\* Kill every pid recorded on disk, before anything is served.
Reconcile ==
  /\ ~life.up
  /\ life' = [life EXCEPT !.up = TRUE]
  /\ os' = [n \in Inst |-> [p \in Proc |->
              IF pidfile[n] = p /\ os[n][p] = "alive" THEN "exit1" ELSE os[n][p]]]
  /\ pidfile' = [n \in Inst |-> NoPid]
  /\ UNCHANGED <<reg, maps, gates, flight, watch, timer, client, stop, due,
                 sweep>>

-----------------------------------------------------------------------------
(* The whole daemon *)

Client(c) ==
  \/ \E n \in Inst : ClientCall(c, n)
  \/ ClientBoot(c) \/ ClientDial(c) \/ ClientRefused(c)
  \/ ClientAcquire(c) \/ ClientRelease(c)

Flight(n) ==
  \/ FlightEnter(n) \/ FlightDeps(n) \/ FlightDepCall(n) \/ FlightDepAcquire(n)
  \/ FlightPrep(n) \/ FlightSpawn(n) \/ FlightReady(n) \/ FlightRegister(n)
  \/ FlightRunning(n) \/ FlightPid(n) \/ FlightConverge(n) \/ FlightUnwind(n)
  \/ FlightOnReady(n) \/ FlightNotReady(n) \/ FlightReread(n) \/ FlightRerun(n)
  \/ FlightRerunning(n) \/ FlightFailing(n) \/ FlightFailed(n)

Watch(n, p) ==
  \/ WatchExit(n, p) \/ WatchDeaf(n, p) \/ WatchRelease(n, p)
  \/ WatchReap(n, p) \/ WatchDecide(n, p) \/ WatchGiveUp(n, p) \/ WatchCrash(n, p)
  \/ WatchSchedule(n, p)

Timer(n, p) ==
  \/ TimerFires(n, p) \/ TimerCancelled(n, p)
  \/ TimerGate(n, p) \/ TimerBoot(n, p)

Stop(t) ==
  \/ StopTake(t) \/ StopReset(t) \/ StopKill(t) \/ StopRelease(t) \/ StopReap(t)

User(u) ==
  \E n \in Inst : UserStop(u, n) \/ UserOff(u, n) \/ UserOn(u, n) \/ UserPin(u, n)

Reap == ReaperTick \/ \E n \in Inst : ReaperStop(n)

Sweep == SweepBegin \/ SweepSnapshot \/ SweepPassed

Next ==
  \/ \E c \in Clients : Client(c)
  \/ \E n \in Inst : Flight(n)
  \/ \E n \in Inst, p \in Proc : Exit(n, p) \/ Watch(n, p) \/ Timer(n, p)
  \/ \E t \in Stopper : Stop(t)
  \/ \E u \in Users : User(u)
  \/ Reap
  \/ Sweep
  \/ DaemonCrash
  \/ \E n \in Inst : Panic(n)
  \/ Reconcile

Spec == Init /\ [][Next]_vars

(***************************************************************************)
(* Fairness: the Go scheduler runs every goroutine that can move, and each *)
(* wait is bounded (boot budgets, probe timeouts, SIGKILL, timers); the    *)
(* wait for several processes is not, which is what WatchDeaf is for.      *)
(* What clients, users, crashes and the start of a sweep do is up to them, *)
(* save that a connection already dialed or boot already called moves on.  *)
(***************************************************************************)
Fairness ==
  /\ \A n \in Inst : WF_vars(Flight(n) \/ Panic(n))
  /\ \A n \in Inst, p \in Proc : WF_vars(Watch(n, p)) /\ WF_vars(Timer(n, p))
  /\ \A t \in Stopper : WF_vars(Stop(t))
  /\ \A c \in Clients : WF_vars(ClientBoot(c) \/ ClientDial(c) \/ ClientAcquire(c))
  /\ WF_vars(SweepSnapshot \/ SweepPassed)
  /\ WF_vars(\E n \in Inst : ReaperStop(n))

FairSpec == Spec /\ Fairness

-----------------------------------------------------------------------------
(* Properties that hold *)

\* Every registered process is still watched, or the boot that registered it
\* has yet to start its watcher (the order of register and `go watch` in
\* bootLocked, against Stop, watch and a second boot).  Only the watcher of
\* several processes may have missed their end.
RegisteredIsWatched ==
  \A n \in Inst : procs[n] # NoPid =>
    \/ WatchAt(n, procs[n], "wait")
    \/ n \in Multi /\ WatchAt(n, procs[n], "deaf") /\ ~Alive(n, procs[n])
    \/ flight[n].pc \in {"running", "pid"} /\ flight[n].p = procs[n]

\* A pending restart always has its goroutine behind it: an entry in the map is
\* one that will fire or be cancelled, so StopAll, which waits for the map to
\* empty, cannot be kept waiting (scheduleRestart against Stop and itself).
PendingRestartIsBacked ==
  \A n \in Inst : restarts[n] # NoPid => timer[n][restarts[n]] = "armed"

\* A registered process holds exactly the dependencies it was booted with, and
\* nothing is held for an instance that has none registered.
RegisteredHoldsDeps ==
  \A n \in Inst : deps[n] = IF procs[n] # NoPid THEN Deps[n] ELSE {}

\* Whoever waits in singleflight waits for a boot that is there: no answer can
\* be missed by a caller that joined late, or by a dependant.
WaitersHaveFlight ==
  /\ \A c \in Clients : client[c].pc = "wait" =>
       client[c].at \in Inst /\ flight[client[c].at].pc # "none"
  /\ \A n \in Inst : flight[n].pc = "depwait" =>
       flight[n].dep \in Inst /\ flight[flight[n].dep].pc # "none"

\* "Booting means a backend is being started (singleflight in flight)": no
\* order of failures, stops and crashes leaves an instance booting for ever.
BootingMeansInFlight ==
  \A n \in Inst : reg[n].state = "booting" => flight[n].pc # "none"

\* Idle is a claim about the count and the idle timer only runs without
\* connections: whatever Stop, watch, boots and connections do to a record in
\* between, the reaper never finds an idle instance with a count.
IdleMeansUnheld == \A n \in Inst : Unheld(reg[n])

\* Stop or a newer restart cancelled the entry of p: its goroutine boots
\* nothing any more and the entry does not come back.
CancelledStaysCancelled ==
  [][\A n \in Inst, p \in Proc :
       timer[n][p] = "armed" /\ restarts[n] # p =>
         timer'[n][p] # "fired" /\ restarts'[n] # p]_vars

\* The daemon is shutting down and every boot that got past the gate is over.
Sealed ==
  /\ shuttingDown
  /\ \A n \in Inst : flight[n].pc = "none"
  /\ \A n \in Inst, p \in Proc : timer[n][p] # "call" /\ os[n][p] # "alive"
  /\ \A c \in Clients : client[c].pc # "call"

\* Once sealed nothing ever runs again in this life of the daemon: neither a
\* late connection, nor a crash restart still pending, nor a dependency's boot
\* respawns anything behind the last sweep.
SealedForGood == [][Sealed /\ life.up' => Sealed']_vars

\* n was switched off, its processes are gone and no boot is past the check.
OffQuiet(n) ==
  /\ n \in off
  /\ flight[n].pc \in {"none", "enter"}
  /\ \A p \in Proc : os[n][p] # "alive"

\* It then stays down until it is switched on, whoever connects, depends on it
\* or had a restart pending.
OffStaysQuiet ==
  [][\A n \in Inst : OffQuiet(n) /\ n \in off' => OffQuiet(n)']_vars

\* Without a stop and without a long uptime, an instance is restarted no more
\* often than its budget, however connections wake it in between.
CrashLoopIsBounded ==
  \A n \in Inst : Cardinality({p \in Proc : timer[n][p] # "none"}) <= MaxRetries[n]

\* The pidfile of a registered process names it, once its boot has written it: a
\* pidfile is never left naming an earlier process, whatever order boots, stops
\* and watchers write and remove it in.  It is missing only when an earlier
\* process of the instance was cleaned up late (runtime.go:680, 715), and what
\* is registered is then not reclaimed after a crash of the daemon.
RegisteredIsRecorded ==
  \A n \in Inst : procs[n] # NoPid /\ flight[n].pc \notin {"running", "pid"} =>
    \/ pidfile[n] = procs[n]
    \/ pidfile[n] = NoPid /\ procs[n] > 1

\* Every connection that waits for a boot gets an answer.
ConnectionsAreAnswered ==
  \A c \in Clients : client[c].pc = "wait" ~> client[c].pc # "wait"

\* A registered process that died is noticed: it is unregistered.  The end of a
\* plan of several processes may go unnoticed (composite.go:80).
CrashesAreNoticed ==
  \A n \in Inst \ Multi, p \in Proc :
    procs[n] = p /\ os[n][p] \in {"exit0", "exit1"} ~> procs[n] # p

\* A shutdown ends, whatever was booting, crashing or pending when it began.
ShutdownEnds == shuttingDown ~> sweep = "exit" \/ ~life.up

-----------------------------------------------------------------------------
(* Claims of the source that some interleaving breaks *)

\* "Stop clears the restart budget, so down can never be silently undone by a
\* respawn": a restart is never pending on a budget that Stop has cleared.
StopIsNotUndone ==
  \A n \in Inst : restarts[n] # NoPid => reg[n].restarts > 0

\* "A process that respawned (or booted) mid-sweep is caught by the next pass
\* instead of orphaning when the caller exits."
SweepLeavesNothing ==
  sweep = "exit" => \A n \in Inst, p \in Proc : os[n][p] # "alive"

\* The reaper "reaps a backend only when it has had zero connections for the whole
\* idle_timeout": it never begins to stop an instance that has one counted.
ReaperSparesConnected ==
  [][\A n \in Inst : reg[n].conns > 0 /\ stop[Reaper].at # n =>
       stop'[Reaper].at # n]_vars

\* Boots coalesce "onto one start": a live process is the registered one, or
\* one that a boot is starting or a Stop is ending.
NoOrphan ==
  \A n \in Inst, p \in Proc : os[n][p] = "alive" =>
    \/ procs[n] = p
    \/ flight[n].p = p
    \/ \E t \in Stopper : stop[t].at = n /\ stop[t].p = p

\* What acquired d and has not released it yet, one element for each hold.
Holders(d) ==
  {<<"conn", c>> : c \in {c \in Clients : client[c].pc = "held" /\ client[c].at = d}}
  \cup {<<"boot", n>> : n \in {n \in Inst : d \in flight[n].held}}
  \cup {<<"run", n>> : n \in {n \in Inst : d \in deps[n]}}
  \cup {<<"stop", t>> : t \in {t \in Stopper : d \in stop[t].held}}
  \cup {<<"watch", w>> : w \in {w \in Inst \X Proc : d \in watch[w[1]][w[2]].held}}

\* A dependency's count is never larger than what still holds it, "so they can
\* reap once nothing else needs them".
NoLeakedHold ==
  \A d \in Inst : reg[d].conns <= Cardinality(Holders(d))

\* "A concurrent Healthy boot wins over a Started one": a connection is not
\* told that an instance is up by a boot that left its on_ready steps out.
HealthyIsHealthy ==
  [][\A c \in Clients :
       client[c].pc = "wait" /\ client'[c].pc = "up" =>
         LET n == client[c].at IN
         n \in Stepped => flight[n].cond = "healthy"]_vars

=============================================================================
