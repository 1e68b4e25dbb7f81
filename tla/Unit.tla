-------------------------------- MODULE Unit --------------------------------
(***************************************************************************)
(* The processes of one instance, as executePlan starts them               *)
(* (internal/runtime/plan.go) and internal/supervisor runs and stops them. *)
(* A plan of several processes is a Composite; a plan of one is its        *)
(* Process.                                                                *)
(*                                                                         *)
(* A process has the goroutine that waits for it (Start), a Composite one  *)
(* more for each member (watch).  Stop is called by the runtime with a     *)
(* context that may expire.  Every wait for a duration may end before or   *)
(* after the event it races with, so a timeout is a choice.                *)
(***************************************************************************)
EXTENDS Naturals, FiniteSets, Sequences

CONSTANTS N,          \* the processes of the plan, numbered in start order
          Tree,       \* those started with StartTree
          Term,       \* whether they are stopped with SIGTERM first
          Waiter      \* the goroutines that call Wait on the unit

ASSUME UnitConstants == N \in Nat \ {0} /\ Tree \subseteq 1..N /\ Term \in BOOLEAN

Member == 1..N

VARIABLES
  phase,    \* of executePlan, and its result
  os,       \* the process of each member
  kids,     \* members that have other processes in their group
  armed,    \* Process.groupKill
  done,     \* members whose Process.done is closed
  once,     \* the state of Composite.stopOnce
  sweep,    \* the goroutine that stops members in reverse order
  caller,   \* the runtime's call of Stop
  exited,   \* what Composite.exited holds
  told,     \* the waiters whose Wait has returned
  run       \* whether the log run of the unit is open

vars == <<phase, os, kids, armed, done, once, sweep, caller, exited, told, run>>

NoSweep == [by |-> "none", at |-> 0, stage |-> 0, tree |-> FALSE]

\* A mutant: Stop does not go as far as SIGKILL.
NeverKill == IF Term THEN <<"TERM">> ELSE <<"INT", "QUIT">>

\* The signals Stop escalates through.
Stages == IF Term THEN <<"TERM", "KILL">> ELSE <<"INT", "QUIT", "KILL">>

Composite == N > 1

Init ==
  /\ phase = [pc |-> "spawn", at |-> 1]
  /\ os = [m \in Member |-> "unborn"]
  /\ kids = {}
  /\ armed = {}
  /\ done = {}
  /\ once = "free"
  /\ sweep = NoSweep
  /\ caller = "idle"
  /\ exited = 0
  /\ told = {}
  /\ run = TRUE

-----------------------------------------------------------------------------
(* The operating system, and the goroutine that waits for each process. *)

Running(m) == os[m] \in {"alive", "killed"}

\* A process ends, by itself or for a signal; its children need not.
Exit(m) ==
  /\ Running(m)
  /\ os' = [os EXCEPT ![m] = "gone"]
  /\ UNCHANGED <<phase, kids, armed, done, once, sweep, caller, exited, told, run>>

Fork(m) ==
  /\ os[m] = "alive"
  /\ kids' = kids \cup {m}
  /\ UNCHANGED <<phase, os, armed, done, once, sweep, caller, exited, told, run>>

KidsEnd(m) ==
  /\ m \in kids
  /\ kids' = kids \ {m}
  /\ UNCHANGED <<phase, os, armed, done, once, sweep, caller, exited, told, run>>

\* cmd.Wait has returned: the rest of the group is killed and done is closed.
Reap(m) ==
  /\ os[m] = "gone" /\ m \notin done
  /\ done' = done \cup {m}
  /\ kids' = IF m \in armed THEN kids \ {m} ELSE kids
  /\ UNCHANGED <<phase, os, armed, once, sweep, caller, exited, told, run>>

-----------------------------------------------------------------------------
(* executePlan. *)

\* The next process is started; groupKill is set after Start has returned.
Spawn ==
  /\ phase.pc = "spawn"
  /\ os' = [os EXCEPT ![phase.at] = "alive"]
  /\ phase' = [phase EXCEPT !.pc = IF phase.at \in Tree THEN "arm" ELSE "ready"]
  /\ UNCHANGED <<kids, armed, done, once, sweep, caller, exited, told, run>>

Arm ==
  /\ phase.pc = "arm"
  /\ armed' = armed \cup {phase.at}
  /\ phase' = [phase EXCEPT !.pc = "ready"]
  /\ UNCHANGED <<os, kids, done, once, sweep, caller, exited, told, run>>

\* WaitReady passes only a process it has seen alive; the hooks of the process
\* follow, and the unit is handed over after the last one.
Alive ==
  /\ phase.pc = "ready" /\ phase.at \notin done
  /\ phase' = [phase EXCEPT !.pc = "hooks"]
  /\ UNCHANGED <<os, kids, armed, done, once, sweep, caller, exited, told, run>>

Hooked ==
  /\ phase.pc = "hooks"
  /\ phase' = IF phase.at < N THEN [pc |-> "spawn", at |-> phase.at + 1]
                              ELSE [phase EXCEPT !.pc = "up"]
  /\ UNCHANGED <<os, kids, armed, done, once, sweep, caller, exited, told, run>>

\* Stop reads groupKill when it begins.
Towards(by, at) ==
  [by |-> by, at |-> at, stage |-> 0, tree |-> at \in armed]

\* A process does not start, does not become ready or fails its hooks:
\* stopAll stops what has been started.
GiveUp ==
  \/ /\ phase.pc = "spawn"
     /\ phase' = [phase EXCEPT !.pc = IF phase.at = 1 THEN "failed" ELSE "undo"]
     /\ sweep' = IF phase.at = 1 THEN sweep ELSE Towards("plan", phase.at - 1)
     /\ run' = (run /\ phase.at # 1)
     /\ UNCHANGED <<os, kids, armed, done, once, caller, exited, told>>
  \/ /\ phase.pc \in {"ready", "hooks"}
     /\ phase' = [phase EXCEPT !.pc = "undo"]
     /\ sweep' = Towards("plan", phase.at)
     /\ UNCHANGED <<os, kids, armed, done, once, caller, exited, told, run>>

-----------------------------------------------------------------------------
(* Process.Stop, for the member the sweep is at. *)

\* SIGKILL cannot be ignored; the other signals leave it to the process.
Signalled(m, sig, tree) ==
  /\ os' = IF sig = "KILL" /\ os[m] = "alive" THEN [os EXCEPT ![m] = "killed"] ELSE os
  /\ kids' = IF sig = "KILL" /\ tree THEN kids \ {m} ELSE kids

\* The member has been dealt with: the next one, or the end of the sweep.
Leave ==
  IF sweep.at > 1
    THEN /\ sweep' = Towards(sweep.by, sweep.at - 1)
         /\ UNCHANGED <<phase, once, exited, caller, run>>
    ELSE /\ sweep' = NoSweep
         /\ IF sweep.by = "plan"
              THEN /\ phase' = [phase EXCEPT !.pc = "failed"]
                   /\ run' = FALSE
                   /\ UNCHANGED <<once, exited, caller>>
              ELSE /\ once' = IF Composite THEN "done" ELSE once
                   /\ exited' = IF Composite THEN exited + 1 ELSE exited
                   /\ caller' = IF sweep.by = "stop" THEN "back" ELSE caller
                   /\ UNCHANGED <<phase, run>>

\* The next signal is sent: at once, or when the grace of the last one is over.
Escalate ==
  /\ sweep.by # "none" /\ sweep.stage < Len(Stages)
  /\ sweep' = [sweep EXCEPT !.stage = @ + 1]
  /\ Signalled(sweep.at, Stages[sweep.stage + 1], sweep.tree)
  /\ UNCHANGED <<phase, armed, done, once, caller, exited, told, run>>

\* A mutant: when the context expires Stop only waits.
HurryWithoutKill ==
  /\ sweep.by = "stop" /\ sweep.stage \in 1..Len(Stages)
  /\ sweep' = [sweep EXCEPT !.stage = Len(Stages) + 1]
  /\ UNCHANGED <<phase, os, kids, armed, done, once, caller, exited, told, run>>

\* The context of the call expires: SIGKILL, and a last wait.
Hurry ==
  /\ sweep.by = "stop" /\ sweep.stage \in 1..Len(Stages)
  /\ sweep' = [sweep EXCEPT !.stage = Len(Stages) + 1]
  /\ Signalled(sweep.at, "KILL", sweep.tree)
  /\ UNCHANGED <<phase, armed, done, once, caller, exited, told, run>>

Obeyed ==
  /\ sweep.stage > 0 /\ sweep.at \in done
  /\ Leave
  /\ UNCHANGED <<os, kids, armed, done, told>>

\* The last wait is over and the process has not been reaped.
Refused ==
  /\ sweep.stage >= Len(Stages)
  /\ Leave
  /\ UNCHANGED <<os, kids, armed, done, told>>

-----------------------------------------------------------------------------
(* Composite. *)

\* A mutant: only the primary is watched.
PrimaryEnded ==
  /\ phase.pc = "up" /\ Composite
  /\ 1 \in done /\ once = "free"
  /\ once' = "busy"
  /\ sweep' = Towards("watch", N)
  /\ UNCHANGED <<phase, os, kids, armed, done, caller, exited, told, run>>

\* The goroutine of a member finds it gone and wins stopOnce.
MemberEnded ==
  /\ phase.pc = "up" /\ Composite
  /\ done # {} /\ once = "free"
  /\ once' = "busy"
  /\ sweep' = Towards("watch", N)
  /\ UNCHANGED <<phase, os, kids, armed, done, caller, exited, told, run>>

\* The runtime stops the unit.
CallStop ==
  /\ phase.pc = "up" /\ caller = "idle"
  /\ IF ~Composite \/ once = "free"
       THEN /\ sweep' = Towards("stop", N)
            /\ once' = IF Composite THEN "busy" ELSE once
            /\ caller' = "stopping"
       ELSE /\ caller' = "queued"
            /\ UNCHANGED <<sweep, once>>
  /\ UNCHANGED <<phase, os, kids, armed, done, exited, told, run>>

\* A mutant: the second caller waits for the value on the channel.
JoinedByChannel ==
  /\ caller = "queued" /\ exited > 0
  /\ caller' = "back"
  /\ UNCHANGED <<phase, os, kids, armed, done, once, sweep, exited, told, run>>

\* stopOnce.Do returns to a second caller when the first has finished.
Joined ==
  /\ caller = "queued" /\ once = "done"
  /\ caller' = "back"
  /\ UNCHANGED <<phase, os, kids, armed, done, once, sweep, exited, told, run>>

\* Wait returns to one of the goroutines that call it: watch of the runtime, or
\* the one that closes the log run.  A Process tells everyone, a Composite
\* whoever takes the value from its channel.
WaitReturns(w) ==
  /\ phase.pc = "up" /\ w \notin told
  /\ IF Composite THEN exited > 0 /\ exited' = exited - 1
                  ELSE 1 \in done /\ UNCHANGED exited
  /\ told' = told \cup {w}
  /\ run' = (run /\ w # "log")
  /\ UNCHANGED <<phase, os, kids, armed, done, once, sweep, caller>>

-----------------------------------------------------------------------------
Environment == \E m \in Member : Exit(m) \/ Fork(m) \/ KidsEnd(m)

Daemon ==
  \/ \E m \in Member : Reap(m)
  \/ Spawn \/ Arm \/ Alive \/ Hooked \/ GiveUp
  \/ Escalate \/ Hurry \/ Obeyed \/ Refused
  \/ MemberEnded \/ Joined
  \/ \E w \in Waiter : WaitReturns(w)

Next == Environment \/ Daemon \/ CallStop

Spec == Init /\ [][Next]_vars

\* The daemon's goroutines run when they can, every wait for a duration ends,
\* and a process that was killed ends.  Nobody has to call Stop.
FairSpec ==
  /\ Spec
  /\ WF_vars(Daemon)
  /\ \A m \in Member : WF_vars(Reap(m)) /\ WF_vars(os[m] = "killed" /\ Exit(m))
  /\ \A w \in Waiter : WF_vars(WaitReturns(w))

-----------------------------------------------------------------------------
(* Properties. *)

TypeOK ==
  /\ phase \in [pc : {"spawn", "arm", "ready", "hooks", "undo", "up", "failed"},
                at : Member]
  /\ os \in [Member -> {"unborn", "alive", "killed", "gone"}]
  /\ kids \subseteq Member /\ armed \subseteq Tree /\ done \subseteq Member
  /\ once \in {"free", "busy", "done"}
  /\ sweep \in [by : {"none", "plan", "watch", "stop"}, at : 0..N,
                stage : 0..Len(Stages) + 1, tree : BOOLEAN]
  /\ caller \in {"idle", "queued", "stopping", "back"}
  /\ exited \in 0..1 /\ told \subseteq Waiter /\ run \in BOOLEAN

\* The processes of a unit are one backend to the runtime: it is over once, no
\* Wait returns before that, and by then no process of it runs that was not
\* killed; a start that fails leaves nothing running either (plan.go:20-21,
\* composite.go:8-12).
Ended == IF Composite THEN once = "done" ELSE 1 \in done

AsBackend ==
  INSTANCE Backend WITH
    status <- CASE phase.pc = "failed" -> "failed"
                [] phase.pc = "up" -> IF Ended THEN "over" ELSE "up"
                [] OTHER -> "starting",
    loose <- \E m \in Member : os[m] = "alive",
    told <- told

ActsAsOne == AsBackend!Spec

\* A member is asked to leave only when every member started after it, which
\* may depend on it, is gone or has been killed (composite.go:37).
LastStartedGoesFirst ==
  sweep.stage > 0 => \A m \in Member : m > sweep.at => os[m] # "alive"

\* Once a unit was handed over, a command that was started as a tree and has
\* ended has left nothing in its process group, although groupKill is set only
\* after the command may have ended (supervisor.go:81-89, 106-115).
TreeLeavesNoOrphans ==
  phase.pc = "up" => \A m \in Tree \cap done : m \notin kids

\* A teardown is one sweep in reverse order: the end of the unit is announced
\* once (exited never holds two values), no member is asked out of turn and no
\* tree is left behind, whoever began it and whatever signals are ignored.
OrderlyTeardown == TypeOK /\ LastStartedGoesFirst /\ TreeLeavesNoOrphans

\* The call that stops a unit returns, also when it meets the teardown that the
\* end of a member began.
StopReturns == caller \in {"queued", "stopping"} ~> caller = "back"

\* When one member of a unit ends the others follow, and somebody is told.
OneEndsAll ==
  phase.pc = "up" /\ done # {} ~>
    told # {} /\ \A m \in Member : os[m] \in {"gone", "unborn"}

\* "Wait blocks until the unit exits" (composite.go:79): whoever waits for a unit
\* that is over gets its answer.
EveryWaitReturns ==
  \A w \in Waiter : phase.pc = "up" /\ Ended ~> w \in told
=============================================================================
