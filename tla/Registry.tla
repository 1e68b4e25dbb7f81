------------------------------ MODULE Registry ------------------------------
(***************************************************************************)
(* The state the daemon tracks for one instance (internal/registry): one   *)
(* operator per method of Registry, as a function from the record the      *)
(* method finds to the record it leaves.  Every method runs under the      *)
(* registry's own mutex, so a module that keeps a function of records      *)
(* applies one of these operators per atomic step.                         *)
(*                                                                         *)
(* Left out: the socket directory, the port and the error text.  Times are *)
(* reduced to whether they are set: "timer" is a non-zero IdleSince,       *)
(* "next" a non-zero NextRestart (RestartMax is set and cleared with it).  *)
(***************************************************************************)
EXTENDS Naturals

NoPid == 0

State == {"reaped", "booting", "active", "idle", "crashing", "failed", "done"}

\* The two states in which Boot takes the backend to be up.
RunningState == {"active", "idle"}

Record == [ state     : State,
            pid       : Nat,
            conns     : Nat,
            timer     : BOOLEAN,
            alwaysOn  : BOOLEAN,
            keepAwake : BOOLEAN,
            tainted   : BOOLEAN,
            restarts  : Nat,
            next      : BOOLEAN,
            healthy   : {"unknown", "yes", "no"} ]

\* What ensure() puts in the map for a name it has not seen.
Fresh == [ state |-> "reaped", pid |-> NoPid, conns |-> 0, timer |-> FALSE,
           alwaysOn |-> FALSE, keepAwake |-> FALSE, tainted |-> FALSE,
           restarts |-> 0, next |-> FALSE, healthy |-> "unknown" ]

-----------------------------------------------------------------------------

ClearRuntime(i) ==
  [i EXCEPT !.pid = NoPid, !.conns = 0, !.timer = FALSE,
            !.healthy = "unknown", !.next = FALSE]

MarkBooting(i) == [i EXCEPT !.state = "booting"]

MarkRunningIdle(i, p) ==                \* mutant: connections not looked at
  [i EXCEPT !.pid = p, !.next = FALSE, !.timer = ~i.alwaysOn,
            !.state = IF i.alwaysOn THEN "active" ELSE "idle"]
MarkRunning(i, p) ==
  LET held == i.conns > 0 \/ i.alwaysOn
  IN  [i EXCEPT !.pid = p, !.next = FALSE, !.timer = ~held,
                !.state = IF held THEN "active" ELSE "idle"]

MarkReaped(i)   == [ClearRuntime(i) EXCEPT !.state = "reaped"]
MarkFailedState(i) == ClearRuntime(i)     \* mutant: the state is left as it was
MarkFailed(i)   == [ClearRuntime(i) EXCEPT !.state = "failed"]
MarkDone(i)     == [ClearRuntime(i) EXCEPT !.state = "done"]
MarkCrashing(i) == [ClearRuntime(i) EXCEPT !.state = "crashing", !.next = TRUE]

Acquire(i) ==
  [i EXCEPT !.conns = @ + 1, !.timer = FALSE,
            !.state = IF @ = "idle" THEN "active" ELSE @]

ReleaseBelowZero(i) == [i EXCEPT !.conns = @ - 1]      \* mutant: no floor
Release(i) ==
  LET left == IF i.conns > 0 THEN i.conns - 1 ELSE 0
  IN  [i EXCEPT !.conns = left,
                !.timer = IF left = 0 THEN TRUE ELSE @,
                !.state = IF left = 0 /\ @ = "active" /\ ~i.alwaysOn
                          THEN "idle" ELSE @]

SetIdlePolicy(i, on) == [i EXCEPT !.alwaysOn = on]
ToggleKeepAwake(i)   == [i EXCEPT !.keepAwake = ~@]
SetTainted(i)        == [i EXCEPT !.tainted = TRUE]
ClearTainted(i)      == [i EXCEPT !.tainted = FALSE]
IncRestart(i)        == [i EXCEPT !.restarts = @ + 1]
ResetRestart(i)      == [i EXCEPT !.restarts = 0]
SetHealthy(i, h)     == [i EXCEPT !.healthy = IF h THEN "yes" ELSE "no"]

\* Reapable picks the names whose idle time has passed; how long that is stays
\* abstract, so an idle instance may be due as soon as its timer runs.  sleeps
\* is FALSE when neither the instance nor the stack sets an idle time.
Reapable(i, sleeps) ==
  /\ ~i.keepAwake
  /\ sleeps
  /\ i.state = "idle" /\ i.conns = 0 /\ i.timer

\* Idle, and a running idle timer, both claim that nobody is connected.
Unheld(i) == i.state = "idle" \/ i.timer => i.conns = 0
=============================================================================
