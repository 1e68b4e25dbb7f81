------------------------------ MODULE UnitProofs ------------------------------
(***************************************************************************)
(* A unit of any number of processes is torn down in order, and is one     *)
(* Backend to whoever waits for it.                                        *)
(*                                                                         *)
(* The invariant ties together what three goroutines know: how far         *)
(* executePlan is says which processes can exist (PhaseInv), stopOnce and  *)
(* the caller say whose sweep it is (SweepInv), and the sweep says which   *)
(* processes have been dealt with (DealtWith).                             *)
(***************************************************************************)
EXTENDS Unit, TLAPS

\* What is behind the plan has been started and armed, what is before it not;
\* only a process that ended before it was armed can leave something behind, and
\* then the plan is still at it or has given up.
PhaseInv ==
  /\ \A m \in Member : m > phase.at => os[m] = "unborn"
  /\ phase.pc = "spawn" => os[phase.at] = "unborn"
  /\ phase.pc = "up" => phase.at = N
  /\ phase.pc = "arm" => phase.at \in Tree
  /\ \A m \in done : os[m] = "gone"
  /\ \A m \in Tree : os[m] # "unborn" => m \in armed \/ (phase.pc = "arm" /\ phase.at = m)
  /\ \A m \in Tree \cap done : m \in kids =>
       \/ phase.pc \in {"arm", "ready"} /\ phase.at = m
       \/ phase.pc \in {"undo", "failed"}

\* There is one sweep at a time: it belongs to the plan that has given up, to
\* the member that won stopOnce or to the caller that has to wait for it.
SweepInv ==
  /\ sweep.by = "none" => sweep.stage = 0
  /\ sweep.by # "none" => sweep.at > 0
  /\ sweep.by = "plan" <=> phase.pc = "undo"
  /\ sweep.by = "plan" => sweep.at <= phase.at
  /\ sweep.by \in {"watch", "stop"} => phase.pc = "up"
  /\ Composite => (once = "busy" <=> sweep.by \in {"watch", "stop"})
  /\ ~Composite => once = "free" /\ sweep.by # "watch" /\ exited = 0
  /\ once # "free" => phase.pc = "up"
  /\ caller # "idle" => phase.pc = "up"
  /\ caller = "stopping" <=> sweep.by = "stop"
  /\ exited > 0 => once = "done"

\* Nothing runs that the sweep has passed, and nothing at all when it is over.
DealtWith ==
  /\ sweep.by # "none" => \A m \in Member : m > sweep.at => os[m] # "alive"
  /\ sweep.by # "none" /\ sweep.stage >= Len(Stages) => os[sweep.at] # "alive"
  /\ phase.pc = "failed" \/ once = "done" => \A m \in Member : os[m] # "alive"

Inv == TypeOK /\ PhaseInv /\ SweepInv /\ DealtWith

-----------------------------------------------------------------------------

LEMMA InitInv == Init => Inv
BY UnitConstants DEF Init, Inv, TypeOK, PhaseInv, SweepInv, DealtWith, Member,
   NoSweep, Composite, Stages

\* The escalation is short, and its last signal is the one nobody can ignore.
LEMMA LastIsKill ==
  /\ Len(Stages) \in Nat \ {0}
  /\ \A i \in 1..Len(Stages) : Stages[i] = "KILL" <=> i = Len(Stages)
BY DEF Stages

\* The types of the two records.
Phases == [pc : {"spawn", "arm", "ready", "hooks", "undo", "up", "failed"}, at : Member]
Sweeps == [by : {"none", "plan", "watch", "stop"}, at : 0..N,
           stage : 0..Len(Stages) + 1, tree : BOOLEAN]

\* A sweep that turns to a member is a sweep.
LEMMA TowardsType ==
  ASSUME NEW by \in {"none", "plan", "watch", "stop"}, NEW at \in 0..N
  PROVE  Towards(by, at) \in Sweeps
<1>1. (at \in armed) \in BOOLEAN
  OBVIOUS
<1>2. 0 \in 0..Len(Stages) + 1
  BY LastIsKill
<1> QED BY <1>1, <1>2 DEF Towards, Sweeps

\* What the end of one member in a sweep leaves.
LEMMA LeaveType ==
  ASSUME TypeOK, SweepInv, sweep.by # "none", Leave
  PROVE  /\ phase' \in Phases /\ sweep' \in Sweeps
         /\ once' \in {"free", "busy", "done"}
         /\ caller' \in {"idle", "queued", "stopping", "back"}
         /\ exited' \in 0..1 /\ run' \in BOOLEAN
<1> USE UnitConstants DEF TypeOK, Phases, Member
<1>1. CASE sweep.at > 1
  <2>1. sweep' = Towards(sweep.by, sweep.at - 1)
    BY <1>1 DEF Leave
  <2>2. sweep.by \in {"none", "plan", "watch", "stop"} /\ sweep.at - 1 \in 0..N
    BY <1>1
  <2>3. sweep' \in Sweeps
    BY <2>1, <2>2, TowardsType
  <2> QED BY <1>1, <2>3 DEF Leave
<1>2. CASE ~(sweep.at > 1)
  <2>1. NoSweep \in Sweeps
    BY LastIsKill DEF NoSweep, Sweeps
  <2>2. phase' \in Phases
    BY <1>2 DEF Leave
  <2>3. exited' \in 0..1
    BY <1>2 DEF Leave, SweepInv
  <2> QED BY <1>2, <2>1, <2>2, <2>3 DEF Leave
<1> QED BY <1>1, <1>2

LEMMA TypeStep == Inv /\ [Next]_vars => TypeOK'
<1> SUFFICES ASSUME Inv, [Next]_vars
             PROVE  TypeOK'
  OBVIOUS
<1> USE UnitConstants DEF Inv, TypeOK, Member
<1>1. ASSUME NEW m \in Member, Exit(m) \/ Fork(m) \/ KidsEnd(m) \/ Reap(m)
      PROVE  TypeOK'
  BY <1>1 DEF Exit, Fork, KidsEnd, Reap
<1>2. CASE Spawn \/ Arm \/ Alive \/ Hooked
  <2>1. phase' \in Phases
    BY <1>2 DEF Spawn, Arm, Alive, Hooked, Phases
  <2>2. armed' \subseteq Tree /\ os' \in [Member -> {"unborn", "alive", "killed", "gone"}]
    BY <1>2 DEF Spawn, Arm, Alive, Hooked, PhaseInv
  <2> QED BY <1>2, <2>1, <2>2 DEF Spawn, Arm, Alive, Hooked, Phases
<1>3. CASE GiveUp
  <2>1. phase' \in Phases
    BY <1>3 DEF GiveUp, Phases
  <2>2. sweep' \in Sweeps
    <3>1. Towards("plan", phase.at - 1) \in Sweeps /\ Towards("plan", phase.at) \in Sweeps
      BY TowardsType
    <3> QED BY <1>3, <3>1 DEF GiveUp, Sweeps
  <2> QED BY <1>3, <2>1, <2>2 DEF GiveUp, Phases, Sweeps
<1>4. CASE Escalate \/ Hurry
  <2>1. sweep' \in Sweeps
    <3>1. PICK n \in 0..Len(Stages) + 1 : sweep' = [sweep EXCEPT !.stage = n]
      BY <1>4, LastIsKill DEF Escalate, Hurry
    <3> QED BY <3>1 DEF Sweeps
  <2>2. /\ os' \in [Member -> {"unborn", "alive", "killed", "gone"}]
        /\ kids' \subseteq Member
    BY <1>4 DEF Escalate, Hurry, Signalled
  <2> QED BY <1>4, <2>1, <2>2 DEF Escalate, Hurry, Sweeps
<1>5. CASE Obeyed \/ Refused
  <2>1. sweep.by # "none"
    BY <1>5, LastIsKill DEF Obeyed, Refused, SweepInv
  <2> QED BY <1>5, <2>1, LeaveType DEF Obeyed, Refused, Phases, Sweeps
<1>6. CASE MemberEnded \/ CallStop \/ Joined
  <2>1. Towards("watch", N) \in Sweeps /\ Towards("stop", N) \in Sweeps
    BY TowardsType
  <2> QED BY <1>6, <2>1 DEF MemberEnded, CallStop, Joined, Sweeps
<1>7. ASSUME NEW w \in Waiter, WaitReturns(w)
      PROVE  TypeOK'
  BY <1>7 DEF WaitReturns
<1>8. CASE UNCHANGED vars
  BY <1>8 DEF vars
<1> QED BY <1>1, <1>2, <1>3, <1>4, <1>5, <1>6, <1>7, <1>8
        DEF Next, Environment, Daemon
\* A signal ends no process and leaves nothing alive that it cannot leave.
LEMMA SignalledFrame ==
  ASSUME NEW m \in Member, NEW sig, NEW tree, TypeOK, Signalled(m, sig, tree)
  PROVE  /\ kids' \subseteq kids
         /\ \A k \in Member : os'[k] = os[k] \/ (os[k] = "alive" /\ os'[k] = "killed")
         /\ sig = "KILL" => os'[m] # "alive"
BY DEF TypeOK, Signalled

LEMMA PhaseStep == Inv /\ [Next]_vars => PhaseInv'
<1> SUFFICES ASSUME Inv, [Next]_vars
             PROVE  PhaseInv'
  OBVIOUS
<1> USE UnitConstants DEF Inv, TypeOK, Member, PhaseInv
<1>1. ASSUME NEW m \in Member, Exit(m) \/ Fork(m) \/ KidsEnd(m)
      PROVE  PhaseInv'
  <2>1. CASE Exit(m)
    BY <2>1 DEF Exit, Running
  <2>2. CASE Fork(m) \/ KidsEnd(m)
    BY <2>2 DEF Fork, KidsEnd
  <2> QED BY <1>1, <2>1, <2>2
<1>2. ASSUME NEW m \in Member, Reap(m)
      PROVE  PhaseInv'
  BY <1>2 DEF Reap
<1>3. CASE Spawn
  BY <1>3 DEF Spawn
<1>4. CASE Arm \/ Alive \/ Hooked
  BY <1>4 DEF Arm, Alive, Hooked
<1>5. CASE GiveUp
  BY <1>5 DEF GiveUp
<1>6. CASE Escalate \/ Hurry
  <2>1. sweep.at \in Member /\ UNCHANGED <<phase, armed, done>>
    BY <1>6, LastIsKill DEF Escalate, Hurry, SweepInv
  <2>2. \E sig : Signalled(sweep.at, sig, sweep.tree)
    BY <1>6 DEF Escalate, Hurry
  <2> QED BY <2>1, <2>2, SignalledFrame
<1>7. CASE Obeyed \/ Refused
  BY <1>7 DEF Obeyed, Refused, Leave, SweepInv
<1>8. CASE MemberEnded \/ CallStop \/ Joined \/ UNCHANGED vars
  BY <1>8 DEF MemberEnded, CallStop, Joined, vars
<1>9. ASSUME NEW w \in Waiter, WaitReturns(w)
      PROVE  PhaseInv'
  BY <1>9 DEF WaitReturns
<1> QED BY <1>1, <1>2, <1>3, <1>4, <1>5, <1>6, <1>7, <1>8, <1>9
        DEF Next, Environment, Daemon

LEMMA SweepStep == Inv /\ [Next]_vars => SweepInv'
<1> SUFFICES ASSUME Inv, [Next]_vars
             PROVE  SweepInv'
  OBVIOUS
<1> USE UnitConstants DEF Inv, TypeOK, Member, SweepInv, Composite
<1>1. ASSUME NEW m \in Member, Exit(m) \/ Fork(m) \/ KidsEnd(m) \/ Reap(m)
      PROVE  SweepInv'
  BY <1>1 DEF Exit, Fork, KidsEnd, Reap
<1>2. CASE Spawn \/ Arm \/ Alive \/ Hooked
  BY <1>2 DEF Spawn, Arm, Alive, Hooked
<1>3. CASE GiveUp
  BY <1>3 DEF GiveUp, Towards
<1>4. CASE Escalate \/ Hurry
  BY <1>4, LastIsKill DEF Escalate, Hurry
<1>5. CASE Obeyed \/ Refused
  <2>1. sweep.by # "none"
    BY <1>5, LastIsKill DEF Obeyed, Refused
  <2>2. CASE sweep.at > 1
    BY <1>5, <2>1, <2>2 DEF Obeyed, Refused, Leave, Towards
  <2>3. CASE ~(sweep.at > 1)
    BY <1>5, <2>1, <2>3 DEF Obeyed, Refused, Leave, NoSweep
  <2> QED BY <2>2, <2>3
<1>6. CASE MemberEnded
  BY <1>6 DEF MemberEnded, Towards
<1>7. CASE CallStop
  BY <1>7 DEF CallStop, Towards
<1>8. CASE Joined \/ UNCHANGED vars
  BY <1>8 DEF Joined, vars
<1>9. ASSUME NEW w \in Waiter, WaitReturns(w)
      PROVE  SweepInv'
  BY <1>9 DEF WaitReturns
<1> QED BY <1>1, <1>2, <1>3, <1>4, <1>5, <1>6, <1>7, <1>8, <1>9
        DEF Next, Environment, Daemon

LEMMA DealtStep == Inv /\ [Next]_vars => DealtWith'
<1> SUFFICES ASSUME Inv, [Next]_vars
             PROVE  DealtWith'
  OBVIOUS
<1> USE UnitConstants DEF Inv, TypeOK, Member, DealtWith
<1>1. ASSUME NEW m \in Member, Exit(m) \/ Fork(m) \/ KidsEnd(m) \/ Reap(m)
      PROVE  DealtWith'
  <2>1. \A k \in Member : os'[k] = "alive" => os[k] = "alive"
    BY <1>1 DEF Exit, Fork, KidsEnd, Reap
  <2>2. UNCHANGED <<phase, once, sweep>>
    BY <1>1 DEF Exit, Fork, KidsEnd, Reap
  <2> QED BY <2>1, <2>2, LastIsKill DEF Stages, SweepInv
<1>2. CASE Spawn
  BY <1>2, LastIsKill DEF Spawn, SweepInv, Stages
<1>3. CASE Arm \/ Alive \/ Hooked
  BY <1>3 DEF Arm, Alive, Hooked, SweepInv
<1>4. CASE GiveUp
  BY <1>4, LastIsKill DEF GiveUp, Towards, PhaseInv, SweepInv
<1>5. CASE Escalate \/ Hurry
  <2>1. /\ sweep.at \in Member /\ UNCHANGED <<phase, once>>
        /\ sweep'.by = sweep.by /\ sweep'.at = sweep.at
    BY <1>5, LastIsKill DEF Escalate, Hurry, SweepInv
  <2>2. PICK sig : /\ Signalled(sweep.at, sig, sweep.tree)
                   /\ sweep'.stage >= Len(Stages)' => sig = "KILL"
    BY <1>5, LastIsKill DEF Escalate, Hurry, Stages
  <2> QED BY <2>1, <2>2, SignalledFrame
<1>6. CASE Obeyed \/ Refused
  <2>1. sweep.by # "none" /\ sweep.at \in Member /\ UNCHANGED os
    BY <1>6, LastIsKill DEF Obeyed, Refused, SweepInv
  <2>2. os[sweep.at] # "alive"
    BY <1>6, <2>1 DEF Obeyed, Refused, PhaseInv
  <2>3. CASE sweep.at > 1
    BY <1>6, <2>1, <2>2, <2>3, LastIsKill DEF Obeyed, Refused, Leave, Towards, SweepInv, Stages
  <2>4. CASE ~(sweep.at > 1)
    BY <1>6, <2>1, <2>2, <2>4 DEF Obeyed, Refused, Leave, NoSweep
  <2> QED BY <2>3, <2>4
<1>7. CASE MemberEnded \/ CallStop
  BY <1>7, LastIsKill DEF MemberEnded, CallStop, Towards, SweepInv, Stages
<1>8. CASE Joined \/ UNCHANGED vars
  BY <1>8 DEF Joined, vars, Stages
<1>9. ASSUME NEW w \in Waiter, WaitReturns(w)
      PROVE  DealtWith'
  BY <1>9 DEF WaitReturns, Stages
<1> QED BY <1>1, <1>2, <1>3, <1>4, <1>5, <1>6, <1>7, <1>8, <1>9
        DEF Next, Environment, Daemon

LEMMA InvHolds == Spec => []Inv
<1>1. Inv /\ [Next]_vars => Inv'
  BY TypeStep, PhaseStep, SweepStep, DealtStep DEF Inv
<1> QED BY <1>1, InitInv, PTL DEF Spec

\* Whoever began the teardown of a unit and whatever signals its processes ignore,
\* no member is asked to leave before those started after it, and no tree that was
\* handed over leaves anything behind (Composite.stopAll, Process.Stop).
THEOREM TeardownIsOrderly == Spec => []OrderlyTeardown
<1>1. Inv => OrderlyTeardown
  <2> SUFFICES ASSUME Inv
               PROVE  LastStartedGoesFirst /\ TreeLeavesNoOrphans
    BY DEF Inv, OrderlyTeardown
  <2>1. LastStartedGoesFirst
    BY DEF Inv, TypeOK, SweepInv, DealtWith, LastStartedGoesFirst
  <2>2. TreeLeavesNoOrphans
    BY DEF Inv, TypeOK, PhaseInv, TreeLeavesNoOrphans
  <2> QED BY <2>1, <2>2
<1> QED BY <1>1, InvHolds, PTL
-----------------------------------------------------------------------------
(* The unit as a Backend. *)

\* What the mapping takes a unit for.
Status == CASE phase.pc = "failed" -> "failed"
            [] phase.pc = "up" -> IF Ended THEN "over" ELSE "up"
            [] OTHER -> "starting"
Loose == \E m \in Member : os[m] = "alive"

LEMMA InitRefines == Init => AsBackend!Init
BY DEF Init, AsBackend!Init

\* A unit that has failed or is over has nothing left that runs.
LEMMA NothingLoose == Inv /\ Status \in {"failed", "over"} => ~Loose
BY UnitConstants DEF Inv, TypeOK, PhaseInv, SweepInv, DealtWith, Status, Loose, Ended,
   Composite, Member

\* What a process or a signal does is the coming and going of a backend that is
\* not over.
LEMMA OsRefines ==
  ASSUME Inv, Inv', UNCHANGED <<phase, once, done, told>>
  PROVE  AsBackend!Next \/ UNCHANGED AsBackend!vars
<1>1. UNCHANGED Status
  BY DEF Status, Ended
<1>2. Status \in {"failed", "over"} => ~Loose /\ ~Loose'
  <2>1. (Inv /\ Status \in {"failed", "over"} => ~Loose)'
    BY NothingLoose, PTL
  <2> QED BY <1>1, <2>1, NothingLoose
<1>3. CASE UNCHANGED Loose
  BY <1>1, <1>3 DEF AsBackend!vars, Status, Loose
<1>4. CASE ~UNCHANGED Loose
  <2>1. Status \in {"starting", "up"} /\ Loose' \in BOOLEAN
    BY <1>2, <1>4 DEF Status, Loose
  <2>2. AsBackend!Churn
    BY <1>1, <2>1 DEF AsBackend!Churn, Status, Loose
  <2> QED BY <2>2 DEF AsBackend!Next
<1> QED BY <1>3, <1>4

\* A step that moves no process moves the unit on as a backend moves, and not to
\* an end before everything has been dealt with.
LEMMA StatusRefines ==
  ASSUME Inv, Inv', UNCHANGED <<os, told>>,
         \/ UNCHANGED Status
         \/ Status = "starting" /\ Status' \in {"up", "over", "failed"}
         \/ Status = "up" /\ Status' = "over"
  PROVE  AsBackend!Next \/ UNCHANGED AsBackend!vars
<1>1. UNCHANGED Loose
  BY DEF Loose
<1>2. Status' \in {"failed", "over"} => ~Loose
  <2>1. (Inv /\ Status \in {"failed", "over"} => ~Loose)'
    BY NothingLoose, PTL
  <2> QED BY <1>1, <2>1
<1>3. CASE UNCHANGED Status
  BY <1>1, <1>3 DEF AsBackend!vars, Status, Loose
<1>4. CASE Status = "starting" /\ Status' = "failed"
  BY <1>1, <1>2, <1>4 DEF AsBackend!Next, AsBackend!Failed, Status, Loose
<1>5. CASE Status = "starting" /\ Status' \in {"up", "over"}
  BY <1>1, <1>2, <1>5 DEF AsBackend!Next, AsBackend!Launched, Status, Loose
<1>6. CASE Status = "up" /\ Status' = "over"
  BY <1>1, <1>2, <1>6 DEF AsBackend!Next, AsBackend!Over, Status, Loose
<1> QED BY <1>3, <1>4, <1>5, <1>6

LEMMA StepRefines ==
  ASSUME Inv, Inv', [Next]_vars
  PROVE  AsBackend!Next \/ UNCHANGED AsBackend!vars
<1> USE DEF Inv, TypeOK
<1>1. ASSUME NEW m \in Member, Exit(m) \/ Fork(m) \/ KidsEnd(m)
      PROVE  UNCHANGED <<phase, once, done, told>>
  BY <1>1 DEF Exit, Fork, KidsEnd
<1>2. ASSUME NEW m \in Member, Reap(m)
      PROVE  AsBackend!Next \/ UNCHANGED AsBackend!vars
  <2>1. UNCHANGED <<os, told, phase, once>> /\ done \subseteq done'
    BY <1>2 DEF Reap
  <2>2. UNCHANGED Status \/ (Status = "up" /\ Status' = "over")
    BY <2>1 DEF Status, Ended
  <2> QED BY <2>1, <2>2, StatusRefines
<1>3. CASE Spawn
  <2>1. Status = "starting" /\ Status' = "starting" /\ UNCHANGED told
    BY <1>3 DEF Spawn, Status
  <2>2. AsBackend!Churn
    BY <2>1 DEF AsBackend!Churn, Status
  <2> QED BY <2>2 DEF AsBackend!Next
<1>4. CASE Arm \/ Alive \/ Hooked \/ GiveUp
  <2>1. Status = "starting" /\ UNCHANGED <<os, told>>
    BY <1>4 DEF Arm, Alive, Hooked, GiveUp, Status
  <2>2. Status' \in {"starting", "up", "over", "failed"}
    BY DEF Status
  <2> QED BY <2>1, <2>2, StatusRefines
<1>5. CASE Escalate \/ Hurry
  BY <1>5, OsRefines DEF Escalate, Hurry
<1>6. CASE Obeyed \/ Refused
  <2>1. sweep.by # "none" /\ UNCHANGED <<os, told, done>>
    BY <1>6, LastIsKill DEF Obeyed, Refused, SweepInv
  <2>2. \/ UNCHANGED Status
        \/ Status = "starting" /\ Status' = "failed"
        \/ Status = "up" /\ Status' = "over"
    BY <1>6, <2>1 DEF Obeyed, Refused, Leave, SweepInv, Status, Ended
  <2> QED BY <2>1, <2>2, StatusRefines
<1>7. CASE MemberEnded \/ CallStop \/ Joined \/ UNCHANGED vars
  <2>1. UNCHANGED <<os, told, phase, done>> /\ (once = "done" <=> once' = "done")
    BY <1>7 DEF MemberEnded, CallStop, Joined, vars
  <2>2. UNCHANGED Status
    BY <2>1 DEF Status, Ended
  <2> QED BY <2>1, <2>2, StatusRefines
<1>8. ASSUME NEW w \in Waiter, WaitReturns(w)
      PROVE  AsBackend!Next
  <2>1. Status = "over"
    BY <1>8 DEF WaitReturns, SweepInv, Status, Ended
  <2>2. UNCHANGED <<phase, once, done, os>> /\ told' = told \cup {w}
    BY <1>8 DEF WaitReturns
  <2>3. AsBackend!Tell(w)
    BY <2>1, <2>2 DEF AsBackend!Tell, Status, Ended
  <2> QED BY <2>3 DEF AsBackend!Next
<1> QED BY <1>1, <1>2, <1>3, <1>4, <1>5, <1>6, <1>7, <1>8, OsRefines
        DEF Next, Environment, Daemon

\* The processes of a unit, any number of them, are one backend to the runtime:
\* over once, no Wait before that, and nothing unkilled left by then
\* (executePlan's stopAll, Composite.Wait).
THEOREM UnitIsABackend == Spec => ActsAsOne
<1>1. Init => AsBackend!Init
  BY InitRefines
<1>2. Inv /\ Inv' /\ [Next]_vars => [AsBackend!Next]_(AsBackend!vars)
  BY StepRefines
<1> QED BY <1>1, <1>2, InvHolds, PTL DEF Spec, ActsAsOne, AsBackend!Spec
===============================================================================
