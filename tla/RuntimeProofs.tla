---------------------------- MODULE RuntimeProofs ----------------------------
(***************************************************************************)
(* The safety properties of Runtime, for every set of instances, any       *)
(* dependencies and any number of connections, callers and processes.      *)
(*                                                                         *)
(* First type correctness, whose step needs to know that a goroutine that  *)
(* is under way is under way for some instance, as the Targets say.  The   *)
(* proofs that follow share three frames: what a step may do to a boot it  *)
(* does not belong to, to a registry record, and to the maps.  Each        *)
(* property then looks only at the steps that touch what it relates.       *)
(***************************************************************************)
EXTENDS Runtime, FiniteSetTheorems, TLAPS

-----------------------------------------------------------------------------
(* What every method of the registry preserves: the shape of a record, and *)
(* the two readings of "nobody is connected" agreeing with the count.      *)

\* A record no method has yet been called on.
LEMMA FreshRecord == Fresh \in Record /\ Unheld(Fresh)
BY DEF Fresh, Record, State, NoPid, Unheld

\* A record with a new count, timer and state is a record.
LEMMA CountFields ==
  ASSUME NEW i \in Record, NEW c \in Nat, NEW t \in BOOLEAN, NEW s \in State
  PROVE  [i EXCEPT !.conns = c, !.timer = t, !.state = s] \in Record
BY DEF Record

\* A record of a process that was just started is a record.
LEMMA RunningFields ==
  ASSUME NEW i \in Record, NEW p \in Nat, NEW t \in BOOLEAN, NEW s \in State
  PROVE  [i EXCEPT !.pid = p, !.next = FALSE, !.timer = t, !.state = s] \in Record
BY DEF Record

\* Acquire and Release keep the count a natural number and move the idle state
\* and the timer with it.
LEMMA CountedRecord ==
  ASSUME NEW i \in Record
  PROVE  /\ Acquire(i) \in Record /\ Release(i) \in Record
         /\ Unheld(i) => Unheld(Acquire(i)) /\ Unheld(Release(i))
<1>1. Acquire(i) \in Record
  <2>1. (IF i.state = "idle" THEN "active" ELSE i.state) \in State
    BY DEF Record, State
  <2>2. i.conns + 1 \in Nat
    BY DEF Record
  <2> QED BY <2>1, <2>2, CountFields DEF Acquire
<1>2. Release(i) \in Record
  <2> DEFINE left == IF i.conns > 0 THEN i.conns - 1 ELSE 0
             idle == IF left = 0 THEN TRUE ELSE i.timer
             st   == IF left = 0 /\ i.state = "active" /\ ~i.alwaysOn
                     THEN "idle" ELSE i.state
  <2>1. left \in Nat
    BY DEF Record
  <2>2. idle \in BOOLEAN
    BY DEF Record
  <2>3. st \in State
    BY DEF Record, State
  <2>4. [i EXCEPT !.conns = left, !.timer = idle, !.state = st] \in Record
    BY <2>1, <2>2, <2>3, CountFields
  <2> QED BY <2>4 DEF Release
<1>3. Unheld(i) => Unheld(Acquire(i)) /\ Unheld(Release(i))
  BY DEF Acquire, Release, Record, State, Unheld
<1> QED BY <1>1, <1>2, <1>3

\* The methods that record where an instance is in its life.
LEMMA MarkedRecord ==
  ASSUME NEW i \in Record, NEW p \in Nat
  PROVE  /\ MarkBooting(i) \in Record /\ MarkRunning(i, p) \in Record
         /\ MarkReaped(i) \in Record /\ MarkFailed(i) \in Record
         /\ MarkCrashing(i) \in Record
         /\ Unheld(MarkRunning(i, p)) /\ Unheld(MarkReaped(i))
         /\ Unheld(MarkFailed(i)) /\ Unheld(MarkCrashing(i))
         /\ Unheld(i) => Unheld(MarkBooting(i))
<1>1. MarkBooting(i) \in Record /\ (Unheld(i) => Unheld(MarkBooting(i)))
  BY DEF MarkBooting, Record, State, Unheld
<1>2. MarkRunning(i, p) \in Record /\ Unheld(MarkRunning(i, p))
  <2> DEFINE held == i.conns > 0 \/ i.alwaysOn
             st   == IF held THEN "active" ELSE "idle"
  <2>1. (~held) \in BOOLEAN
    OBVIOUS
  <2>2. st \in State
    BY DEF State
  <2>3. [i EXCEPT !.pid = p, !.next = FALSE, !.timer = ~held, !.state = st]
          \in Record
    BY <2>1, <2>2, RunningFields
  <2>4. MarkRunning(i, p) \in Record
    BY <2>3 DEF MarkRunning
  <2>5. Unheld(MarkRunning(i, p))
    <3>1. CASE held
      BY <3>1 DEF MarkRunning, Record, Unheld
    <3>2. CASE ~held
      BY <3>2 DEF MarkRunning, Record, Unheld
    <3> QED BY <3>1, <3>2
  <2> QED BY <2>4, <2>5
<1>3. MarkReaped(i) \in Record /\ Unheld(MarkReaped(i))
  BY DEF MarkReaped, ClearRuntime, NoPid, Record, State, Unheld
<1>4. MarkFailed(i) \in Record /\ Unheld(MarkFailed(i))
  BY DEF MarkFailed, ClearRuntime, NoPid, Record, State, Unheld
<1>5. MarkCrashing(i) \in Record /\ Unheld(MarkCrashing(i))
  BY DEF MarkCrashing, ClearRuntime, NoPid, Record, State, Unheld
<1> QED BY <1>1, <1>2, <1>3, <1>4, <1>5

\* The methods that leave the state, the count and the timer alone.
LEMMA SetRecord ==
  ASSUME NEW i \in Record, NEW on \in BOOLEAN
  PROVE  /\ SetIdlePolicy(i, on) \in Record /\ ToggleKeepAwake(i) \in Record
         /\ SetTainted(i) \in Record /\ ClearTainted(i) \in Record
         /\ IncRestart(i) \in Record /\ ResetRestart(i) \in Record
         /\ Unheld(i) => /\ Unheld(SetIdlePolicy(i, on))
                         /\ Unheld(ToggleKeepAwake(i))
                         /\ Unheld(SetTainted(i)) /\ Unheld(ClearTainted(i))
                         /\ Unheld(IncRestart(i)) /\ Unheld(ResetRestart(i))
<1>1. /\ SetIdlePolicy(i, on) \in Record
      /\ Unheld(i) => Unheld(SetIdlePolicy(i, on))
  BY DEF SetIdlePolicy, Record, State, Unheld
<1>2. ToggleKeepAwake(i) \in Record /\ (Unheld(i) => Unheld(ToggleKeepAwake(i)))
  BY DEF ToggleKeepAwake, Record, State, Unheld
<1>3. /\ SetTainted(i) \in Record /\ ClearTainted(i) \in Record
      /\ Unheld(i) => Unheld(SetTainted(i)) /\ Unheld(ClearTainted(i))
  BY DEF SetTainted, ClearTainted, Record, State, Unheld
<1>4. /\ IncRestart(i) \in Record /\ ResetRestart(i) \in Record
      /\ Unheld(i) => Unheld(IncRestart(i)) /\ Unheld(ResetRestart(i))
  BY DEF IncRestart, ResetRestart, Record, State, Unheld
<1> QED BY <1>1, <1>2, <1>3, <1>4

-----------------------------------------------------------------------------
(* Types *)

ClientTargets ==
  \A c \in Clients : client[c].pc # "out" => client[c].at \in Inst

StopTargets ==
  \A t \in Stopper : stop[t].pc # "none" => stop[t].at \in Inst

DepPc == {"depcall", "depwait", "depup"}

\* A boot record that points only at dependencies of n.
Aimed(n, f) ==
  /\ f.todo \subseteq Deps[n]
  /\ f.pc \in DepPc => f.dep \in Deps[n]

FlightTargets == \A n \in Inst : Aimed(n, flight[n])

Typed == TypeOK /\ ClientTargets /\ StopTargets /\ FlightTargets

-----------------------------------------------------------------------------
(* One lemma for each way a step writes one of the variables *)

\* The steps a boot may be at.
LEMMA FlightPcs ==
  /\ "none" \in FlightPc /\ "enter" \in FlightPc /\ "deps" \in FlightPc
  /\ "depcall" \in FlightPc /\ "depwait" \in FlightPc /\ "depup" \in FlightPc
  /\ "prep" \in FlightPc /\ "spawn" \in FlightPc /\ "ready" \in FlightPc
  /\ "register" \in FlightPc /\ "running" \in FlightPc /\ "pid" \in FlightPc
  /\ "converge" \in FlightPc /\ "onready" \in FlightPc
  /\ "notready" \in FlightPc
  /\ "reread" \in FlightPc /\ "rerun" \in FlightPc
  /\ "rerunning" \in FlightPc /\ "unwind" \in FlightPc
  /\ "failing" \in FlightPc /\ "failed" \in FlightPc
BY DEF FlightPc

\* A boot gets a new record.
LEMMA PutFlight ==
  ASSUME Typed, NEW n \in Inst, NEW r \in FlightRec, Aimed(n, r),
         flight' = [flight EXCEPT ![n] = r]
  PROVE  flight' \in [Inst -> FlightRec] /\ FlightTargets'
<1>1. flight' \in [Inst -> FlightRec]
  BY DEF Typed, TypeOK
<1>2. FlightTargets'
  <2> SUFFICES ASSUME NEW m \in Inst PROVE Aimed(m, flight'[m])
    BY DEF FlightTargets, Aimed
  <2>1. flight'[m] = IF m = n THEN r ELSE flight[m]
    BY DEF Typed, TypeOK
  <2> QED BY <2>1 DEF Typed, FlightTargets
<1> QED BY <1>1, <1>2

\* A boot moves on to a step that is about no dependency.
LEMMA MovedFlight ==
  ASSUME Typed, NEW n \in Inst, NEW pc \in FlightPc, pc \notin DepPc,
         Goto(n, pc)
  PROVE  flight' \in [Inst -> FlightRec] /\ FlightTargets'
<1> DEFINE r == [flight[n] EXCEPT !.pc = pc]
<1>1. flight[n] \in FlightRec /\ Aimed(n, flight[n])
  BY DEF Typed, TypeOK, FlightTargets
<1>2. r \in FlightRec /\ Aimed(n, r)
  BY <1>1 DEF FlightRec, Aimed
<1>3. flight' = [flight EXCEPT ![n] = r]
  BY DEF Goto
<1> HIDE DEF r
<1> QED BY <1>2, <1>3, PutFlight

LEMMA NoFlightTyped == NoFlight \in FlightRec /\ \A n : Aimed(n, NoFlight)
<1>1. NoFlight \in FlightRec
  BY FlightPcs DEF NoFlight, FlightRec, NoPid
<1>2. \A n : Aimed(n, NoFlight)
  BY DEF NoFlight, Aimed, DepPc
<1> QED BY <1>1, <1>2

\* A boot is joined or started.
LEMMA JoinedFlight ==
  ASSUME NEW f \in [Inst -> FlightRec], \A n \in Inst : Aimed(n, f[n]),
         NEW d, NEW cond \in {"healthy", "started"}, flight' = Do(f, d, cond)
  PROVE  flight' \in [Inst -> FlightRec] /\ FlightTargets'
<1> DEFINE r == [NoFlight EXCEPT !.pc = "enter", !.cond = cond]
<1>1. r \in FlightRec
  BY FlightPcs DEF NoFlight, FlightRec, NoPid
<1>2. \A n : Aimed(n, r)
  BY DEF NoFlight, Aimed, DepPc
<1>3. flight' = f \/ flight' = [f EXCEPT ![d] = r]
  BY DEF Do
<1> HIDE DEF r
<1>4. flight' \in [Inst -> FlightRec]
  BY <1>1, <1>3
<1>5. \A n \in Inst : Aimed(n, flight'[n])
  BY <1>2, <1>3
<1> QED BY <1>4, <1>5 DEF FlightTargets, Aimed

\* A boot ends, and its callers are answered.
LEMMA FinishedFlight ==
  ASSUME Typed, NEW n \in Inst, NEW ok \in BOOLEAN, Finish(n, ok)
  PROVE  /\ flight' \in [Inst -> FlightRec] /\ FlightTargets'
         /\ client' \in [Clients -> ClientRec] /\ ClientTargets'
<1>1. ASSUME NEW m \in Inst
      PROVE  flight'[m] \in FlightRec /\ Aimed(m, flight'[m])
  <2> DEFINE r == [flight[m] EXCEPT !.pc = IF ok THEN "depup" ELSE "failing"]
  <2>1. flight[m] \in FlightRec /\ Aimed(m, flight[m])
    BY DEF Typed, TypeOK, FlightTargets
  <2>2. r \in FlightRec
    BY <2>1, FlightPcs DEF FlightRec
  <2>3. flight[m].pc = "depwait" => Aimed(m, r)
    BY <2>1 DEF FlightRec, Aimed, DepPc
  <2>4. \/ flight'[m] = NoFlight
        \/ flight'[m] = flight[m]
        \/ flight'[m] = r /\ flight[m].pc = "depwait"
    BY DEF Finish
  <2> HIDE DEF r
  <2> QED BY <2>1, <2>2, <2>3, <2>4, NoFlightTyped
<1>2. flight' \in [Inst -> FlightRec] /\ FlightTargets'
  BY <1>1 DEF Finish, FlightTargets, Aimed
<1>3. ASSUME NEW c \in Clients
      PROVE  /\ client'[c] \in ClientRec
             /\ client'[c].pc # "out" => client'[c].at \in Inst
  <2> DEFINE r == [client[c] EXCEPT !.pc = "up"]
  <2>1. /\ client[c] \in ClientRec
        /\ client[c].pc # "out" => client[c].at \in Inst
    BY DEF Typed, TypeOK, ClientTargets
  <2>2. r \in ClientRec /\ r.at = client[c].at
    BY <2>1 DEF ClientRec
  <2>3. NoClient \in ClientRec /\ NoClient.pc = "out"
    BY DEF ClientRec, NoClient
  <2>4. \/ client'[c] = NoClient
        \/ client'[c] = client[c]
        \/ client'[c] = r /\ client[c].pc = "wait"
    BY DEF Finish, Answered
  <2> HIDE DEF r
  <2> QED BY <2>1, <2>2, <2>3, <2>4
<1>4. client' \in [Clients -> ClientRec] /\ ClientTargets'
  BY <1>3 DEF Finish, Answered, ClientTargets
<1> QED BY <1>2, <1>4

\* A connection gets a new record, or only moves on.
LEMMA PutClient ==
  ASSUME Typed, NEW c \in Clients, NEW r \in ClientRec,
         r.pc # "out" => r.at \in Inst, client' = [client EXCEPT ![c] = r]
  PROVE  client' \in [Clients -> ClientRec] /\ ClientTargets'
BY DEF Typed, TypeOK, ClientTargets

LEMMA MovedClient ==
  ASSUME Typed, NEW c \in Clients, client[c].pc # "out",
         NEW pc \in {"call", "wait", "up", "dialed", "held"},
         client' = [client EXCEPT ![c].pc = pc]
  PROVE  client' \in [Clients -> ClientRec] /\ ClientTargets'
<1> DEFINE r == [client[c] EXCEPT !.pc = pc]
<1>1. client[c] \in ClientRec /\ client[c].at \in Inst
  BY DEF Typed, TypeOK, ClientTargets
<1>2. r \in ClientRec /\ r.at \in Inst
  BY <1>1 DEF ClientRec
<1>3. client' = [client EXCEPT ![c] = r]
  OBVIOUS
<1> HIDE DEF r
<1> QED BY <1>2, <1>3, PutClient

\* A call of Stop gets a new record, or only moves on.
LEMMA PutStop ==
  ASSUME Typed, NEW t \in Stopper, NEW r \in StopRec,
         r.pc # "none" => r.at \in Inst, stop' = [stop EXCEPT ![t] = r]
  PROVE  stop' \in [Stopper -> StopRec] /\ StopTargets'
BY DEF Typed, TypeOK, StopTargets

LEMMA MovedStop ==
  ASSUME Typed, NEW t \in Stopper, stop[t].pc # "none",
         NEW pc \in {"take", "reset", "kill", "release", "reap"},
         stop' = [stop EXCEPT ![t].pc = pc]
  PROVE  stop' \in [Stopper -> StopRec] /\ StopTargets'
<1> DEFINE r == [stop[t] EXCEPT !.pc = pc]
<1>1. stop[t] \in StopRec /\ stop[t].at \in Inst
  BY DEF Typed, TypeOK, StopTargets
<1>2. r \in StopRec /\ r.at \in Inst
  BY <1>1 DEF StopRec
<1>3. stop' = [stop EXCEPT ![t] = r]
  OBVIOUS
<1> HIDE DEF r
<1> QED BY <1>2, <1>3, PutStop

LEMMA NoStopTyped == NoStop \in StopRec /\ NoStop.pc = "none"
BY DEF NoStop, StopRec, NoPid

\* Stop's critical section.
LEMMA Taken ==
  ASSUME Typed, NEW t \in Stopper, NEW n \in Inst, Take(t, n)
  PROVE  /\ procs' \in [Inst -> Proc \cup {NoPid}]
         /\ deps' \in [Inst -> SUBSET Inst]
         /\ readyPending' \subseteq Inst
         /\ restarts' \in [Inst -> Proc \cup {NoPid}]
         /\ stop' \in [Stopper -> StopRec] /\ StopTargets'
<1> DEFINE r == [pc |-> "reset", at |-> n, held |-> deps[n], p |-> procs[n]]
<1>1. r \in StopRec /\ r.at \in Inst
  BY DEF Typed, TypeOK, StopRec
<1>2. stop' = [stop EXCEPT ![t] = r]
  BY DEF Take
<1>3. stop' \in [Stopper -> StopRec] /\ StopTargets'
  <2> HIDE DEF r
  <2> QED BY <1>1, <1>2, PutStop
<1>4. procs' \in [Inst -> Proc \cup {NoPid}]
  BY DEF Take, Typed, TypeOK
<1>5. deps' \in [Inst -> SUBSET Inst]
  BY DEF Take, HoldsDropped, Typed, TypeOK
<1>6. restarts' \in [Inst -> Proc \cup {NoPid}]
  BY DEF Take, RestartDropped, Typed, TypeOK
<1>7. readyPending' \subseteq Inst
  BY DEF Take, Typed, TypeOK
<1> QED BY <1>3, <1>4, <1>5, <1>6, <1>7

\* A watcher gets a new record, or only moves on.
LEMMA PutWatch ==
  ASSUME Typed, NEW n \in Inst, NEW p \in Proc, NEW w \in WatchRec,
         watch' = [watch EXCEPT ![n][p] = w]
  PROVE  watch' \in [Inst -> [Proc -> WatchRec]]
BY DEF Typed, TypeOK

LEMMA MovedWatch ==
  ASSUME Typed, NEW n \in Inst, NEW p \in Proc,
         NEW pc \in {"none", "wait", "deaf", "release", "reap", "decide", "crash",
                     "sched", "giveup", "done"},
         watch' = [watch EXCEPT ![n][p].pc = pc]
  PROVE  watch' \in [Inst -> [Proc -> WatchRec]]
<1> DEFINE w == [watch[n][p] EXCEPT !.pc = pc]
<1>1. watch[n][p] \in WatchRec
  BY DEF Typed, TypeOK
<1>2. w \in WatchRec
  BY <1>1 DEF WatchRec
<1>3. watch' = [watch EXCEPT ![n][p] = w]
  OBVIOUS
<1> HIDE DEF w
<1> QED BY <1>2, <1>3, PutWatch

\* A restart goroutine moves on.
LEMMA MovedTimer ==
  ASSUME Typed, NEW n \in Inst, NEW p \in Proc, NEW pc \in TimerPc,
         timer' = [timer EXCEPT ![n][p] = pc]
  PROVE  timer' \in [Inst -> [Proc -> TimerPc]]
BY DEF Typed, TypeOK

\* One call of a registry method, and one Release for each name held.
LEMMA UpdatedReg ==
  ASSUME Typed, NEW n, NEW r \in Record, Update(n, r)
  PROVE  reg' \in [Inst -> Record]
BY DEF Update, Typed, TypeOK

LEMMA ReleasedReg ==
  ASSUME Typed, NEW held, ReleaseAll(held)
  PROVE  reg' \in [Inst -> Record]
<1>1. \A d \in Inst : reg[d] \in Record
  BY DEF Typed, TypeOK
<1> QED BY <1>1, CountedRecord DEF ReleaseAll

\* A process is killed.
LEMMA KilledOs ==
  ASSUME Typed, NEW n, NEW p, Kill(n, p)
  PROVE  os' \in [Inst -> [Proc -> OsState]]
<1>1. "exit1" \in OsState
  BY DEF OsState
<1> QED BY <1>1 DEF Kill, Typed, TypeOK

\* A pidfile is written or removed.
LEMMA Pidfile ==
  ASSUME Typed, NEW n, NEW p \in Proc \cup {NoPid},
         pidfile' = [pidfile EXCEPT ![n] = p]
  PROVE  pidfile' \in [Inst -> Proc \cup {NoPid}]
BY DEF Typed, TypeOK

-----------------------------------------------------------------------------
(* One lemma for each group of actions *)

\* Connections.
LEMMA ClientTyped ==
  ASSUME Typed, NEW c \in Clients, Client(c)
  PROVE  Typed'
<1>1. CASE \E n \in Inst : ClientCall(c, n)
  <2>1. PICK n \in Inst : ClientCall(c, n)
    BY <1>1
  <2>2. [pc |-> "call", at |-> n] \in ClientRec
    BY DEF ClientRec
  <2>3. client' \in [Clients -> ClientRec] /\ ClientTargets'
    BY <2>1, <2>2, PutClient DEF ClientCall
  <2> QED BY <2>1, <2>3 DEF ClientCall, Typed, TypeOK, StopTargets,
        FlightTargets, Aimed, maps, gates, world, control
<1>2. CASE ClientBoot(c)
  <2>1. client' \in [Clients -> ClientRec] /\ ClientTargets'
    BY <1>2, MovedClient DEF ClientBoot
  <2>2. flight' \in [Inst -> FlightRec] /\ FlightTargets'
    <3>1. flight \in [Inst -> FlightRec] /\ \A n \in Inst : Aimed(n, flight[n])
      BY DEF Typed, TypeOK, FlightTargets
    <3>2. CASE UNCHANGED flight
      BY <3>1, <3>2 DEF FlightTargets, Aimed
    <3>3. CASE flight' = Do(flight, client[c].at, "healthy")
      BY <3>1, <3>3, JoinedFlight
    <3> QED BY <1>2, <3>2, <3>3 DEF ClientBoot
  <2> QED BY <1>2, <2>1, <2>2 DEF ClientBoot, Typed, TypeOK, StopTargets,
        maps, gates, world, control
<1>3. CASE ClientDial(c) \/ ClientRefused(c)
  <2>1. NoClient \in ClientRec /\ NoClient.pc = "out"
    BY DEF NoClient, ClientRec
  <2>2. \/ client' = [client EXCEPT ![c] = NoClient]
        \/ client' = [client EXCEPT ![c].pc = "dialed"] /\ client[c].pc = "up"
    BY <1>3 DEF ClientDial, ClientRefused
  <2>3. client' \in [Clients -> ClientRec] /\ ClientTargets'
    BY <2>1, <2>2, PutClient, MovedClient
  <2> QED BY <1>3, <2>3 DEF ClientDial, ClientRefused, Typed, TypeOK,
        StopTargets, FlightTargets, Aimed, maps, gates, world, control
<1>4. CASE ClientAcquire(c)
  <2>1. client[c].at \in Inst /\ reg[client[c].at] \in Record
    BY <1>4 DEF ClientAcquire, Typed, TypeOK, ClientTargets
  <2>2. reg' \in [Inst -> Record]
    BY <1>4, <2>1, UpdatedReg, CountedRecord DEF ClientAcquire
  <2>3. client' \in [Clients -> ClientRec] /\ ClientTargets'
    BY <1>4, MovedClient DEF ClientAcquire
  <2> QED BY <1>4, <2>2, <2>3 DEF ClientAcquire, Typed, TypeOK, StopTargets,
        FlightTargets, Aimed, maps, gates, world, control
<1>5. CASE ClientRelease(c)
  <2>1. client[c].at \in Inst /\ reg[client[c].at] \in Record
    BY <1>5 DEF ClientRelease, Typed, TypeOK, ClientTargets
  <2>2. reg' \in [Inst -> Record]
    BY <1>5, <2>1, UpdatedReg, CountedRecord DEF ClientRelease
  <2>3. NoClient \in ClientRec /\ NoClient.pc = "out"
    BY DEF NoClient, ClientRec
  <2>4. client' \in [Clients -> ClientRec] /\ ClientTargets'
    BY <1>5, <2>3, PutClient DEF ClientRelease
  <2> QED BY <1>5, <2>2, <2>4 DEF ClientRelease, Typed, TypeOK, StopTargets,
        FlightTargets, Aimed, maps, gates, world, control
<1> QED BY <1>1, <1>2, <1>3, <1>4, <1>5 DEF Client

\* The boot in flight.
LEMMA FlightTyped ==
  ASSUME Typed, NEW n \in Inst, Flight(n)
  PROVE  Typed'
<1> USE DEF DepPc
<1>0. /\ flight[n] \in FlightRec /\ Aimed(n, flight[n])
      /\ reg[n] \in Record /\ flight[n].p \in Nat
  <2>1. flight[n] \in FlightRec /\ Aimed(n, flight[n]) /\ reg[n] \in Record
    BY DEF Typed, TypeOK, FlightTargets
  <2>2. flight[n].p \in Proc \cup {NoPid}
    BY <2>1 DEF FlightRec
  <2>3. flight[n].p \in Nat
    BY <2>2, ConstantsOK DEF Proc, ConstantsOK, NoPid
  <2> QED BY <2>1, <2>3
<1>1. CASE FlightEnter(n)
  <2>1. CASE Finish(n, TRUE) /\ UNCHANGED reg
    BY <1>1, <2>1, FinishedFlight DEF FlightEnter, Typed, TypeOK, StopTargets,
       maps, gates, world, control
  <2>2. CASE Finish(n, FALSE) /\ UNCHANGED reg
    BY <1>1, <2>2, FinishedFlight DEF FlightEnter, Typed, TypeOK, StopTargets,
       maps, gates, world, control
  <2>3. CASE Goto(n, "reread") /\ UNCHANGED <<reg, client>>
    <3>1. flight' \in [Inst -> FlightRec] /\ FlightTargets'
      BY <2>3, FlightPcs, MovedFlight
    <3> QED BY <1>1, <2>3, <3>1 DEF FlightEnter, Typed, TypeOK, StopTargets,
          ClientTargets, maps, gates, world, control
  <2>4. CASE /\ Update(n, MarkBooting(reg[n]))
             /\ flight' = [flight EXCEPT ![n] = [@ EXCEPT !.pc = "deps",
                                                        !.todo = Deps[n]]]
             /\ UNCHANGED client
    <3> DEFINE r == [flight[n] EXCEPT !.pc = "deps", !.todo = Deps[n]]
    <3>1. Deps[n] \subseteq Inst
      BY ConstantsOK DEF ConstantsOK
    <3>2. r \in FlightRec /\ Aimed(n, r)
      BY <1>0, <3>1, FlightPcs DEF FlightRec, Aimed
    <3>3. flight' \in [Inst -> FlightRec] /\ FlightTargets'
      BY <2>4, <3>2, PutFlight
    <3>4. reg' \in [Inst -> Record]
      BY <1>0, <2>4, UpdatedReg, MarkedRecord
    <3> QED BY <1>1, <2>4, <3>3, <3>4 DEF FlightEnter, Typed, TypeOK,
          StopTargets, ClientTargets, maps, gates, world, control
  <2> QED BY <1>1, <2>1, <2>2, <2>3, <2>4 DEF FlightEnter
<1>2. CASE FlightDeps(n)
  <2>1. CASE Goto(n, "prep")
    BY <1>2, <2>1, FlightPcs, MovedFlight DEF FlightDeps, Typed, TypeOK,
       ClientTargets, StopTargets, maps, gates, world, control
  <2>2. ASSUME NEW d \in flight[n].todo, NEW pc \in {"depcall", "failing"},
               flight' = [flight EXCEPT ![n] = [@ EXCEPT !.pc = pc, !.dep = d]]
        PROVE  Typed'
    <3> DEFINE r == [flight[n] EXCEPT !.pc = pc, !.dep = d]
    <3>1. d \in Deps[n] /\ d \in Inst
      BY <1>0, ConstantsOK DEF Aimed, ConstantsOK
    <3>2. r \in FlightRec /\ Aimed(n, r)
      BY <1>0, <3>1, FlightPcs DEF FlightRec, Aimed
    <3>3. flight' \in [Inst -> FlightRec] /\ FlightTargets'
      BY <2>2, <3>2, PutFlight
    <3> QED BY <1>2, <3>3 DEF FlightDeps, Typed, TypeOK, ClientTargets,
          StopTargets, maps, gates, world, control
  <2> QED BY <1>2, <2>1, <2>2 DEF FlightDeps
<1>3. CASE FlightDepCall(n)
  <2> DEFINE d == flight[n].dep
             r == [flight[n] EXCEPT !.pc = "depup"]
             q == [flight[n] EXCEPT !.pc = "depwait"]
  <2>1. r \in FlightRec /\ Aimed(n, r) /\ q \in FlightRec /\ Aimed(n, q)
    BY <1>0, <1>3, FlightPcs DEF FlightDepCall, At, FlightRec, Aimed
  <2>2. CASE flight' = [flight EXCEPT ![n].pc = "depup"]
    <3>1. flight' \in [Inst -> FlightRec] /\ FlightTargets'
      BY <2>1, <2>2, PutFlight
    <3> QED BY <1>3, <3>1 DEF FlightDepCall, Typed, TypeOK, ClientTargets,
          StopTargets, maps, gates, world, control
  <2>3. CASE flight' = Do([flight EXCEPT ![n].pc = "depwait"], d, CondOf(n, d))
    <3> DEFINE f == [flight EXCEPT ![n] = q]
    <3>1. f \in [Inst -> FlightRec] /\ \A m \in Inst : Aimed(m, f[m])
      BY <2>1 DEF Typed, TypeOK, FlightTargets
    <3>2. flight' = Do(f, d, CondOf(n, d))
      BY <2>3
    <3>3. CondOf(n, d) \in {"healthy", "started"}
      BY DEF CondOf
    <3>4. flight' \in [Inst -> FlightRec] /\ FlightTargets'
      <4> HIDE DEF f
      <4> QED BY <3>1, <3>2, <3>3, JoinedFlight
    <3> QED BY <1>3, <3>4 DEF FlightDepCall, Typed, TypeOK, ClientTargets,
          StopTargets, maps, gates, world, control
  <2> QED BY <1>3, <2>2, <2>3 DEF FlightDepCall
<1>4. CASE FlightDepAcquire(n)
  <2> DEFINE d == flight[n].dep
             r == [flight[n] EXCEPT !.pc = "deps", !.todo = @ \ {d},
                                    !.held = @ \cup {d}]
  <2>1. d \in Inst /\ reg[d] \in Record
    BY <1>0, <1>4, ConstantsOK DEF FlightDepAcquire, At, Aimed, ConstantsOK,
       Typed, TypeOK
  <2>2. r \in FlightRec /\ Aimed(n, r)
    BY <1>0, <2>1, FlightPcs DEF FlightRec, Aimed
  <2>3. flight' = [flight EXCEPT ![n] = r]
    BY <1>4 DEF FlightDepAcquire
  <2>4. flight' \in [Inst -> FlightRec] /\ FlightTargets'
    <3> HIDE DEF r
    <3> QED BY <2>2, <2>3, PutFlight
  <2>5. reg' \in [Inst -> Record]
    BY <1>4, <2>1, UpdatedReg, CountedRecord DEF FlightDepAcquire
  <2> QED BY <1>4, <2>4, <2>5 DEF FlightDepAcquire, Typed, TypeOK,
        ClientTargets, StopTargets, maps, gates, world, control
<1>5. CASE FlightPrep(n)
  <2>1. flight' \in [Inst -> FlightRec] /\ FlightTargets'
    BY <1>5, FlightPcs, MovedFlight DEF FlightPrep
  <2>2. reg' \in [Inst -> Record]
    BY <1>0, <1>5, UpdatedReg, SetRecord DEF FlightPrep, Typed, TypeOK
  <2> QED BY <1>5, <2>1, <2>2 DEF FlightPrep, Typed, TypeOK, ClientTargets,
        StopTargets, maps, gates, world, control
<1>6. CASE FlightSpawn(n)
  <2>1. CASE Goto(n, "failing") /\ UNCHANGED os
    BY <1>6, <2>1, FlightPcs, MovedFlight DEF FlightSpawn, Typed, TypeOK,
       ClientTargets, StopTargets, maps, gates, world, control
  <2>2. ASSUME NEW p \in Proc, os' = [os EXCEPT ![n][p] = "alive"],
               flight' = [flight EXCEPT ![n] = [@ EXCEPT !.pc = "ready",
                                                         !.p = p]]
        PROVE  Typed'
    <3> DEFINE r == [flight[n] EXCEPT !.pc = "ready", !.p = p]
    <3>1. r \in FlightRec /\ Aimed(n, r)
      BY <1>0, FlightPcs DEF FlightRec, Aimed
    <3>2. flight' \in [Inst -> FlightRec] /\ FlightTargets'
      BY <2>2, <3>1, PutFlight
    <3>3. "alive" \in OsState
      BY DEF OsState
    <3>4. os' \in [Inst -> [Proc -> OsState]]
      BY <2>2, <3>3 DEF Typed, TypeOK
    <3> QED BY <1>6, <3>2, <3>4 DEF FlightSpawn, Typed, TypeOK, ClientTargets,
          StopTargets, maps, gates, world, control
  <2> QED BY <1>6, <2>1, <2>2 DEF FlightSpawn
<1>7. CASE FlightReady(n)
  <2>1. flight' \in [Inst -> FlightRec] /\ FlightTargets'
    BY <1>7, FlightPcs, MovedFlight DEF FlightReady
  <2>2. os' \in [Inst -> [Proc -> OsState]]
    BY <1>7, KilledOs DEF FlightReady, Typed, TypeOK
  <2> QED BY <1>7, <2>1, <2>2 DEF FlightReady, Typed, TypeOK, ClientTargets,
        StopTargets, maps, gates, world, control
<1>8. CASE FlightRegister(n)
  <2>1. flight' \in [Inst -> FlightRec] /\ FlightTargets'
    BY <1>8, FlightPcs, MovedFlight DEF FlightRegister
  <2>2. flight[n].p \in Proc \cup {NoPid} /\ flight[n].held \subseteq Inst
    BY <1>0 DEF FlightRec
  <2>3. procs' \in [Inst -> Proc \cup {NoPid}]
    BY <1>8, <2>2 DEF FlightRegister, Typed, TypeOK
  <2>4. deps' \in [Inst -> SUBSET Inst]
    BY <1>8, <2>2 DEF FlightRegister, Typed, TypeOK
  <2> QED BY <1>8, <2>1, <2>3, <2>4 DEF FlightRegister, Typed, TypeOK,
        ClientTargets, StopTargets, gates, world, control
<1>9. CASE FlightRunning(n)
  <2>1. flight' \in [Inst -> FlightRec] /\ FlightTargets'
    BY <1>9, FlightPcs, MovedFlight DEF FlightRunning
  <2>2. (n \in AlwaysOn) \in BOOLEAN
    OBVIOUS
  <2>3. SetIdlePolicy(reg[n], n \in AlwaysOn) \in Record
    BY <1>0, <2>2, SetRecord
  <2>4. reg' \in [Inst -> Record]
    BY <1>0, <1>9, <2>3, UpdatedReg, MarkedRecord DEF FlightRunning
  <2> QED BY <1>9, <2>1, <2>4 DEF FlightRunning, Typed, TypeOK, ClientTargets,
        StopTargets, maps, gates, world, control
<1>10. CASE FlightPid(n)
  <2>1. flight' \in [Inst -> FlightRec] /\ FlightTargets'
    BY <1>10, FlightPcs, MovedFlight DEF FlightPid
  <2>2. flight[n].p \in Proc \cup {NoPid}
    BY <1>0 DEF FlightRec
  <2>3. pidfile' \in [Inst -> Proc \cup {NoPid}]
    BY <1>10, <2>2, Pidfile DEF FlightPid, Written
  <2>4. watch' \in [Inst -> [Proc -> WatchRec]]
    <3>1. CASE flight[n].p \in Proc
      BY <1>10, <3>1, MovedWatch DEF FlightPid, Watched
    <3>2. CASE flight[n].p \notin Proc
      <4>1. watch' = watch
        BY <1>10, <3>2 DEF FlightPid, Watched, Typed, TypeOK
      <4> QED BY <4>1 DEF Typed, TypeOK
    <3> QED BY <3>1, <3>2
  <2> QED BY <1>10, <2>1, <2>3, <2>4 DEF FlightPid, Typed, TypeOK,
        ClientTargets, StopTargets, maps, gates, control
<1>11. CASE FlightConverge(n)
  <2>1. flight' \in [Inst -> FlightRec] /\ FlightTargets'
    BY <1>11, FlightPcs, MovedFlight DEF FlightConverge
  <2>2. reg' \in [Inst -> Record]
    BY <1>0, <1>11, UpdatedReg, SetRecord DEF FlightConverge, Typed, TypeOK
  <2>3. procs' \in [Inst -> Proc \cup {NoPid}] /\ deps' \in [Inst -> SUBSET Inst]
    BY <1>11 DEF FlightConverge, HoldsDropped, Typed, TypeOK
  <2> QED BY <1>11, <2>1, <2>2, <2>3 DEF FlightConverge, Typed, TypeOK,
        ClientTargets, StopTargets, gates, world, control
<1>12. CASE FlightUnwind(n)
  <2>1. flight' \in [Inst -> FlightRec] /\ FlightTargets'
    BY <1>12, FlightPcs, MovedFlight DEF FlightUnwind
  <2>2. os' \in [Inst -> [Proc -> OsState]]
    BY <1>12, KilledOs DEF FlightUnwind
  <2>3. pidfile' \in [Inst -> Proc \cup {NoPid}]
    BY <1>12, Pidfile DEF FlightUnwind
  <2> QED BY <1>12, <2>1, <2>2, <2>3 DEF FlightUnwind, Typed, TypeOK,
        ClientTargets, StopTargets, maps, gates, control
<1>13. CASE FlightOnReady(n)
  <2>1. CASE Finish(n, TRUE) /\ UNCHANGED readyPending
    BY <1>13, <2>1, FinishedFlight DEF FlightOnReady, Typed, TypeOK,
       StopTargets, gates, world, control
  <2>2. CASE /\ readyPending' = readyPending \cup {n}
             /\ Goto(n, "notready") /\ UNCHANGED client
    <3>1. flight' \in [Inst -> FlightRec] /\ FlightTargets'
      BY <2>2, FlightPcs, MovedFlight
    <3>2. readyPending' \subseteq Inst
      BY <2>2 DEF Typed, TypeOK
    <3> QED BY <1>13, <2>2, <3>1, <3>2 DEF FlightOnReady, Typed, TypeOK,
          ClientTargets, StopTargets, gates, world, control
  <2> QED BY <1>13, <2>1, <2>2 DEF FlightOnReady
<1>14. CASE FlightNotReady(n) \/ FlightFailed(n)
  <2>1. Finish(n, FALSE) /\ Update(n, MarkFailed(reg[n]))
    BY <1>14 DEF FlightNotReady, FlightFailed
  <2>2. reg' \in [Inst -> Record]
    BY <1>0, <2>1, UpdatedReg, MarkedRecord
  <2> QED BY <1>14, <2>1, <2>2, FinishedFlight DEF FlightNotReady,
        FlightFailed, Typed, TypeOK, StopTargets, maps, gates, world, control
<1>15. CASE FlightRerun(n)
  <2>1. CASE /\ readyPending' = readyPending \ {n}
             /\ Goto(n, "rerunning") /\ UNCHANGED <<reg, client>>
    <3>1. flight' \in [Inst -> FlightRec] /\ FlightTargets'
      BY <2>1, FlightPcs, MovedFlight
    <3>2. readyPending' \subseteq Inst
      BY <2>1 DEF Typed, TypeOK
    <3> QED BY <1>15, <2>1, <3>1, <3>2 DEF FlightRerun, Typed, TypeOK,
          ClientTargets, StopTargets, gates, world, control
  <2>2. CASE /\ Update(n, MarkFailed(reg[n])) /\ Finish(n, FALSE)
             /\ UNCHANGED readyPending
    <3>1. reg' \in [Inst -> Record]
      BY <1>0, <2>2, UpdatedReg, MarkedRecord
    <3> QED BY <1>15, <2>2, <3>1, FinishedFlight DEF FlightRerun, Typed,
          TypeOK, StopTargets, gates, world, control
  <2> QED BY <1>15, <2>1, <2>2 DEF FlightRerun
<1>16. CASE FlightRerunning(n)
  <2>1. reg' \in [Inst -> Record]
    BY <1>0, <1>16, UpdatedReg, MarkedRecord DEF FlightRerunning
  <2> QED BY <1>16, <2>1, FinishedFlight DEF FlightRerunning, Typed, TypeOK,
        StopTargets, maps, gates, world, control
<1>17. CASE FlightFailing(n)
  <2> DEFINE r == [flight[n] EXCEPT !.pc = "failed", !.held = {}]
  <2>1. r \in FlightRec /\ Aimed(n, r)
    BY <1>0, FlightPcs DEF FlightRec, Aimed
  <2>2. flight' \in [Inst -> FlightRec] /\ FlightTargets'
    BY <1>17, <2>1, PutFlight DEF FlightFailing
  <2>3. reg' \in [Inst -> Record]
    BY <1>17, ReleasedReg DEF FlightFailing
  <2> QED BY <1>17, <2>2, <2>3 DEF FlightFailing, Typed, TypeOK,
        ClientTargets, StopTargets, maps, gates, world, control
<1>18. CASE FlightReread(n)
  <2> DEFINE r == [flight[n] EXCEPT !.pc = "rerun", !.p = procs[n]]
  <2>1. procs[n] \in Proc \cup {NoPid}
    BY DEF Typed, TypeOK
  <2>2. r \in FlightRec /\ Aimed(n, r)
    BY <1>0, <2>1, FlightPcs DEF FlightRec, Aimed
  <2>3. flight' = [flight EXCEPT ![n] = r]
    BY <1>18 DEF FlightReread
  <2>4. flight' \in [Inst -> FlightRec] /\ FlightTargets'
    <3> HIDE DEF r
    <3> QED BY <2>2, <2>3, PutFlight
  <2> QED BY <1>18, <2>4 DEF FlightReread, Typed, TypeOK, ClientTargets,
        StopTargets, maps, gates, world, control
<1> QED BY <1>1, <1>2, <1>3, <1>4, <1>5, <1>6, <1>7, <1>8, <1>9, <1>10, <1>11,
      <1>12, <1>13, <1>14, <1>15, <1>16, <1>17, <1>18 DEF Flight

\* A process that exits, its watcher, and the restart it may schedule.
LEMMA WatchTyped ==
  ASSUME Typed, NEW n \in Inst, NEW p \in Proc, Watch(n, p) \/ Exit(n, p)
  PROVE  Typed'
<1>0. reg[n] \in Record
  BY DEF Typed, TypeOK
<1>1. CASE Exit(n, p)
  <2>1. Exits \subseteq OsState
    BY ConstantsOK DEF ConstantsOK, OsState
  <2>2. os' \in [Inst -> [Proc -> OsState]]
    BY <1>1, <2>1 DEF Exit, Typed, TypeOK
  <2> QED BY <1>1, <2>2 DEF Exit, Typed, TypeOK, ClientTargets, StopTargets,
        FlightTargets, Aimed, maps, gates, control
<1>2. CASE WatchExit(n, p)
  <2> DEFINE w == [pc |-> "release", held |-> deps[n]]
  <2>1. w \in WatchRec
    BY DEF WatchRec, Typed, TypeOK
  <2>2. \/ WatchGoto(n, p, "done")
        \/ watch' = [watch EXCEPT ![n][p] = w]
    BY <1>2 DEF WatchExit
  <2>3. watch' \in [Inst -> [Proc -> WatchRec]]
    BY <2>1, <2>2, MovedWatch, PutWatch DEF WatchGoto
  <2>4. /\ procs' \in [Inst -> Proc \cup {NoPid}]
        /\ deps' \in [Inst -> SUBSET Inst] /\ readyPending' \subseteq Inst
    BY <1>2 DEF WatchExit, HoldsDropped, Typed, TypeOK
  <2> QED BY <1>2, <2>3, <2>4 DEF WatchExit, Typed, TypeOK, ClientTargets,
        StopTargets, FlightTargets, Aimed, gates, world, control
<1>3. CASE WatchRelease(n, p)
  <2> DEFINE w == [pc |-> "reap", held |-> {}]
  <2>1. w \in WatchRec
    BY DEF WatchRec
  <2>2. watch' \in [Inst -> [Proc -> WatchRec]]
    BY <1>3, <2>1, PutWatch DEF WatchRelease
  <2>3. reg' \in [Inst -> Record]
    BY <1>3, ReleasedReg DEF WatchRelease
  <2> QED BY <1>3, <2>2, <2>3 DEF WatchRelease, Typed, TypeOK, ClientTargets,
        StopTargets, FlightTargets, Aimed, maps, gates, world, control
<1>4. CASE WatchReap(n, p)
  <2>1. watch' \in [Inst -> [Proc -> WatchRec]]
    BY <1>4, MovedWatch DEF WatchReap, WatchGoto
  <2>2. reg' \in [Inst -> Record]
    BY <1>0, <1>4, UpdatedReg, MarkedRecord DEF WatchReap
  <2>3. pidfile' \in [Inst -> Proc \cup {NoPid}]
    BY <1>4, Pidfile DEF WatchReap
  <2> QED BY <1>4, <2>1, <2>2, <2>3 DEF WatchReap, Typed, TypeOK,
        ClientTargets, StopTargets, FlightTargets, Aimed, maps, gates, control
<1>5. CASE WatchDecide(n, p)
  <2>1. watch' \in [Inst -> [Proc -> WatchRec]]
    BY <1>5, MovedWatch DEF WatchDecide, WatchGoto
  <2>2. \A r \in Record : IncRestart(r) \in Record /\ ResetRestart(r) \in Record
    BY SetRecord
  <2>3. reg' \in [Inst -> Record]
    BY <1>0, <1>5, <2>2, UpdatedReg, MarkedRecord
       DEF WatchDecide, Typed, TypeOK
  <2> QED BY <1>5, <2>1, <2>3 DEF WatchDecide, Typed, TypeOK, ClientTargets,
        StopTargets, FlightTargets, Aimed, maps, gates, world, control
<1>6. CASE WatchGiveUp(n, p) \/ WatchCrash(n, p)
  <2>1. watch' \in [Inst -> [Proc -> WatchRec]]
    BY <1>6, MovedWatch DEF WatchGiveUp, WatchCrash, WatchGoto
  <2>2. reg' \in [Inst -> Record]
    BY <1>0, <1>6, UpdatedReg, MarkedRecord DEF WatchGiveUp, WatchCrash
  <2> QED BY <1>6, <2>1, <2>2 DEF WatchGiveUp, WatchCrash, Typed, TypeOK,
        ClientTargets, StopTargets, FlightTargets, Aimed, maps, gates, world,
        control
<1>7. CASE WatchSchedule(n, p)
  <2>1. watch' \in [Inst -> [Proc -> WatchRec]]
    BY <1>7, MovedWatch DEF WatchSchedule, WatchGoto
  <2>2. timer' \in [Inst -> [Proc -> TimerPc]]
    BY <1>7, MovedTimer DEF WatchSchedule, TimerPc
  <2>3. restarts' \in [Inst -> Proc \cup {NoPid}]
    BY <1>7 DEF WatchSchedule, Typed, TypeOK
  <2> QED BY <1>7, <2>1, <2>2, <2>3 DEF WatchSchedule, Typed, TypeOK,
        ClientTargets, StopTargets, FlightTargets, Aimed, gates, world, control
<1>8. CASE WatchDeaf(n, p)
  <2>1. watch' \in [Inst -> [Proc -> WatchRec]]
    BY <1>8, MovedWatch DEF WatchDeaf, WatchGoto
  <2> QED BY <1>8, <2>1 DEF WatchDeaf, Typed, TypeOK, ClientTargets,
        StopTargets, FlightTargets, Aimed, maps, gates, world, control
<1> QED BY <1>1, <1>2, <1>3, <1>4, <1>5, <1>6, <1>7, <1>8 DEF Watch

\* The restart goroutine.
LEMMA TimerTyped ==
  ASSUME Typed, NEW n \in Inst, NEW p \in Proc, Timer(n, p)
  PROVE  Typed'
<1>1. timer' \in [Inst -> [Proc -> TimerPc]]
  <2>1. \E pc \in TimerPc : timer' = [timer EXCEPT ![n][p] = pc]
    BY DEF Timer, TimerFires, TimerCancelled, TimerGate, TimerBoot, TimerPc
  <2> QED BY <2>1, MovedTimer
<1>2. CASE TimerFires(n, p) \/ TimerCancelled(n, p) \/ TimerGate(n, p)
  <2>1. restarts' \in [Inst -> Proc \cup {NoPid}]
    BY <1>2 DEF TimerFires, TimerCancelled, TimerGate, RestartDropped, Typed,
       TypeOK, maps
  <2> QED BY <1>1, <1>2, <2>1 DEF TimerFires, TimerCancelled, TimerGate, Typed,
        TypeOK, ClientTargets, StopTargets, FlightTargets, Aimed, maps, gates,
        world, control
<1>3. CASE TimerBoot(n, p)
  <2>1. flight \in [Inst -> FlightRec] /\ \A m \in Inst : Aimed(m, flight[m])
    BY DEF Typed, TypeOK, FlightTargets
  <2>2. flight' = flight \/ flight' = Do(flight, n, "healthy")
    BY <1>3 DEF TimerBoot
  <2>3. flight' \in [Inst -> FlightRec] /\ FlightTargets'
    BY <2>1, <2>2, JoinedFlight DEF FlightTargets, Aimed
  <2> QED BY <1>1, <1>3, <2>3 DEF TimerBoot, Typed, TypeOK, ClientTargets,
        StopTargets, maps, gates, world, control
<1> QED BY <1>2, <1>3 DEF Timer

\* A call of Stop.
LEMMA StopTyped ==
  ASSUME Typed, NEW t \in Stopper, Stop(t)
  PROVE  Typed'
<1>0. stop[t].at \in Inst /\ reg[stop[t].at] \in Record
  BY DEF Stop, StopTake, StopReset, StopKill, StopRelease, StopReap, StopAt,
     Typed, TypeOK, StopTargets
<1>1. CASE StopTake(t)
  BY <1>0, <1>1, Taken DEF StopTake, Typed, TypeOK, ClientTargets,
     FlightTargets, Aimed, gates, world, control
<1>2. CASE StopReset(t)
  <2>1. reg' \in [Inst -> Record]
    BY <1>0, <1>2, UpdatedReg, SetRecord DEF StopReset
  <2>2. \/ stop' = [stop EXCEPT ![t] = NoStop]
        \/ stop' = [stop EXCEPT ![t].pc = "kill"] /\ stop[t].pc # "none"
    BY <1>2 DEF StopReset, StopAt
  <2>3. stop' \in [Stopper -> StopRec] /\ StopTargets'
    BY <2>2, NoStopTyped, PutStop, MovedStop
  <2> QED BY <1>2, <2>1, <2>3 DEF StopReset, Typed, TypeOK, ClientTargets,
        FlightTargets, Aimed, maps, gates, world, control
<1>3. CASE StopKill(t)
  <2>1. stop' \in [Stopper -> StopRec] /\ StopTargets'
    BY <1>3, MovedStop DEF StopKill, StopAt
  <2>2. os' \in [Inst -> [Proc -> OsState]]
    BY <1>3, KilledOs DEF StopKill, Typed, TypeOK
  <2> QED BY <1>3, <2>1, <2>2 DEF StopKill, Typed, TypeOK, ClientTargets,
        FlightTargets, Aimed, maps, gates, control
<1>4. CASE StopRelease(t)
  <2> DEFINE r == [stop[t] EXCEPT !.pc = "reap", !.held = {}]
  <2>1. r \in StopRec /\ r.at \in Inst
    BY <1>0 DEF StopRec, Typed, TypeOK
  <2>2. stop' = [stop EXCEPT ![t] = r]
    BY <1>4 DEF StopRelease
  <2>3. stop' \in [Stopper -> StopRec] /\ StopTargets'
    <3> HIDE DEF r
    <3> QED BY <2>1, <2>2, PutStop
  <2>4. reg' \in [Inst -> Record]
    BY <1>4, ReleasedReg DEF StopRelease
  <2> QED BY <1>4, <2>3, <2>4 DEF StopRelease, Typed, TypeOK, ClientTargets,
        FlightTargets, Aimed, maps, gates, world, control
<1>5. CASE StopReap(t)
  <2>1. reg' \in [Inst -> Record]
    BY <1>0, <1>5, UpdatedReg, MarkedRecord DEF StopReap
  <2>2. pidfile' \in [Inst -> Proc \cup {NoPid}]
    BY <1>5, Pidfile DEF StopReap
  <2>3. stop' \in [Stopper -> StopRec] /\ StopTargets'
    BY <1>5, NoStopTyped, PutStop DEF StopReap
  <2> QED BY <1>5, <2>1, <2>2, <2>3 DEF StopReap, Typed, TypeOK, ClientTargets,
        FlightTargets, Aimed, maps, gates, control
<1> QED BY <1>1, <1>2, <1>3, <1>4, <1>5 DEF Stop

\* Commands.
LEMMA UserTyped ==
  ASSUME Typed, NEW u \in Users, User(u)
  PROVE  Typed'
<1>0. PICK n \in Inst : UserStop(u, n) \/ UserOff(u, n) \/ UserOn(u, n)
                          \/ UserPin(u, n)
  BY DEF User
<1>1. u \in Stopper
  BY DEF Stopper
<1>2. CASE UserStop(u, n)
  BY <1>1, <1>2, Taken DEF UserStop, Typed, TypeOK, ClientTargets,
     FlightTargets, Aimed, gates, world, control
<1>3. CASE UserOff(u, n)
  <2> DEFINE r == [NoStop EXCEPT !.pc = "take", !.at = n]
  <2>1. r \in StopRec /\ r.at \in Inst
    BY DEF NoStop, StopRec, NoPid
  <2>2. stop' = [stop EXCEPT ![u] = r] /\ off' = off \cup {n}
    BY <1>3 DEF UserOff
  <2>3. stop' \in [Stopper -> StopRec] /\ StopTargets'
    <3> HIDE DEF r
    <3> QED BY <1>1, <2>1, <2>2, PutStop
  <2> QED BY <1>3, <2>2, <2>3 DEF UserOff, Typed, TypeOK, ClientTargets,
        FlightTargets, Aimed, maps, world, control
<1>4. CASE UserOn(u, n)
  BY <1>4 DEF UserOn, Typed, TypeOK, ClientTargets, StopTargets,
     FlightTargets, Aimed, maps, world, control
<1>5. CASE UserPin(u, n)
  <2>1. ToggleKeepAwake(reg[n]) \in Record
    BY SetRecord DEF Typed, TypeOK
  <2>2. reg' \in [Inst -> Record]
    BY <1>5, <2>1, UpdatedReg DEF UserPin
  <2> QED BY <1>5, <2>2 DEF UserPin, Typed, TypeOK, ClientTargets, StopTargets,
        FlightTargets, Aimed, maps, gates, world, control
<1> QED BY <1>0, <1>2, <1>3, <1>4, <1>5

\* The idle reaper.
LEMMA ReapTyped ==
  ASSUME Typed, Reap
  PROVE  Typed'
<1>1. CASE ReaperTick
  BY <1>1 DEF ReaperTick, Typed, TypeOK, ClientTargets, StopTargets,
     FlightTargets, Aimed, maps, gates, world
<1>2. ASSUME NEW n \in Inst, ReaperStop(n)
      PROVE  Typed'
  <2>1. Reaper \in Stopper /\ Take(Reaper, n) /\ due' \subseteq Inst
    BY <1>2 DEF ReaperStop, Stopper, Typed, TypeOK
  <2> QED BY <1>2, <2>1, Taken DEF ReaperStop, Typed, TypeOK, ClientTargets,
        FlightTargets, Aimed, gates, world
<1> QED BY <1>1, <1>2 DEF Reap

\* StopAll.
LEMMA SweepTyped ==
  ASSUME Typed, Sweep
  PROVE  Typed'
<1>1. CASE SweepBegin
  <2>1. shuttingDown' \in BOOLEAN
    BY <1>1, ConstantsOK DEF SweepBegin, ConstantsOK, Typed, TypeOK
  <2> QED BY <1>1, <2>1 DEF SweepBegin, Typed, TypeOK, ClientTargets,
        StopTargets, FlightTargets, Aimed, maps, world
<1>2. CASE SweepSnapshot
  <2>1. \A n \in Inst : [NoStop EXCEPT !.pc = "take", !.at = n] \in StopRec
    BY DEF NoStop, StopRec, NoPid
  <2>2. \A n \in Inst : [NoStop EXCEPT !.pc = "take", !.at = n].at = n
    BY DEF NoStop
  <2>3. SweepNames \subseteq Inst
    BY DEF SweepNames
  <2>4. stop' \in [Stopper -> StopRec] /\ StopTargets'
    <3>1. CASE UNCHANGED stop
      BY <3>1 DEF Typed, TypeOK, StopTargets
    <3>2. CASE stop' = [t \in Stopper |->
                 IF t \in SweepNames THEN [NoStop EXCEPT !.pc = "take", !.at = t]
                 ELSE stop[t]]
      <4> DEFINE r(t) == [NoStop EXCEPT !.pc = "take", !.at = t]
      <4>0. \A n \in Inst : r(n) \in StopRec /\ r(n).at = n
        BY <2>1, <2>2
      <4> HIDE DEF r
      <4>1. ASSUME NEW t \in Stopper
            PROVE  /\ stop'[t] \in StopRec
                   /\ stop'[t].pc # "none" => stop'[t].at \in Inst
        <5>1. CASE t \in SweepNames
          <6>1. stop'[t] = r(t) /\ t \in Inst
            BY <2>3, <3>2, <5>1 DEF r
          <6> QED BY <4>0, <6>1
        <5>2. CASE t \notin SweepNames
          <6>1. stop'[t] = stop[t]
            BY <3>2, <5>2
          <6> QED BY <6>1 DEF Typed, TypeOK, StopTargets
        <5> QED BY <5>1, <5>2
      <4> QED BY <3>2, <4>1 DEF StopTargets
    <3> QED BY <1>2, <3>1, <3>2 DEF SweepSnapshot
  <2>5. sweep' \in {"no", "snap", "wait", "exit"}
    BY <1>2 DEF SweepSnapshot
  <2> QED BY <1>2, <2>4, <2>5 DEF SweepSnapshot, Typed, TypeOK, ClientTargets,
        FlightTargets, Aimed, maps, gates, world
<1>3. CASE SweepPassed
  <2>1. sweep' \in {"no", "snap", "wait", "exit"}
    BY <1>3 DEF SweepPassed
  <2> QED BY <1>3, <2>1 DEF SweepPassed, Typed, TypeOK, ClientTargets,
        StopTargets, FlightTargets, Aimed, maps, gates, world
<1> QED BY <1>1, <1>2, <1>3 DEF Sweep

\* What a fresh daemon has in memory.
LEMMA FreshTypes ==
  /\ Fresh \in Record
  /\ NoPid \in Proc \cup {NoPid} /\ {} \in SUBSET Inst
  /\ NoFlight \in FlightRec /\ \A n : Aimed(n, NoFlight)
  /\ NoWatch \in WatchRec
  /\ "none" \in TimerPc
  /\ NoClient \in ClientRec /\ NoClient.pc = "out"
  /\ NoStop \in StopRec /\ NoStop.pc = "none"
<1>1. NoWatch \in WatchRec
  BY DEF NoWatch, WatchRec
<1>2. NoClient \in ClientRec /\ NoClient.pc = "out"
  BY DEF NoClient, ClientRec
<1>3. "none" \in TimerPc
  BY DEF TimerPc
<1> QED BY <1>1, <1>2, <1>3, FreshRecord, NoFlightTyped, NoStopTyped

\* The daemon ends at once: it is killed, or a boot of it panics.
Crash == DaemonCrash \/ \E n \in Inst : Panic(n)

\* The daemon crashes, and the next one reconciles.
LEMMA CrashTyped ==
  ASSUME Typed, Crash
  PROVE  Typed'
<1>1. life' \in [crashes : Nat, up : BOOLEAN]
  <2>1. life.crashes \in Nat
    BY DEF Typed, TypeOK
  <2>2. life.crashes + 1 \in Nat
    BY <2>1
  <2>3. CASE DaemonCrash
    BY <2>2, <2>3 DEF DaemonCrash
  <2>4. CASE \E n \in Inst : Panic(n)
    BY <2>4 DEF Panic, Typed, TypeOK
  <2> QED BY <2>3, <2>4 DEF Crash
<1>2. /\ reg' \in [Inst -> Record]
      /\ procs' \in [Inst -> Proc \cup {NoPid}]
      /\ deps' \in [Inst -> SUBSET Inst]
      /\ restarts' \in [Inst -> Proc \cup {NoPid}]
  BY FreshTypes DEF Crash, DaemonCrash, Panic, Dies
<1>3. /\ watch' \in [Inst -> [Proc -> WatchRec]]
      /\ timer' \in [Inst -> [Proc -> TimerPc]]
  BY FreshTypes DEF Crash, DaemonCrash, Panic, Dies
<1>4. flight' \in [Inst -> FlightRec] /\ FlightTargets'
  BY FreshTypes DEF Crash, DaemonCrash, Panic, Dies, FlightTargets, Aimed
<1>5. client' \in [Clients -> ClientRec] /\ ClientTargets'
  BY FreshTypes DEF Crash, DaemonCrash, Panic, Dies, ClientTargets
<1>6. stop' \in [Stopper -> StopRec] /\ StopTargets'
  BY FreshTypes DEF Crash, DaemonCrash, Panic, Dies, StopTargets
<1>7. /\ readyPending' \subseteq Inst /\ off' \subseteq Inst
      /\ due' \subseteq Inst /\ shuttingDown' \in BOOLEAN
      /\ sweep' \in {"no", "snap", "wait", "exit"}
  BY DEF Crash, DaemonCrash, Panic, Dies
<1> QED BY <1>1, <1>2, <1>3, <1>4, <1>5, <1>6, <1>7
        DEF Crash, DaemonCrash, Panic, Dies, Typed, TypeOK

LEMMA ReconcileTyped ==
  ASSUME Typed, Reconcile
  PROVE  Typed'
<1>1. life' \in [crashes : Nat, up : BOOLEAN]
  BY DEF Reconcile, Typed, TypeOK
<1>2. pidfile' \in [Inst -> Proc \cup {NoPid}]
  BY DEF Reconcile
<1>3. os' \in [Inst -> [Proc -> OsState]]
  <2>1. "exit1" \in OsState
    BY DEF OsState
  <2> QED BY <2>1 DEF Reconcile, Typed, TypeOK
<1> QED BY <1>1, <1>2, <1>3 DEF Reconcile, Typed, TypeOK, ClientTargets,
      StopTargets, FlightTargets, Aimed, maps, gates

-----------------------------------------------------------------------------
(* The theorem *)

LEMMA InitTyped == Init => Typed
<1> SUFFICES ASSUME Init PROVE Typed
  OBVIOUS
<1>1. /\ reg \in [Inst -> Record]
      /\ procs \in [Inst -> Proc \cup {NoPid}]
      /\ deps \in [Inst -> SUBSET Inst]
      /\ restarts \in [Inst -> Proc \cup {NoPid}]
      /\ pidfile \in [Inst -> Proc \cup {NoPid}]
  BY FreshTypes DEF Init
<1>2. /\ watch \in [Inst -> [Proc -> WatchRec]]
      /\ timer \in [Inst -> [Proc -> TimerPc]]
  BY FreshTypes DEF Init
<1>3. flight \in [Inst -> FlightRec] /\ FlightTargets
  BY FreshTypes DEF Init, FlightTargets
<1>4. client \in [Clients -> ClientRec] /\ ClientTargets
  BY FreshTypes DEF Init, ClientTargets
<1>5. stop \in [Stopper -> StopRec] /\ StopTargets
  BY FreshTypes DEF Init, StopTargets
<1>6. os \in [Inst -> [Proc -> OsState]]
  BY DEF Init, OsState
<1>7. /\ readyPending \subseteq Inst /\ off \subseteq Inst
      /\ due \subseteq Inst /\ shuttingDown \in BOOLEAN
      /\ sweep \in {"no", "snap", "wait", "exit"}
      /\ life \in [crashes : Nat, up : BOOLEAN]
  BY DEF Init
<1> QED BY <1>1, <1>2, <1>3, <1>4, <1>5, <1>6, <1>7 DEF Typed, TypeOK

LEMMA NextTyped == Typed /\ [Next]_vars => Typed'
<1> SUFFICES ASSUME Typed, [Next]_vars PROVE Typed'
  OBVIOUS
<1>1. CASE UNCHANGED vars
  BY <1>1 DEF vars, maps, gates, world, control, Typed, TypeOK, ClientTargets,
     StopTargets, FlightTargets, Aimed
<1>2. CASE Next
  BY <1>2, ClientTyped, FlightTyped, WatchTyped, TimerTyped, StopTyped,
     UserTyped, ReapTyped, SweepTyped, CrashTyped, ReconcileTyped DEF Next, Crash
<1> QED BY <1>1, <1>2

\* Whatever the instances, their dependencies, the clients and the callers are,
\* every variable keeps to its type: each goroutine is at a step the code has
\* and works for a declared instance, and no count goes below zero.
THEOREM TypeCorrect == Spec => []TypeOK
<1>1. Spec => []Typed
  BY InitTyped, NextTyped, PTL DEF Spec
<1>2. Typed => TypeOK
  BY DEF Typed
<1> QED BY <1>1, <1>2, PTL

-----------------------------------------------------------------------------
(* Frames *)

\* Somebody asked singleflight for an instance without a boot.
Started(n) ==
  /\ flight[n].pc = "none"
  /\ \E cond \in {"healthy", "started"} :
       flight'[n] = [NoFlight EXCEPT !.pc = "enter", !.cond = cond]

\* The boot of n learns how the boot it waited for ended.
Woken(n) ==
  /\ flight[n].pc = "depwait"
  /\ \E pc \in {"depup", "failing"} : flight'[n] = [flight[n] EXCEPT !.pc = pc]

\* A boot is only moved by its own steps, save that callers start it, the end of
\* another boot wakes it, and a crash of the daemon ends it.
LEMMA FlightFrame ==
  ASSUME Typed, [Next]_vars, NEW n \in Inst
  PROVE  \/ flight'[n] = flight[n]
         \/ Started(n) \/ Woken(n) \/ Flight(n)
         \/ flight'[n] = NoFlight /\ Crash
<1>0. flight \in [Inst -> FlightRec]
  BY DEF Typed, TypeOK
<1>1. ASSUME NEW f \in [Inst -> FlightRec], f[n] = flight[n], NEW d,
             NEW cond \in {"healthy", "started"}, flight' = Do(f, d, cond)
      PROVE  flight'[n] = flight[n] \/ Started(n)
  <2> DEFINE r == [NoFlight EXCEPT !.pc = "enter", !.cond = cond]
  <2>1. \/ flight' = f
        \/ f[d].pc = "none" /\ flight' = [f EXCEPT ![d] = r]
    BY <1>1 DEF Do
  <2>2. \/ flight'[n] = f[n]
        \/ d = n /\ f[n].pc = "none" /\ flight'[n] = r
    BY <2>1
  <2> QED BY <1>1, <2>2 DEF Started
<1>2. CASE UNCHANGED flight
  BY <1>2
<1>3. ASSUME NEW c \in Clients, Client(c)
      PROVE  flight'[n] = flight[n] \/ Started(n)
  BY <1>0, <1>1, <1>3 DEF Client, ClientCall, ClientBoot, ClientDial,
     ClientRefused, ClientAcquire, ClientRelease
<1>4. ASSUME NEW m \in Inst, NEW p \in Proc, Timer(m, p)
      PROVE  flight'[n] = flight[n] \/ Started(n)
  BY <1>0, <1>1, <1>4 DEF Timer, TimerFires, TimerCancelled, TimerGate,
     TimerBoot
<1>5. ASSUME NEW m \in Inst, m # n, NEW ok \in BOOLEAN, Finish(m, ok)
      PROVE  flight'[n] = flight[n] \/ Woken(n)
  <2>1. \/ flight'[n] = flight[n]
        \/ /\ flight[n].pc = "depwait"
           /\ flight'[n] = [flight[n] EXCEPT !.pc = IF ok THEN "depup" ELSE "failing"]
    BY <1>5 DEF Finish
  <2> QED BY <2>1 DEF Woken
<1>6. ASSUME NEW m \in Inst, m # n, Flight(m)
      PROVE  flight'[n] = flight[n] \/ Started(n) \/ Woken(n)
  <2>1. CASE FlightDepCall(m)
    <3> DEFINE f == [flight EXCEPT ![m].pc = "depwait"]
    <3>1. f[n] = flight[n]
      BY <1>6
    <3>2. f \in [Inst -> FlightRec]
      BY <1>0, FlightPcs DEF FlightRec
    <3>3. CondOf(m, flight[m].dep) \in {"healthy", "started"}
      BY DEF CondOf
    <3>4. \/ flight' = [flight EXCEPT ![m].pc = "depup"]
          \/ flight' = Do(f, flight[m].dep, CondOf(m, flight[m].dep))
      BY <2>1 DEF FlightDepCall
    <3>5. CASE flight' = [flight EXCEPT ![m].pc = "depup"]
      BY <1>0, <1>6, <3>5
    <3> HIDE DEF f
    <3> QED BY <1>1, <3>1, <3>2, <3>3, <3>4, <3>5
  <2>2. CASE \E ok \in BOOLEAN : Finish(m, ok)
    BY <1>5, <1>6, <2>2
  <2>3. CASE flight'[n] = flight[n]
    BY <2>3
  <2> QED BY <1>0, <1>6, <2>1, <2>2, <2>3 DEF Flight, FlightEnter, FlightDeps,
        FlightDepAcquire, FlightPrep, FlightSpawn, FlightReady, FlightRegister,
        FlightRunning, FlightPid, FlightConverge, FlightUnwind, FlightOnReady,
        FlightNotReady, FlightReread, FlightRerun, FlightRerunning, FlightFailing,
        FlightFailed, Goto
<1>7. CASE Crash
  BY <1>7 DEF Crash, DaemonCrash, Panic, Dies
<1>8. CASE \/ UNCHANGED vars
           \/ \E m \in Inst, p \in Proc : Exit(m, p) \/ Watch(m, p)
           \/ \E t \in Stopper : Stop(t)
           \/ \E u \in Users : User(u)
           \/ Reap \/ Sweep \/ Reconcile
  <2>1. ASSUME NEW m \in Inst, NEW p \in Proc, Exit(m, p) \/ Watch(m, p)
        PROVE  UNCHANGED flight
    BY <2>1 DEF Exit, Watch, WatchExit, WatchDeaf, WatchRelease, WatchReap,
       WatchDecide, WatchGiveUp, WatchCrash, WatchSchedule
  <2>2. ASSUME NEW t \in Stopper, Stop(t)
        PROVE  UNCHANGED flight
    BY <2>2 DEF Stop, StopTake, StopReset, StopKill, StopRelease, StopReap
  <2>3. ASSUME NEW u \in Users, User(u)
        PROVE  UNCHANGED flight
    BY <2>3 DEF User, UserStop, UserOff, UserOn, UserPin
  <2>4. CASE UNCHANGED vars \/ Reap \/ Sweep \/ Reconcile
    BY <2>4 DEF vars, Reap, ReaperTick, ReaperStop, Sweep, SweepBegin,
       SweepSnapshot, SweepPassed, Reconcile
  <2> QED BY <1>8, <2>1, <2>2, <2>3, <2>4
<1> QED BY <1>3, <1>4, <1>6, <1>7, <1>8 DEF Next, Crash

\* What every method but MarkBooting preserves of a record.
Kept(i, j) ==
  /\ Unheld(i) => Unheld(j)
  /\ j.state = "booting" => i.state = "booting"

LEMMA MethodsKeep ==
  ASSUME NEW i \in Record, NEW p \in Nat, NEW on \in BOOLEAN
  PROVE  /\ Kept(i, i) /\ Kept(i, Fresh)
         /\ Kept(i, Acquire(i)) /\ Kept(i, Release(i))
         /\ Kept(i, MarkRunning(SetIdlePolicy(i, on), p))
         /\ Kept(i, MarkRunning(i, p)) /\ Kept(i, MarkReaped(i))
         /\ Kept(i, MarkFailed(i)) /\ Kept(i, MarkCrashing(i))
         /\ Kept(i, ToggleKeepAwake(i)) /\ Kept(i, ResetRestart(i))
         /\ Kept(i, SetTainted(i)) /\ Kept(i, ClearTainted(i))
         /\ Kept(i, IncRestart(i)) /\ Kept(i, IncRestart(ResetRestart(i)))
<1>1. Kept(i, i) /\ Kept(i, Fresh)
  BY FreshRecord DEF Kept, Fresh
<1>2. Kept(i, Acquire(i)) /\ Kept(i, Release(i))
  <2>1. Acquire(i).state = "booting" => i.state = "booting"
    BY DEF Acquire, Record
  <2>2. Release(i).state = "booting" => i.state = "booting"
    BY DEF Release, Record
  <2> QED BY <2>1, <2>2, CountedRecord DEF Kept
<1>3. \A j \in Record : MarkRunning(j, p).state # "booting"
  BY DEF MarkRunning, Record
<1>4. /\ Kept(i, MarkRunning(i, p))
      /\ Kept(i, MarkRunning(SetIdlePolicy(i, on), p))
  BY <1>3, MarkedRecord, SetRecord DEF Kept
<1>5. Kept(i, MarkReaped(i)) /\ Kept(i, MarkFailed(i)) /\ Kept(i, MarkCrashing(i))
  <2>1. /\ MarkReaped(i).state # "booting" /\ MarkFailed(i).state # "booting"
        /\ MarkCrashing(i).state # "booting"
    BY DEF MarkReaped, MarkFailed, MarkCrashing, ClearRuntime, Record
  <2> QED BY <2>1, MarkedRecord DEF Kept
<1>6. /\ Kept(i, ToggleKeepAwake(i)) /\ Kept(i, SetTainted(i))
      /\ Kept(i, ClearTainted(i))
  <2>1. /\ ToggleKeepAwake(i).state = i.state /\ SetTainted(i).state = i.state
        /\ ClearTainted(i).state = i.state
    BY DEF ToggleKeepAwake, SetTainted, ClearTainted, Record
  <2> QED BY <2>1, SetRecord DEF Kept
<1>7. \A j \in Record : Kept(j, IncRestart(j)) /\ Kept(j, ResetRestart(j))
  <2>1. \A j \in Record : /\ IncRestart(j).state = j.state
                          /\ ResetRestart(j).state = j.state
    BY DEF IncRestart, ResetRestart, Record
  <2> QED BY <2>1, SetRecord DEF Kept
<1>8. Kept(i, IncRestart(ResetRestart(i)))
  BY <1>7, SetRecord DEF Kept
<1> QED BY <1>1, <1>2, <1>4, <1>5, <1>6, <1>7, <1>8

\* A boot enters its work by marking the instance as booting.
Entered(n) ==
  /\ flight[n].pc = "enter" /\ flight'[n].pc = "deps"
  /\ reg'[n] = MarkBooting(reg[n])

\* Every step treats every record with methods of the registry.
LEMMA RegFrame ==
  ASSUME Typed, [Next]_vars, NEW n \in Inst
  PROVE  Kept(reg[n], reg'[n]) \/ Entered(n)
<1>0. /\ reg \in [Inst -> Record] /\ reg[n] \in Record
      /\ \A m \in Inst : flight[m].p \in Nat
  <2>1. reg \in [Inst -> Record] /\ flight \in [Inst -> FlightRec]
    BY DEF Typed, TypeOK
  <2>2. Proc \cup {NoPid} \subseteq Nat
    BY ConstantsOK DEF ConstantsOK, Proc, NoPid
  <2> QED BY <2>1, <2>2 DEF FlightRec
<1>1. ASSUME NEW m \in Inst, NEW i, Update(m, i), Kept(reg[m], i)
      PROVE  Kept(reg[n], reg'[n])
  <2>1. reg' = [reg EXCEPT ![m] = i]
    BY <1>1 DEF Update
  <2>2. CASE m = n
    BY <1>0, <1>1, <2>1, <2>2
  <2>3. CASE m # n
    <3>1. reg'[n] = reg[n]
      BY <1>0, <2>1, <2>3
    <3> QED BY <1>0, <3>1, MethodsKeep
  <2> QED BY <2>2, <2>3
<1>2. ASSUME NEW held, ReleaseAll(held)
      PROVE  Kept(reg[n], reg'[n])
  BY <1>0, <1>2, MethodsKeep DEF ReleaseAll
<1>3. CASE UNCHANGED reg
  BY <1>0, <1>3, MethodsKeep
<1>4. ASSUME NEW c \in Clients, Client(c)
      PROVE  Kept(reg[n], reg'[n])
  <2>1. client[c].pc = "out" \/ client[c].at \in Inst
    BY DEF Typed, ClientTargets
  <2> QED BY <1>0, <1>1, <1>3, <1>4, <2>1, MethodsKeep DEF Client, ClientCall,
        ClientBoot, ClientDial, ClientRefused, ClientAcquire, ClientRelease
<1>5. ASSUME NEW m \in Inst, NEW p \in Proc, Exit(m, p) \/ Watch(m, p)
      PROVE  Kept(reg[n], reg'[n])
  BY <1>0, <1>1, <1>2, <1>3, <1>5, MethodsKeep DEF Exit, Watch, WatchExit, WatchDeaf,
     WatchRelease, WatchReap, WatchDecide, WatchGiveUp, WatchCrash,
     WatchSchedule
<1>6. ASSUME NEW t \in Stopper, Stop(t)
      PROVE  Kept(reg[n], reg'[n])
  <2>1. stop[t].pc = "none" \/ stop[t].at \in Inst
    BY DEF Typed, StopTargets
  <2> QED BY <1>0, <1>1, <1>2, <1>3, <1>6, <2>1, MethodsKeep DEF Stop, StopAt,
        StopTake, StopReset, StopKill, StopRelease, StopReap
<1>7. ASSUME NEW u \in Users, User(u)
      PROVE  Kept(reg[n], reg'[n])
  BY <1>0, <1>1, <1>3, <1>7, MethodsKeep DEF User, UserStop, UserOff, UserOn,
     UserPin
<1>8. ASSUME NEW m \in Inst, Flight(m)
      PROVE  Kept(reg[n], reg'[n]) \/ Entered(n)
  <2>1. CASE FlightEnter(m)
    <3>1. CASE /\ Update(m, MarkBooting(reg[m]))
               /\ flight' = [flight EXCEPT ![m] = [@ EXCEPT !.pc = "deps",
                                                          !.todo = Deps[m]]]
      <4>1. flight[m] \in FlightRec /\ flight[m].pc = "enter"
        BY <2>1 DEF FlightEnter, At, Typed, TypeOK
      <4>2. flight'[m].pc = "deps"
        BY <3>1, <4>1 DEF Typed, TypeOK, FlightRec
      <4>3. CASE m = n
        <5>1. reg'[n] = MarkBooting(reg[n])
          BY <1>0, <3>1, <4>3 DEF Update
        <5> QED BY <4>1, <4>2, <4>3, <5>1 DEF Entered
      <4>4. CASE m # n
        <5>1. reg'[n] = reg[n]
          BY <1>0, <3>1, <4>4 DEF Update
        <5> QED BY <1>0, <5>1, MethodsKeep
      <4> QED BY <4>3, <4>4
    <3>2. CASE UNCHANGED reg
      BY <1>3, <3>2
    <3> QED BY <2>1, <3>1, <3>2 DEF FlightEnter
  <2>2. CASE FlightRunning(m)
    <3>1. (m \in AlwaysOn) \in BOOLEAN
      OBVIOUS
    <3> QED BY <1>0, <1>1, <1>3, <2>2, <3>1, MethodsKeep DEF FlightRunning
  <2>3. CASE FlightFailing(m)
    BY <1>2, <2>3 DEF FlightFailing
  <2>4. CASE \E i \in {SetTainted(reg[m]), ClearTainted(reg[m]),
                       MarkRunning(reg[m], flight[m].p), MarkFailed(reg[m])} :
               Update(m, i)
    BY <1>0, <1>1, <1>3, <2>4, MethodsKeep
  <2>5. CASE \E d \in Inst : Update(d, Acquire(reg[d]))
    BY <1>0, <1>1, <1>3, <2>5, MethodsKeep
  <2>6. FlightDepAcquire(m) => flight[m].dep \in Inst
    BY ConstantsOK DEF FlightDepAcquire, At, Typed, FlightTargets, Aimed,
       DepPc, ConstantsOK
  <2> QED BY <1>3, <1>8, <2>1, <2>2, <2>3, <2>4, <2>5, <2>6 DEF Flight,
        FlightDeps, FlightDepCall, FlightDepAcquire, FlightPrep, FlightSpawn,
        FlightReady, FlightRegister, FlightPid, FlightConverge, FlightUnwind,
        FlightOnReady, FlightNotReady, FlightReread, FlightRerun, FlightRerunning,
        FlightFailed
<1>9. CASE Crash
  BY <1>0, <1>9, MethodsKeep DEF Crash, DaemonCrash, Panic, Dies
<1>10. CASE \/ UNCHANGED vars
            \/ \E m \in Inst, p \in Proc : Timer(m, p)
            \/ Reap \/ Sweep \/ Reconcile
  <2>1. UNCHANGED reg
    BY <1>10 DEF vars, Timer, TimerFires, TimerCancelled, TimerGate, TimerBoot,
       Reap, ReaperTick, ReaperStop, Sweep, SweepBegin, SweepSnapshot,
       SweepPassed, Reconcile
  <2> QED BY <1>3, <2>1
<1> QED BY <1>4, <1>5, <1>6, <1>7, <1>8, <1>9, <1>10 DEF Next, Crash

-----------------------------------------------------------------------------
(* Registry and boots *)

\* The steps of a boot during which the record may say "booting".
BootPc == {"deps", "depcall", "depwait", "depup", "prep", "spawn", "ready",
           "register", "running", "failing", "failed"}

BootingInBoot ==
  \A n \in Inst : reg[n].state = "booting" => flight[n].pc \in BootPc

\* A boot only leaves those steps once it has recorded how it ended.
LEMMA BootLeft ==
  ASSUME Typed, NEW n \in Inst, Flight(n)
  PROVE  \/ flight'[n].pc \in BootPc
         \/ flight[n].pc \notin BootPc
         \/ reg'[n].state # "booting"
<1>0. /\ flight[n] \in FlightRec /\ flight \in [Inst -> FlightRec]
      /\ reg \in [Inst -> Record]
  BY DEF Typed, TypeOK
<1>1. CASE flight[n].pc \in {"enter", "pid", "converge", "onready", "notready",
                             "reread", "rerun", "rerunning", "unwind"}
  BY <1>1 DEF BootPc
<1>2. CASE FlightRunning(n)
  BY <1>0, <1>2 DEF FlightRunning, Update, MarkRunning, SetIdlePolicy, Record
<1>3. CASE FlightFailed(n)
  BY <1>0, <1>3 DEF FlightFailed, Update, MarkFailed, ClearRuntime, Record
<1>4. CASE FlightDepCall(n)
  <2> DEFINE f == [flight EXCEPT ![n].pc = "depwait"]
  <2>1. f \in [Inst -> FlightRec] /\ f[n].pc = "depwait"
    BY <1>0, FlightPcs DEF FlightRec
  <2>2. Do(f, flight[n].dep, CondOf(n, flight[n].dep))[n].pc = "depwait"
    <3> HIDE DEF f
    <3> QED BY <2>1 DEF Do
  <2> QED BY <1>0, <1>4, <2>2 DEF FlightDepCall, FlightRec, BootPc
<1>5. CASE FlightDepAcquire(n)
  <2> DEFINE d == flight[n].dep
             r == [flight[n] EXCEPT !.pc = "deps", !.todo = @ \ {d},
                                    !.held = @ \cup {d}]
  <2>1. flight'[n] = r
    BY <1>0, <1>5 DEF FlightDepAcquire
  <2>2. r.pc = "deps"
    BY <1>0 DEF FlightRec
  <2> QED BY <2>1, <2>2 DEF BootPc
<1>6. CASE FlightSpawn(n)
  <2>1. ASSUME NEW p \in Proc,
               flight' = [flight EXCEPT ![n] = [@ EXCEPT !.pc = "ready", !.p = p]]
        PROVE  flight'[n].pc = "ready"
    BY <1>0, <2>1 DEF FlightRec
  <2>2. Goto(n, "failing") => flight'[n].pc = "failing"
    BY <1>0 DEF Goto, FlightRec
  <2> QED BY <1>6, <2>1, <2>2 DEF FlightSpawn, BootPc
<1>7. CASE FlightDeps(n)
  <2>1. ASSUME NEW d, NEW pc \in {"depcall", "failing"},
               flight' = [flight EXCEPT ![n] = [@ EXCEPT !.pc = pc, !.dep = d]]
        PROVE  flight'[n].pc = pc
    BY <1>0, <2>1 DEF FlightRec
  <2>2. Goto(n, "prep") => flight'[n].pc = "prep"
    BY <1>0 DEF Goto, FlightRec
  <2> QED BY <1>7, <2>1, <2>2 DEF FlightDeps, BootPc
<1>9. CASE FlightFailing(n)
  BY <1>0, <1>9 DEF FlightFailing, FlightRec, BootPc
<1>8. CASE FlightPrep(n) \/ FlightReady(n) \/ FlightRegister(n)
  BY <1>0, <1>8 DEF FlightPrep, FlightReady, FlightRegister, Goto, FlightRec,
     BootPc
<1> QED BY <1>1, <1>2, <1>3, <1>4, <1>5, <1>6, <1>7, <1>8,
      <1>9 DEF Flight, FlightEnter, FlightPid,
      FlightConverge, FlightUnwind, FlightOnReady, FlightNotReady,
      FlightReread, FlightRerun, FlightRerunning, At

LEMMA BootingStep == Typed /\ BootingInBoot /\ [Next]_vars => BootingInBoot'
<1> SUFFICES ASSUME Typed, BootingInBoot, [Next]_vars, NEW n \in Inst,
                    reg'[n].state = "booting"
             PROVE  flight'[n].pc \in BootPc
  BY DEF BootingInBoot
<1>1. CASE Entered(n)
  BY <1>1 DEF Entered, BootPc
<1>2. CASE Kept(reg[n], reg'[n])
  <2>1. flight[n].pc \in BootPc
    BY <1>2 DEF Kept, BootingInBoot
  <2>2. ~Started(n)
    BY <2>1 DEF Started, BootPc
  <2>3. Woken(n) => flight'[n].pc \in BootPc
    BY DEF Woken, BootPc, Typed, TypeOK, FlightRec
  <2>4. ~Crash
    BY DEF Crash, DaemonCrash, Panic, Dies, Fresh
  <2> QED BY <2>1, <2>2, <2>3, <2>4, FlightFrame, BootLeft
<1> QED BY <1>1, <1>2, RegFrame

LEMMA UnheldStep == Typed /\ IdleMeansUnheld /\ [Next]_vars => IdleMeansUnheld'
<1> SUFFICES ASSUME Typed, IdleMeansUnheld, [Next]_vars, NEW n \in Inst
             PROVE  Unheld(reg'[n])
  BY DEF IdleMeansUnheld, Unheld
<1>1. Unheld(reg[n]) /\ reg[n] \in Record
  BY DEF IdleMeansUnheld, Typed, TypeOK
<1>2. Entered(n) => Unheld(reg'[n])
  BY <1>1, MarkedRecord DEF Entered, MarkBooting, Record, Unheld
<1> QED BY <1>1, <1>2, RegFrame DEF Kept

\* No order of failures, stops, crashes and second boots leaves an instance
\* booting without a boot that will say how it ended (bootLocked and fail).
THEOREM BootingIsBounded == Spec => []BootingMeansInFlight
<1>1. Init => BootingInBoot
  BY DEF Init, Fresh, BootingInBoot
<1>2. BootingInBoot => BootingMeansInFlight
  BY DEF BootingInBoot, BootingMeansInFlight, BootPc
<1> QED BY <1>1, <1>2, InitTyped, NextTyped, BootingStep, PTL DEF Spec

\* The reaper never finds an instance idle, or its idle timer running, while
\* connections are counted (every method of Registry, in any order).
THEOREM IdleIsUnheld == Spec => []IdleMeansUnheld
<1>1. Init => IdleMeansUnheld
  BY FreshRecord DEF Init, IdleMeansUnheld
<1> QED BY <1>1, InitTyped, NextTyped, UnheldStep, PTL DEF Spec

-----------------------------------------------------------------------------
(* Pending restarts *)

\* Whoever calls Stop, and everything that neither takes, schedules nor fires.
LEMMA RestartFrame ==
  ASSUME Typed, [Next]_vars
  PROVE  \/ UNCHANGED <<restarts, timer>>
         \/ \E m \in Inst : restarts' = RestartDropped(m) /\ UNCHANGED timer
         \/ \E m \in Inst, p \in Proc : WatchSchedule(m, p) \/ Timer(m, p)
         \/ Crash
<1>1. ASSUME NEW c \in Clients, Client(c)
      PROVE  UNCHANGED <<restarts, timer>>
  BY <1>1 DEF Client, ClientCall, ClientBoot, ClientDial, ClientRefused,
     ClientAcquire, ClientRelease, maps
<1>2. ASSUME NEW n \in Inst, Flight(n)
      PROVE  UNCHANGED <<restarts, timer>>
  BY <1>2 DEF Flight, FlightEnter, FlightDeps, FlightDepCall,
     FlightDepAcquire, FlightPrep, FlightSpawn, FlightReady, FlightRegister,
     FlightRunning, FlightPid, FlightConverge, FlightUnwind, FlightOnReady,
     FlightNotReady, FlightReread, FlightRerun, FlightRerunning, FlightFailing,
     FlightFailed, maps
<1>3. ASSUME NEW n \in Inst, NEW p \in Proc, Exit(n, p) \/ Watch(n, p)
      PROVE  UNCHANGED <<restarts, timer>> \/ WatchSchedule(n, p)
  BY <1>3 DEF Exit, Watch, WatchExit, WatchDeaf, WatchRelease, WatchReap, WatchDecide,
     WatchGiveUp, WatchCrash, maps
<1>4. ASSUME NEW t \in Stopper, Stop(t)
      PROVE  \/ UNCHANGED <<restarts, timer>>
             \/ \E m \in Inst : restarts' = RestartDropped(m) /\ UNCHANGED timer
  <2>1. stop[t].pc = "none" \/ stop[t].at \in Inst
    BY DEF Typed, StopTargets
  <2> QED BY <1>4, <2>1 DEF Stop, StopAt, StopTake, Take, StopReset, StopKill,
        StopRelease, StopReap, maps
<1>5. ASSUME NEW u \in Users, User(u)
      PROVE  \/ UNCHANGED <<restarts, timer>>
             \/ \E m \in Inst : restarts' = RestartDropped(m) /\ UNCHANGED timer
  BY <1>5 DEF User, UserStop, Take, UserOff, UserOn, UserPin, maps
<1>6. CASE Reap
  BY <1>6 DEF Reap, ReaperTick, ReaperStop, Take, maps
<1>7. CASE UNCHANGED vars \/ Sweep \/ Reconcile
  BY <1>7 DEF vars, maps, Sweep, SweepBegin, SweepSnapshot, SweepPassed,
     Reconcile
<1> QED BY <1>1, <1>2, <1>3, <1>4, <1>5, <1>6, <1>7 DEF Next, Crash

LEMMA PendingStep ==
  Typed /\ PendingRestartIsBacked /\ [Next]_vars => PendingRestartIsBacked'
<1> SUFFICES ASSUME Typed, PendingRestartIsBacked, [Next]_vars,
                    NEW n \in Inst, restarts'[n] # NoPid
             PROVE  timer'[n][restarts'[n]] = "armed"
  BY DEF PendingRestartIsBacked
<1>0. /\ restarts \in [Inst -> Proc \cup {NoPid}]
      /\ timer \in [Inst -> [Proc -> TimerPc]]
      /\ restarts[n] # NoPid => timer[n][restarts[n]] = "armed"
      /\ restarts[n] # NoPid => restarts[n] \in Proc
  BY DEF Typed, TypeOK, PendingRestartIsBacked
<1>1. CASE UNCHANGED <<restarts, timer>>
  BY <1>0, <1>1
<1>2. ASSUME NEW m \in Inst, restarts' = RestartDropped(m), UNCHANGED timer
      PROVE  timer'[n][restarts'[n]] = "armed"
  BY <1>0, <1>2 DEF RestartDropped
<1>3. ASSUME NEW m \in Inst, NEW p \in Proc, WatchSchedule(m, p)
      PROVE  timer'[n][restarts'[n]] = "armed"
  BY <1>0, <1>3 DEF WatchSchedule
<1>4. ASSUME NEW m \in Inst, NEW p \in Proc, TimerFires(m, p)
      PROVE  timer'[n][restarts'[n]] = "armed"
  BY <1>0, <1>4 DEF TimerFires, RestartDropped, Owns
<1>5. ASSUME NEW m \in Inst, NEW p \in Proc, Timer(m, p), ~TimerFires(m, p)
      PROVE  timer'[n][restarts'[n]] = "armed"
  <2>1. UNCHANGED restarts
    BY <1>5 DEF Timer, TimerCancelled, TimerGate, TimerBoot, maps
  <2>2. restarts[m] # p
    BY <1>5 DEF Timer, TimerCancelled, TimerGate, TimerBoot, Owns,
       PendingRestartIsBacked, Typed, TypeOK, NoPid, Proc
  <2>3. timer'[n][restarts[n]] = timer[n][restarts[n]]
    BY <1>0, <1>5, <2>1, <2>2 DEF Timer, TimerCancelled, TimerGate, TimerBoot
  <2> QED BY <1>0, <2>1, <2>3
<1>6. CASE Crash
  BY <1>6 DEF Crash, DaemonCrash, Panic, Dies
<1> QED BY <1>1, <1>2, <1>3, <1>4, <1>5, <1>6, RestartFrame

\* A restart entry in the map has a goroutine that will fire it or see it
\* cancelled: StopAll, which waits for the map to empty, is never kept waiting
\* by an entry nobody owns (scheduleRestart against Stop and itself).
THEOREM PendingIsBacked == Spec => []PendingRestartIsBacked
<1>1. Init => PendingRestartIsBacked
  BY DEF Init, PendingRestartIsBacked
<1> QED BY <1>1, InitTyped, NextTyped, PendingStep, PTL DEF Spec

-----------------------------------------------------------------------------
(* Waiting for a boot *)

\* singleflight: afterwards somebody boots d, and nobody's boot has ended.
LEMMA DoStarts ==
  ASSUME NEW f \in [Inst -> FlightRec], NEW d \in Inst,
         NEW cond \in {"healthy", "started"}
  PROVE  /\ Do(f, d, cond)[d].pc # "none"
         /\ \A m \in Inst : f[m].pc # "none" => Do(f, d, cond)[m] = f[m]
<1> DEFINE r == [NoFlight EXCEPT !.pc = "enter", !.cond = cond]
<1>1. r.pc = "enter"
  BY DEF NoFlight
<1>2. Do(f, d, cond) = IF f[d].pc = "none" THEN [f EXCEPT ![d] = r] ELSE f
  BY DEF Do
<1> HIDE DEF r
<1> QED BY <1>1, <1>2

\* A boot never waits in its own step, and ends by Finish.
LEMMA OwnFlight ==
  ASSUME Typed, NEW n \in Inst, Flight(n)
  PROVE  /\ flight[n].pc # "none" /\ flight[n].pc # "depwait"
         /\ flight'[n].pc = "none" => \E ok \in BOOLEAN : Finish(n, ok)
         /\ flight'[n].pc = "depwait" =>
              flight'[n].dep \in Inst /\ flight'[flight'[n].dep].pc # "none"
<1>0. flight[n] \in FlightRec /\ flight \in [Inst -> FlightRec]
  BY DEF Typed, TypeOK
<1>1. flight[n].pc # "none" /\ flight[n].pc # "depwait"
  BY DEF Flight, FlightEnter, FlightDeps, FlightDepCall, FlightDepAcquire,
     FlightPrep, FlightSpawn, FlightReady, FlightRegister, FlightRunning,
     FlightPid, FlightConverge, FlightUnwind, FlightOnReady, FlightNotReady,
     FlightReread, FlightRerun, FlightRerunning, FlightFailing, FlightFailed, At
<1>2. ASSUME NEW pc, Goto(n, pc), pc # "none", pc # "depwait"
      PROVE  flight'[n].pc # "none" /\ flight'[n].pc # "depwait"
  BY <1>0, <1>2 DEF Goto, FlightRec
<1>3. ASSUME NEW r, flight' = [flight EXCEPT ![n] = r], r.pc # "none",
             r.pc # "depwait"
      PROVE  flight'[n].pc # "none" /\ flight'[n].pc # "depwait"
  BY <1>0, <1>3
<1>4. CASE \E ok \in BOOLEAN : Finish(n, ok)
  <2>1. flight'[n] = NoFlight
    BY <1>4 DEF Finish
  <2> QED BY <1>1, <1>4, <2>1 DEF NoFlight
<1>5. CASE FlightDepCall(n)
  <2> DEFINE d == flight[n].dep
             f == [flight EXCEPT ![n].pc = "depwait"]
  <2>1. d \in Inst
    BY <1>5, ConstantsOK DEF FlightDepCall, At, Typed, FlightTargets, Aimed,
       DepPc, ConstantsOK
  <2>2. f \in [Inst -> FlightRec] /\ f[n].pc = "depwait" /\ f[n].dep = d
    BY <1>0, FlightPcs DEF FlightRec
  <2>3. CondOf(n, d) \in {"healthy", "started"}
    BY DEF CondOf
  <2>4. CASE flight' = [flight EXCEPT ![n].pc = "depup"]
    BY <1>0, <1>1, <2>4 DEF FlightRec
  <2>5. CASE flight' = Do(f, d, CondOf(n, d))
    <3> HIDE DEF d, f
    <3>1. flight'[d].pc # "none" /\ flight'[n] = f[n]
      BY <2>1, <2>2, <2>3, <2>5, DoStarts
    <3> QED BY <1>1, <2>1, <2>2, <3>1
  <2> QED BY <1>5, <2>4, <2>5 DEF FlightDepCall
<1>6. CASE FlightEnter(n)
  <2>1. Goto(n, "reread") => flight'[n].pc # "none" /\ flight'[n].pc # "depwait"
    BY <1>2
  <2>2. [flight[n] EXCEPT !.pc = "deps", !.todo = Deps[n]].pc = "deps"
    BY <1>0 DEF FlightRec
  <2> QED BY <1>1, <1>3, <1>4, <1>6, <2>1, <2>2 DEF FlightEnter
<1>7. CASE FlightDeps(n)
  <2>1. \A d, pc : [flight[n] EXCEPT !.pc = pc, !.dep = d].pc = pc
    BY <1>0 DEF FlightRec
  <2>2. CASE Goto(n, "prep")
    BY <1>1, <1>2, <2>2
  <2>3. CASE \E d, pc : /\ pc \in {"depcall", "failing"}
                        /\ flight' = [flight EXCEPT ![n] =
                             [flight[n] EXCEPT !.pc = pc, !.dep = d]]
    BY <1>1, <1>3, <2>1, <2>3
  <2> QED BY <1>7, <2>2, <2>3 DEF FlightDeps
<1>8. CASE FlightDepAcquire(n)
  <2>1. flight[n].pc = "depup"
    BY <1>8 DEF FlightDepAcquire, At
  <2>2. flight'[n].pc = "deps"
    BY <1>0, <1>8 DEF FlightDepAcquire, FlightRec
  <2> QED BY <1>1, <2>2
<1>9. CASE FlightSpawn(n)
  <2>1. \A p : [flight[n] EXCEPT !.pc = "ready", !.p = p].pc = "ready"
    BY <1>0 DEF FlightRec
  <2> QED BY <1>1, <1>2, <1>3, <1>9, <2>1 DEF FlightSpawn
<1>10. CASE FlightFailing(n)
  <2>1. [flight[n] EXCEPT !.pc = "failed", !.held = {}].pc = "failed"
    BY <1>0 DEF FlightRec
  <2> QED BY <1>1, <1>3, <1>10, <2>1 DEF FlightFailing
<1>11. CASE FlightNotReady(n) \/ FlightRerun(n) \/ FlightRerunning(n)
              \/ FlightFailed(n) \/ FlightOnReady(n)
  BY <1>1, <1>2, <1>4, <1>11 DEF FlightNotReady, FlightReread, FlightRerun, FlightRerunning,
     FlightFailed, FlightOnReady
<1>12. CASE FlightPrep(n) \/ FlightReady(n) \/ FlightRegister(n)
              \/ FlightRunning(n) \/ FlightPid(n) \/ FlightConverge(n)
              \/ FlightUnwind(n)
  BY <1>1, <1>2, <1>12 DEF FlightPrep, FlightReady, FlightRegister,
     FlightRunning, FlightPid, FlightConverge, FlightUnwind
<1>13. CASE FlightReread(n)
  <2>1. [flight[n] EXCEPT !.pc = "rerun", !.p = procs[n]].pc = "rerun"
    BY <1>0 DEF FlightRec
  <2> QED BY <1>1, <1>3, <1>13, <2>1 DEF FlightReread
<1> QED BY <1>1, <1>4, <1>5, <1>6, <1>7, <1>8, <1>9, <1>10, <1>11, <1>12, <1>13
        DEF Flight

\* A connection is moved by its own steps, or by the end of a boot.
LEMMA ClientFrame ==
  ASSUME Typed, [Next]_vars, NEW c \in Clients
  PROVE  \/ client'[c] = client[c]
         \/ Client(c)
         \/ \E n \in Inst, ok \in BOOLEAN : Finish(n, ok)
         \/ client'[c] = NoClient
<1>0. client \in [Clients -> ClientRec]
  BY DEF Typed, TypeOK
<1>1. ASSUME NEW b \in Clients, b # c, Client(b)
      PROVE  client'[c] = client[c]
  BY <1>0, <1>1 DEF Client, ClientCall, ClientBoot, ClientDial, ClientRefused,
     ClientAcquire, ClientRelease
<1>2. ASSUME NEW n \in Inst, Flight(n)
      PROVE  client'[c] = client[c] \/ \E ok \in BOOLEAN : Finish(n, ok)
  BY <1>2 DEF Flight, FlightEnter, FlightDeps, FlightDepCall,
     FlightDepAcquire, FlightPrep, FlightSpawn, FlightReady, FlightRegister,
     FlightRunning, FlightPid, FlightConverge, FlightUnwind, FlightOnReady,
     FlightNotReady, FlightReread, FlightRerun, FlightRerunning, FlightFailing,
     FlightFailed
<1>3. CASE Crash
  BY <1>3 DEF Crash, DaemonCrash, Panic, Dies
<1>4. ASSUME NEW m \in Inst, NEW p \in Proc,
             Exit(m, p) \/ Watch(m, p) \/ Timer(m, p)
      PROVE  UNCHANGED client
  BY <1>4 DEF Exit, Watch, WatchExit, WatchDeaf, WatchRelease, WatchReap, WatchDecide,
     WatchGiveUp, WatchCrash, WatchSchedule, Timer, TimerFires,
     TimerCancelled, TimerGate, TimerBoot
<1>5. ASSUME NEW t \in Stopper, Stop(t)
      PROVE  UNCHANGED client
  BY <1>5 DEF Stop, StopTake, StopReset, StopKill, StopRelease, StopReap
<1>6. ASSUME NEW u \in Users, User(u)
      PROVE  UNCHANGED client
  BY <1>6 DEF User, UserStop, UserOff, UserOn, UserPin
<1>7. CASE UNCHANGED vars \/ Reap \/ Sweep \/ Reconcile
  BY <1>7 DEF vars, Reap, ReaperTick, ReaperStop, Sweep, SweepBegin,
     SweepSnapshot, SweepPassed, Reconcile
<1> QED BY <1>1, <1>2, <1>3, <1>4, <1>5, <1>6, <1>7 DEF Next, Crash

\* A boot that ends does so by Finish, or with the daemon.
LEMMA BootEnds ==
  ASSUME Typed, [Next]_vars, NEW n \in Inst, flight[n].pc # "none",
         flight'[n].pc = "none"
  PROVE  Crash \/ \E ok \in BOOLEAN : Finish(n, ok)
<1>1. ~Woken(n)
  BY DEF Woken, Typed, TypeOK, FlightRec
<1>2. ~Started(n)
  BY DEF Started
<1> QED BY <1>1, <1>2, FlightFrame, OwnFlight

LEMMA WaitersStep ==
  Typed /\ WaitersHaveFlight /\ [Next]_vars => WaitersHaveFlight'
<1>0. Crash => WaitersHaveFlight'
  <2>1. NoFlight.pc = "none" /\ NoClient.pc = "out"
    BY DEF NoFlight, NoClient
  <2> QED BY <2>1 DEF Crash, DaemonCrash, Panic, Dies, WaitersHaveFlight
<1> SUFFICES ASSUME Typed, WaitersHaveFlight, [Next]_vars, ~Crash
             PROVE  WaitersHaveFlight'
  BY <1>0
<1>1. ASSUME NEW c \in Clients, client'[c].pc = "wait"
      PROVE  client'[c].at \in Inst /\ flight'[client'[c].at].pc # "none"
  <2>1. CASE client'[c] = client[c]
    <3> DEFINE n == client[c].at
    <3>1. n \in Inst /\ flight[n].pc # "none" /\ client[c].pc = "wait"
      BY <1>1, <2>1 DEF WaitersHaveFlight
    <3>2. ASSUME NEW ok \in BOOLEAN, Finish(n, ok)
          PROVE  FALSE
      <4>1. client'[c] = [client[c] EXCEPT !.pc = "up"] \/ client'[c] = NoClient
        BY <3>1, <3>2 DEF Finish, Answered
      <4> QED BY <1>1, <4>1 DEF NoClient, Typed, TypeOK, ClientRec
    <3>3. flight'[n].pc # "none"
      BY <3>1, <3>2, BootEnds
    <3> QED BY <2>1, <3>1, <3>3
  <2>2. CASE Client(c) /\ client'[c] # client[c]
    <3>1. client[c] \in ClientRec /\ client \in [Clients -> ClientRec]
      BY DEF Typed, TypeOK
    <3>2. /\ ClientBoot(c) /\ client' = [client EXCEPT ![c].pc = "wait"]
          /\ flight' = Do(flight, client[c].at, "healthy")
      BY <1>1, <2>2, <3>1 DEF Client, ClientCall, ClientBoot, ClientDial,
         ClientRefused, ClientAcquire, ClientRelease, NoClient, ClientRec
    <3>3. client[c].at \in Inst
      BY <3>2 DEF ClientBoot, Typed, ClientTargets
    <3>4. client'[c].at = client[c].at
      BY <3>1, <3>2 DEF ClientRec
    <3>5. flight \in [Inst -> FlightRec]
      BY DEF Typed, TypeOK
    <3> QED BY <3>2, <3>3, <3>4, <3>5, DoStarts
  <2>3. ASSUME NEW n \in Inst, NEW ok \in BOOLEAN, Finish(n, ok)
        PROVE  client'[c] = client[c]
    <3>1. \/ client'[c] = [client[c] EXCEPT !.pc = "up"]
          \/ client'[c] = NoClient
          \/ client'[c] = client[c]
      BY <2>3 DEF Finish, Answered
    <3> QED BY <1>1, <3>1 DEF NoClient, Typed, TypeOK, ClientRec
  <2>4. client'[c] # NoClient
    BY <1>1 DEF NoClient
  <2> QED BY <2>1, <2>2, <2>3, <2>4, ClientFrame
<1>2. ASSUME NEW n \in Inst, flight'[n].pc = "depwait"
      PROVE  flight'[n].dep \in Inst /\ flight'[flight'[n].dep].pc # "none"
  <2>1. CASE Flight(n)
    BY <1>2, <2>1, OwnFlight
  <2>2. CASE flight'[n] = flight[n] /\ ~Flight(n)
    <3> DEFINE d == flight[n].dep
    <3>1. d \in Inst /\ flight[d].pc # "none" /\ flight[n].pc = "depwait"
      BY <1>2, <2>2 DEF WaitersHaveFlight
    <3>2. ASSUME NEW ok \in BOOLEAN, Finish(d, ok)
          PROVE  FALSE
      <4>1. \/ flight'[n] = NoFlight
            \/ flight'[n] = [flight[n] EXCEPT !.pc = IF ok THEN "depup" ELSE "failing"]
        BY <3>1, <3>2 DEF Finish
      <4> QED BY <1>2, <4>1 DEF NoFlight, Typed, TypeOK, FlightRec
    <3>3. flight'[d].pc # "none"
      BY <3>1, <3>2, BootEnds
    <3> QED BY <2>2, <3>1, <3>3
  <2>3. ~Started(n) /\ ~Woken(n)
    BY <1>2 DEF Started, Woken, NoFlight, Typed, TypeOK, FlightRec
  <2> QED BY <2>1, <2>2, <2>3, FlightFrame
<1> QED BY <1>1, <1>2 DEF WaitersHaveFlight

\* Whoever waits in singleflight waits for a boot that is under way: no caller
\* that joins late, and no dependant, can miss the answer (Boot, BootStarted,
\* bootDeps).
THEOREM WaitersAreServed == Spec => []WaitersHaveFlight
<1>1. Init => WaitersHaveFlight
  BY DEF Init, WaitersHaveFlight, NoFlight, NoClient
<1> QED BY <1>1, InitTyped, NextTyped, WaitersStep, PTL DEF Spec

-----------------------------------------------------------------------------
(* Gates: the shutdown, and an instance switched off *)

\* Only the spawn of a boot brings a process to life.
LEMMA OsFrame ==
  ASSUME Typed, [Next]_vars, NEW n \in Inst, NEW p \in Proc,
         os'[n][p] = "alive"
  PROVE  os[n][p] = "alive" \/ FlightSpawn(n)
<1>0. os \in [Inst -> [Proc -> OsState]]
  BY DEF Typed, TypeOK
<1>1. ASSUME NEW m, NEW q, Kill(m, q)
      PROVE  os[n][p] = "alive"
  <2>1. os' = [os EXCEPT ![m][q] = IF @ = "alive" THEN "exit1" ELSE @]
    BY <1>1 DEF Kill
  <2> QED BY <1>0, <2>1
<1>2. ASSUME NEW c \in Clients, Client(c)
      PROVE  os[n][p] = "alive"
  BY <1>2 DEF Client, ClientCall, ClientBoot, ClientDial, ClientRefused,
     ClientAcquire, ClientRelease, world
<1>3. ASSUME NEW m \in Inst, Flight(m)
      PROVE  os[n][p] = "alive" \/ FlightSpawn(n)
  <2>1. CASE FlightSpawn(m)
    BY <1>0, <2>1 DEF FlightSpawn
  <2>2. CASE UNCHANGED os
    BY <2>2
  <2> QED BY <1>1, <1>3, <2>1, <2>2 DEF Flight, FlightEnter, FlightDeps,
        FlightDepCall, FlightDepAcquire, FlightPrep, FlightReady,
        FlightRegister, FlightRunning, FlightPid, FlightConverge,
        FlightUnwind, FlightOnReady, FlightNotReady, FlightReread, FlightRerun,
        FlightRerunning, FlightFailing, FlightFailed, world
<1>4. ASSUME NEW m \in Inst, NEW q \in Proc, Exit(m, q)
      PROVE  os[n][p] = "alive"
  <2>1. PICK how \in Exits : os' = [os EXCEPT ![m][q] = how]
    BY <1>4 DEF Exit
  <2>2. how # "alive"
    BY ConstantsOK DEF ConstantsOK
  <2> QED BY <1>0, <2>1, <2>2
<1>5. ASSUME NEW m \in Inst, NEW q \in Proc, Watch(m, q) \/ Timer(m, q)
      PROVE  os[n][p] = "alive"
  BY <1>5 DEF Watch, WatchExit, WatchDeaf, WatchRelease, WatchReap, WatchDecide,
     WatchGiveUp, WatchCrash, WatchSchedule, Timer, TimerFires,
     TimerCancelled, TimerGate, TimerBoot, world
<1>6. ASSUME NEW t \in Stopper, Stop(t)
      PROVE  os[n][p] = "alive"
  BY <1>1, <1>6 DEF Stop, StopTake, StopReset, StopKill, StopRelease, StopReap,
     world
<1>7. ASSUME NEW u \in Users, User(u)
      PROVE  os[n][p] = "alive"
  BY <1>7 DEF User, UserStop, UserOff, UserOn, UserPin, world
<1>8. CASE UNCHANGED vars \/ Reap \/ Sweep \/ Crash
  BY <1>8 DEF vars, Reap, ReaperTick, ReaperStop, Sweep, SweepBegin,
     SweepSnapshot, SweepPassed, Crash, DaemonCrash, Panic, Dies, world
<1>9. CASE Reconcile
  BY <1>0, <1>9 DEF Reconcile
<1> QED BY <1>2, <1>3, <1>4, <1>5, <1>6, <1>7, <1>8, <1>9 DEF Next, Crash

\* While the daemon shuts down, nothing but a crash of it takes that back, and
\* no restart and no connection gets past the gate.
LEMMA GateFrame ==
  ASSUME Typed, [Next]_vars, shuttingDown, ~Crash
  PROVE  /\ shuttingDown'
         /\ \A n \in Inst, p \in Proc :
              timer'[n][p] = "call" => timer[n][p] = "call"
         /\ \A c \in Clients : client'[c].pc = "call" => client[c].pc = "call"
<1>0. /\ timer \in [Inst -> [Proc -> TimerPc]]
      /\ client \in [Clients -> ClientRec]
  BY DEF Typed, TypeOK
<1>1. ~Gate
  BY DEF Gate
<1>2. shuttingDown'
  <2>1. ASSUME NEW c \in Clients, Client(c)
        PROVE  shuttingDown'
    BY <2>1 DEF Client, ClientCall, ClientBoot, ClientDial, ClientRefused,
       ClientAcquire, ClientRelease, gates
  <2>2. ASSUME NEW n \in Inst, Flight(n)
        PROVE  shuttingDown'
    BY <2>2 DEF Flight, FlightEnter, FlightDeps, FlightDepCall,
       FlightDepAcquire, FlightPrep, FlightSpawn, FlightReady, FlightRegister,
       FlightRunning, FlightPid, FlightConverge, FlightUnwind, FlightOnReady,
       FlightNotReady, FlightReread, FlightRerun, FlightRerunning, FlightFailing,
       FlightFailed, gates
  <2>3. ASSUME NEW n \in Inst, NEW p \in Proc,
               Exit(n, p) \/ Watch(n, p) \/ Timer(n, p)
        PROVE  shuttingDown'
    BY <2>3 DEF Exit, Watch, WatchExit, WatchDeaf, WatchRelease, WatchReap, WatchDecide,
       WatchGiveUp, WatchCrash, WatchSchedule, Timer, TimerFires,
       TimerCancelled, TimerGate, TimerBoot, gates
  <2>4. ASSUME NEW t \in Stopper, Stop(t)
        PROVE  shuttingDown'
    BY <2>4 DEF Stop, StopTake, StopReset, StopKill, StopRelease, StopReap,
       gates
  <2>5. ASSUME NEW u \in Users, User(u)
        PROVE  shuttingDown'
    BY <2>5 DEF User, UserStop, UserOff, UserOn, UserPin, gates
  <2>6. CASE UNCHANGED vars \/ Reap \/ Sweep \/ Reconcile
    BY <2>6 DEF vars, Reap, ReaperTick, ReaperStop, Sweep, SweepBegin,
       SweepSnapshot, SweepPassed, Reconcile, gates
  <2> QED BY <2>1, <2>2, <2>3, <2>4, <2>5, <2>6 DEF Next, Crash
<1>3. ASSUME NEW n \in Inst, NEW p \in Proc, timer'[n][p] = "call"
      PROVE  timer[n][p] = "call"
  <2>1. ASSUME NEW m \in Inst, NEW q \in Proc, WatchSchedule(m, q) \/ Timer(m, q)
        PROVE  timer[n][p] = "call"
    BY <1>0, <1>1, <1>3, <2>1 DEF WatchSchedule, Timer, TimerFires,
       TimerCancelled, TimerGate, TimerBoot
  <2> QED BY <1>3, <2>1, RestartFrame
<1>4. ASSUME NEW c \in Clients, client'[c].pc = "call"
      PROVE  client[c].pc = "call"
  <2>1. NoClient.pc # "call"
    BY DEF NoClient
  <2>2. Client(c) => client[c].pc = "call" \/ client'[c].pc # "call"
    BY <1>0, <1>1 DEF Client, ClientCall, ClientBoot, ClientDial,
       ClientRefused, ClientAcquire, ClientRelease, NoClient, ClientRec
  <2>3. ASSUME NEW n \in Inst, NEW ok \in BOOLEAN, Finish(n, ok)
        PROVE  client[c].pc = "call"
    <3>1. \/ client'[c] = [client[c] EXCEPT !.pc = "up"]
          \/ client'[c] = NoClient
          \/ client'[c] = client[c]
      BY <2>3 DEF Finish, Answered
    <3> QED BY <1>0, <1>4, <2>1, <3>1 DEF ClientRec
  <2> QED BY <1>4, <2>1, <2>2, <2>3, ClientFrame
<1> QED BY <1>2, <1>3, <1>4

\* A boot only starts for a connection, a restart or a boot that is past its
\* gate.
LEMMA StartFrame ==
  ASSUME Typed, [Next]_vars, NEW n \in Inst, Started(n)
  PROVE  \/ \E c \in Clients : client[c].pc = "call"
         \/ \E m \in Inst, p \in Proc : timer[m][p] = "call"
         \/ \E m \in Inst : flight[m].pc # "none"
<1>a. flight'[n].pc = "enter"
  BY DEF Started, NoFlight
<1>b. Crash => flight'[n].pc = "none"
  BY DEF Crash, DaemonCrash, Panic, Dies, NoFlight
<1> SUFFICES ASSUME \A m \in Inst : flight[m].pc = "none",
                    \A c \in Clients : client[c].pc # "call",
                    \A m \in Inst, p \in Proc : timer[m][p] # "call"
             PROVE  UNCHANGED flight \/ Crash
  BY <1>a, <1>b DEF Started
<1>1. \A m \in Inst : ~Flight(m)
  BY OwnFlight
<1>2. ASSUME NEW c \in Clients, Client(c)
      PROVE  UNCHANGED flight
  BY <1>2 DEF Client, ClientCall, ClientBoot, ClientDial, ClientRefused,
     ClientAcquire, ClientRelease
<1>3. ASSUME NEW m \in Inst, NEW p \in Proc,
             Exit(m, p) \/ Watch(m, p) \/ Timer(m, p)
      PROVE  UNCHANGED flight
  BY <1>3 DEF Exit, Watch, WatchExit, WatchDeaf, WatchRelease, WatchReap, WatchDecide,
     WatchGiveUp, WatchCrash, WatchSchedule, Timer, TimerFires,
     TimerCancelled, TimerGate, TimerBoot
<1>4. ASSUME NEW t \in Stopper, Stop(t)
      PROVE  UNCHANGED flight
  BY <1>4 DEF Stop, StopTake, StopReset, StopKill, StopRelease, StopReap
<1>5. ASSUME NEW u \in Users, User(u)
      PROVE  UNCHANGED flight
  BY <1>5 DEF User, UserStop, UserOff, UserOn, UserPin
<1>6. CASE UNCHANGED vars \/ Reap \/ Sweep \/ Reconcile
  BY <1>6 DEF vars, Reap, ReaperTick, ReaperStop, Sweep, SweepBegin,
     SweepSnapshot, SweepPassed, Reconcile
<1> QED BY <1>1, <1>2, <1>3, <1>4, <1>5, <1>6 DEF Next, Crash

LEMMA SealedStep == Typed /\ [Next]_vars => (Sealed /\ life.up' => Sealed')
<1> SUFFICES ASSUME Typed, [Next]_vars, Sealed, life.up'
             PROVE  Sealed'
  OBVIOUS
<1>1. ~Crash
  BY DEF Crash, DaemonCrash, Panic, Typed, TypeOK
<1>2. ASSUME NEW n \in Inst
      PROVE  flight'[n].pc = "none"
  <2>1. flight[n].pc = "none" /\ ~Flight(n)
    BY OwnFlight DEF Sealed
  <2>2. ~Woken(n) /\ ~Started(n)
    BY <2>1, StartFrame DEF Woken, Sealed
  <2> QED BY <1>1, <2>1, <2>2, FlightFrame
<1>3. ASSUME NEW n \in Inst, NEW p \in Proc
      PROVE  os'[n][p] # "alive"
  BY OsFrame DEF Sealed, FlightSpawn, At
<1> QED BY <1>1, <1>2, <1>3, GateFrame DEF Sealed

\* Once the daemon is shutting down and every boot past the gate is over,
\* nothing ever runs again in this life of it (BeginShutdown, bootCond's gate
\* and the restart goroutine's).
THEOREM SealHolds == Spec => SealedForGood
<1>1. Spec => []Typed
  BY InitTyped, NextTyped, PTL DEF Spec
<1> QED BY <1>1, SealedStep, PTL DEF Spec, SealedForGood

LEMMA OffStep ==
  ASSUME Typed, [Next]_vars, NEW n \in Inst, OffQuiet(n), n \in off'
  PROVE  OffQuiet(n)'
<1>1. ~Crash
  BY DEF Crash, DaemonCrash, Panic, Dies
<1>2. ~Alive(n, procs[n])
  BY DEF Alive, OffQuiet, Typed, TypeOK
<1>3. Flight(n) => flight'[n] = NoFlight
  <2>1. Flight(n) => FlightEnter(n)
    BY DEF OffQuiet, Flight, FlightDeps, FlightDepCall, FlightDepAcquire,
       FlightPrep, FlightSpawn, FlightReady, FlightRegister, FlightRunning,
       FlightPid, FlightConverge, FlightUnwind, FlightOnReady, FlightNotReady,
       FlightReread, FlightRerun, FlightRerunning, FlightFailing, FlightFailed, At
  <2>2. FlightEnter(n) => Finish(n, FALSE)
    BY <1>2 DEF FlightEnter, Running, IsOff, OffQuiet
  <2> QED BY <2>1, <2>2 DEF Finish
<1>4. flight'[n].pc \in {"none", "enter"}
  <2>1. Started(n) => flight'[n].pc = "enter"
    BY DEF Started, NoFlight
  <2>2. ~Woken(n) /\ flight[n].pc \in {"none", "enter"}
    BY DEF Woken, OffQuiet
  <2>3. NoFlight.pc = "none"
    BY DEF NoFlight
  <2> QED BY <1>1, <1>3, <2>1, <2>2, <2>3, FlightFrame
<1>5. ASSUME NEW p \in Proc
      PROVE  os'[n][p] # "alive"
  BY OsFrame DEF OffQuiet, FlightSpawn, At
<1> QED BY <1>4, <1>5 DEF OffQuiet

\* An instance that was switched off and has settled stays down until it is
\* switched on, whoever connects to it, depends on it or had its restart pending
\* (SetOff, bootLocked's check).
THEOREM OffHolds == Spec => OffStaysQuiet
<1>1. Spec => []Typed
  BY InitTyped, NextTyped, PTL DEF Spec
<1>2. Typed /\ [Next]_vars =>
        \A n \in Inst : OffQuiet(n) /\ n \in off' => OffQuiet(n)'
  BY OffStep
<1> QED BY <1>1, <1>2, PTL DEF Spec, OffStaysQuiet

-----------------------------------------------------------------------------
(* A process is started once, watched once and restarted from once *)

\* The steps of a boot with a process that is not watched yet.
StartPc == {"ready", "register", "running", "pid"}

FreshBoot ==
  \A n \in Inst : flight[n].pc \in StartPc =>
    /\ flight[n].p \in Proc
    /\ watch[n][flight[n].p].pc = "none"
    /\ os[n][flight[n].p] # "unborn"

UnbornUnwatched ==
  \A n \in Inst, p \in Proc : os[n][p] = "unborn" => watch[n][p].pc = "none"

TimerAfterWatch ==
  \A n \in Inst, p \in Proc : timer[n][p] # "none" => watch[n][p].pc = "done"

OneLife == FreshBoot /\ UnbornUnwatched /\ TimerAfterWatch

\* A write to one cell of a table leaves the others as they were.
LEMMA OtherCells ==
  ASSUME NEW f \in [Inst -> [Proc -> WatchRec]], NEW m, NEW q, NEW r,
         NEW n \in Inst, NEW p \in Proc, m # n \/ q # p
  PROVE  [f EXCEPT ![m][q] = r][n][p] = f[n][p]
<1>1. CASE m # n
  BY <1>1
<1>2. CASE m = n
  <2>1. [f EXCEPT ![m][q] = r][n] = [f[n] EXCEPT ![q] = r]
    BY <1>2
  <2>2. f[n] \in [Proc -> WatchRec] /\ q # p
    BY <1>2
  <2> QED BY <2>1, <2>2
<1> QED BY <1>1, <1>2

\* A watcher is moved by its own steps or started by the boot of its process.
LEMMA WatchFrame ==
  ASSUME Typed, [Next]_vars, NEW n \in Inst, NEW p \in Proc
  PROVE  \/ watch'[n][p] = watch[n][p]
         \/ Watch(n, p) /\ watch[n][p].pc \notin {"none", "done"}
         \/ FlightPid(n) /\ flight[n].p = p
         \/ Crash
<1>0. watch \in [Inst -> [Proc -> WatchRec]]
  BY DEF Typed, TypeOK
<1>1. ASSUME NEW c \in Clients, Client(c)
      PROVE  UNCHANGED watch
  BY <1>1 DEF Client, ClientCall, ClientBoot, ClientDial, ClientRefused,
     ClientAcquire, ClientRelease
<1>2. ASSUME NEW m \in Inst, Flight(m)
      PROVE  UNCHANGED watch \/ FlightPid(m)
  BY <1>2 DEF Flight, FlightEnter, FlightDeps, FlightDepCall,
     FlightDepAcquire, FlightPrep, FlightSpawn, FlightReady, FlightRegister,
     FlightRunning, FlightConverge, FlightUnwind, FlightOnReady,
     FlightNotReady, FlightReread, FlightRerun, FlightRerunning, FlightFailing, FlightFailed
<1>3. ASSUME NEW m \in Inst, FlightPid(m)
      PROVE  watch'[n][p] = watch[n][p] \/ (m = n /\ flight[n].p = p)
  <2> DEFINE q == flight[m].p
             r == [watch[m][q] EXCEPT !.pc = "wait"]
  <2>1. watch' = [watch EXCEPT ![m][q] = r]
    BY <1>3 DEF FlightPid, Watched
  <2> HIDE DEF q, r
  <2>2. (m = n /\ q = p) \/ watch'[n][p] = watch[n][p]
    <3>1. CASE m # n \/ q # p
      <4>1. [watch EXCEPT ![m][q] = r][n][p] = watch[n][p]
        BY <1>0, <3>1, OtherCells
      <4> QED BY <2>1, <4>1
    <3> QED BY <3>1
  <2>3. q = flight[m].p
    BY DEF q
  <2> QED BY <2>2, <2>3
<1>4. ASSUME NEW m \in Inst, NEW q \in Proc, Watch(m, q)
      PROVE  /\ watch'[n][p] = watch[n][p] \/ (m = n /\ q = p)
             /\ watch[m][q].pc \notin {"none", "done"}
  <2>1. watch[m][q].pc \notin {"none", "done"}
    BY <1>4 DEF Watch, WatchExit, WatchDeaf, WatchRelease, WatchReap, WatchDecide,
       WatchGiveUp, WatchCrash, WatchSchedule, WatchAt
  <2>2. ASSUME NEW r, watch' = [watch EXCEPT ![m][q] = r]
        PROVE  watch'[n][p] = watch[n][p] \/ (m = n /\ q = p)
    <3>1. CASE m # n \/ q # p
      <4> DEFINE g == [watch EXCEPT ![m][q] = r]
      <4>1. g[n][p] = watch[n][p]
        BY <1>0, <3>1, OtherCells
      <4>2. watch' = g
        BY <2>2
      <4> HIDE DEF g
      <4> QED BY <4>1, <4>2
    <3> QED BY <3>1
  <2>3. ASSUME NEW pc, WatchGoto(m, q, pc)
        PROVE  watch'[n][p] = watch[n][p] \/ (m = n /\ q = p)
    <3> DEFINE r == [watch[m][q] EXCEPT !.pc = pc]
    <3>1. watch' = [watch EXCEPT ![m][q] = r]
      BY <2>3 DEF WatchGoto
    <3> HIDE DEF r
    <3> QED BY <2>2, <3>1
  <2>4. watch'[n][p] = watch[n][p] \/ (m = n /\ q = p)
    BY <1>4, <2>2, <2>3 DEF Watch, WatchExit, WatchDeaf, WatchRelease, WatchReap,
       WatchDecide, WatchGiveUp, WatchCrash, WatchSchedule
  <2> QED BY <2>1, <2>4
<1>5. ASSUME NEW m \in Inst, NEW q \in Proc, Exit(m, q) \/ Timer(m, q)
      PROVE  UNCHANGED watch
  BY <1>5 DEF Exit, Timer, TimerFires, TimerCancelled, TimerGate, TimerBoot
<1>6. ASSUME NEW t \in Stopper, Stop(t)
      PROVE  UNCHANGED watch
  BY <1>6 DEF Stop, StopTake, StopReset, StopKill, StopRelease, StopReap
<1>7. ASSUME NEW u \in Users, User(u)
      PROVE  UNCHANGED watch
  BY <1>7 DEF User, UserStop, UserOff, UserOn, UserPin
<1>8. CASE UNCHANGED vars \/ Reap \/ Sweep \/ Reconcile
  BY <1>8 DEF vars, Reap, ReaperTick, ReaperStop, Sweep, SweepBegin,
     SweepSnapshot, SweepPassed, Reconcile
<1> QED BY <1>1, <1>2, <1>3, <1>4, <1>5, <1>6, <1>7, <1>8 DEF Next, Crash

\* A watcher that was started never becomes one that was not.
LEMMA WatchLasts ==
  ASSUME Typed, NEW n \in Inst, NEW p \in Proc, Watch(n, p)
  PROVE  watch'[n][p].pc # "none"
<1>0. /\ watch \in [Inst -> [Proc -> WatchRec]]
      /\ watch[n] \in [Proc -> WatchRec] /\ watch[n][p] \in WatchRec
  BY DEF Typed, TypeOK
<1>1. ASSUME NEW pc, WatchGoto(n, p, pc)
      PROVE  watch'[n][p].pc = pc
  BY <1>0, <1>1 DEF WatchGoto, WatchRec
<1>2. ASSUME NEW pc, NEW h, watch' = [watch EXCEPT ![n][p] = [pc |-> pc, held |-> h]]
      PROVE  watch'[n][p].pc = pc
  BY <1>0, <1>2
<1> QED BY <1>1, <1>2 DEF Watch, WatchExit, WatchDeaf, WatchRelease, WatchReap,
      WatchDecide, WatchGiveUp, WatchCrash, WatchSchedule

\* A process that was started is never unborn again.
LEMMA BornFrame ==
  ASSUME Typed, [Next]_vars, NEW n \in Inst, NEW p \in Proc,
         os[n][p] # "unborn"
  PROVE  os'[n][p] # "unborn"
<1>0. os \in [Inst -> [Proc -> OsState]]
  BY DEF Typed, TypeOK
<1>1. ASSUME NEW m, NEW q, Kill(m, q)
      PROVE  os'[n][p] # "unborn"
  <2>1. os' = [os EXCEPT ![m][q] = IF @ = "alive" THEN "exit1" ELSE @]
    BY <1>1 DEF Kill
  <2> QED BY <1>0, <2>1
<1>2. ASSUME NEW m, NEW q, NEW s, s # "unborn", os' = [os EXCEPT ![m][q] = s]
      PROVE  os'[n][p] # "unborn"
  BY <1>0, <1>2
<1>3. CASE UNCHANGED os
  BY <1>3
<1>4. ASSUME NEW c \in Clients, Client(c)
      PROVE  UNCHANGED os
  BY <1>4 DEF Client, ClientCall, ClientBoot, ClientDial, ClientRefused,
     ClientAcquire, ClientRelease, world
<1>5. ASSUME NEW m \in Inst, Flight(m)
      PROVE  os'[n][p] # "unborn"
  <2>1. CASE FlightSpawn(m)
    <3>1. UNCHANGED os \/ \E q \in Proc : os' = [os EXCEPT ![m][q] = "alive"]
      BY <2>1 DEF FlightSpawn
    <3> QED BY <1>2, <1>3, <3>1
  <2>2. CASE ~FlightSpawn(m)
    BY <1>1, <1>3, <1>5, <2>2 DEF Flight, FlightEnter, FlightDeps,
       FlightDepCall, FlightDepAcquire, FlightPrep, FlightReady,
       FlightRegister, FlightRunning, FlightPid, FlightConverge, FlightUnwind,
       FlightOnReady, FlightNotReady, FlightReread, FlightRerun, FlightRerunning,
       FlightFailing, FlightFailed, world
  <2> QED BY <2>1, <2>2
<1>6. ASSUME NEW m \in Inst, NEW q \in Proc, Exit(m, q)
      PROVE  os'[n][p] # "unborn"
  BY <1>2, <1>6, ConstantsOK DEF Exit, ConstantsOK
<1>7. ASSUME NEW m \in Inst, NEW q \in Proc, Watch(m, q) \/ Timer(m, q)
      PROVE  UNCHANGED os
  BY <1>7 DEF Watch, WatchExit, WatchDeaf, WatchRelease, WatchReap, WatchDecide,
     WatchGiveUp, WatchCrash, WatchSchedule, Timer, TimerFires,
     TimerCancelled, TimerGate, TimerBoot, world
<1>8. ASSUME NEW t \in Stopper, Stop(t)
      PROVE  os'[n][p] # "unborn"
  BY <1>1, <1>3, <1>8 DEF Stop, StopTake, StopReset, StopKill, StopRelease,
     StopReap, world
<1>9. ASSUME NEW u \in Users, User(u)
      PROVE  UNCHANGED os
  BY <1>9 DEF User, UserStop, UserOff, UserOn, UserPin, world
<1>10. CASE UNCHANGED vars \/ Reap \/ Sweep \/ Crash
  <2>1. UNCHANGED os
    BY <1>10 DEF vars, Reap, ReaperTick, ReaperStop, Sweep, SweepBegin,
       SweepSnapshot, SweepPassed, Crash, DaemonCrash, Panic, Dies, world
  <2> QED BY <1>3, <2>1
<1>11. CASE Reconcile
  BY <1>0, <1>11 DEF Reconcile
<1> QED BY <1>3, <1>4, <1>5, <1>6, <1>7, <1>8, <1>9, <1>10, <1>11 DEF Next, Crash

\* A boot with a process keeps it until the process is watched.
LEMMA StartPcFrame ==
  ASSUME Typed, [Next]_vars, NEW n \in Inst, flight'[n].pc \in StartPc
  PROVE  \/ flight[n].pc \in StartPc /\ flight'[n].p = flight[n].p /\ ~FlightPid(n)
         \/ /\ FlightSpawn(n) /\ flight'[n].p \in Proc
            /\ os[n][flight'[n].p] = "unborn" /\ os'[n][flight'[n].p] = "alive"
<1>0. /\ flight[n] \in FlightRec /\ flight \in [Inst -> FlightRec]
      /\ os \in [Inst -> [Proc -> OsState]]
  BY DEF Typed, TypeOK
<1>1. ASSUME NEW pc, Goto(n, pc)
      PROVE  flight'[n].pc = pc /\ flight'[n].p = flight[n].p
  BY <1>0, <1>1 DEF Goto, FlightRec
<1>2. ~Started(n) /\ ~Woken(n) /\ flight'[n] # NoFlight
  <2>1. Started(n) => flight'[n].pc = "enter"
    BY DEF Started, NoFlight
  <2>2. Woken(n) => flight'[n].pc \in {"depup", "failing"}
    BY <1>0 DEF Woken, FlightRec
  <2>3. NoFlight.pc = "none"
    BY DEF NoFlight
  <2> QED BY <2>1, <2>2, <2>3 DEF StartPc
<1>3. CASE FlightSpawn(n)
  <2>1. ~Goto(n, "failing")
    BY <1>1 DEF StartPc
  <2>2. PICK p \in Proc :
          /\ os[n][p] = "unborn" /\ os' = [os EXCEPT ![n][p] = "alive"]
          /\ flight' = [flight EXCEPT ![n] = [@ EXCEPT !.pc = "ready", !.p = p]]
    BY <1>3, <2>1 DEF FlightSpawn
  <2>3. flight'[n].p = p
    BY <1>0, <2>2 DEF FlightRec
  <2>4. os'[n][p] = "alive"
    BY <1>0, <2>2
  <2> QED BY <1>3, <2>2, <2>3, <2>4
<1>4. CASE FlightReady(n) \/ FlightRegister(n) \/ FlightRunning(n)
  BY <1>1, <1>4 DEF FlightReady, FlightRegister, FlightRunning, FlightPid, At,
     StartPc
<1>5. CASE Flight(n) /\ ~FlightSpawn(n) /\ ~FlightReady(n)
           /\ ~FlightRegister(n) /\ ~FlightRunning(n)
  <2>1. \A ok : ~Finish(n, ok)
    BY <1>2 DEF Finish
  <2>2. ASSUME NEW r, flight' = [flight EXCEPT ![n] = r], r.pc \notin StartPc
        PROVE  FALSE
    BY <1>0, <2>2
  <2>3. /\ \A p : [flight[n] EXCEPT !.pc = "rerun", !.p = p].pc = "rerun"
        /\ \A t : [flight[n] EXCEPT !.pc = "deps", !.todo = t].pc = "deps"
        /\ \A pc, d : [flight[n] EXCEPT !.pc = pc, !.dep = d].pc = pc
        /\ [flight[n] EXCEPT !.pc = "failed", !.held = {}].pc = "failed"
    BY <1>0 DEF FlightRec
  <2>4. ~FlightEnter(n)
    <3>1. ~Goto(n, "reread")
      BY <1>1 DEF StartPc
    <3> QED BY <2>1, <2>2, <2>3, <3>1 DEF FlightEnter, StartPc
  <2>13. ~FlightReread(n)
    BY <2>2, <2>3 DEF FlightReread, StartPc
  <2>5. ~FlightFailing(n)
    BY <2>2, <2>3 DEF FlightFailing, StartPc
  <2>6. ~FlightDeps(n)
    <3>1. ~Goto(n, "prep")
      BY <1>1 DEF StartPc
    <3>2. ~\E d, pc : /\ pc \in {"depcall", "failing"}
                      /\ flight' = [flight EXCEPT ![n] =
                           [flight[n] EXCEPT !.pc = pc, !.dep = d]]
      BY <2>2, <2>3 DEF StartPc
    <3> QED BY <3>1, <3>2 DEF FlightDeps
  <2>7. ~FlightDepCall(n)
    <3> DEFINE f == [flight EXCEPT ![n].pc = "depwait"]
    <3>1. f \in [Inst -> FlightRec] /\ f[n].pc = "depwait"
      BY <1>0, FlightPcs DEF FlightRec
    <3>2. FlightDepCall(n) => flight[n].dep \in Inst
      BY ConstantsOK DEF FlightDepCall, At, Typed, FlightTargets, Aimed, DepPc,
         ConstantsOK
    <3>3. CondOf(n, flight[n].dep) \in {"healthy", "started"}
      BY DEF CondOf
    <3>4. flight' # [flight EXCEPT ![n].pc = "depup"]
      BY <1>0 DEF FlightRec, StartPc
    <3>5. FlightDepCall(n) =>
            flight' # Do(f, flight[n].dep, CondOf(n, flight[n].dep))
      <4> HIDE DEF f
      <4> QED BY <3>1, <3>2, <3>3, DoStarts DEF StartPc
    <3> QED BY <3>4, <3>5 DEF FlightDepCall
  <2>8. ~FlightDepAcquire(n)
    <3>1. FlightDepAcquire(n) => flight'[n].pc = "deps"
      BY <1>0 DEF FlightDepAcquire, FlightRec
    <3> QED BY <3>1 DEF StartPc
  <2>9. ~FlightPrep(n) /\ ~FlightConverge(n) /\ ~FlightUnwind(n)
    BY <1>1 DEF FlightPrep, FlightConverge, FlightUnwind, StartPc
  <2>10. ~FlightPid(n)
    BY <1>1 DEF FlightPid, StartPc
  <2>11. ~FlightOnReady(n) /\ ~FlightRerun(n)
    <3>1. ~Goto(n, "notready") /\ ~Goto(n, "rerunning")
      BY <1>1 DEF StartPc
    <3> QED BY <2>1, <3>1 DEF FlightOnReady, FlightRerun
  <2>12. ~FlightNotReady(n) /\ ~FlightRerunning(n) /\ ~FlightFailed(n)
    BY <2>1 DEF FlightNotReady, FlightRerunning, FlightFailed
  <2> QED BY <1>5, <2>4, <2>5, <2>6, <2>7, <2>8, <2>9, <2>10, <2>11,
        <2>12, <2>13 DEF Flight
<1>6. CASE flight'[n] = flight[n] /\ ~Flight(n)
  BY <1>6 DEF Flight
<1> QED BY <1>2, <1>3, <1>4, <1>5, <1>6, FlightFrame

LEMMA OneLifeStep == Typed /\ OneLife /\ [Next]_vars => OneLife'
<1>0. Crash => OneLife'
  <2>1. NoFlight.pc \notin StartPc /\ NoWatch.pc = "none"
    BY DEF NoFlight, NoWatch, StartPc
  <2> QED BY <2>1 DEF Crash, DaemonCrash, Panic, Dies, OneLife, FreshBoot, UnbornUnwatched,
        TimerAfterWatch
<1> SUFFICES ASSUME Typed, OneLife, [Next]_vars, ~Crash
             PROVE  OneLife'
  BY <1>0
<1>1. ASSUME NEW n \in Inst, flight'[n].pc \in StartPc
      PROVE  /\ flight'[n].p \in Proc
             /\ watch'[n][flight'[n].p].pc = "none"
             /\ os'[n][flight'[n].p] # "unborn"
  <2>1. CASE flight[n].pc \in StartPc /\ flight'[n].p = flight[n].p
             /\ ~FlightPid(n)
    <3>1. /\ flight[n].p \in Proc /\ watch[n][flight[n].p].pc = "none"
          /\ os[n][flight[n].p] # "unborn"
      BY <2>1 DEF OneLife, FreshBoot
    <3> QED BY <2>1, <3>1, WatchFrame, BornFrame
  <2>2. CASE /\ FlightSpawn(n) /\ flight'[n].p \in Proc
             /\ os[n][flight'[n].p] = "unborn" /\ os'[n][flight'[n].p] = "alive"
    <3>1. UNCHANGED watch
      BY <2>2 DEF FlightSpawn
    <3> QED BY <2>2, <3>1 DEF OneLife, UnbornUnwatched
  <2> QED BY <1>1, <2>1, <2>2, StartPcFrame
<1>2. ASSUME NEW n \in Inst, NEW p \in Proc, os'[n][p] = "unborn"
      PROVE  watch'[n][p].pc = "none"
  <2>1. os[n][p] = "unborn" /\ watch[n][p].pc = "none"
    BY <1>2, BornFrame DEF OneLife, UnbornUnwatched
  <2>2. ~(FlightPid(n) /\ flight[n].p = p)
    BY <2>1 DEF FlightPid, At, OneLife, FreshBoot, StartPc
  <2> QED BY <2>1, <2>2, WatchFrame
<1>3. ASSUME NEW n \in Inst, NEW p \in Proc, timer'[n][p] # "none"
      PROVE  watch'[n][p].pc = "done"
  <2>1. CASE timer[n][p] # "none"
    <3>1. watch[n][p].pc = "done"
      BY <2>1 DEF OneLife, TimerAfterWatch
    <3>2. ~(FlightPid(n) /\ flight[n].p = p)
      BY <3>1 DEF FlightPid, At, OneLife, FreshBoot, StartPc
    <3> QED BY <3>1, <3>2, WatchFrame
  <2>2. CASE timer[n][p] = "none"
    <3>0. /\ timer \in [Inst -> [Proc -> TimerPc]]
          /\ watch \in [Inst -> [Proc -> WatchRec]]
      BY DEF Typed, TypeOK
    <3>1. ASSUME NEW m \in Inst, NEW q \in Proc, Timer(m, q)
          PROVE  timer'[n][p] = timer[n][p] \/ timer[n][p] # "none"
      BY <3>0, <3>1 DEF Timer, TimerFires, TimerCancelled, TimerGate, TimerBoot
    <3>2. PICK m \in Inst, q \in Proc : WatchSchedule(m, q)
      BY <1>3, <2>2, <3>1, RestartFrame
    <3>3. m = n /\ q = p
      BY <1>3, <2>2, <3>0, <3>2 DEF WatchSchedule
    <3>4. watch[n] \in [Proc -> WatchRec] /\ watch[n][p] \in WatchRec
      BY <3>0
    <3> QED BY <3>0, <3>2, <3>3, <3>4 DEF WatchSchedule, WatchGoto, WatchRec
  <2> QED BY <2>1, <2>2
<1> QED BY <1>1, <1>2, <1>3 DEF OneLife, FreshBoot, UnbornUnwatched,
      TimerAfterWatch

LEMMA OneLifeHolds == Spec => [](Typed /\ OneLife)
<1>1. Init => OneLife
  BY DEF Init, OneLife, FreshBoot, UnbornUnwatched, TimerAfterWatch, NoFlight,
     NoWatch, StartPc
<1> QED BY <1>1, InitTyped, NextTyped, OneLifeStep, PTL DEF Spec

LEMMA CancelledStep ==
  ASSUME Typed, OneLife, [Next]_vars, NEW n \in Inst, NEW p \in Proc,
         timer[n][p] = "armed", restarts[n] # p
  PROVE  timer'[n][p] # "fired" /\ restarts'[n] # p
<1>0. /\ timer \in [Inst -> [Proc -> TimerPc]]
      /\ restarts \in [Inst -> Proc \cup {NoPid}]
      /\ p # NoPid
      /\ watch[n][p].pc = "done"
  BY DEF Typed, TypeOK, Proc, NoPid, OneLife, TimerAfterWatch
<1>1. CASE UNCHANGED <<restarts, timer>>
  BY <1>1
<1>2. ASSUME NEW m \in Inst, restarts' = RestartDropped(m), UNCHANGED timer
      PROVE  timer'[n][p] # "fired" /\ restarts'[n] # p
  BY <1>0, <1>2 DEF RestartDropped
<1>3. ASSUME NEW m \in Inst, NEW q \in Proc, WatchSchedule(m, q)
      PROVE  timer'[n][p] # "fired" /\ restarts'[n] # p
  <2>1. m # n \/ q # p
    BY <1>0, <1>3 DEF WatchSchedule, WatchAt
  <2>2. restarts'[n] # p
    BY <1>0, <1>3, <2>1 DEF WatchSchedule
  <2>3. timer'[n][p] # "fired"
    BY <1>0, <1>3 DEF WatchSchedule
  <2> QED BY <2>2, <2>3
<1>4. ASSUME NEW m \in Inst, NEW q \in Proc, Timer(m, q)
      PROVE  timer'[n][p] # "fired" /\ restarts'[n] # p
  <2>1. restarts'[n] # p
    BY <1>0, <1>4 DEF Timer, TimerFires, TimerCancelled, TimerGate, TimerBoot,
       RestartDropped, maps
  <2>2. timer'[n][p] # "fired"
    BY <1>0, <1>4 DEF Timer, TimerFires, TimerCancelled, TimerGate, TimerBoot,
       Owns
  <2> QED BY <2>1, <2>2
<1>5. CASE Crash
  BY <1>0, <1>5 DEF Crash, DaemonCrash, Panic, Dies
<1> QED BY <1>1, <1>2, <1>3, <1>4, <1>5, RestartFrame

\* A restart that Stop cancelled, or a newer one superseded, never fires and its
\* entry never comes back (scheduleRestart's ownership check, with one watcher
\* and one restart goroutine per process).
THEOREM CancelHolds == Spec => CancelledStaysCancelled
<1>1. Typed /\ OneLife /\ [Next]_vars =>
        \A n \in Inst, p \in Proc :
          timer[n][p] = "armed" /\ restarts[n] # p =>
            timer'[n][p] # "fired" /\ restarts'[n] # p
  BY CancelledStep
<1> QED BY <1>1, OneLifeHolds, PTL DEF Spec, CancelledStaysCancelled

-----------------------------------------------------------------------------
(* What is registered is watched *)

\* A process that ended never runs again: the next boot starts another one.
LEMMA EndedFrame ==
  ASSUME Typed, OneLife, [Next]_vars, NEW n \in Inst, NEW p \in Proc,
         watch[n][p].pc # "none", ~Alive(n, p)
  PROVE  os'[n][p] # "alive"
<1>1. os[n][p] # "alive" /\ os[n][p] # "unborn" /\ p # NoPid
  BY DEF Alive, OneLife, UnbornUnwatched, Proc, NoPid
<1>2. ASSUME FlightSpawn(n)
      PROVE  os'[n][p] # "alive"
  <2>1. \/ UNCHANGED os
        \/ \E q \in Proc : os[n][q] = "unborn" /\ os' = [os EXCEPT ![n][q] = "alive"]
    BY <1>2 DEF FlightSpawn
  <2> QED BY <1>1, <2>1 DEF Typed, TypeOK
<1> QED BY <1>1, <1>2, OsFrame DEF Alive

\* The steps of others leave the registered process of n and its watcher be, or
\* unregister it.
LEMMA WatchedFrame ==
  ASSUME Typed, [Next]_vars, NEW n \in Inst
  PROVE  \/ procs'[n] = procs[n] /\ UNCHANGED watch
         \/ procs'[n] = procs[n] /\ \E m \in Inst : m # n /\ Flight(m)
         \/ procs'[n] = NoPid
         \/ Flight(n)
         \/ \E m \in Inst, p \in Proc : Watch(m, p)
<1>0. procs \in [Inst -> Proc \cup {NoPid}]
  BY DEF Typed, TypeOK
<1>1. ASSUME NEW c \in Clients, Client(c)
      PROVE  UNCHANGED <<procs, watch>>
  BY <1>1 DEF Client, ClientCall, ClientBoot, ClientDial, ClientRefused,
     ClientAcquire, ClientRelease, maps
<1>2. ASSUME NEW m \in Inst, m # n, Flight(m)
      PROVE  procs'[n] = procs[n]
  BY <1>0, <1>2 DEF Flight, FlightEnter, FlightDeps, FlightDepCall,
     FlightDepAcquire, FlightPrep, FlightSpawn, FlightReady, FlightRegister,
     FlightRunning, FlightPid, FlightConverge, FlightUnwind, FlightOnReady,
     FlightNotReady, FlightReread, FlightRerun, FlightRerunning, FlightFailing,
     FlightFailed, maps
<1>3. ASSUME NEW m \in Inst, NEW p \in Proc, Exit(m, p) \/ Timer(m, p)
      PROVE  UNCHANGED <<procs, watch>>
  BY <1>3 DEF Exit, Timer, TimerFires, TimerCancelled, TimerGate, TimerBoot,
     maps
<1>4. ASSUME NEW t, NEW m, Take(t, m)
      PROVE  procs'[n] = procs[n] \/ procs'[n] = NoPid
  BY <1>0, <1>4 DEF Take
<1>5. ASSUME NEW t \in Stopper, Stop(t)
      PROVE  UNCHANGED watch /\ (procs'[n] = procs[n] \/ procs'[n] = NoPid)
  BY <1>4, <1>5 DEF Stop, StopTake, StopReset, StopKill, StopRelease, StopReap,
     maps
<1>6. ASSUME NEW u \in Users, User(u)
      PROVE  UNCHANGED watch /\ (procs'[n] = procs[n] \/ procs'[n] = NoPid)
  BY <1>4, <1>6 DEF User, UserStop, UserOff, UserOn, UserPin, maps
<1>7. CASE Reap
  BY <1>4, <1>7 DEF Reap, ReaperTick, ReaperStop, maps
<1>8. CASE UNCHANGED vars \/ Sweep \/ Reconcile
  BY <1>8 DEF vars, maps, Sweep, SweepBegin, SweepSnapshot, SweepPassed,
     Reconcile
<1>9. CASE Crash
  BY <1>9 DEF Crash, DaemonCrash, Panic, Dies
<1> QED BY <1>1, <1>2, <1>3, <1>5, <1>6, <1>7, <1>8, <1>9 DEF Next, Crash

\* The watcher of the registered process was never told of its end.
Missed(n) == n \in Multi /\ WatchAt(n, procs[n], "deaf") /\ ~Alive(n, procs[n])

LEMMA MissedStays ==
  ASSUME Typed, OneLife, [Next]_vars, NEW n \in Inst, procs[n] # NoPid,
         Missed(n), procs'[n] = procs[n], watch'[n][procs[n]] = watch[n][procs[n]]
  PROVE  Missed(n)'
<1>1. PICK p \in Proc : p = procs[n]
  BY DEF Typed, TypeOK
<1>2. watch[n][p].pc # "none" /\ ~Alive(n, p)
  BY <1>1 DEF Missed, WatchAt
<1>3. os'[n][p] # "alive"
  BY <1>2, EndedFrame
<1> QED BY <1>1, <1>3 DEF Missed, WatchAt, Alive

\* RegisteredIsWatched for one instance.
WatchedOrBooting(n) ==
  procs[n] # NoPid =>
    \/ WatchAt(n, procs[n], "wait")
    \/ Missed(n)
    \/ flight[n].pc \in {"running", "pid"} /\ flight[n].p = procs[n]

LEMMA OwnFlightWatched ==
  ASSUME Typed, OneLife, [Next]_vars, NEW n \in Inst, Flight(n), WatchedOrBooting(n)
  PROVE  WatchedOrBooting(n)'
<1>0. /\ flight[n] \in FlightRec /\ flight \in [Inst -> FlightRec]
      /\ procs \in [Inst -> Proc \cup {NoPid}]
      /\ watch \in [Inst -> [Proc -> WatchRec]]
  BY DEF Typed, TypeOK
<1>1. CASE FlightRegister(n)
  BY <1>0, <1>1 DEF FlightRegister, Goto, FlightRec, WatchedOrBooting
<1>2. CASE FlightRunning(n)
  BY <1>0, <1>2, MissedStays DEF FlightRunning, Goto, At, maps, FlightRec,
     WatchAt, WatchedOrBooting
<1>3. CASE FlightPid(n)
  <2> SUFFICES ASSUME procs[n] # NoPid
               PROVE  watch'[n][procs[n]].pc = "wait" \/ Missed(n)'
    BY <1>3 DEF FlightPid, maps, WatchedOrBooting, WatchAt
  <2>1. \/ watch[n][procs[n]].pc = "wait" \/ Missed(n)
        \/ flight[n].p = procs[n]
    BY DEF WatchedOrBooting, WatchAt
  <2>2. procs[n] \in Proc
    BY <1>0
  <2>3. watch' = [watch EXCEPT ![n][flight[n].p].pc = "wait"] /\ UNCHANGED procs
    BY <1>3 DEF FlightPid, Watched, maps
  <2>4. watch[n] \in [Proc -> WatchRec] /\ watch[n][procs[n]] \in WatchRec
    BY <1>0, <2>2
  <2>5. CASE flight[n].p = procs[n]
    BY <1>0, <2>2, <2>3, <2>4, <2>5 DEF WatchRec
  <2>6. CASE flight[n].p # procs[n]
    <3>1. watch'[n][procs[n]] = watch[n][procs[n]]
      BY <1>0, <2>2, <2>3, <2>4, <2>6
    <3> QED BY <2>1, <2>3, <2>6, <3>1, MissedStays
  <2> QED BY <2>5, <2>6
<1>4. CASE FlightConverge(n)
  <2>1. UNCHANGED watch /\ (procs'[n] = NoPid \/ procs'[n] = procs[n])
    BY <1>0, <1>4 DEF FlightConverge
  <2>2. flight[n].pc \notin {"running", "pid"}
    BY <1>4 DEF FlightConverge, At
  <2> QED BY <2>1, <2>2, MissedStays DEF WatchAt, WatchedOrBooting
<1>5. CASE /\ ~FlightRegister(n) /\ ~FlightRunning(n)
           /\ ~FlightPid(n) /\ ~FlightConverge(n)
  <2>1. UNCHANGED <<procs, watch>> /\ flight[n].pc \notin {"running", "pid"}
    BY <1>5 DEF Flight, FlightEnter, FlightDeps, FlightDepCall,
       FlightDepAcquire, FlightPrep, FlightSpawn, FlightReady, FlightUnwind,
       FlightOnReady, FlightNotReady, FlightReread, FlightRerun, FlightRerunning,
       FlightFailing, FlightFailed, At, maps
  <2> QED BY <2>1, MissedStays DEF WatchedOrBooting, WatchAt
<1> QED BY <1>1, <1>2, <1>3, <1>4, <1>5

LEMMA WatchedStep ==
  Typed /\ OneLife /\ RegisteredIsWatched /\ [Next]_vars => RegisteredIsWatched'
<1> SUFFICES ASSUME Typed, OneLife, RegisteredIsWatched, [Next]_vars, NEW n \in Inst
             PROVE  WatchedOrBooting(n)'
  BY DEF RegisteredIsWatched, WatchedOrBooting, Missed, WatchAt
<1>0. /\ WatchedOrBooting(n)
      /\ flight \in [Inst -> FlightRec] /\ flight[n] \in FlightRec
      /\ procs \in [Inst -> Proc \cup {NoPid}]
      /\ watch \in [Inst -> [Proc -> WatchRec]]
  BY DEF RegisteredIsWatched, WatchedOrBooting, Missed, Typed, TypeOK
<1>1. CASE Flight(n)
  BY <1>0, <1>1, OwnFlightWatched
<1>2. CASE procs'[n] = NoPid
  BY <1>2 DEF WatchedOrBooting
<1>3. ASSUME ~Flight(n), flight[n].pc \in {"running", "pid"}
      PROVE  flight'[n] = flight[n] \/ Crash
  BY <1>3, FlightFrame DEF Started, Woken
<1>4. Crash => procs'[n] = NoPid
  BY DEF Crash, DaemonCrash, Panic, Dies
<1>5. CASE procs'[n] = procs[n] /\ UNCHANGED watch /\ ~Flight(n)
  BY <1>0, <1>2, <1>3, <1>4, <1>5, MissedStays DEF WatchedOrBooting, WatchAt
<1>6. ASSUME NEW m \in Inst, m # n, Flight(m), procs'[n] = procs[n], ~Flight(n)
      PROVE  WatchedOrBooting(n)'
  <2>1. watch'[n] = watch[n]
    BY <1>0, <1>6 DEF Flight, FlightEnter, FlightDeps, FlightDepCall,
       FlightDepAcquire, FlightPrep, FlightSpawn, FlightReady, FlightRegister,
       FlightRunning, FlightPid, Watched, FlightConverge, FlightUnwind,
       FlightOnReady, FlightNotReady, FlightReread, FlightRerun, FlightRerunning,
       FlightFailing, FlightFailed
  <2> QED BY <1>0, <1>2, <1>3, <1>4, <1>6, <2>1, MissedStays
          DEF WatchedOrBooting, WatchAt
<1>7. ASSUME NEW m \in Inst, NEW p \in Proc, Watch(m, p)
      PROVE  WatchedOrBooting(n)'
  <2>1. UNCHANGED flight
    BY <1>7 DEF Watch, WatchExit, WatchDeaf, WatchRelease, WatchReap, WatchDecide,
       WatchGiveUp, WatchCrash, WatchSchedule
  <2>2. CASE m # n \/ p # procs[n]
    <3>1. procs'[n] = procs[n] \/ procs'[n] = NoPid
      BY <1>0, <1>7 DEF Watch, WatchExit, WatchDeaf, WatchRelease, WatchReap, WatchDecide,
         WatchGiveUp, WatchCrash, WatchSchedule, maps
    <3>2. procs[n] # NoPid => watch'[n][procs[n]] = watch[n][procs[n]]
      BY <1>0, <1>7, <2>2 DEF Watch, WatchExit, WatchDeaf, WatchRelease, WatchReap,
         WatchDecide, WatchGiveUp, WatchCrash, WatchSchedule, WatchGoto
    <3> QED BY <1>0, <1>2, <2>1, <3>1, <3>2, MissedStays
            DEF WatchedOrBooting, WatchAt
  <2>3. CASE WatchExit(n, procs[n]) /\ m = n /\ p = procs[n]
    BY <1>0, <1>2, <2>3 DEF WatchExit
  <2>4. CASE WatchDeaf(n, procs[n]) /\ m = n /\ p = procs[n]
    <3>1. /\ UNCHANGED <<procs, os>> /\ n \in Multi /\ ~Alive(n, procs[n])
          /\ watch'[n][procs[n]].pc = "deaf"
      <4>1. watch[n] \in [Proc -> WatchRec] /\ watch[n][p] \in WatchRec
        BY <1>0
      <4> QED BY <1>0, <2>4, <4>1 DEF WatchDeaf, WatchGoto, WatchRec, maps, world
    <3> QED BY <3>1 DEF WatchedOrBooting, Missed, WatchAt, Alive
  <2>5. CASE ~WatchExit(n, procs[n]) /\ ~WatchDeaf(n, procs[n])
             /\ m = n /\ p = procs[n]
    <3>1. UNCHANGED procs /\ watch[n][procs[n]].pc \notin {"wait", "deaf"}
      BY <1>7, <2>5 DEF Watch, WatchRelease, WatchReap, WatchDecide,
         WatchGiveUp, WatchCrash, WatchSchedule, WatchAt, maps
    <3> QED BY <1>0, <2>1, <3>1 DEF WatchedOrBooting, Missed, WatchAt
  <2> QED BY <2>2, <2>3, <2>4, <2>5
<1> QED BY <1>1, <1>2, <1>5, <1>6, <1>7, WatchedFrame

\* Every registered process is watched, or the boot that registered it is about
\* to start its watcher: no exit of a registered process goes unnoticed
\* (bootLocked's order of register and `go watch`, against Stop and watch).
THEOREM RegisteredAreWatched == Spec => []RegisteredIsWatched
<1>1. Init => RegisteredIsWatched
  BY DEF Init, RegisteredIsWatched
<1> QED BY <1>1, OneLifeHolds, WatchedStep, PTL DEF Spec

-----------------------------------------------------------------------------
(* What a registered process holds *)

\* What the boot f of n has acquired, at each of its steps.
Collects(n, f) ==
  /\ f.pc = "enter" => f.held = {}
  /\ f.pc \in DepPc \cup {"deps"} => f.held \cup f.todo = Deps[n]
  /\ f.pc \in {"prep", "spawn", "ready", "register"} => f.held = Deps[n]

HoldsDeps(n) == deps[n] = IF procs[n] # NoPid THEN Deps[n] ELSE {}

Holding == \A n \in Inst : Collects(n, flight[n]) /\ HoldsDeps(n)

LEMMA CollectsStep ==
  ASSUME Typed, Holding, [Next]_vars, NEW n \in Inst
  PROVE  Collects(n, flight'[n])
<1>0. /\ flight[n] \in FlightRec /\ flight \in [Inst -> FlightRec]
      /\ Aimed(n, flight[n]) /\ Collects(n, flight[n])
  BY DEF Typed, TypeOK, FlightTargets, Holding
<1>1. ASSUME NEW pc, Goto(n, pc)
      PROVE  /\ flight'[n].pc = pc /\ flight'[n].held = flight[n].held
             /\ flight'[n].todo = flight[n].todo
  BY <1>0, <1>1 DEF Goto, FlightRec
<1>2. \A f : f.pc \in {"none", "running", "pid", "converge", "onready",
                       "notready", "reread", "rerun", "rerunning", "unwind",
                       "failing", "failed"} => Collects(n, f)
  BY DEF Collects, DepPc
<1>3. NoFlight.pc = "none"
  BY DEF NoFlight
<1>4. CASE Started(n)
  <2>1. flight'[n].pc = "enter" /\ flight'[n].held = {}
    BY <1>4 DEF Started, NoFlight
  <2> QED BY <2>1 DEF Collects, DepPc
<1>5. CASE Woken(n)
  BY <1>0, <1>5 DEF Woken, Collects, DepPc, FlightRec
<1>6. ASSUME NEW ok, Finish(n, ok)
      PROVE  Collects(n, flight'[n])
  BY <1>2, <1>3, <1>6 DEF Finish
<1>7. CASE FlightEnter(n)
  <2>1. Goto(n, "reread") => flight'[n].pc = "reread"
    BY <1>1
  <2>2. ASSUME flight' = [flight EXCEPT ![n] = [@ EXCEPT !.pc = "deps", !.todo = Deps[n]]]
        PROVE  /\ flight'[n].pc = "deps" /\ flight'[n].todo = Deps[n]
               /\ flight'[n].held = flight[n].held
    BY <1>0, <2>2 DEF FlightRec
  <2>3. flight[n].held = {}
    BY <1>0, <1>7 DEF FlightEnter, At, Collects
  <2>4. CASE flight'[n].pc = "deps" /\ flight'[n].todo = Deps[n]
             /\ flight'[n].held = {}
    BY <2>4 DEF Collects, DepPc
  <2>5. flight'[n].pc = "reread" => Collects(n, flight'[n])
    BY <1>2
  <2> QED BY <1>6, <1>7, <2>1, <2>2, <2>3, <2>4, <2>5 DEF FlightEnter
<1>8. CASE FlightDeps(n)
  <2>1. flight[n].held \cup flight[n].todo = Deps[n]
    BY <1>0, <1>8 DEF FlightDeps, At, Collects
  <2>2. CASE flight[n].todo = {} /\ Goto(n, "prep")
    BY <1>1, <2>1, <2>2 DEF Collects, DepPc
  <2>3. ASSUME NEW d, NEW pc \in {"depcall", "failing"},
               flight' = [flight EXCEPT ![n] = [@ EXCEPT !.pc = pc, !.dep = d]]
        PROVE  /\ flight'[n].pc = pc /\ flight'[n].held = flight[n].held
               /\ flight'[n].todo = flight[n].todo
    BY <1>0, <2>3 DEF FlightRec
  <2>4. CASE /\ flight'[n].pc \in {"depcall", "failing"}
             /\ flight'[n].held = flight[n].held
             /\ flight'[n].todo = flight[n].todo
    BY <2>1, <2>4 DEF Collects, DepPc
  <2> QED BY <1>8, <2>2, <2>3, <2>4 DEF FlightDeps
<1>9. CASE FlightDepCall(n)
  <2> DEFINE d == flight[n].dep
             f == [flight EXCEPT ![n].pc = "depwait"]
  <2>0. flight[n].held \cup flight[n].todo = Deps[n] /\ d \in Inst
    BY <1>0, <1>9, ConstantsOK DEF FlightDepCall, At, Collects, DepPc, Aimed,
       ConstantsOK
  <2>1. /\ f \in [Inst -> FlightRec] /\ f[n].pc = "depwait"
        /\ f[n].held = flight[n].held /\ f[n].todo = flight[n].todo
    BY <1>0, FlightPcs DEF FlightRec
  <2>2. CondOf(n, d) \in {"healthy", "started"}
    BY DEF CondOf
  <2>3. CASE flight' = [flight EXCEPT ![n].pc = "depup"]
    BY <1>0, <2>0, <2>3 DEF FlightRec, Collects, DepPc
  <2>4. CASE flight' = Do(f, d, CondOf(n, d))
    <3> HIDE DEF d, f
    <3>1. flight'[n] = f[n]
      BY <2>0, <2>1, <2>2, <2>4, DoStarts
    <3> QED BY <2>0, <2>1, <3>1 DEF Collects, DepPc
  <2> QED BY <1>9, <2>3, <2>4 DEF FlightDepCall
<1>10. CASE FlightDepAcquire(n)
  <2> DEFINE d == flight[n].dep
  <2>1. flight[n].held \cup flight[n].todo = Deps[n] /\ d \in Deps[n]
    BY <1>0, <1>10 DEF FlightDepAcquire, At, Collects, DepPc, Aimed
  <2>2. /\ flight'[n].pc = "deps" /\ flight'[n].todo = flight[n].todo \ {d}
        /\ flight'[n].held = flight[n].held \cup {d}
    BY <1>0, <1>10 DEF FlightDepAcquire, FlightRec
  <2> HIDE DEF d
  <2>3. (flight[n].held \cup {d}) \cup (flight[n].todo \ {d}) = Deps[n]
    BY <2>1
  <2> QED BY <2>2, <2>3 DEF Collects, DepPc
<1>11. CASE FlightPrep(n) \/ FlightReady(n)
  BY <1>0, <1>1, <1>11 DEF FlightPrep, FlightReady, At, Collects, DepPc
<1>12. CASE FlightSpawn(n)
  <2>1. ASSUME NEW p, flight' = [flight EXCEPT ![n] = [@ EXCEPT !.pc = "ready", !.p = p]]
        PROVE  flight'[n].pc = "ready" /\ flight'[n].held = flight[n].held
    BY <1>0, <2>1 DEF FlightRec
  <2>2. flight[n].held = Deps[n]
    BY <1>0, <1>12 DEF FlightSpawn, At, Collects
  <2>3. CASE flight'[n].pc \in {"ready", "failing"}
             /\ flight'[n].held = flight[n].held
    BY <2>2, <2>3 DEF Collects, DepPc
  <2> QED BY <1>1, <1>12, <2>1, <2>3 DEF FlightSpawn
<1>13. CASE FlightFailing(n)
  <2>1. flight'[n].pc = "failed"
    BY <1>0, <1>13 DEF FlightFailing, FlightRec
  <2> QED BY <1>2, <2>1
<1>14. ASSUME NEW pc \in {"running", "pid", "converge", "onready", "notready",
                          "rerunning", "unwind", "failing"}, Goto(n, pc)
       PROVE  Collects(n, flight'[n])
  BY <1>1, <1>2, <1>14
<1>15. CASE FlightRegister(n) \/ FlightRunning(n) \/ FlightConverge(n)
              \/ FlightUnwind(n)
  BY <1>14, <1>15 DEF FlightRegister, FlightRunning, FlightConverge,
     FlightUnwind
<1>19. CASE FlightPid(n)
  <2>1. Goto(n, "converge") \/ Goto(n, "onready")
    BY <1>19 DEF FlightPid
  <2> QED BY <1>14, <2>1
<1>16. CASE FlightOnReady(n) \/ FlightRerun(n)
  BY <1>6, <1>14, <1>16 DEF FlightOnReady, FlightRerun
<1>17. CASE FlightNotReady(n) \/ FlightRerunning(n) \/ FlightFailed(n)
  BY <1>6, <1>17 DEF FlightNotReady, FlightRerunning, FlightFailed
<1>20. CASE FlightReread(n)
  <2>1. flight'[n].pc = "rerun"
    BY <1>0, <1>20 DEF FlightReread, FlightRec
  <2> QED BY <1>2, <2>1
<1>18. CASE Flight(n)
  BY <1>7, <1>8, <1>9, <1>10, <1>11, <1>12, <1>13, <1>15, <1>16, <1>17, <1>18,
     <1>19, <1>20 DEF Flight
<1> QED BY <1>0, <1>2, <1>3, <1>4, <1>5, <1>18, FlightFrame

LEMMA HoldsStep ==
  ASSUME Typed, OneLife, Holding, [Next]_vars, NEW n \in Inst
  PROVE  HoldsDeps(n)'
<1>0. /\ procs \in [Inst -> Proc \cup {NoPid}] /\ deps \in [Inst -> SUBSET Inst]
      /\ HoldsDeps(n)
  BY DEF Typed, TypeOK, Holding
<1>1. CASE UNCHANGED <<procs, deps>>
  BY <1>0, <1>1 DEF HoldsDeps
<1>2. ASSUME NEW m \in Inst, procs' = [procs EXCEPT ![m] = NoPid],
             deps' = HoldsDropped(m)
      PROVE  HoldsDeps(n)'
  BY <1>0, <1>2 DEF HoldsDeps, HoldsDropped
<1>3. ASSUME NEW c \in Clients, Client(c)
      PROVE  UNCHANGED <<procs, deps>>
  BY <1>3 DEF Client, ClientCall, ClientBoot, ClientDial, ClientRefused,
     ClientAcquire, ClientRelease, maps
<1>4. ASSUME NEW m \in Inst, FlightRegister(m)
      PROVE  HoldsDeps(n)'
  <2>1. flight[m].held = Deps[m]
    BY <1>4 DEF FlightRegister, At, Holding, Collects
  <2>2. flight[m].p # NoPid
    BY <1>4 DEF FlightRegister, At, OneLife, FreshBoot, StartPc, Proc, NoPid
  <2> QED BY <1>0, <1>4, <2>1, <2>2 DEF FlightRegister, HoldsDeps
<1>5. ASSUME NEW m \in Inst, FlightConverge(m)
      PROVE  HoldsDeps(n)'
  BY <1>1, <1>2, <1>5 DEF FlightConverge
<1>6. ASSUME NEW m \in Inst, Flight(m), ~FlightRegister(m), ~FlightConverge(m)
      PROVE  UNCHANGED <<procs, deps>>
  BY <1>6 DEF Flight, FlightEnter, FlightDeps, FlightDepCall,
     FlightDepAcquire, FlightPrep, FlightSpawn, FlightReady, FlightRunning,
     FlightPid, FlightUnwind, FlightOnReady, FlightNotReady, FlightReread, FlightRerun,
     FlightRerunning, FlightFailing, FlightFailed, maps
<1>7. ASSUME NEW m \in Inst, NEW p \in Proc, Watch(m, p)
      PROVE  HoldsDeps(n)'
  <2>1. CASE WatchExit(m, p)
    BY <1>1, <1>2, <2>1 DEF WatchExit
  <2>2. CASE ~WatchExit(m, p)
    <3>1. UNCHANGED <<procs, deps>>
      BY <1>7, <2>2 DEF Watch, WatchDeaf, WatchRelease, WatchReap, WatchDecide,
         WatchGiveUp, WatchCrash, WatchSchedule, maps
    <3> QED BY <1>1, <3>1
  <2> QED BY <2>1, <2>2
<1>8. ASSUME NEW m \in Inst, NEW p \in Proc, Exit(m, p) \/ Timer(m, p)
      PROVE  UNCHANGED <<procs, deps>>
  BY <1>8 DEF Exit, Timer, TimerFires, TimerCancelled, TimerGate, TimerBoot,
     maps
<1>9. ASSUME NEW t, NEW m \in Inst, Take(t, m)
      PROVE  HoldsDeps(n)'
  BY <1>2, <1>9 DEF Take
<1>10. ASSUME NEW t \in Stopper, Stop(t)
       PROVE  HoldsDeps(n)'
  <2>1. stop[t].pc = "none" \/ stop[t].at \in Inst
    BY DEF Typed, StopTargets
  <2> QED BY <1>1, <1>9, <1>10, <2>1 DEF Stop, StopAt, StopTake, StopReset,
        StopKill, StopRelease, StopReap, maps
<1>11. ASSUME NEW u \in Users, User(u)
       PROVE  HoldsDeps(n)'
  BY <1>1, <1>9, <1>11 DEF User, UserStop, UserOff, UserOn, UserPin, maps
<1>12. CASE Reap
  BY <1>1, <1>9, <1>12 DEF Reap, ReaperTick, ReaperStop, maps
<1>13. CASE UNCHANGED vars \/ Sweep \/ Reconcile
  BY <1>1, <1>13 DEF vars, Sweep, SweepBegin, SweepSnapshot, SweepPassed,
     Reconcile, maps
<1>14. CASE Crash
  BY <1>14 DEF Crash, DaemonCrash, Panic, Dies, HoldsDeps
<1> QED BY <1>1, <1>3, <1>4, <1>5, <1>6, <1>7, <1>8, <1>10, <1>11, <1>12,
      <1>13, <1>14 DEF Next, Crash

LEMMA HoldingHolds == Spec => [](Typed /\ OneLife /\ Holding)
<1>1. Init => Holding
  BY DEF Init, Holding, HoldsDeps, Collects, NoFlight, DepPc
<1>2. Typed /\ OneLife /\ Holding /\ [Next]_vars => Holding'
  <2> SUFFICES ASSUME Typed, OneLife, Holding, [Next]_vars, NEW n \in Inst
               PROVE  Collects(n, flight'[n]) /\ HoldsDeps(n)'
    BY DEF Holding, HoldsDeps, Collects
  <2> QED BY CollectsStep, HoldsStep
<1> QED BY <1>1, <1>2, OneLifeHolds, PTL DEF Spec

\* A registered process holds exactly the dependencies it was booted with, and
\* nothing is held in the map for an instance without one (bootDeps, register,
\* and every place that takes the holds back).
THEOREM HoldsAreDeps == Spec => []RegisteredHoldsDeps
<1>1. Holding => RegisteredHoldsDeps
  BY DEF Holding, HoldsDeps, RegisteredHoldsDeps
<1> QED BY <1>1, HoldingHolds, PTL

-----------------------------------------------------------------------------
(* What is registered is recorded on disk *)

\* Nobody has yet to remove a record of n: no watcher and no Stop is past
\* taking a process of it out of the maps.
NoCleanup(n) ==
  /\ \A q \in Proc : watch[n][q].pc \notin {"release", "reap"}
  /\ \A t \in Stopper : stop[t].at = n =>
       \/ stop[t].pc \in {"none", "take"}
       \/ stop[t].pc = "reset" /\ stop[t].p = NoPid /\ stop[t].held = {}

NoneBorn(n) == \A q \in Proc : os[n][q] = "unborn"

\* The first process of n is started and not registered yet.
FirstBoot(n) == flight[n].pc \in {"ready", "register"} /\ flight[n].p = 1

\* Before and while the first process of n is registered nothing of n was taken
\* out of the maps, so nobody is there to remove its record late.
First(n) ==
  /\ \A p, q \in Proc : q < p /\ os[n][p] # "unborn" => os[n][q] # "unborn"
  /\ NoneBorn(n) \/ FirstBoot(n) => procs[n] = NoPid
  /\ NoneBorn(n) \/ FirstBoot(n) \/ procs[n] = 1 => NoCleanup(n)

\* A daemon that is down has nothing in memory.
Emptied ==
  ~life.up =>
    /\ \A n \in Inst : procs[n] = NoPid /\ flight[n].pc = "none"
    /\ \A n \in Inst, p \in Proc : watch[n][p].pc = "none" /\ timer[n][p] = "none"
    /\ \A c \in Clients : client[c].pc = "out"
    /\ \A t \in Stopper : stop[t].pc = "none"
    /\ due = {} /\ sweep = "no"

\* The record of n on disk against the map.
OnRecord(n) ==
  /\ flight[n].pc \in {"running", "pid"} => procs[n] \in {NoPid, flight[n].p}
  /\ flight[n].pc = "unwind" => procs[n] = NoPid
  /\ procs[n] # NoPid /\ flight[n].pc \notin {"running", "pid"} =>
       \/ pidfile[n] = procs[n]
       \/ pidfile[n] = NoPid /\ procs[n] > 1

Recording == Emptied /\ \A n \in Inst : First(n) /\ OnRecord(n)

\* A daemon goes down by a crash and comes up by reconciling.
LEMMA LifeFrame ==
  ASSUME [Next]_vars
  PROVE  UNCHANGED life \/ Crash \/ Reconcile
<1>1. ASSUME NEW c \in Clients, Client(c)
      PROVE  UNCHANGED life
  BY <1>1 DEF Client, ClientCall, ClientBoot, ClientDial, ClientRefused,
     ClientAcquire, ClientRelease, control
<1>2. ASSUME NEW n \in Inst, Flight(n)
      PROVE  UNCHANGED life
  BY <1>2 DEF Flight, FlightEnter, FlightDeps, FlightDepCall,
     FlightDepAcquire, FlightPrep, FlightSpawn, FlightReady, FlightRegister,
     FlightRunning, FlightPid, FlightConverge, FlightUnwind, FlightOnReady,
     FlightNotReady, FlightReread, FlightRerun, FlightRerunning,
     FlightFailing, FlightFailed, control
<1>3. ASSUME NEW n \in Inst, NEW p \in Proc,
             Exit(n, p) \/ Watch(n, p) \/ Timer(n, p)
      PROVE  UNCHANGED life
  BY <1>3 DEF Exit, Watch, WatchExit, WatchDeaf, WatchRelease, WatchReap,
     WatchDecide, WatchGiveUp, WatchCrash, WatchSchedule, Timer, TimerFires,
     TimerCancelled, TimerGate, TimerBoot, control
<1>4. ASSUME NEW t \in Stopper, Stop(t)
      PROVE  UNCHANGED life
  BY <1>4 DEF Stop, StopTake, StopReset, StopKill, StopRelease, StopReap,
     control
<1>5. ASSUME NEW u \in Users, User(u)
      PROVE  UNCHANGED life
  BY <1>5 DEF User, UserStop, UserOff, UserOn, UserPin, control
<1>6. CASE UNCHANGED vars \/ Reap \/ Sweep
  BY <1>6 DEF vars, Reap, ReaperTick, ReaperStop, Sweep, SweepBegin,
     SweepSnapshot, SweepPassed, control
<1> QED BY <1>1, <1>2, <1>3, <1>4, <1>5, <1>6 DEF Next, Crash

\* While the daemon is down only processes end, until it reconciles.
LEMMA DownStep ==
  ASSUME Typed, Emptied, ~life.up, [Next]_vars
  PROVE  \/ Reconcile
         \/ UNCHANGED <<procs, flight, watch, timer, client, stop, due, sweep>>
<1>1. ASSUME NEW c \in Clients, Client(c)
      PROVE  FALSE
  BY <1>1 DEF Client, ClientCall, ClientBoot, ClientDial, ClientRefused,
     ClientAcquire, ClientRelease, Emptied
<1>2. ASSUME NEW n \in Inst, Flight(n) \/ Panic(n)
      PROVE  FALSE
  BY <1>2, OwnFlight DEF Emptied, Panic, At
<1>3. ASSUME NEW n \in Inst, NEW p \in Proc, Watch(n, p) \/ Timer(n, p)
      PROVE  FALSE
  BY <1>3 DEF Watch, WatchExit, WatchDeaf, WatchRelease, WatchReap,
     WatchDecide, WatchGiveUp, WatchCrash, WatchSchedule, WatchAt, Timer,
     TimerFires, TimerCancelled, TimerGate, TimerBoot, Emptied
<1>4. ASSUME NEW t \in Stopper, Stop(t)
      PROVE  FALSE
  BY <1>4 DEF Stop, StopTake, StopReset, StopKill, StopRelease, StopReap,
     StopAt, Emptied
<1>5. ASSUME NEW u \in Users, User(u)
      PROVE  FALSE
  BY <1>5 DEF User, UserStop, UserOff, UserOn, UserPin
<1>6. CASE Reap \/ Sweep \/ DaemonCrash
  BY <1>6 DEF Reap, ReaperTick, ReaperStop, Sweep, SweepBegin, SweepSnapshot,
     SweepPassed, DaemonCrash, Emptied
<1>7. ASSUME NEW n \in Inst, NEW p \in Proc, Exit(n, p)
      PROVE  UNCHANGED <<procs, flight, watch, timer, client, stop, due, sweep>>
  BY <1>7 DEF Exit, maps, control
<1>8. CASE UNCHANGED vars
  BY <1>8 DEF vars, maps, control
<1> QED BY <1>1, <1>2, <1>3, <1>4, <1>5, <1>6, <1>7, <1>8 DEF Next

LEMMA EmptiedStep ==
  ASSUME Typed, Emptied, [Next]_vars
  PROVE  Emptied'
<1>1. CASE Crash
  <2>1. /\ NoFlight.pc = "none" /\ NoWatch.pc = "none" /\ NoClient.pc = "out"
        /\ NoStop.pc = "none"
    BY DEF NoFlight, NoWatch, NoClient, NoStop
  <2>2. Dies
    BY <1>1 DEF Crash, DaemonCrash, Panic
  <2> QED BY <2>1, <2>2 DEF Dies, Emptied
<1>2. CASE Reconcile
  BY <1>2 DEF Reconcile, Emptied, Typed, TypeOK
<1>3. CASE UNCHANGED life
  <2>1. CASE life.up
    BY <1>3, <2>1 DEF Emptied
  <2>2. CASE ~life.up
    BY <1>2, <1>3, <2>2, DownStep DEF Emptied
  <2> QED BY <2>1, <2>2
<1> QED BY <1>1, <1>2, <1>3, LifeFrame

\* Only the spawn of a boot starts a process, and it starts the next one.
LEMMA SpawnFrame ==
  ASSUME Typed, [Next]_vars, NEW n \in Inst, NEW p \in Proc,
         os[n][p] = "unborn", os'[n][p] # "unborn"
  PROVE  \A q \in Proc : q < p => os[n][q] # "unborn"
<1>0. os \in [Inst -> [Proc -> OsState]]
  BY DEF Typed, TypeOK
<1>1. ASSUME NEW m, NEW q, Kill(m, q)
      PROVE  FALSE
  <2>1. os' = [os EXCEPT ![m][q] = IF @ = "alive" THEN "exit1" ELSE @]
    BY <1>1 DEF Kill
  <2> QED BY <1>0, <2>1
<1>2. ASSUME NEW c \in Clients, Client(c)
      PROVE  FALSE
  BY <1>2 DEF Client, ClientCall, ClientBoot, ClientDial, ClientRefused,
     ClientAcquire, ClientRelease, world
<1>3. ASSUME NEW m \in Inst, Flight(m)
      PROVE  \A q \in Proc : q < p => os[n][q] # "unborn"
  <2>1. CASE FlightSpawn(m)
    <3>1. PICK r \in Proc :
            /\ \A q \in Proc : q < r => os[m][q] # "unborn"
            /\ os' = [os EXCEPT ![m][r] = "alive"]
      BY <2>1 DEF FlightSpawn
    <3>2. m = n /\ r = p
      BY <1>0, <3>1
    <3> QED BY <3>1, <3>2
  <2>2. CASE UNCHANGED os
    BY <2>2
  <2> QED BY <1>1, <1>3, <2>1, <2>2 DEF Flight, FlightEnter, FlightDeps,
        FlightDepCall, FlightDepAcquire, FlightPrep, FlightReady,
        FlightRegister, FlightRunning, FlightPid, FlightConverge,
        FlightUnwind, FlightOnReady, FlightNotReady, FlightReread,
        FlightRerun, FlightRerunning, FlightFailing, FlightFailed, world
<1>4. ASSUME NEW m \in Inst, NEW q \in Proc, Exit(m, q)
      PROVE  FALSE
  <2>1. PICK how \in Exits : os' = [os EXCEPT ![m][q] = how]
    BY <1>4 DEF Exit
  <2>2. os[m][q] = "alive"
    BY <1>4 DEF Exit
  <2> QED BY <1>0, <2>1, <2>2
<1>5. ASSUME NEW m \in Inst, NEW q \in Proc, Watch(m, q) \/ Timer(m, q)
      PROVE  FALSE
  BY <1>5 DEF Watch, WatchExit, WatchDeaf, WatchRelease, WatchReap,
     WatchDecide, WatchGiveUp, WatchCrash, WatchSchedule, Timer, TimerFires,
     TimerCancelled, TimerGate, TimerBoot, world
<1>6. ASSUME NEW t \in Stopper, Stop(t)
      PROVE  FALSE
  BY <1>1, <1>6 DEF Stop, StopTake, StopReset, StopKill, StopRelease, StopReap,
     world
<1>7. ASSUME NEW u \in Users, User(u)
      PROVE  FALSE
  BY <1>7 DEF User, UserStop, UserOff, UserOn, UserPin, world
<1>8. ~(UNCHANGED vars \/ Reap \/ Sweep \/ Crash)
  BY DEF vars, Reap, ReaperTick, ReaperStop, Sweep, SweepBegin,
     SweepSnapshot, SweepPassed, Crash, DaemonCrash, Panic, Dies, world
<1>9. ~Reconcile
  BY <1>0 DEF Reconcile
<1> QED BY <1>2, <1>3, <1>4, <1>5, <1>6, <1>7, <1>8, <1>9 DEF Next, Crash

\* Only the registration of a boot puts a process in the map.
LEMMA ProcsFrame ==
  ASSUME Typed, [Next]_vars, NEW n \in Inst
  PROVE  procs'[n] = procs[n] \/ procs'[n] = NoPid \/ FlightRegister(n)
<1>0. procs \in [Inst -> Proc \cup {NoPid}]
  BY DEF Typed, TypeOK
<1>1. ASSUME Flight(n), ~FlightRegister(n)
      PROVE  procs'[n] = procs[n] \/ procs'[n] = NoPid
  BY <1>0, <1>1 DEF Flight, FlightEnter, FlightDeps, FlightDepCall,
     FlightDepAcquire, FlightPrep, FlightSpawn, FlightReady, FlightRunning,
     FlightPid, FlightConverge, FlightUnwind, FlightOnReady, FlightNotReady,
     FlightReread, FlightRerun, FlightRerunning, FlightFailing, FlightFailed,
     maps
<1>2. ASSUME NEW m \in Inst, NEW p \in Proc, Watch(m, p)
      PROVE  procs'[n] = procs[n] \/ procs'[n] = NoPid
  BY <1>0, <1>2 DEF Watch, WatchExit, WatchDeaf, WatchRelease, WatchReap,
     WatchDecide, WatchGiveUp, WatchCrash, WatchSchedule, maps
<1> QED BY <1>1, <1>2, WatchedFrame

\* Who writes and who removes the record of n.
LEMMA PidfileFrame ==
  ASSUME Typed, [Next]_vars, NEW n \in Inst
  PROVE  \/ pidfile'[n] = pidfile[n]
         \/ FlightPid(n) \/ FlightUnwind(n) \/ Reconcile
         \/ \E p \in Proc : WatchReap(n, p)
         \/ \E t \in Stopper : StopReap(t) /\ stop[t].at = n
<1>0. pidfile \in [Inst -> Proc \cup {NoPid}]
  BY DEF Typed, TypeOK
<1>1. ASSUME NEW c \in Clients, Client(c)
      PROVE  UNCHANGED pidfile
  BY <1>1 DEF Client, ClientCall, ClientBoot, ClientDial, ClientRefused,
     ClientAcquire, ClientRelease, world
<1>2. ASSUME NEW m \in Inst, Flight(m)
      PROVE  pidfile'[n] = pidfile[n] \/ FlightPid(n) \/ FlightUnwind(n)
  BY <1>0, <1>2 DEF Flight, FlightEnter, FlightDeps, FlightDepCall,
     FlightDepAcquire, FlightPrep, FlightSpawn, FlightReady, FlightRegister,
     FlightRunning, FlightPid, FlightConverge, FlightUnwind, FlightOnReady,
     FlightNotReady, FlightReread, FlightRerun, FlightRerunning,
     FlightFailing, FlightFailed, world
<1>3. ASSUME NEW m \in Inst, NEW p \in Proc,
             Exit(m, p) \/ Watch(m, p) \/ Timer(m, p)
      PROVE  pidfile'[n] = pidfile[n] \/ WatchReap(n, p)
  BY <1>0, <1>3 DEF Exit, Watch, WatchExit, WatchDeaf, WatchRelease,
     WatchReap, WatchDecide, WatchGiveUp, WatchCrash, WatchSchedule, Timer,
     TimerFires, TimerCancelled, TimerGate, TimerBoot, world
<1>4. ASSUME NEW t \in Stopper, Stop(t)
      PROVE  pidfile'[n] = pidfile[n] \/ (StopReap(t) /\ stop[t].at = n)
  BY <1>0, <1>4 DEF Stop, StopTake, StopReset, StopKill, StopRelease, StopReap,
     world
<1>5. ASSUME NEW u \in Users, User(u)
      PROVE  UNCHANGED pidfile
  BY <1>5 DEF User, UserStop, UserOff, UserOn, UserPin, world
<1>6. CASE UNCHANGED vars \/ Reap \/ Sweep \/ Crash
  BY <1>6 DEF vars, Reap, ReaperTick, ReaperStop, Sweep, SweepBegin,
     SweepSnapshot, SweepPassed, Crash, DaemonCrash, Panic, Dies, world
<1> QED BY <1>1, <1>2, <1>3, <1>4, <1>5, <1>6 DEF Next, Crash

\* A call of Stop is begun, takes the maps, or takes its own next step.
LEMMA StopFrame ==
  ASSUME Typed, [Next]_vars, NEW t \in Stopper
  PROVE  \/ stop'[t] = stop[t]
         \/ stop'[t].pc \in {"none", "take"}
         \/ \E m \in Inst : Take(t, m) /\ UNCHANGED <<flight, os>>
         \/ StopReset(t) /\ ~(stop[t].p = NoPid /\ stop[t].held = {})
                         /\ stop'[t] = [stop[t] EXCEPT !.pc = "kill"]
         \/ StopKill(t) /\ stop'[t] = [stop[t] EXCEPT !.pc = "release"]
         \/ StopRelease(t) /\ stop'[t] = [stop[t] EXCEPT !.pc = "reap", !.held = {}]
<1>0. stop \in [Stopper -> StopRec] /\ NoStop.pc = "none"
  BY DEF Typed, TypeOK, NoStop
<1>1. ASSUME NEW c \in Clients, Client(c)
      PROVE  UNCHANGED stop
  BY <1>1 DEF Client, ClientCall, ClientBoot, ClientDial, ClientRefused,
     ClientAcquire, ClientRelease
<1>2. ASSUME NEW m \in Inst, Flight(m)
      PROVE  UNCHANGED stop
  BY <1>2 DEF Flight, FlightEnter, FlightDeps, FlightDepCall,
     FlightDepAcquire, FlightPrep, FlightSpawn, FlightReady, FlightRegister,
     FlightRunning, FlightPid, FlightConverge, FlightUnwind, FlightOnReady,
     FlightNotReady, FlightReread, FlightRerun, FlightRerunning,
     FlightFailing, FlightFailed
<1>3. ASSUME NEW m \in Inst, NEW p \in Proc,
             Exit(m, p) \/ Watch(m, p) \/ Timer(m, p)
      PROVE  UNCHANGED stop
  BY <1>3 DEF Exit, Watch, WatchExit, WatchDeaf, WatchRelease, WatchReap,
     WatchDecide, WatchGiveUp, WatchCrash, WatchSchedule, Timer, TimerFires,
     TimerCancelled, TimerGate, TimerBoot
<1>4. ASSUME NEW u \in Stopper, u # t, NEW r, stop' = [stop EXCEPT ![u] = r]
      PROVE  stop'[t] = stop[t]
  BY <1>0, <1>4
<1>5. ASSUME NEW u \in Stopper, Stop(u)
      PROVE  \/ stop'[t] = stop[t]
             \/ stop'[t].pc \in {"none", "take"}
             \/ \E m \in Inst : Take(t, m) /\ UNCHANGED <<flight, os>>
             \/ StopReset(t) /\ ~(stop[t].p = NoPid /\ stop[t].held = {})
                             /\ stop'[t] = [stop[t] EXCEPT !.pc = "kill"]
             \/ StopKill(t) /\ stop'[t] = [stop[t] EXCEPT !.pc = "release"]
             \/ StopRelease(t) /\ stop'[t] = [stop[t] EXCEPT !.pc = "reap", !.held = {}]
  <2>1. CASE u # t
    <3>1. \E r : stop' = [stop EXCEPT ![u] = r]
      BY <1>5 DEF Stop, StopTake, Take, StopReset, StopKill, StopRelease,
         StopReap
    <3> QED BY <1>4, <2>1, <3>1
  <2>2. CASE u = t
    <3>1. StopTake(t) => stop[t].at \in Inst
      BY DEF StopTake, StopAt, Typed, StopTargets
    <3>2. StopTake(t) => \E m \in Inst : Take(t, m) /\ UNCHANGED <<flight, os>>
      BY <3>1 DEF StopTake, world
    <3>3. StopReset(t) =>
            \/ stop'[t].pc = "none"
            \/ /\ ~(stop[t].p = NoPid /\ stop[t].held = {})
               /\ stop'[t] = [stop[t] EXCEPT !.pc = "kill"]
      BY <1>0 DEF StopReset
    <3>4. /\ StopKill(t) => stop'[t] = [stop[t] EXCEPT !.pc = "release"]
          /\ StopRelease(t) => stop'[t] = [stop[t] EXCEPT !.pc = "reap", !.held = {}]
          /\ StopReap(t) => stop'[t].pc = "none"
      BY <1>0 DEF StopKill, StopRelease, StopReap
    <3> QED BY <1>5, <2>2, <3>2, <3>3, <3>4 DEF Stop
  <2> QED BY <2>1, <2>2
<1>6. ASSUME NEW u \in Stopper, NEW m \in Inst, Take(u, m), UNCHANGED <<flight, os>>
      PROVE  stop'[t] = stop[t] \/ \E k \in Inst : Take(t, k) /\ UNCHANGED <<flight, os>>
  <2>1. CASE u # t
    BY <1>4, <1>6, <2>1 DEF Take
  <2>2. CASE u = t
    BY <1>6, <2>2
  <2> QED BY <2>1, <2>2
<1>7. ASSUME NEW u \in Users, User(u)
      PROVE  \/ stop'[t] = stop[t] \/ stop'[t].pc = "take"
             \/ \E k \in Inst : Take(t, k) /\ UNCHANGED <<flight, os>>
  <2>0. u \in Stopper
    BY DEF Stopper
  <2>1. PICK m \in Inst : UserStop(u, m) \/ UserOff(u, m) \/ UserOn(u, m)
                          \/ UserPin(u, m)
    BY <1>7 DEF User
  <2>2. CASE UserStop(u, m)
    BY <1>6, <2>0, <2>2 DEF UserStop, world
  <2>3. CASE UserOff(u, m)
    <3>1. [NoStop EXCEPT !.pc = "take", !.at = m].pc = "take"
      BY DEF NoStop
    <3> QED BY <1>0, <2>3, <3>1 DEF UserOff
  <2>4. CASE UserOn(u, m) \/ UserPin(u, m)
    BY <2>4 DEF UserOn, UserPin
  <2> QED BY <2>1, <2>2, <2>3, <2>4
<1>8. CASE Reap
  <2>1. Reaper \in Stopper
    BY DEF Stopper
  <2>2. ASSUME NEW m \in Inst, ReaperStop(m)
        PROVE  stop'[t] = stop[t] \/ \E k \in Inst : Take(t, k) /\ UNCHANGED <<flight, os>>
    BY <1>6, <2>1, <2>2 DEF ReaperStop, world
  <2>3. CASE ReaperTick
    BY <2>3 DEF ReaperTick
  <2> QED BY <1>8, <2>2, <2>3 DEF Reap
<1>9. CASE Sweep
  <2>1. CASE SweepSnapshot
    <3>1. [NoStop EXCEPT !.pc = "take", !.at = t].pc = "take"
      BY DEF NoStop
    <3> QED BY <2>1, <3>1 DEF SweepSnapshot
  <2>2. CASE SweepBegin \/ SweepPassed
    BY <2>2 DEF SweepBegin, SweepPassed
  <2> QED BY <1>9, <2>1, <2>2 DEF Sweep
<1>10. CASE Crash
  BY <1>0, <1>10 DEF Crash, DaemonCrash, Panic, Dies
<1>11. CASE UNCHANGED vars \/ Reconcile
  BY <1>11 DEF vars, Reconcile
<1> QED BY <1>1, <1>2, <1>3, <1>5, <1>7, <1>8, <1>9, <1>10, <1>11 DEF Next, Crash

\* How a boot comes to, and leaves, the steps between register and the pidfile,
\* and how it comes to take its process back.
LEMMA FlightPhase ==
  ASSUME Typed, [Next]_vars, NEW n \in Inst
  PROVE  /\ flight'[n].pc \in {"running", "pid"} =>
              \/ FlightRegister(n) /\ flight'[n].p = flight[n].p
              \/ /\ flight[n].pc \in {"running", "pid"}
                 /\ flight'[n].p = flight[n].p /\ ~FlightPid(n)
         /\ flight[n].pc \in {"running", "pid"} =>
              flight'[n].pc \in {"running", "pid"} \/ FlightPid(n) \/ Crash
         /\ flight'[n].pc = "unwind" =>
              flight[n].pc = "unwind" \/ procs'[n] = NoPid
<1>0. /\ flight[n] \in FlightRec /\ flight \in [Inst -> FlightRec]
      /\ procs \in [Inst -> Proc \cup {NoPid}]
  BY DEF Typed, TypeOK
<1>1. ASSUME NEW pc, Goto(n, pc)
      PROVE  flight'[n].pc = pc /\ flight'[n].p = flight[n].p
  BY <1>0, <1>1 DEF Goto, FlightRec
<1>2. /\ Started(n) => flight[n].pc = "none" /\ flight'[n].pc = "enter"
      /\ Woken(n) => flight[n].pc = "depwait" /\ flight'[n].pc \in {"depup", "failing"}
      /\ NoFlight.pc = "none"
  BY <1>0 DEF Started, Woken, NoFlight, FlightRec
<1>3. ASSUME flight[n].pc \in {"running", "pid"}
      PROVE  flight'[n].pc \in {"running", "pid"} \/ FlightPid(n) \/ Crash
  <2>1. CASE FlightRunning(n)
    BY <1>1, <2>1 DEF FlightRunning
  <2>2. Flight(n) => FlightRunning(n) \/ FlightPid(n)
    BY <1>3 DEF Flight, FlightEnter, FlightDeps, FlightDepCall,
       FlightDepAcquire, FlightPrep, FlightSpawn, FlightReady, FlightRegister,
       FlightConverge, FlightUnwind, FlightOnReady, FlightNotReady,
       FlightReread, FlightRerun, FlightRerunning, FlightFailing,
       FlightFailed, At
  <2> QED BY <1>2, <1>3, <2>1, <2>2, FlightFrame
<1>4. ASSUME flight'[n].pc \in {"running", "pid"}
      PROVE  \/ FlightRegister(n) /\ flight'[n].p = flight[n].p
             \/ /\ flight[n].pc \in {"running", "pid"}
                /\ flight'[n].p = flight[n].p /\ ~FlightPid(n)
  <2>1. \/ /\ flight[n].pc \in StartPc /\ flight'[n].p = flight[n].p
           /\ ~FlightPid(n)
        \/ FlightSpawn(n)
    BY <1>4, StartPcFrame DEF StartPc
  <2>2. ~FlightSpawn(n)
    <3>1. ASSUME NEW p \in Proc,
                 flight' = [flight EXCEPT ![n] = [@ EXCEPT !.pc = "ready", !.p = p]]
          PROVE  flight'[n].pc = "ready"
      BY <1>0, <3>1 DEF FlightRec
    <3>2. Goto(n, "failing") => flight'[n].pc = "failing"
      BY <1>1
    <3>3. FlightSpawn(n) => flight'[n].pc \in {"ready", "failing"}
      BY <3>1, <3>2 DEF FlightSpawn
    <3> QED BY <1>4, <3>3
  <2>3. CASE flight[n].pc \in {"ready", "register"}
    <3>1. Flight(n) => FlightReady(n) \/ FlightRegister(n)
      BY <2>3 DEF Flight, FlightEnter, FlightDeps, FlightDepCall,
         FlightDepAcquire, FlightPrep, FlightSpawn, FlightRunning, FlightPid,
         FlightConverge, FlightUnwind, FlightOnReady, FlightNotReady,
         FlightReread, FlightRerun, FlightRerunning, FlightFailing,
         FlightFailed, At
    <3>2. ~FlightReady(n)
      BY <1>1, <1>4 DEF FlightReady
    <3> QED BY <1>2, <1>4, <2>1, <2>2, <2>3, <3>1, <3>2, FlightFrame
  <2> QED BY <2>1, <2>2, <2>3 DEF StartPc
<1>5. ASSUME flight'[n].pc = "unwind", flight[n].pc # "unwind"
      PROVE  procs'[n] = NoPid
  <2>1. Flight(n)
    BY <1>2, <1>5, FlightFrame
  <2>2. \A ok : ~Finish(n, ok)
    BY <1>2, <1>5 DEF Finish
  <2>3. ~FlightEnter(n)
    <3>1. Goto(n, "reread") => flight'[n].pc = "reread"
      BY <1>1
    <3>2. ASSUME flight' = [flight EXCEPT ![n] = [@ EXCEPT !.pc = "deps", !.todo = Deps[n]]]
          PROVE  flight'[n].pc = "deps"
      BY <1>0, <3>2 DEF FlightRec
    <3> QED BY <1>5, <2>2, <3>1, <3>2 DEF FlightEnter
  <2>4. ~FlightDeps(n)
    <3>1. ASSUME NEW d, NEW pc \in {"depcall", "failing"},
                 flight' = [flight EXCEPT ![n] = [@ EXCEPT !.pc = pc, !.dep = d]]
          PROVE  flight'[n].pc = pc
      BY <1>0, <3>1 DEF FlightRec
    <3>2. Goto(n, "prep") => flight'[n].pc = "prep"
      BY <1>1
    <3> QED BY <1>5, <3>1, <3>2 DEF FlightDeps
  <2>5. ~FlightDepCall(n)
    <3> DEFINE f == [flight EXCEPT ![n].pc = "depwait"]
    <3>1. f \in [Inst -> FlightRec] /\ f[n].pc = "depwait"
      BY <1>0, FlightPcs DEF FlightRec
    <3>2. FlightDepCall(n) => flight[n].dep \in Inst
      BY ConstantsOK DEF FlightDepCall, At, Typed, FlightTargets, Aimed, DepPc,
         ConstantsOK
    <3>3. CondOf(n, flight[n].dep) \in {"healthy", "started"}
      BY DEF CondOf
    <3>4. flight' # [flight EXCEPT ![n].pc = "depup"]
      BY <1>0, <1>5 DEF FlightRec
    <3>5. FlightDepCall(n) =>
            flight' # Do(f, flight[n].dep, CondOf(n, flight[n].dep))
      <4> HIDE DEF f
      <4> QED BY <1>5, <3>1, <3>2, <3>3, DoStarts
    <3> QED BY <3>4, <3>5 DEF FlightDepCall
  <2>6. /\ FlightDepAcquire(n) => flight'[n].pc = "deps"
        /\ FlightReread(n) => flight'[n].pc = "rerun"
        /\ FlightFailing(n) => flight'[n].pc = "failed"
    <3>1. FlightDepAcquire(n) => flight'[n].pc = "deps"
      BY <1>0 DEF FlightDepAcquire, FlightRec
    <3>2. FlightReread(n) => flight'[n].pc = "rerun"
      BY <1>0 DEF FlightReread, FlightRec
    <3>3. FlightFailing(n) => flight'[n].pc = "failed"
      BY <1>0 DEF FlightFailing, FlightRec
    <3> QED BY <3>1, <3>2, <3>3
  <2>7. ~FlightSpawn(n)
    <3>1. ASSUME NEW p \in Proc,
                 flight' = [flight EXCEPT ![n] = [@ EXCEPT !.pc = "ready", !.p = p]]
          PROVE  flight'[n].pc = "ready"
      BY <1>0, <3>1 DEF FlightRec
    <3>2. Goto(n, "failing") => flight'[n].pc = "failing"
      BY <1>1
    <3> QED BY <1>5, <3>1, <3>2 DEF FlightSpawn
  <2>8. ~(\/ FlightPrep(n) \/ FlightReady(n) \/ FlightRegister(n)
           \/ FlightRunning(n) \/ FlightUnwind(n) \/ FlightRerun(n)
           \/ FlightOnReady(n) \/ FlightPid(n))
    <3>1. ASSUME NEW pc, pc # "unwind", Goto(n, pc)
          PROVE  FALSE
      BY <1>1, <1>5, <3>1
    <3>2. ~FlightPid(n)
      BY <3>1 DEF FlightPid
    <3> QED BY <2>2, <3>1, <3>2 DEF FlightPrep, FlightReady, FlightRegister,
          FlightRunning, FlightUnwind, FlightRerun, FlightOnReady
  <2>9. ~FlightNotReady(n) /\ ~FlightRerunning(n) /\ ~FlightFailed(n)
    BY <2>2 DEF FlightNotReady, FlightRerunning, FlightFailed
  <2>10. FlightConverge(n)
    BY <1>5, <2>1, <2>3, <2>4, <2>5, <2>6, <2>7, <2>8, <2>9 DEF Flight
  <2> QED BY <1>0, <1>1, <1>5, <2>10 DEF FlightConverge
<1> QED BY <1>3, <1>4, <1>5

\* Young: no process of n was ever registered.
Young(n) == NoneBorn(n) \/ FirstBoot(n)

LEMMA YoungStep ==
  ASSUME NEW n \in Inst, Typed, First(n), [Next]_vars, ~Crash, Young(n)'
  PROVE  Young(n)
<1>1. CASE NoneBorn(n)'
  BY <1>1, BornFrame DEF Young, NoneBorn
<1>2. CASE FirstBoot(n)'
  <2>1. flight'[n].pc \in StartPc /\ flight'[n].p = 1
    BY <1>2 DEF FirstBoot, StartPc
  <2>2. CASE flight[n].pc \in StartPc /\ flight'[n].p = flight[n].p
             /\ ~FlightPid(n)
    BY <1>2, <2>2, FlightPhase DEF FirstBoot, Young, StartPc
  <2>3. CASE flight'[n].p \in Proc /\ os[n][flight'[n].p] = "unborn"
    <3>1. 1 \in Proc /\ os[n][1] = "unborn"
      BY <2>1, <2>3
    <3>2. ASSUME NEW q \in Proc
          PROVE  os[n][q] = "unborn"
      BY <3>1 DEF First, Proc
    <3> QED BY <3>2 DEF Young, NoneBorn
  <2> QED BY <2>1, <2>2, <2>3, StartPcFrame
<1> QED BY <1>1, <1>2 DEF Young

LEMMA FirstStep ==
  ASSUME NEW n \in Inst, Typed, OneLife, Holding, First(n), [Next]_vars
  PROVE  First(n)'
<1>0. /\ procs \in [Inst -> Proc \cup {NoPid}] /\ stop \in [Stopper -> StopRec]
      /\ watch \in [Inst -> [Proc -> WatchRec]] /\ NoPid \notin Proc /\ NoPid # 1
  BY DEF Typed, TypeOK, Proc, NoPid
<1>1. \A p, q \in Proc : q < p /\ os'[n][p] # "unborn" => os'[n][q] # "unborn"
  BY SpawnFrame, BornFrame DEF First
<1>2. CASE Crash
  <2>1. /\ NoFlight.pc = "none" /\ NoWatch.pc = "none" /\ NoStop.pc = "none"
    BY DEF NoFlight, NoWatch, NoStop
  <2>2. Dies
    BY <1>2 DEF Crash, DaemonCrash, Panic
  <2>3. procs'[n] = NoPid /\ NoCleanup(n)'
    BY <2>1, <2>2 DEF Dies, NoCleanup
  <2> QED BY <1>1, <2>3 DEF First
<1>3. CASE ~Crash
  <2>1. Young(n)' => Young(n) /\ procs[n] = NoPid
    BY <1>3, YoungStep DEF First, Young
  <2>2. FlightRegister(n) => /\ procs'[n] = flight[n].p
                             /\ flight'[n].pc = "running"
                             /\ flight[n].p \in Proc
                             /\ os[n][flight[n].p] # "unborn"
    BY <1>0 DEF FlightRegister, Goto, At, OneLife, FreshBoot, StartPc, Typed,
       TypeOK, FlightRec
  <2>3. ASSUME Young(n)'
        PROVE  procs'[n] = NoPid
    <3>1. ~FlightRegister(n)
      BY <2>2, <2>3, BornFrame DEF Young, NoneBorn, FirstBoot
    <3> QED BY <2>1, <2>3, <3>1, ProcsFrame
  <2>4. ASSUME Young(n)' \/ procs'[n] = 1
        PROVE  NoCleanup(n)
    <3>1. CASE Young(n)'
      BY <2>1, <3>1 DEF First, Young
    <3>2. CASE procs'[n] = 1
      <4>1. FlightRegister(n) => FirstBoot(n)
        BY <2>2, <3>2 DEF FirstBoot, FlightRegister, At
      <4> QED BY <1>0, <3>2, <4>1, ProcsFrame DEF First
    <3> QED BY <2>4, <3>1, <3>2
  <2>5. ASSUME Young(n)' \/ procs'[n] = 1, NEW q \in Proc
        PROVE  watch'[n][q].pc \notin {"release", "reap"}
    <3>0. watch[n][q].pc \notin {"release", "reap"} /\ watch[n][q] \in WatchRec
      BY <1>0, <2>4, <2>5 DEF NoCleanup
    <3>1. ASSUME NEW pc, WatchGoto(n, q, pc)
          PROVE  watch'[n][q].pc = pc
      BY <1>0, <3>0, <3>1 DEF WatchGoto, WatchRec
    <3>2. CASE FlightPid(n) /\ flight[n].p = q
      BY <1>0, <3>0, <3>2 DEF FlightPid, Watched, WatchRec
    <3>3. CASE WatchExit(n, q)
      <4>1. procs[n] # q
        <5> SUFFICES ASSUME procs[n] = q
                     PROVE  FALSE
          OBVIOUS
        <5>1. procs'[n] = NoPid
          BY <1>0, <3>3 DEF WatchExit
        <5> QED BY <1>0, <2>1, <2>5, <5>1
      <4>2. WatchGoto(n, q, "done")
        BY <3>3, <4>1 DEF WatchExit
      <4> QED BY <3>1, <4>2
    <3>4. CASE Watch(n, q) /\ ~WatchExit(n, q)
      <4>1. \E pc \in {"deaf", "done", "crash", "giveup", "sched"} :
              WatchGoto(n, q, pc)
        <5>1. ~WatchRelease(n, q) /\ ~WatchReap(n, q)
          BY <3>0 DEF WatchRelease, WatchReap, WatchAt
        <5>2. WatchDecide(n, q) => \E pc \in {"done", "crash", "giveup"} :
                                     WatchGoto(n, q, pc)
          BY DEF WatchDecide
        <5> QED BY <3>4, <5>1, <5>2 DEF Watch, WatchDeaf, WatchGiveUp,
              WatchCrash, WatchSchedule
      <4> QED BY <3>1, <4>1
    <3> QED BY <1>3, <3>0, <3>2, <3>3, <3>4, WatchFrame
  <2>6. ASSUME Young(n)' \/ procs'[n] = 1, NEW t \in Stopper, stop'[t].at = n
        PROVE  \/ stop'[t].pc \in {"none", "take"}
               \/ stop'[t].pc = "reset" /\ stop'[t].p = NoPid /\ stop'[t].held = {}
    <3>0. /\ NoCleanup(n) /\ stop[t] \in StopRec
      BY <1>0, <2>4, <2>6
    <3>1. ASSUME NEW m \in Inst, Take(t, m)
          PROVE  stop'[t].pc = "reset" /\ stop'[t].p = NoPid /\ stop'[t].held = {}
      <4>1. stop'[t] = [pc |-> "reset", at |-> m, held |-> deps[m], p |-> procs[m]]
        BY <1>0, <3>1 DEF Take
      <4>2. m = n
        BY <2>6, <4>1
      <4>3. procs'[n] = NoPid
        BY <1>0, <3>1, <4>2 DEF Take
      <4>4. procs[n] = NoPid /\ deps[n] = {}
        BY <1>0, <2>1, <2>6, <4>3 DEF Holding, HoldsDeps
      <4> QED BY <4>1, <4>2, <4>4
    <3>2. CASE stop'[t] = [stop[t] EXCEPT !.pc = "kill"] /\ StopReset(t)
               /\ ~(stop[t].p = NoPid /\ stop[t].held = {})
      BY <2>6, <3>0, <3>2 DEF StopReset, StopAt, NoCleanup, StopRec
    <3>3. CASE StopKill(t) /\ stop'[t] = [stop[t] EXCEPT !.pc = "release"]
      BY <2>6, <3>0, <3>3 DEF StopKill, StopAt, NoCleanup, StopRec
    <3>4. CASE StopRelease(t)
               /\ stop'[t] = [stop[t] EXCEPT !.pc = "reap", !.held = {}]
      BY <2>6, <3>0, <3>4 DEF StopRelease, StopAt, NoCleanup, StopRec
    <3>5. CASE stop'[t] = stop[t]
      BY <2>6, <3>0, <3>5 DEF NoCleanup
    <3> QED BY <3>1, <3>2, <3>3, <3>4, <3>5, StopFrame
  <2>7. Young(n)' \/ procs'[n] = 1 => NoCleanup(n)'
    BY <2>5, <2>6 DEF NoCleanup
  <2> QED BY <1>1, <2>3, <2>7 DEF First, Young
<1> QED BY <1>2, <1>3

LEMMA OnRecordStep ==
  ASSUME Typed, OneLife, Recording, [Next]_vars, NEW n \in Inst
  PROVE  OnRecord(n)'
<1>0. /\ procs \in [Inst -> Proc \cup {NoPid}] /\ NoPid \notin Proc
      /\ pidfile \in [Inst -> Proc \cup {NoPid}] /\ flight[n] \in FlightRec
      /\ First(n) /\ OnRecord(n) /\ Emptied
  BY DEF Typed, TypeOK, Proc, NoPid, Recording
<1>1. CASE Crash
  BY <1>1 DEF Crash, DaemonCrash, Panic, Dies, OnRecord, NoFlight
<1>2. CASE ~Crash
  <2>1. FlightRegister(n) => /\ procs'[n] = flight[n].p
                             /\ flight'[n].pc = "running"
                             /\ flight[n].pc = "register"
    BY <1>0 DEF FlightRegister, Goto, At, Typed, TypeOK, FlightRec
  <2>2. ASSUME flight'[n].pc \in {"running", "pid"}
        PROVE  procs'[n] \in {NoPid, flight'[n].p}
    BY <1>0, <2>1, <2>2, FlightPhase, ProcsFrame DEF OnRecord
  <2>3. ASSUME flight'[n].pc = "unwind"
        PROVE  procs'[n] = NoPid
    BY <1>0, <2>1, <2>3, FlightPhase, ProcsFrame DEF OnRecord
  <2>4. ASSUME procs'[n] # NoPid, flight'[n].pc \notin {"running", "pid"}
        PROVE  \/ pidfile'[n] = procs'[n]
               \/ pidfile'[n] = NoPid /\ procs'[n] > 1
    <3>1. procs'[n] = procs[n]
      BY <2>1, <2>4, ProcsFrame
    <3>2. CASE FlightPid(n)
      BY <1>0, <2>4, <3>1, <3>2 DEF FlightPid, Written, At, OnRecord, Typed,
         TypeOK
    <3>3. CASE ~FlightPid(n)
      <4>1. flight[n].pc \notin {"running", "pid"}
        BY <1>2, <2>4, <3>3, FlightPhase
      <4>2. \/ pidfile[n] = procs[n]
            \/ pidfile[n] = NoPid /\ procs[n] > 1
        BY <1>0, <2>4, <3>1, <4>1 DEF OnRecord
      <4>3. ~NoCleanup(n) => procs[n] > 1
        BY <1>0, <2>4, <3>1 DEF First, Proc, NoPid
      <4>4. ~FlightUnwind(n)
        BY <1>0, <2>4, <3>1 DEF FlightUnwind, At, OnRecord
      <4>5. ~Reconcile
        BY <1>0, <2>4, <3>1 DEF Reconcile, Emptied
      <4>6. ASSUME NEW p \in Proc, WatchReap(n, p)
            PROVE  ~NoCleanup(n) /\ pidfile'[n] = NoPid
        BY <1>0, <4>6 DEF WatchReap, WatchAt, NoCleanup
      <4>7. ASSUME NEW t \in Stopper, StopReap(t), stop[t].at = n
            PROVE  ~NoCleanup(n) /\ pidfile'[n] = NoPid
        BY <1>0, <4>7 DEF StopReap, StopAt, NoCleanup
      <4> QED BY <3>1, <3>3, <4>2, <4>3, <4>4, <4>5, <4>6, <4>7, PidfileFrame
    <3> QED BY <3>2, <3>3
  <2> QED BY <2>2, <2>3, <2>4 DEF OnRecord
<1> QED BY <1>1, <1>2

\* The pidfile of a registered process names it, or is missing because an earlier
\* process was cleaned up late: the record left for the reclaim after a crash is
\* never that of another process (writePidfile in bootLocked against
\* removePidfile in Stop, watch and a failed converge).
THEOREM RecordHolds == Spec => []RegisteredIsRecorded
<1>1. Init => Recording
  <2>1. Init => Emptied
    BY DEF Init, Emptied
  <2>2. ASSUME Init, NEW n \in Inst
        PROVE  First(n)
    BY <2>2 DEF Init, First, NoCleanup, NoStop, NoWatch
  <2>3. ASSUME Init, NEW n \in Inst
        PROVE  OnRecord(n)
    BY <2>3 DEF Init, OnRecord, NoFlight
  <2> QED BY <2>1, <2>2, <2>3 DEF Recording
<1>2. Typed /\ OneLife /\ Holding /\ Recording /\ [Next]_vars => Recording'
  <2> SUFFICES ASSUME Typed, OneLife, Holding, Recording, [Next]_vars
               PROVE  Recording'
    OBVIOUS
  <2>1. Emptied'
    BY EmptiedStep DEF Recording
  <2>2. \A n \in Inst : First(n)'
    BY FirstStep DEF Recording
  <2>3. \A n \in Inst : OnRecord(n)'
    BY OnRecordStep
  <2> QED BY <2>1, <2>2, <2>3 DEF Recording
<1>3. Recording => RegisteredIsRecorded
  BY DEF Recording, OnRecord, RegisteredIsRecorded
<1> QED BY <1>1, <1>2, <1>3, HoldingHolds, PTL DEF Spec

-----------------------------------------------------------------------------
(* The restart budget *)

\* What the budget is a budget of: nobody stops an instance (a Stop gives it a
\* new budget on purpose), and no process lives long enough to earn one.
NobodyStops ==
  /\ UserOps \cap {"stop", "off"} = {} /\ Limited = {} /\ Sweeps = {}
  /\ Uptimes = {FALSE}

\* No call of Stop is under way, nor is one about to be made.
Calm ==
  /\ \A t \in Stopper : stop[t].pc = "none"
  /\ due = {} /\ sweep = "no"

LEMMA CalmStep ==
  ASSUME NobodyStops, Typed, Calm, [Next]_vars
  PROVE  Calm'
<1>0. NoStop.pc = "none" /\ stop \in [Stopper -> StopRec]
  BY DEF NoStop, Typed, TypeOK
<1>1. CASE UNCHANGED <<stop, due, sweep>>
  BY <1>1 DEF Calm
<1>2. ASSUME NEW c \in Clients, Client(c)
      PROVE  UNCHANGED <<stop, due, sweep>>
  BY <1>2 DEF Client, ClientCall, ClientBoot, ClientDial, ClientRefused,
     ClientAcquire, ClientRelease, control
<1>3. ASSUME NEW n \in Inst, Flight(n)
      PROVE  UNCHANGED <<stop, due, sweep>>
  BY <1>3 DEF Flight, FlightEnter, FlightDeps, FlightDepCall,
     FlightDepAcquire, FlightPrep, FlightSpawn, FlightReady, FlightRegister,
     FlightRunning, FlightPid, FlightConverge, FlightUnwind, FlightOnReady,
     FlightNotReady, FlightReread, FlightRerun, FlightRerunning, FlightFailing,
     FlightFailed, control
<1>4. ASSUME NEW n \in Inst, NEW p \in Proc,
             Exit(n, p) \/ Watch(n, p) \/ Timer(n, p)
      PROVE  UNCHANGED <<stop, due, sweep>>
  BY <1>4 DEF Exit, Watch, WatchExit, WatchDeaf, WatchRelease, WatchReap, WatchDecide,
     WatchGiveUp, WatchCrash, WatchSchedule, Timer, TimerFires,
     TimerCancelled, TimerGate, TimerBoot, control
<1>5. ASSUME NEW t \in Stopper, Stop(t)
      PROVE  FALSE
  BY <1>5 DEF Calm, Stop, StopAt, StopTake, StopReset, StopKill, StopRelease,
     StopReap
<1>6. ASSUME NEW u \in Users, User(u)
      PROVE  UNCHANGED <<stop, due, sweep>>
  BY <1>6 DEF NobodyStops, User, UserStop, UserOff, UserOn, UserPin, control
<1>7. ~Reap
  <2>1. ~ReaperTick
    BY DEF ReaperTick, Reapable, NobodyStops
  <2>2. \A n \in Inst : ~ReaperStop(n)
    BY DEF ReaperStop, Calm
  <2> QED BY <2>1, <2>2 DEF Reap
<1>8. ~Sweep
  BY DEF Sweep, SweepBegin, SweepSnapshot, SweepPassed, Calm, NobodyStops
<1>9. CASE Crash
  BY <1>0, <1>9 DEF Crash, DaemonCrash, Panic, Dies, Calm
<1>10. CASE UNCHANGED vars \/ Reconcile
  BY <1>1, <1>10 DEF vars, Reconcile, control
<1> QED BY <1>1, <1>2, <1>3, <1>4, <1>5, <1>6, <1>7, <1>8, <1>9, <1>10 DEF Next, Crash

\* The budget that was spent on a record stays spent.
Spent(i, j) == j.restarts >= i.restarts

LEMMA MethodsSpend ==
  ASSUME NEW i \in Record, NEW p \in Nat, NEW on \in BOOLEAN
  PROVE  /\ Spent(i, i) /\ Spent(i, Acquire(i)) /\ Spent(i, Release(i))
         /\ Spent(i, MarkRunning(SetIdlePolicy(i, on), p))
         /\ Spent(i, MarkBooting(i))
         /\ Spent(i, MarkRunning(i, p)) /\ Spent(i, MarkReaped(i))
         /\ Spent(i, MarkFailed(i)) /\ Spent(i, MarkCrashing(i))
         /\ Spent(i, ToggleKeepAwake(i)) /\ Spent(i, SetTainted(i))
         /\ Spent(i, ClearTainted(i)) /\ Spent(i, IncRestart(i))
<1>0. i.restarts \in Nat
  BY DEF Record
<1>1. /\ Acquire(i).restarts = i.restarts /\ Release(i).restarts = i.restarts
      /\ MarkBooting(i).restarts = i.restarts
      /\ MarkRunning(i, p).restarts = i.restarts
      /\ MarkRunning(SetIdlePolicy(i, on), p).restarts = i.restarts
  BY DEF Acquire, Release, MarkBooting, MarkRunning, SetIdlePolicy, Record
<1>2. /\ MarkReaped(i).restarts = i.restarts
      /\ MarkFailed(i).restarts = i.restarts
      /\ MarkCrashing(i).restarts = i.restarts
  BY DEF MarkReaped, MarkFailed, MarkCrashing, ClearRuntime, Record
<1>3. /\ ToggleKeepAwake(i).restarts = i.restarts
      /\ SetTainted(i).restarts = i.restarts
      /\ ClearTainted(i).restarts = i.restarts
      /\ IncRestart(i).restarts = i.restarts + 1
  BY DEF ToggleKeepAwake, SetTainted, ClearTainted, IncRestart, Record
<1> QED BY <1>0, <1>1, <1>2, <1>3 DEF Spent

\* While nobody stops anything, only a crash of the daemon gives budget back.
LEMMA SpentFrame ==
  ASSUME NobodyStops, Typed, Calm, [Next]_vars, NEW n \in Inst
  PROVE  Spent(reg[n], reg'[n]) \/ Crash
<1>0. /\ reg \in [Inst -> Record] /\ reg[n] \in Record
      /\ \A m \in Inst : flight[m].p \in Nat
  <2>1. reg \in [Inst -> Record] /\ flight \in [Inst -> FlightRec]
    BY DEF Typed, TypeOK
  <2>2. Proc \cup {NoPid} \subseteq Nat
    BY ConstantsOK DEF ConstantsOK, Proc, NoPid
  <2> QED BY <2>1, <2>2 DEF FlightRec
<1>1. ASSUME NEW m \in Inst, NEW i, Update(m, i), Spent(reg[m], i)
      PROVE  Spent(reg[n], reg'[n])
  <2>1. reg' = [reg EXCEPT ![m] = i]
    BY <1>1 DEF Update
  <2>2. CASE m = n
    BY <1>0, <1>1, <2>1, <2>2
  <2>3. CASE m # n
    <3>1. reg'[n] = reg[n]
      BY <1>0, <2>1, <2>3
    <3> QED BY <1>0, <3>1, MethodsSpend
  <2> QED BY <2>2, <2>3
<1>2. ASSUME NEW held, ReleaseAll(held)
      PROVE  Spent(reg[n], reg'[n])
  BY <1>0, <1>2, MethodsSpend DEF ReleaseAll
<1>3. ASSUME UNCHANGED reg
      PROVE  Spent(reg[n], reg'[n])
  BY <1>0, <1>3, MethodsSpend
<1>4. ASSUME NEW c \in Clients, Client(c)
      PROVE  Spent(reg[n], reg'[n])
  <2>1. client[c].pc = "out" \/ client[c].at \in Inst
    BY DEF Typed, ClientTargets
  <2> QED BY <1>0, <1>1, <1>3, <1>4, <2>1, MethodsSpend DEF Client, ClientCall,
        ClientBoot, ClientDial, ClientRefused, ClientAcquire, ClientRelease
<1>5. ASSUME NEW m \in Inst, NEW p \in Proc, Exit(m, p) \/ Watch(m, p)
      PROVE  Spent(reg[n], reg'[n])
  <2>1. CASE WatchDecide(m, p)
    <3>1. \/ Update(m, IncRestart(reg[m])) \/ UNCHANGED reg
          \/ Update(m, MarkFailed(reg[m]))
      BY <2>1 DEF WatchDecide, NobodyStops
    <3> QED BY <1>0, <1>1, <1>3, <3>1, MethodsSpend
  <2>2. CASE ~WatchDecide(m, p)
    BY <1>0, <1>1, <1>2, <1>3, <1>5, <2>2, MethodsSpend DEF Exit, Watch,
       WatchExit, WatchDeaf, WatchRelease, WatchReap, WatchGiveUp, WatchCrash,
       WatchSchedule
  <2> QED BY <2>1, <2>2
<1>6. ASSUME NEW t \in Stopper, Stop(t)
      PROVE  FALSE
  BY <1>6 DEF Calm, Stop, StopAt, StopTake, StopReset, StopKill, StopRelease,
     StopReap
<1>7. ASSUME NEW u \in Users, User(u)
      PROVE  Spent(reg[n], reg'[n])
  BY <1>0, <1>1, <1>3, <1>7, MethodsSpend DEF User, UserStop, UserOff, UserOn,
     UserPin
<1>8. ASSUME NEW m \in Inst, Flight(m)
      PROVE  Spent(reg[n], reg'[n])
  <2>1. CASE FlightEnter(m)
    BY <1>0, <1>1, <1>3, <2>1, MethodsSpend DEF FlightEnter
  <2>2. CASE FlightRunning(m)
    <3>1. (m \in AlwaysOn) \in BOOLEAN
      OBVIOUS
    <3> QED BY <1>0, <1>1, <1>3, <2>2, <3>1, MethodsSpend DEF FlightRunning
  <2>3. CASE FlightFailing(m)
    BY <1>2, <2>3 DEF FlightFailing
  <2>4. CASE \E i \in {SetTainted(reg[m]), ClearTainted(reg[m]),
                       MarkRunning(reg[m], flight[m].p), MarkFailed(reg[m])} :
               Update(m, i)
    BY <1>0, <1>1, <1>3, <2>4, MethodsSpend
  <2>5. CASE \E d \in Inst : Update(d, Acquire(reg[d]))
    BY <1>0, <1>1, <1>3, <2>5, MethodsSpend
  <2>6. FlightDepAcquire(m) => flight[m].dep \in Inst
    BY ConstantsOK DEF FlightDepAcquire, At, Typed, FlightTargets, Aimed,
       DepPc, ConstantsOK
  <2>7. CASE FlightDepAcquire(m)
    BY <2>5, <2>6, <2>7 DEF FlightDepAcquire
  <2>8. CASE FlightPrep(m) \/ FlightConverge(m) \/ FlightOnReady(m)
             \/ FlightNotReady(m) \/ FlightRerun(m) \/ FlightRerunning(m)
             \/ FlightFailed(m)
    <3>1. \/ UNCHANGED reg \/ Update(m, SetTainted(reg[m]))
          \/ Update(m, ClearTainted(reg[m])) \/ Update(m, MarkFailed(reg[m]))
          \/ Update(m, MarkRunning(reg[m], flight[m].p))
      BY <2>8 DEF FlightPrep, FlightConverge, FlightOnReady, FlightNotReady,
         FlightReread, FlightRerun, FlightRerunning, FlightFailed
    <3> QED BY <1>3, <2>4, <3>1
  <2>9. CASE \/ FlightDeps(m) \/ FlightDepCall(m) \/ FlightSpawn(m)
             \/ FlightReady(m) \/ FlightRegister(m) \/ FlightPid(m)
             \/ FlightUnwind(m) \/ FlightReread(m)
    BY <1>3, <2>9 DEF FlightDeps, FlightDepCall, FlightSpawn, FlightReady,
       FlightRegister, FlightPid, FlightUnwind, FlightReread
  <2> QED BY <1>8, <2>1, <2>2, <2>3, <2>7, <2>8, <2>9 DEF Flight
<1>10. CASE \/ UNCHANGED vars
            \/ \E m \in Inst, p \in Proc : Timer(m, p)
            \/ Reap \/ Sweep \/ Reconcile
  <2>1. UNCHANGED reg
    BY <1>10 DEF vars, Timer, TimerFires, TimerCancelled, TimerGate, TimerBoot,
       Reap, ReaperTick, ReaperStop, Sweep, SweepBegin, SweepSnapshot,
       SweepPassed, Reconcile
  <2> QED BY <1>3, <2>1
<1> QED BY <1>4, <1>5, <1>6, <1>7, <1>8, <1>10 DEF Next, Crash

\* The processes of n whose exit was answered with a restart: scheduled, or
\* about to be.
Scheduling == {"crash", "sched"}
Counted(n) ==
  {p \in Proc : timer[n][p] # "none" \/ watch[n][p].pc \in Scheduling}

\* A process is only counted by the decision that its exit is within budget.
LEMMA NewlyCounted ==
  ASSUME NobodyStops, Typed, [Next]_vars, NEW n \in Inst, NEW p \in Proc,
         p \notin Counted(n), p \in Counted(n)'
  PROVE  /\ WatchDecide(n, p)
         /\ reg'[n].restarts = reg[n].restarts + 1
         /\ reg'[n].restarts <= MaxRetries[n]
<1>0. /\ timer \in [Inst -> [Proc -> TimerPc]]
      /\ watch \in [Inst -> [Proc -> WatchRec]]
      /\ timer[n] \in [Proc -> TimerPc]
      /\ watch[n] \in [Proc -> WatchRec] /\ watch[n][p] \in WatchRec
      /\ reg \in [Inst -> Record] /\ reg[n] \in Record
  BY DEF Typed, TypeOK
<1>1. timer[n][p] = "none" /\ watch[n][p].pc \notin Scheduling
  BY DEF Counted
<1>2. ~Crash
  BY DEF Crash, DaemonCrash, Panic, Dies, Counted, NoWatch, Scheduling
<1>3. timer'[n][p] = "none"
  <2>1. CASE UNCHANGED timer
    BY <1>1, <2>1
  <2>2. ASSUME NEW m \in Inst, NEW q \in Proc, WatchSchedule(m, q)
        PROVE  timer'[n][p] = "none"
    <3>1. m # n \/ q # p
      BY <1>1, <2>2 DEF WatchSchedule, WatchAt, Scheduling
    <3> QED BY <1>0, <1>1, <2>2, <3>1 DEF WatchSchedule
  <2>3. ASSUME NEW m \in Inst, NEW q \in Proc, Timer(m, q)
        PROVE  timer'[n][p] = "none"
    <3>1. m # n \/ q # p
      BY <1>1, <2>3 DEF Timer, TimerFires, TimerCancelled, TimerGate, TimerBoot
    <3>2. \E pc : timer' = [timer EXCEPT ![m][q] = pc]
      BY <2>3 DEF Timer, TimerFires, TimerCancelled, TimerGate, TimerBoot
    <3> QED BY <1>0, <1>1, <3>1, <3>2
  <2> QED BY <1>2, <2>1, <2>2, <2>3, RestartFrame
<1>4. watch'[n][p].pc \in Scheduling
  BY <1>3 DEF Counted
<1>5. ASSUME NEW pc, WatchGoto(n, p, pc)
      PROVE  watch'[n][p].pc = pc
  BY <1>0, <1>5 DEF WatchGoto, WatchRec
<1>6. ~(FlightPid(n) /\ flight[n].p = p)
  <2>1. FlightPid(n) /\ flight[n].p = p => watch'[n][p].pc = "wait"
    BY <1>0 DEF FlightPid, Watched, WatchRec
  <2> QED BY <1>4, <2>1 DEF Scheduling
<1>7. Watch(n, p)
  BY <1>1, <1>2, <1>4, <1>6, WatchFrame
<1>8. WatchDecide(n, p)
  <2>1. ~WatchExit(n, p)
    BY <1>0, <1>4, <1>5 DEF WatchExit, WatchDeaf, Scheduling
  <2>2. ~WatchRelease(n, p)
    BY <1>0, <1>4 DEF WatchRelease, Scheduling
  <2>3. /\ ~WatchDeaf(n, p) /\ ~WatchReap(n, p)
        /\ ~WatchGiveUp(n, p) /\ ~WatchSchedule(n, p)
    BY <1>4, <1>5 DEF WatchDeaf, WatchReap, WatchGiveUp, WatchSchedule,
       Scheduling
  <2>4. ~WatchCrash(n, p)
    BY <1>1 DEF WatchCrash, WatchAt, Scheduling
  <2> QED BY <1>7, <2>1, <2>2, <2>3, <2>4 DEF Watch
<1>9. /\ Update(n, IncRestart(reg[n]))
      /\ WithinBudget(n, IncRestart(reg[n]))
  <2>1. ~WatchGoto(n, p, "done") /\ ~WatchGoto(n, p, "giveup")
    BY <1>4, <1>5 DEF Scheduling
  <2> QED BY <1>8, <2>1 DEF WatchDecide, NobodyStops
<1>10. reg'[n] = IncRestart(reg[n])
  BY <1>0, <1>9 DEF Update
<1>11. IncRestart(reg[n]).restarts = reg[n].restarts + 1
  BY <1>0 DEF IncRestart, Record
<1> QED BY <1>8, <1>9, <1>10, <1>11 DEF WithinBudget

\* At most one process is counted by a step.
LEMMA OneCounted ==
  ASSUME NobodyStops, Typed, [Next]_vars, NEW n \in Inst, NEW p \in Proc,
         p \notin Counted(n), p \in Counted(n)'
  PROVE  Counted(n)' \subseteq Counted(n) \cup {p}
<1> SUFFICES ASSUME NEW q \in Proc, q # p, q \notin Counted(n),
                    q \in Counted(n)'
             PROVE  FALSE
  BY DEF Counted
<1>0. watch \in [Inst -> [Proc -> WatchRec]]
  BY DEF Typed, TypeOK
<1>1. WatchDecide(n, p) /\ WatchDecide(n, q)
  BY NewlyCounted
<1>2. watch[n][q].pc = "decide"
  BY <1>1 DEF WatchDecide, WatchAt
<1>3. \E pc : WatchGoto(n, p, pc)
  BY <1>1 DEF WatchDecide
<1>4. watch'[n][q] = watch[n][q]
  BY <1>0, <1>3 DEF WatchGoto
<1>5. UNCHANGED timer
  BY <1>1 DEF WatchDecide
<1> QED BY <1>2, <1>4, <1>5 DEF Counted, Scheduling

\* Every restart was paid for, and none beyond the budget.
Budgeted ==
  \A n \in Inst : /\ Cardinality(Counted(n)) <= reg[n].restarts
                  /\ Cardinality(Counted(n)) <= MaxRetries[n]

LEMMA CountedFinite ==
  ASSUME NEW S \in SUBSET Proc
  PROVE  IsFiniteSet(S) /\ Cardinality(S) \in Nat
<1>1. IsFiniteSet(Proc)
  BY ConstantsOK, FS_Interval DEF ConstantsOK, Proc
<1> QED BY <1>1, FS_Subset, FS_CardinalityType

LEMMA BudgetStep ==
  ASSUME NobodyStops, Typed, Calm, Budgeted, [Next]_vars
  PROVE  Budgeted'
<1> SUFFICES ASSUME NEW n \in Inst
             PROVE  /\ Cardinality(Counted(n)') <= reg'[n].restarts
                    /\ Cardinality(Counted(n)') <= MaxRetries[n]
  BY DEF Budgeted
<1> DEFINE C == Counted(n)
           D == Counted(n)'
<1>0. /\ C \in SUBSET Proc /\ D \in SUBSET Proc
      /\ Cardinality(C) \in Nat /\ Cardinality(D) \in Nat /\ IsFiniteSet(C)
  <2>1. C \in SUBSET Proc /\ D \in SUBSET Proc
    BY DEF Counted
  <2> QED BY <2>1, CountedFinite
<1>1. /\ Cardinality(C) <= reg[n].restarts /\ Cardinality(C) <= MaxRetries[n]
      /\ reg[n].restarts \in Nat /\ MaxRetries[n] \in Nat
  <2>1. reg[n] \in Record
    BY DEF Typed, TypeOK
  <2> QED BY <2>1, ConstantsOK DEF Budgeted, Record, ConstantsOK
<1>2. reg'[n].restarts \in Nat
  <2>1. Typed'
    BY NextTyped
  <2>2. reg'[n] \in Record
    BY <2>1 DEF Typed, TypeOK
  <2> QED BY <2>2 DEF Record
<1>3. CASE Crash
  <2>1. D = {}
    BY <1>3 DEF Crash, DaemonCrash, Panic, Dies, Counted, NoWatch, Scheduling
  <2>2. Cardinality(D) = 0
    BY <2>1, FS_EmptySet
  <2> HIDE DEF C, D
  <2> QED BY <1>1, <1>2, <2>2 DEF D
<1>4. CASE D \subseteq C /\ ~Crash
  <2>1. Cardinality(D) <= Cardinality(C)
    <3> HIDE DEF C, D
    <3> QED BY <1>0, <1>4, FS_Subset
  <2>2. reg'[n].restarts >= reg[n].restarts
    BY <1>4, SpentFrame DEF Spent
  <2> HIDE DEF C
  <2> QED BY <1>0, <1>1, <1>2, <2>1, <2>2
<1>5. ASSUME NEW p \in D, p \notin C
      PROVE  /\ Cardinality(D) <= reg'[n].restarts
             /\ Cardinality(D) <= MaxRetries[n]
  <2>1. p \in Proc
    BY <1>0, <1>5
  <2>2. /\ reg'[n].restarts = reg[n].restarts + 1
        /\ reg'[n].restarts <= MaxRetries[n]
    BY <1>5, <2>1, NewlyCounted
  <2>3. D \subseteq C \cup {p}
    BY <1>5, <2>1, OneCounted
  <2>4. Cardinality(D) <= Cardinality(C) + 1
    <3> HIDE DEF C, D
    <3>1. IsFiniteSet(C \cup {p}) /\ Cardinality(C \cup {p}) = Cardinality(C) + 1
      BY <1>0, <1>5, FS_AddElement
    <3> QED BY <2>3, <3>1, FS_Subset
  <2> HIDE DEF C, D
  <2> QED BY <1>0, <1>1, <1>2, <2>2, <2>4
<1> QED BY <1>3, <1>4, <1>5

\* Where nobody stops an instance and no process outlives the stability window,
\* an instance is restarted no more often than its budget, whatever connections
\* boot in between, whichever steps fail and however often the daemon itself
\* crashes (watch's count against register, boots and MarkReaped).
THEOREM CrashLoopBounded ==
  ASSUME NobodyStops
  PROVE  Spec => []CrashLoopIsBounded
<1>1. Init => Calm /\ Budgeted
  <2> SUFFICES ASSUME Init
               PROVE  Calm /\ Budgeted
    OBVIOUS
  <2>1. Calm
    BY DEF Init, Calm, NoStop
  <2>2. ASSUME NEW n \in Inst
        PROVE  /\ Cardinality(Counted(n)) <= reg[n].restarts
               /\ Cardinality(Counted(n)) <= MaxRetries[n]
    <3>1. Counted(n) = {} /\ reg[n].restarts = 0
      BY DEF Init, Counted, NoWatch, Scheduling, Fresh
    <3>2. Cardinality(Counted(n)) = 0 /\ MaxRetries[n] \in Nat
      BY <3>1, FS_EmptySet, ConstantsOK DEF ConstantsOK
    <3> HIDE DEF Counted
    <3> QED BY <3>1, <3>2
  <2> QED BY <2>1, <2>2 DEF Budgeted
<1>2. Typed /\ Calm /\ Budgeted /\ [Next]_vars => Calm' /\ Budgeted'
  BY CalmStep, BudgetStep
<1>3. Budgeted => CrashLoopIsBounded
  <2> SUFFICES ASSUME Budgeted, NEW n \in Inst
               PROVE  Cardinality({p \in Proc : timer[n][p] # "none"})
                        <= MaxRetries[n]
    BY DEF CrashLoopIsBounded
  <2> DEFINE T == {p \in Proc : timer[n][p] # "none"}
  <2>1. T \subseteq Counted(n) /\ Counted(n) \in SUBSET Proc
    BY DEF Counted
  <2>2. /\ IsFiniteSet(Counted(n)) /\ Cardinality(Counted(n)) \in Nat
        /\ Cardinality(T) \in Nat
    BY <2>1, CountedFinite
  <2>3. Cardinality(T) <= Cardinality(Counted(n))
    <3> HIDE DEF T
    <3> QED BY <2>1, <2>2, FS_Subset
  <2>4. Cardinality(Counted(n)) <= MaxRetries[n] /\ MaxRetries[n] \in Nat
    BY ConstantsOK DEF Budgeted, ConstantsOK
  <2> HIDE DEF T
  <2>5. Cardinality(T) <= MaxRetries[n]
    BY <2>2, <2>3, <2>4
  <2> QED BY <2>5 DEF T
<1> QED BY <1>1, <1>2, <1>3, InitTyped, NextTyped, PTL DEF Spec
=============================================================================
