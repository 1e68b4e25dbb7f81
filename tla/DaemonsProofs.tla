----------------------------- MODULE DaemonsProofs -----------------------------
(***************************************************************************)
(* What the daemons of a stack keep from each other, for any number of     *)
(* daemons and commands.                                                   *)
(*                                                                         *)
(* Everything rests on who can be where at the same time: without the      *)
(* unguarded case of a second daemon only one has gone past Reconcile, and *)
(* without a handover only one has gone past its listeners (OneAtATime).   *)
(* From there the files lead to the daemon that serves (Found), what a     *)
(* dead one left recorded is there for the next one to find (Inherited),   *)
(* and nothing that is recorded survives an orderly end (SweptClean).      *)
(***************************************************************************)
EXTENDS Daemons, TLAPS

Typed ==
  /\ TypeOK
  /\ cmd \in [Command -> [pc : {"new", "start", "await", "done", "stopped"},
                          of : Daemon \cup {None}]]

\* It has reclaimed what was left; it has bound its listeners.
Begun(d) == Alive(d) /\ pc[d] # "reclaim"
Holding(d) == Begun(d) /\ pc[d] # "bind"

\* What holds of a daemon whatever the others do.
Basics ==
  /\ port # None => Holding(port)
  /\ \A d \in Daemon :
       /\ server[d] # "none" => Holding(d) /\ pc[d] \notin {"remove", "listen"}
       /\ pc[d] \in {"unborn", "reclaim", "bind"} => backend[d] = {}
       /\ ~Alive(d) => backend[d] \subseteq {"up", "spawned"}
       /\ Alive(d) => ~({"up", "spawned"} \subseteq backend[d])
  /\ \A c \in Command :
       /\ cmd[c].pc \in {"await", "stopped"} => cmd[c].of \in Daemon /\ pc[cmd[c].of] # "unborn"
       /\ cmd[c].pc = "stopped" => ~Alive(cmd[c].of)

OneAtATime ==
  /\ "beside" \notin flaws => \A d, e \in Daemon : Begun(d) /\ Begun(e) => d = e
  /\ "handover" \notin flaws => \A d, e \in Daemon : Holding(d) /\ Holding(e) => d = e

Found ==
  /\ "beside" \notin flaws => \A d \in Daemon : pc[d] = "listen" => path = None
  /\ "handover" \notin flaws => \A d \in Daemon \ asked :
       /\ pc[d] \in {"pidfile", "serve"} => path = d /\ server[d] = "open"
       /\ pc[d] = "serve" => pidfile = d

\* What an ended daemon left as recorded is what the pid file names, and nobody has
\* begun since.
Inherited ==
  "beside" \notin flaws =>
    \A d \in Daemon : ~Alive(d) /\ "up" \in backend[d] =>
      record = d /\ \A e \in Daemon : ~Begun(e)

SweptClean ==
  Unless({"late", "unswept"}) =>
    \A d \in Daemon :
      /\ pc[d] \in {"wait", "unpid", "exit"} => backend[d] \cap Recorded = {}
      /\ pc[d] = "gone" => backend[d] \subseteq {"spawned"}

\* How a daemon can have ended, as the history tells it.
Ended == "died" \notin flaws => \A d \in Daemon : pc[d] \notin {"dead", "failed"}

Inv == /\ Typed /\ Basics /\ OneAtATime /\ FailsOnlyBeside /\ Found
       /\ Inherited /\ SweptClean /\ Ended

-----------------------------------------------------------------------------

LEMMA InitInv == Init => Inv
<1> SUFFICES ASSUME Init
             PROVE  Inv
  OBVIOUS
<1> USE DEF Init
<1>1. Typed
  BY DEF Typed, TypeOK
<1>2. Basics /\ Found
  BY DaemonsConstants DEF Basics, Alive, Found
<1>3. OneAtATime /\ FailsOnlyBeside /\ Ended
  BY DEF OneAtATime, Begun, Holding, Alive, FailsOnlyBeside, Ended
<1>4. Inherited /\ SweptClean
  BY DEF Inherited, Recorded, SweptClean
<1> QED BY <1>1, <1>2, <1>3, <1>4 DEF Inv

\* The flaws there are, the places of Run, and what becomes of a process.
Flaws == {"late", "unswept", "beside", "handover", "died"}
Pcs == {"unborn", "reclaim", "bind", "remove", "listen", "pidfile",
        "serve", "reap", "wait", "unpid", "exit", "gone", "dead", "failed"}
Tags == Running \cup Over

LEMMA LeftIs == ASSUME NEW d PROVE Left(d) \subseteq {"up", "spawned"}
BY DEF Left

LEMMA LeavesType ==
  ASSUME Typed, NEW d \in Daemon, NEW how \in {"gone", "dead", "failed"}, Leaves(d, how)
  PROVE  /\ pc' \in [Daemon -> Pcs] /\ asked' \subseteq Daemon
         /\ server' \in [Daemon -> {"none", "open", "closed", "removed"}]
         /\ port' \in Daemon \cup {None}
         /\ greeting' \subseteq Daemon /\ client' \subseteq Daemon
         /\ backend' \in [Daemon -> SUBSET Tags] /\ flaws' \subseteq Flaws
<1> USE DEF Typed, TypeOK, Leaves
<1>1. Left(d) \in SUBSET Tags
  BY LeftIs DEF Tags, Running, Recorded
<1>2. backend' \in [Daemon -> SUBSET Tags]
  BY <1>1 DEF Tags
<1>3. pc' \in [Daemon -> Pcs]
  BY DEF Goto, Pcs
<1> QED BY <1>2, <1>3 DEF Flaws

\* What a step does to the processes of a daemon, apart from its own steps of Run.
LEMMA BecomesIs ==
  ASSUME Typed, NEW d \in Daemon, NEW old, NEW new \in SUBSET Tags, Becomes(d, old, new)
  PROVE  /\ backend' \in [Daemon -> SUBSET Tags]
         /\ backend'[d] = (backend[d] \ old) \cup new
         /\ \A e \in Daemon \ {d} : backend'[e] = backend[e]
BY DEF Typed, TypeOK, Becomes, Tags

Tends(d) ==
  \/ Boot(d) \/ Registered(d) \/ BootFails(d) \/ Refused(d) \/ Disconnect(d) \/ Ends(d)
  \/ Noticed(d) \/ Cleaned(d) \/ Drop(d) \/ StopEnds(d) \/ Sweep(d) \/ SweepEnds(d)

LEMMA TendsBackend ==
  ASSUME Typed, NEW d \in Daemon, Tends(d)
  PROVE  /\ backend' \in [Daemon -> SUBSET Tags]
         /\ \A e \in Daemon \ {d} : backend'[e] = backend[e]
         /\ record' = record \/ (record' \in {d, None} /\ Alive(d) /\ backend[d] # {})
         /\ pc[d] \in {"unborn", "reclaim", "bind"} /\ backend[d] = {} => backend'[d] = {}
         /\ ~Alive(d) => backend'[d] \subseteq backend[d]
         /\ Alive(d) /\ ~({"up", "spawned"} \subseteq backend[d])
              => ~({"up", "spawned"} \subseteq backend'[d])
         /\ /\ pc[d] \in {"wait", "unpid", "exit"} /\ "late" \notin flaws'
            /\ backend[d] \cap Recorded = {}
            => backend'[d] \cap Recorded = {}
<1> USE DEF Tags, Running, Stopping, Swept, Recorded, Over, InMap
<1>1. CASE Boot(d)
  <2>1. PICK due \in SUBSET {"cleaning"} : Becomes(d, {"ended"}, {"spawned"} \cup due)
    BY <1>1 DEF Boot, Spawns
  <2>2. Open(d) /\ "up" \notin backend[d] /\ record' = record
    BY <1>1 DEF Boot, Idle, files
  <2> QED BY <2>1, <2>2, BecomesIs DEF Open, Alive
<1>2. CASE Registered(d)
  <2>1. Alive(d) /\ "spawned" \in backend[d] /\ record' = d
        /\ (pc[d] \in {"wait", "unpid", "exit"} => "late" \in flaws')
    BY <1>2 DEF Registered
  <2>2. \E new \in SUBSET {"up", "outlived", "outswept", "lost"} :
          Becomes(d, {"spawned", "dropped", "swept", "forgotten"}, new)
    BY <1>2 DEF Registered
  <2> QED BY <2>1, <2>2, BecomesIs
<1>3. CASE BootFails(d) \/ Noticed(d) \/ Drop(d) \/ Sweep(d) \/ StopEnds(d)
  <2>1. Alive(d) /\ backend[d] # {} /\ record' = record
    BY <1>3 DEF BootFails, Noticed, Drop, Sweep, StopEnds, Alive, files
  <2>2. CASE BootFails(d) \/ Noticed(d) \/ StopEnds(d)
    <3>1. \E old \in SUBSET Tags, new \in SUBSET {"cleaning"} : Becomes(d, old, new)
      <4>1. Becomes(d, {"spawned"}, {}) \/ Becomes(d, {"ended"}, {"cleaning"})
            \/ \E s \in {"dropped", "outlived"} : Becomes(d, {s}, {"cleaning"})
        BY <2>2 DEF BootFails, Noticed, StopEnds
      <4>2. /\ {"spawned"} \in SUBSET Tags /\ {"ended"} \in SUBSET Tags
            /\ \A s \in {"dropped", "outlived"} : {s} \in SUBSET Tags
        OBVIOUS
      <4> QED BY <4>1, <4>2
    <3> QED BY <2>1, <3>1, BecomesIs
  <2>3. CASE Drop(d) \/ Sweep(d)
    <3>1. \E new \in SUBSET {"dropped", "swept"} : Becomes(d, InMap, new)
      BY <2>3 DEF Drop, Sweep
    <3>2. pc[d] \notin {"wait", "unpid", "exit"}
      BY <2>3 DEF Drop, Sweep
    <3> QED BY <2>1, <3>1, <3>2, BecomesIs
  <2> QED BY <1>3, <2>2, <2>3
<1>4. CASE Refused(d) \/ Disconnect(d)
  <2>1. UNCHANGED <<backend, record>>
    BY <1>4 DEF Refused, Disconnect, files
  <2> QED BY <2>1 DEF Typed, TypeOK
<1>5. CASE Ends(d)
  <2>1. record' = record
    BY <1>5 DEF Ends, files
  <2>2. CASE Alive(d)
    <3>1. backend[d] # {} /\ \E old \in SUBSET Tags, new \in SUBSET {"ended"} :
            Becomes(d, old, new)
      BY <1>5, <2>2 DEF Ends
    <3> QED BY <2>1, <2>2, <3>1, BecomesIs
  <2>3. CASE ~Alive(d)
    <3>1. \E s \in backend[d] : Becomes(d, {s}, {})
      BY <1>5, <2>3 DEF Ends
    <3>2. pc[d] \notin {"wait", "unpid", "exit"}
      BY <2>3 DEF Alive
    <3> QED BY <2>1, <2>3, <3>1, <3>2, BecomesIs
  <2> QED BY <2>2, <2>3
<1>6. CASE Cleaned(d) \/ SweepEnds(d)
  <2>1. Alive(d) /\ backend[d] # {} /\ record' = None
    BY <1>6 DEF Cleaned, SweepEnds, Erases
  <2>2. \E old \in SUBSET Tags, new \in SUBSET {"forgotten"} :
          "up" \in old /\ Becomes(d, old, new)
    BY <1>6 DEF Cleaned, SweepEnds, Erases
  <2> QED BY <2>1, <2>2, BecomesIs
<1> QED BY <1>1, <1>2, <1>3, <1>4, <1>5, <1>6 DEF Tends

LEMMA BackendsType ==
  ASSUME Typed, NEW d \in Daemon, Tends(d)
  PROVE  Typed'
<1> USE DEF Tends, Boot, Registered, BootFails, Refused, Disconnect, Ends, Noticed, Cleaned,
        SweepEnds, Erases, Drop, Sweep, StopEnds
<1>1. backend' \in [Daemon -> SUBSET Tags] /\ record' \in {record, d, None}
  BY TendsBackend
<1>2. client' \subseteq Daemon /\ greeting' \subseteq Daemon
  BY DEF Typed, TypeOK, Served
<1>3. flaws' \subseteq Flaws
  BY DEF Typed, TypeOK, Flaws
<1>4. UNCHANGED <<pc, asked, server, path, port, pidfile, cmd>>
  BY DEF files
<1> QED BY <1>1, <1>2, <1>3, <1>4 DEF Typed, TypeOK, Flaws, Tags

\* Reconcile takes from every daemon what the pid file names.
LEMMA ReclaimBackend ==
  ASSUME Typed, NEW d \in Daemon, Reclaim(d)
  PROVE  /\ backend' \in [Daemon -> SUBSET Tags]
         /\ \A e \in Daemon :
              /\ backend[e] = {} => backend'[e] = {}
              /\ ~Alive(e) => backend'[e] \subseteq backend[e]
              /\ ~Alive(e) /\ record = e => "up" \notin backend'[e]
              /\ backend'[e] \subseteq backend[e] \cup Over
<1> DEFINE Spared(e) ==
       IF record # e THEN backend[e]
       ELSE IF ~Alive(e) THEN backend[e] \ {"up"}
       ELSE (backend[e] \ {"up", "dropped"})
              \cup {s \in {"ended"} : "up" \in backend[e]}
              \cup {s \in {"cleaning"} : "dropped" \in backend[e]}
<1>1. backend' = [e \in Daemon |-> Spared(e)]
  BY DEF Reclaim
<1>2. \A e \in Daemon : backend[e] \subseteq Tags
  BY DEF Typed, TypeOK, Tags
<1>3. ASSUME NEW e \in Daemon
      PROVE  /\ Spared(e) \in SUBSET Tags
             /\ backend[e] = {} => Spared(e) = {}
             /\ ~Alive(e) => Spared(e) \subseteq backend[e]
             /\ ~Alive(e) /\ record = e => "up" \notin Spared(e)
             /\ Spared(e) \subseteq backend[e] \cup Over
  BY <1>2 DEF Tags, Over
<1> HIDE DEF Spared
<1> QED BY <1>1, <1>3

LEMMA StartingType ==
  ASSUME Typed, NEW d \in Daemon,
         Reclaim(d) \/ Bind(d) \/ Remove(d) \/ Listen(d) \/ WritePidfile(d)
  PROVE  Typed'
<1> USE DEF Typed, TypeOK
<1>1. CASE Reclaim(d)
  <2>1. backend' \in [Daemon -> SUBSET Tags]
    BY <1>1, ReclaimBackend
  <2>2. pc' \in [Daemon -> Pcs]
    BY <1>1 DEF Reclaim, Goto, Pcs
  <2>3. client' \subseteq Daemon /\ record' = None /\ flaws' \subseteq Flaws
    BY <1>1 DEF Reclaim, Flaws, Served
  <2>4. UNCHANGED <<asked, server, path, port, pidfile, greeting, cmd>>
    BY <1>1 DEF Reclaim
  <2> QED BY <2>1, <2>2, <2>3, <2>4 DEF Pcs, Flaws, Tags
<1>2. CASE Bound(d) \/ Remove(d) \/ WritePidfile(d) \/ (Listen(d) /\ path = None)
  <2> USE DEF Bound, Remove, WritePidfile, Listen
  <2>1. pc' \in [Daemon -> Pcs]
    BY <1>2 DEF Goto, Pcs
  <2>2. server' \in [Daemon -> {"none", "open", "closed", "removed"}]
    BY <1>2
  <2>3. {path', port', pidfile', record'} \subseteq {path, port, pidfile, record, d, None}
    BY <1>2 DEF files
  <2>4. flaws' \subseteq Flaws
    BY <1>2 DEF Flaws
  <2>5. UNCHANGED <<asked, backend, greeting, client, cmd>>
    BY <1>2
  <2> QED BY <2>1, <2>2, <2>3, <2>4, <2>5 DEF Flaws, Pcs
<1>3. CASE (Bind(d) /\ ~Bound(d)) \/ (Listen(d) /\ path # None)
  <2>1. Leaves(d, "failed") /\ UNCHANGED <<path, pidfile, record, cmd>>
    BY <1>3 DEF Bind, Listen, files
  <2> QED BY <2>1, LeavesType DEF Tags, Pcs, Flaws
<1> QED BY <1>1, <1>2, <1>3 DEF Bind

LEMMA EndingType ==
  ASSUME Typed, NEW d \in Daemon,
         \/ Release(d) \/ CloseServer(d) \/ BeginShutdown(d) \/ Reaped(d) \/ Waited(d)
         \/ Unpid(d) \/ Exit(d) \/ Dies(d)
  PROVE  Typed'
<1> USE DEF Typed, TypeOK
<1>1. CASE Exit(d) \/ Dies(d)
  BY <1>1, LeavesType DEF Exit, Dies, files, Tags, Pcs, Flaws
<1>2. CASE ~(Exit(d) \/ Dies(d))
  <2> USE DEF Release, CloseServer, BeginShutdown, Reaped, Waited, Unpid
  <2>1. pc' \in [Daemon -> Pcs]
    BY <1>2 DEF Goto, Pcs
  <2>2. server' \in [Daemon -> {"none", "open", "closed", "removed"}]
    BY <1>2
  <2>3. {path', port', pidfile', record'} \subseteq {path, port, pidfile, record, None}
    BY <1>2 DEF files
  <2>4. flaws' \subseteq Flaws
    BY <1>2 DEF Flaws
  <2>5. UNCHANGED <<asked, backend, cmd>>
    BY <1>2
  <2>6. greeting' \subseteq Daemon /\ client' \subseteq Daemon
    BY <1>2 DEF Held
  <2> QED BY <2>1, <2>2, <2>3, <2>4, <2>5, <2>6 DEF Flaws, Pcs
<1> QED BY <1>1, <1>2

LEMMA CommandType ==
  ASSUME Typed, NEW c \in Command, Up(c) \/ Start(c) \/ Down(c) \/ Stopped(c)
  PROVE  Typed'
<1> USE DEF Typed, TypeOK
<1>1. cmd' \in [Command -> [pc : {"new", "start", "await", "done", "stopped"},
                           of : Daemon \cup {None}]]
  <2>1. \E w \in {"new", "start", "await", "done", "stopped"}, o \in Daemon \cup {None} :
          cmd' = [cmd EXCEPT ![c] = [pc |-> w, of |-> o]]
    <3>1. CASE Up(c)
      BY <3>1 DEF Up, Then
    <3>2. CASE Start(c)
      BY <3>2 DEF Start, Then
    <3>3. CASE Down(c)
      BY <3>3 DEF Down, Then
    <3>4. CASE Stopped(c)
      BY <3>4 DEF Stopped, Then
    <3> QED BY <3>1, <3>2, <3>3, <3>4
  <2> QED BY <2>1
<1>2. pc' \in [Daemon -> Pcs]
  BY DEF Up, Start, Down, Stopped, Goto, Pcs
<1>3. asked' \subseteq Daemon
  BY DEF Up, Start, Down, Stopped
<1>4. UNCHANGED <<server, path, port, pidfile, record, backend, greeting, client, flaws>>
  BY DEF Up, Start, Down, Stopped, CommandStep, files
<1> QED BY <1>1, <1>2, <1>3, <1>4 DEF Pcs

LEMMA TypedStep == Typed /\ [Next]_vars => Typed'
<1>1. Typed /\ UNCHANGED vars => Typed'
  BY DEF Typed, TypeOK, vars
<1> QED BY <1>1, BackendsType, StartingType, EndingType, CommandType DEF Next, Run, Tends
-----------------------------------------------------------------------------
(* What a step of each kind leaves alone. *)

Commands == \E c \in Command : Up(c) \/ Start(c) \/ Down(c) \/ Stopped(c)

\* The daemon ends, for whatever reason.
Goes(d) ==
  \E how \in {"gone", "dead", "failed"} :
    /\ Leaves(d, how) /\ UNCHANGED <<path, pidfile, record, cmd>>
    /\ \/ how = "gone" /\ pc[d] = "exit"
       \/ how = "dead" /\ Alive(d)
       \/ how = "failed" /\ pc[d] = "bind" /\ port # None
       \/ how = "failed" /\ pc[d] = "listen" /\ path # None

\* It goes on from one step to the next and neither reclaims nor binds anything.
GoesOn(d) ==
  \/ Remove(d) \/ (Listen(d) /\ path = None) \/ WritePidfile(d) \/ Release(d)
  \/ CloseServer(d) \/ BeginShutdown(d) \/ Reaped(d) \/ Waited(d) \/ Unpid(d)

LEMMA NextIs ==
  ASSUME [Next]_vars
  PROVE  \/ \E d \in Daemon : Tends(d) \/ Reclaim(d) \/ Bound(d) \/ GoesOn(d) \/ Goes(d)
         \/ Commands \/ UNCHANGED vars
<1>1. ASSUME NEW d \in Daemon, Bind(d)
      PROVE  Bound(d) \/ Goes(d)
  BY <1>1 DEF Bind, Goes, files
<1>2. ASSUME NEW d \in Daemon, Listen(d)
      PROVE  GoesOn(d) \/ Goes(d)
  BY <1>2 DEF Listen, Goes, GoesOn
<1>3. ASSUME NEW d \in Daemon, Exit(d) \/ Dies(d)
      PROVE  Goes(d)
  BY <1>3 DEF Exit, Dies, Goes, files
<1> QED BY <1>1, <1>2, <1>3 DEF Next, Run, Tends, GoesOn, Commands

LEMMA TendsFrame ==
  ASSUME NEW d \in Daemon, Tends(d)
  PROVE  /\ UNCHANGED <<pc, asked, server, path, port, pidfile, cmd>>
         /\ flaws \subseteq flaws' /\ flaws' \subseteq flaws \cup {"late"}
BY DEF Tends, Boot, Registered, BootFails, Refused, Disconnect, Ends, Noticed, Cleaned,
   SweepEnds, Erases, Drop, Sweep, StopEnds, files

LEMMA CommandsFrame ==
  ASSUME Typed, Commands
  PROVE  /\ UNCHANGED <<server, path, port, pidfile, record, backend, flaws>>
         /\ asked \subseteq asked'
         /\ \A d \in Daemon : pc'[d] = pc[d] \/ (pc[d] = "unborn" /\ pc'[d] = "reclaim")
BY DEF Commands, Up, Start, Down, Stopped, CommandStep, files, Goto, Typed, TypeOK

LEMMA GoesOnFrame ==
  ASSUME Typed, NEW d \in Daemon, GoesOn(d)
  PROVE  /\ \A e \in Daemon \ {d} : pc'[e] = pc[e]
         /\ Alive(d) /\ Alive(d)'
         /\ pc'[d] = pc[d] \/ (Holding(d) /\ Holding(d)')
         /\ UNCHANGED <<asked, record, backend, cmd>>
         /\ flaws \subseteq flaws' /\ flaws' \subseteq flaws \cup {"unswept"}
<1> USE DEF Typed, TypeOK, Goto, files
<1>1. CASE Release(d) \/ CloseServer(d)
  <2>1. Alive(d) /\ pc' = pc /\ flaws' = flaws
    BY <1>1 DEF Release, CloseServer
  <2>2. UNCHANGED <<asked, record, backend, cmd>>
    BY <1>1 DEF Release, CloseServer
  <2>3. Alive(d)'
    BY <2>1 DEF Alive
  <2> QED BY <2>1, <2>2, <2>3
<1>2. CASE Remove(d) \/ (Listen(d) /\ path = None) \/ WritePidfile(d)
  BY <1>2 DEF Remove, Listen, WritePidfile, Alive, Holding, Begun
<1>3. CASE BeginShutdown(d) \/ Reaped(d) \/ Waited(d) \/ Unpid(d)
  BY <1>3 DEF BeginShutdown, Reaped, Waited, Unpid, Alive, Holding, Begun
<1> QED BY <1>1, <1>2, <1>3 DEF GoesOn

LEMMA GoesFrame ==
  ASSUME Typed, NEW d \in Daemon, Goes(d)
  PROVE  /\ \A e \in Daemon \ {d} : /\ pc'[e] = pc[e] /\ server'[e] = server[e]
                                    /\ backend'[e] = backend[e]
         /\ Alive(d) /\ ~Alive(d)' /\ pc'[d] # "unborn"
         /\ server'[d] = "none" /\ port' = IF port = d THEN None ELSE port
         /\ asked' = asked \ {d} /\ UNCHANGED <<path, pidfile, record, cmd>>
         /\ backend'[d] \subseteq {"up", "spawned"}
         /\ "up" \in backend'[d] => record = d /\ backend[d] \cap Recorded # {}
         /\ pc'[d] # "gone" => "died" \in flaws'
         /\ flaws \subseteq flaws' /\ flaws' \subseteq flaws \cup {"died"}
<1>1. backend' = [backend EXCEPT ![d] = Left(d)]
  BY DEF Goes, Leaves
<1>2. Left(d) \subseteq {"up", "spawned"}
  BY LeftIs
<1>3. "up" \in Left(d) => record = d /\ backend[d] \cap Recorded # {}
  BY DEF Left
<1>4. backend'[d] = Left(d) /\ \A e \in Daemon \ {d} : backend'[e] = backend[e]
  BY <1>1 DEF Typed, TypeOK
<1>5. /\ \A e \in Daemon \ {d} : pc'[e] = pc[e] /\ server'[e] = server[e]
      /\ Alive(d) /\ ~Alive(d)' /\ pc'[d] # "unborn"
      /\ server'[d] = "none" /\ port' = IF port = d THEN None ELSE port
      /\ asked' = asked \ {d} /\ UNCHANGED <<path, pidfile, record, cmd>>
      /\ pc'[d] # "gone" => "died" \in flaws'
      /\ flaws \subseteq flaws' /\ flaws' \subseteq flaws \cup {"died"}
  BY DEF Typed, TypeOK, Goes, Leaves, Goto, Alive
<1> QED BY <1>2, <1>3, <1>4, <1>5

LEMMA FlawsGrow == Typed /\ [Next]_vars => flaws \subseteq flaws'
<1> SUFFICES ASSUME Typed, [Next]_vars
             PROVE  flaws \subseteq flaws'
  OBVIOUS
<1>1. ASSUME NEW d \in Daemon, Reclaim(d) \/ Bound(d)
      PROVE  flaws \subseteq flaws'
  BY <1>1 DEF Reclaim, Bound
<1>2. CASE UNCHANGED vars
  BY <1>2 DEF vars
<1> QED BY <1>1, <1>2, NextIs, TendsFrame, GoesOnFrame, GoesFrame, CommandsFrame

-----------------------------------------------------------------------------
(* Who can be where. *)

LEMMA OneAtATimeStep == Typed /\ OneAtATime /\ [Next]_vars => OneAtATime'
<1> SUFFICES ASSUME Typed, OneAtATime, [Next]_vars
             PROVE  OneAtATime'
  OBVIOUS
<1> USE DEF OneAtATime, Begun, Holding
<1>1. ASSUME NEW d \in Daemon, Tends(d)
      PROVE  OneAtATime'
  BY <1>1, TendsFrame DEF Alive
<1>2. ASSUME NEW d \in Daemon, Reclaim(d)
      PROVE  OneAtATime'
  <2>1. pc[d] = "reclaim" /\ pc' = [pc EXCEPT ![d] = "bind"]
    BY <1>2 DEF Reclaim, Goto
  <2>2. flaws \subseteq flaws' /\ ("beside" \notin flaws' => Beside(d) = {})
    BY <1>2 DEF Reclaim
  <2> QED BY <2>1, <2>2 DEF Typed, TypeOK, Beside, Alive
<1>3. ASSUME NEW d \in Daemon, Bound(d)
      PROVE  OneAtATime'
  <2>1. pc[d] = "bind" /\ pc' = [pc EXCEPT ![d] = "remove"]
    BY <1>3 DEF Bound, Goto
  <2>2. flaws \subseteq flaws'
    BY <1>3 DEF Bound
  <2>3. "handover" \notin flaws' => \A e \in Beside(d) : pc[e] \in {"reclaim", "bind"}
    BY <1>3 DEF Bound
  <2> QED BY <2>1, <2>2, <2>3 DEF Typed, TypeOK, Beside, Alive
<1>4. ASSUME NEW d \in Daemon, GoesOn(d)
      PROVE  OneAtATime'
  BY <1>4, GoesOnFrame DEF Alive
<1>5. ASSUME NEW d \in Daemon, Goes(d)
      PROVE  OneAtATime'
  BY <1>5, GoesFrame DEF Alive
<1>6. CASE Commands
  BY <1>6, CommandsFrame DEF Alive
<1>7. CASE UNCHANGED vars
  BY <1>7 DEF vars, Alive
<1> QED BY <1>1, <1>2, <1>3, <1>4, <1>5, <1>6, <1>7, NextIs

LEMMA BasicsStep == Typed /\ Basics /\ [Next]_vars => Basics'
<1> SUFFICES ASSUME Typed, Basics, [Next]_vars
             PROVE  Basics'
  OBVIOUS
<1>0. /\ port # None => port \in Daemon
      /\ None \notin Daemon
  BY DaemonsConstants DEF Typed, TypeOK
<1> USE DEF Basics, Begun, Holding, Typed, TypeOK
<1>1. ASSUME NEW d \in Daemon, Tends(d)
      PROVE  Basics'
  <2>1. UNCHANGED <<pc, asked, server, path, port, pidfile, cmd>>
    BY <1>1, TendsFrame
  <2>2. /\ \A e \in Daemon \ {d} : backend'[e] = backend[e]
        /\ pc[d] \in {"unborn", "reclaim", "bind"} => backend'[d] = {}
        /\ ~Alive(d) => backend'[d] \subseteq {"up", "spawned"}
        /\ Alive(d) => ~({"up", "spawned"} \subseteq backend'[d])
    BY <1>1, TendsBackend
  <2> QED BY <2>1, <2>2 DEF Alive
<1>2. ASSUME NEW d \in Daemon, Reclaim(d)
      PROVE  Basics'
  <2>1. pc[d] = "reclaim" /\ pc' = [pc EXCEPT ![d] = "bind"] /\ UNCHANGED <<server, port, cmd>>
    BY <1>2 DEF Reclaim, Goto
  <2>2. \A e \in Daemon : /\ backend[e] = {} => backend'[e] = {}
                          /\ ~Alive(e) => backend'[e] \subseteq backend[e]
                          /\ backend'[e] \subseteq backend[e] \cup Over
    BY <1>2, ReclaimBackend
  <2>3. \A e \in Daemon : Alive(e)' <=> Alive(e)
    BY <2>1 DEF Alive
  <2>4. \A e \in Daemon : /\ pc'[e] \in {"unborn", "reclaim", "bind"} => backend'[e] = {}
                          /\ ~Alive(e) => backend'[e] \subseteq {"up", "spawned"}
                          /\ Alive(e) => ~({"up", "spawned"} \subseteq backend'[e])
    BY <2>1, <2>2 DEF Alive, Over
  <2> QED BY <1>0, <2>1, <2>3, <2>4 DEF Alive
<1>3. ASSUME NEW d \in Daemon, Bound(d)
      PROVE  Basics'
  <2>1. /\ pc[d] = "bind" /\ pc' = [pc EXCEPT ![d] = "remove"]
        /\ port' \in {d, None}
        /\ UNCHANGED <<server, backend, cmd>>
    BY <1>3 DEF Bound, Goto
  <2> QED BY <1>0, <2>1 DEF Alive
<1>4. ASSUME NEW d \in Daemon, GoesOn(d)
      PROVE  Basics'
  <2>1. UNCHANGED <<backend, cmd>> /\ port' \in {port, None}
    BY <1>4 DEF GoesOn, Remove, Listen, WritePidfile, Release, CloseServer, BeginShutdown,
       Reaped, Waited, Unpid, files
  <2>2. \A e \in Daemon \ {d} : server'[e] = server[e] /\ pc'[e] = pc[e]
    BY <1>4 DEF GoesOn, Remove, Listen, WritePidfile, Release, CloseServer, BeginShutdown,
       Reaped, Waited, Unpid, files, Goto
  <2>3. server'[d] # "none" => Holding(d)' /\ pc'[d] \notin {"remove", "listen"}
    BY <1>4 DEF GoesOn, Remove, Listen, WritePidfile, Release, CloseServer, BeginShutdown,
       Reaped, Waited, Unpid, files, Goto, Alive
  <2>4. /\ Alive(d) /\ Alive(d)' /\ (Holding(d) => Holding(d)')
        /\ pc'[d] \in {"unborn", "reclaim", "bind"} => pc'[d] = pc[d]
    BY <1>4, GoesOnFrame DEF Alive
  <2> QED BY <1>0, <2>1, <2>2, <2>3, <2>4 DEF Alive
<1>5. ASSUME NEW d \in Daemon, Goes(d)
      PROVE  Basics'
  <2>1. \A e \in Daemon \ {d} : /\ pc'[e] = pc[e] /\ server'[e] = server[e]
                               /\ backend'[e] = backend[e]
    BY <1>5, GoesFrame
  <2>2. /\ ~Alive(d)' /\ pc'[d] # "unborn" /\ server'[d] = "none" /\ UNCHANGED cmd
        /\ backend'[d] \subseteq {"up", "spawned"}
        /\ port' = IF port = d THEN None ELSE port
    BY <1>5, GoesFrame
  <2> QED BY <1>0, <2>1, <2>2 DEF Alive
<1>6. CASE Commands
  <2>1. /\ UNCHANGED <<server, port, backend>>
        /\ \A d \in Daemon : pc'[d] = pc[d] \/ (pc[d] = "unborn" /\ pc'[d] = "reclaim")
    BY <1>6, CommandsFrame
  <2>2. \A c \in Command :
          /\ cmd'[c].pc \in {"await", "stopped"} => cmd'[c].of \in Daemon /\ pc[cmd'[c].of] # "unborn"
          /\ cmd'[c].pc = "stopped" => ~Alive(cmd'[c].of)
    BY <1>6 DEF Commands, Up, Start, Down, Stopped, Then, Alive
  <2> QED BY <1>0, <2>1, <2>2 DEF Alive
<1>7. CASE UNCHANGED vars
  BY <1>7 DEF vars, Alive
<1> QED BY <1>1, <1>2, <1>3, <1>4, <1>5, <1>6, <1>7, NextIs

-----------------------------------------------------------------------------
(* The files lead to the daemon that serves. *)

LEMMA FailsStep ==
  Typed /\ Basics /\ OneAtATime /\ Found /\ FailsOnlyBeside /\ [Next]_vars => FailsOnlyBeside'
<1> SUFFICES ASSUME Typed, Basics, OneAtATime, Found, FailsOnlyBeside, [Next]_vars,
                    NEW d \in Daemon, pc'[d] = "failed"
             PROVE  "beside" \in flaws'
  BY DEF FailsOnlyBeside
<1>1. flaws \subseteq flaws'
  BY FlawsGrow
<1>2. CASE pc[d] = "failed"
  BY <1>1, <1>2 DEF FailsOnlyBeside
<1>3. CASE pc[d] # "failed"
  <2>1. Goes(d)
    <3>1. ASSUME NEW e \in Daemon, Tends(e) \/ Reclaim(e) \/ Bound(e) \/ GoesOn(e)
          PROVE  FALSE
      <4>1. CASE Tends(e)
        BY <4>1, <1>3, TendsFrame
      <4>2. CASE Reclaim(e) \/ Bound(e)
        BY <4>2, <1>3 DEF Reclaim, Bound, Goto, Typed, TypeOK
      <4>3. CASE GoesOn(e)
        BY <4>3, <1>3, GoesOnFrame DEF Alive
      <4> QED BY <3>1, <4>1, <4>2, <4>3
    <3>2. ~Commands /\ ~UNCHANGED vars
      BY <1>3, CommandsFrame DEF vars
    <3>3. ASSUME NEW e \in Daemon, Goes(e)
          PROVE  e = d
      BY <3>3, <1>3, GoesFrame
    <3> QED BY <3>1, <3>2, <3>3, NextIs
  <2>2. \/ pc[d] = "bind" /\ port # None
        \/ pc[d] = "listen" /\ path # None
    BY <2>1 DEF Goes, Leaves, Goto, Typed, TypeOK
  <2>3. CASE pc[d] = "bind" /\ port # None
    <3>1. port \in Daemon /\ Holding(port) /\ Begun(d) /\ port # d
      BY <2>3 DEF Basics, Typed, TypeOK, Holding, Begun, Alive
    <3> QED BY <3>1, <1>1 DEF OneAtATime, Holding
  <2>4. CASE pc[d] = "listen" /\ path # None
    BY <2>4, <1>1 DEF Found
  <2> QED BY <2>2, <2>3, <2>4
<1> QED BY <1>2, <1>3

\* Where the files lead changes by a step of a daemon that is there alone.
LEMMA FoundStep == Typed /\ Basics /\ OneAtATime /\ Found /\ [Next]_vars => Found'
<1> SUFFICES ASSUME Typed, Basics, OneAtATime, Found, [Next]_vars
             PROVE  Found'
  OBVIOUS
<1>0. flaws \subseteq flaws'
  BY FlawsGrow
<1>1. ASSUME NEW d \in Daemon, Tends(d)
      PROVE  Found'
  BY <1>0, <1>1, TendsFrame DEF Found
<1>2. ASSUME NEW d \in Daemon, Reclaim(d) \/ Bound(d)
      PROVE  Found'
  <2>1. \A e \in Daemon : pc'[e] = pc[e] \/ pc'[e] \in {"bind", "remove"}
    BY <1>2 DEF Reclaim, Bound, Goto, Typed, TypeOK
  <2>2. UNCHANGED <<asked, server, path, pidfile>>
    BY <1>2 DEF Reclaim, Bound, files
  <2> QED BY <1>0, <2>1, <2>2 DEF Found
<1>3. ASSUME NEW d \in Daemon, Remove(d) \/ CloseServer(d)
      PROVE  Found'
  <2>1. path' = None /\ UNCHANGED <<asked, pidfile>>
    BY <1>3 DEF Remove, CloseServer
  <2>2. Holding(d) /\ (d \in asked \/ pc'[d] = "listen")
    BY <1>3 DEF Remove, CloseServer, Holding, Begun, Alive, Basics, Goto, Typed, TypeOK
  <2>3. \A e \in Daemon \ {d} : pc'[e] = pc[e]
    BY <1>3, GoesOnFrame DEF GoesOn
  <2>4. "handover" \notin flaws => \A e \in Daemon \ {d} : pc[e] \notin {"pidfile", "serve"}
    BY <2>2 DEF OneAtATime, Holding, Begun, Alive
  <2> QED BY <1>0, <2>1, <2>2, <2>3, <2>4 DEF Found
<1>4. ASSUME NEW d \in Daemon, Listen(d), path = None
      PROVE  Found'
  <2>1. /\ pc[d] = "listen" /\ pc' = [pc EXCEPT ![d] = "pidfile"] /\ path' = d
        /\ server' = [server EXCEPT ![d] = "open"] /\ UNCHANGED <<asked, pidfile>>
    BY <1>4 DEF Listen, Goto
  <2>2. Holding(d) /\ Begun(d)
    BY <2>1 DEF Holding, Begun, Alive
  <2>3. /\ "handover" \notin flaws => \A e \in Daemon \ {d} : pc[e] \notin {"pidfile", "serve"}
        /\ "beside" \notin flaws => \A e \in Daemon \ {d} : pc[e] # "listen"
    BY <2>2 DEF OneAtATime, Holding, Begun, Alive
  <2> QED BY <1>0, <2>1, <2>3 DEF Found, Typed, TypeOK
<1>5. ASSUME NEW d \in Daemon, WritePidfile(d) \/ Unpid(d)
      PROVE  Found'
  <2>1. UNCHANGED <<asked, server, path>>
    BY <1>5 DEF WritePidfile, Unpid
  <2>2. /\ \A e \in Daemon \ {d} : pc'[e] = pc[e]
        /\ \/ pc[d] = "pidfile" /\ pc'[d] = "serve" /\ pidfile' = d
           \/ pc[d] = "unpid" /\ pc'[d] = "exit"
    BY <1>5 DEF WritePidfile, Unpid, Goto, Typed, TypeOK
  <2>3. "handover" \notin flaws => \A e \in Daemon \ {d} : pc[e] \notin {"pidfile", "serve"}
    BY <2>2 DEF OneAtATime, Holding, Begun, Alive
  <2> QED BY <1>0, <2>1, <2>2, <2>3 DEF Found
<1>6. ASSUME NEW d \in Daemon, Release(d) \/ BeginShutdown(d) \/ Reaped(d) \/ Waited(d)
      PROVE  Found'
  <2>1. UNCHANGED <<asked, server, path, pidfile>>
    BY <1>6 DEF Release, BeginShutdown, Reaped, Waited, files
  <2>2. \A e \in Daemon : pc'[e] = pc[e] \/ pc'[e] \in {"reap", "wait", "unpid"}
    BY <1>6 DEF Release, BeginShutdown, Reaped, Waited, Goto, Typed, TypeOK
  <2> QED BY <1>0, <2>1, <2>2 DEF Found
<1>7. ASSUME NEW d \in Daemon, Goes(d)
      PROVE  Found'
  <2>1. ~Alive(d)'
    BY <1>7, GoesFrame
  <2> QED BY <1>0, <1>7, <2>1, GoesFrame DEF Found, Alive
<1>8. CASE Commands
  BY <1>0, <1>8, CommandsFrame DEF Found
<1>9. CASE UNCHANGED vars
  BY <1>9 DEF vars, Found
<1> QED BY <1>1, <1>2, <1>3, <1>4, <1>5, <1>6, <1>7, <1>8, <1>9, NextIs DEF GoesOn

-----------------------------------------------------------------------------
(* The backends. *)

LEMMA InheritedStep ==
  Typed /\ Basics /\ OneAtATime /\ Inherited /\ [Next]_vars => Inherited'
<1> SUFFICES ASSUME Typed, Basics, OneAtATime, Inherited, [Next]_vars,
                    "beside" \notin flaws',
                    NEW e \in Daemon, ~Alive(e)', "up" \in backend'[e]
             PROVE  record' = e /\ \A x \in Daemon : ~Begun(x)'
  BY DEF Inherited
<1>0. "beside" \notin flaws
  BY FlawsGrow
<1>a. ~Alive(e) /\ "up" \in backend[e] => record = e /\ \A x \in Daemon : ~Begun(x)
  BY <1>0 DEF Inherited
<1>1. ASSUME NEW d \in Daemon, Tends(d)
      PROVE  record' = e /\ \A x \in Daemon : ~Begun(x)'
  <2>1. pc' = pc
    BY <1>1, TendsFrame
  <2>2. \A x \in Daemon : (Begun(x)' <=> Begun(x)) /\ (Alive(x)' <=> Alive(x))
    BY <2>1 DEF Begun, Alive
  <2>3. "up" \in backend[e]
    BY <1>1, <2>2, TendsBackend
  <2>4. record' = record \/ Begun(d)
    BY <1>1, TendsBackend DEF Basics, Begun
  <2> QED BY <1>a, <2>2, <2>3, <2>4
<1>2. ASSUME NEW d \in Daemon, Reclaim(d)
      PROVE  FALSE
  <2>1. Beside(d) = {} /\ pc[d] = "reclaim" /\ pc' = [pc EXCEPT ![d] = "bind"]
    BY <1>2 DEF Reclaim, Goto
  <2>2. ~Alive(e)
    BY <2>1 DEF Alive, Typed, TypeOK
  <2>3. "up" \in backend[e]
    BY <1>2, <2>2, ReclaimBackend
  <2>4. record = e
    BY <1>a, <2>2, <2>3
  <2> QED BY <1>2, <2>2, <2>4, ReclaimBackend
<1>3. ASSUME NEW d \in Daemon, Bound(d) \/ GoesOn(d)
      PROVE  record' = e /\ \A x \in Daemon : ~Begun(x)'
  <2>1. UNCHANGED <<backend, record>>
    BY <1>3, GoesOnFrame DEF Bound, files
  <2>2. \A x \in Daemon : (Begun(x)' <=> Begun(x)) /\ (Alive(x)' <=> Alive(x))
    <3>1. CASE Bound(d)
      BY <3>1 DEF Bound, Goto, Begun, Alive, Typed, TypeOK
    <3>2. CASE GoesOn(d)
      BY <3>2, GoesOnFrame DEF Begun, Holding, Alive
    <3> QED BY <1>3, <3>1, <3>2
  <2> QED BY <1>a, <2>1, <2>2
<1>4. ASSUME NEW d \in Daemon, Goes(d)
      PROVE  record' = e /\ \A x \in Daemon : ~Begun(x)'
  <2>1. /\ record' = record /\ ~Begun(d)' /\ Alive(d)
        /\ \A x \in Daemon \ {d} : (Begun(x)' <=> Begun(x)) /\ (Alive(x)' <=> Alive(x))
    BY <1>4, GoesFrame DEF Begun, Alive
  <2>2. CASE e # d
    <3>1. "up" \in backend[e]
      BY <1>4, <2>2, GoesFrame
    <3> QED BY <1>a, <2>1, <2>2, <3>1
  <2>3. CASE e = d
    <3>1. record = d /\ backend[d] # {}
      BY <1>4, <2>3, GoesFrame
    <3>2. Begun(d)
      BY <2>1, <3>1 DEF Basics, Begun
    <3>3. \A x \in Daemon \ {d} : ~Begun(x)
      BY <1>0, <3>2 DEF OneAtATime
    <3> QED BY <2>1, <2>3, <3>1, <3>3
  <2> QED BY <2>2, <2>3
<1>5. CASE Commands
  <2>1. UNCHANGED <<backend, record>>
        /\ \A x \in Daemon : (Begun(x)' <=> Begun(x)) /\ (Alive(x) => Alive(x)')
    BY <1>5, CommandsFrame DEF Begun, Alive
  <2> QED BY <1>a, <2>1
<1>6. CASE UNCHANGED vars
  BY <1>a, <1>6 DEF vars, Begun, Alive
<1> QED BY <1>1, <1>2, <1>3, <1>4, <1>5, <1>6, NextIs

LEMMA SweptCleanStep == Typed /\ SweptClean /\ [Next]_vars => SweptClean'
<1> SUFFICES ASSUME Typed, SweptClean, [Next]_vars,
                    {"late", "unswept"} \cap flaws' = {}, NEW e \in Daemon
             PROVE  /\ pc'[e] \in {"wait", "unpid", "exit"} => backend'[e] \cap Recorded = {}
                    /\ pc'[e] = "gone" => backend'[e] \subseteq {"spawned"}
  BY DEF SweptClean, Unless
<1>0. /\ pc[e] \in {"wait", "unpid", "exit"} => backend[e] \cap Recorded = {}
      /\ pc[e] = "gone" => backend[e] \subseteq {"spawned"}
  BY FlawsGrow DEF SweptClean, Unless
<1> DEFINE Clean == /\ pc'[e] \in {"wait", "unpid", "exit"} => backend'[e] \cap Recorded = {}
                    /\ pc'[e] = "gone" => backend'[e] \subseteq {"spawned"}
<1>1. ASSUME NEW d \in Daemon, Tends(d)
      PROVE  Clean
  <2>1. pc' = pc /\ "late" \notin flaws'
    BY <1>1, TendsFrame
  <2>2. pc[d] = "gone" => backend'[d] \subseteq backend[d]
    BY <1>1, TendsBackend DEF Alive
  <2> QED BY <1>0, <1>1, <2>1, <2>2, TendsBackend
<1>2. ASSUME NEW d \in Daemon, Reclaim(d)
      PROVE  Clean
  <2>1. pc'[e] = pc[e] \/ pc'[e] = "bind"
    BY <1>2 DEF Reclaim, Goto, Typed, TypeOK
  <2>2. /\ backend'[e] \subseteq backend[e] \cup Over
        /\ pc[e] = "gone" => backend'[e] \subseteq backend[e]
    BY <1>2, ReclaimBackend DEF Alive
  <2> QED BY <1>0, <2>1, <2>2 DEF Over, Recorded
<1>3. ASSUME NEW d \in Daemon, Bound(d) \/ GoesOn(d)
      PROVE  Clean
  <2>1. backend' = backend
    BY <1>3, GoesOnFrame DEF Bound
  <2>2. CASE Reaped(d)
    <3>1. backend[d] \cap Recorded = {}
      BY <2>2 DEF Reaped, Recorded, InMap, Swept
    <3>2. pc' = [pc EXCEPT ![d] = "wait"]
      BY <2>2 DEF Reaped, Goto
    <3> QED BY <1>0, <2>1, <3>1, <3>2 DEF Typed, TypeOK
  <2>3. CASE ~Reaped(d)
    <3>1. \/ pc'[e] = pc[e]
          \/ pc'[e] \notin {"wait", "unpid", "exit", "gone"}
          \/ pc[e] \in {"wait", "unpid"} /\ pc'[e] # "gone"
      BY <1>3, <2>3 DEF Bound, GoesOn, Remove, Listen, WritePidfile, Release, CloseServer,
         BeginShutdown, Waited, Unpid, Goto, Typed, TypeOK
    <3> QED BY <1>0, <2>1, <3>1
  <2> QED BY <2>2, <2>3
<1>4. ASSUME NEW d \in Daemon, Goes(d)
      PROVE  Clean
  <2>1. CASE e # d
    BY <1>0, <1>4, <2>1, GoesFrame
  <2>2. CASE e = d
    <3>1. pc'[d] \notin {"wait", "unpid", "exit"}
      BY <1>4, GoesFrame DEF Alive
    <3>2. ASSUME pc'[d] = "gone"
          PROVE  backend'[d] \subseteq {"spawned"}
      <4>1. pc[d] = "exit"
        BY <1>4, <3>2 DEF Goes, Leaves, Goto, Typed, TypeOK
      <4> QED BY <1>0, <1>4, <2>2, <4>1, GoesFrame
    <3> QED BY <2>2, <3>1, <3>2
  <2> QED BY <2>1, <2>2
<1>5. CASE Commands
  BY <1>0, <1>5, CommandsFrame
<1>6. CASE UNCHANGED vars
  BY <1>0, <1>6 DEF vars
<1> QED BY <1>1, <1>2, <1>3, <1>4, <1>5, <1>6, NextIs

LEMMA EndedStep == Typed /\ Ended /\ [Next]_vars => Ended'
<1> SUFFICES ASSUME Typed, Ended, [Next]_vars, "died" \notin flaws', NEW e \in Daemon
             PROVE  pc'[e] \notin {"dead", "failed"}
  BY DEF Ended
<1>0. pc[e] \notin {"dead", "failed"}
  BY FlawsGrow DEF Ended
<1>1. ASSUME NEW d \in Daemon, Tends(d)
      PROVE  pc'[e] \notin {"dead", "failed"}
  BY <1>0, <1>1, TendsFrame
<1>2. ASSUME NEW d \in Daemon, Reclaim(d) \/ Bound(d)
      PROVE  pc'[e] \notin {"dead", "failed"}
  BY <1>0, <1>2 DEF Reclaim, Bound, Goto, Typed, TypeOK
<1>3. ASSUME NEW d \in Daemon, GoesOn(d)
      PROVE  pc'[e] \notin {"dead", "failed"}
  BY <1>0, <1>3, GoesOnFrame DEF Alive
<1>4. ASSUME NEW d \in Daemon, Goes(d)
      PROVE  pc'[e] \notin {"dead", "failed"}
  <2>1. CASE e # d
    BY <1>0, <1>4, <2>1, GoesFrame
  <2>2. CASE e = d
    BY <1>4, <2>2, GoesFrame
  <2> QED BY <2>1, <2>2
<1>5. CASE Commands
  BY <1>0, <1>5, CommandsFrame
<1>6. CASE UNCHANGED vars
  BY <1>0, <1>6 DEF vars
<1> QED BY <1>1, <1>2, <1>3, <1>4, <1>5, <1>6, NextIs

-----------------------------------------------------------------------------

LEMMA InvHolds == Spec => []Inv
<1>1. Inv /\ [Next]_vars => Inv'
  BY TypedStep, BasicsStep, OneAtATimeStep, FailsStep, FoundStep, InheritedStep, SweptCleanStep,
     EndedStep DEF Inv
<1> QED BY InitInv, <1>1, PTL DEF Spec

\* However daemons start, crash and fail beside each other, the one that serves
\* is found by its socket and by its pid file, and none fails to start alone.
THEOREM ServingIsFound == Spec => []FoundWhileServing
<1>1. Inv => FoundWhileServing
  <2> SUFFICES ASSUME Inv, "handover" \notin flaws,
                      NEW d \in Daemon, pc[d] = "serve", d \notin asked
               PROVE  Reachable /\ path = d /\ pidfile = d
    BY DEF Inv, Typed, FoundWhileServing, Unless
  <2>1. path = d /\ server[d] = "open" /\ pidfile = d
    BY DEF Inv, Found
  <2> QED BY <2>1, DaemonsConstants DEF Reachable
<1> QED BY InvHolds, <1>1, PTL

\* A process runs beside another one of the instance only while its daemon stops one
\* of them, or as a stray: Reconcile has killed what a dead daemon left recorded.
THEOREM BackendIsAlone == Spec => []OneBackend
<1>1. Inv => OneBackend
  <2> SUFFICES ASSUME Inv, "beside" \notin flaws,
                      NEW d \in Daemon, NEW e \in Daemon,
                      NEW s \in backend[d] \cap Running, NEW t \in backend[e] \cap Running,
                      ~Stray(d, s), ~Stray(e, t), <<d, s>> # <<e, t>>
               PROVE  d = e /\ {s, t} \cap Stopping # {}
    BY DEF OneBackend, Unless
  <2>1. \A x \in Daemon : Alive(x) /\ backend[x] # {} => Begun(x)
    BY DEF Inv, Basics, Begun
  <2>2. \A x \in Daemon : \A u \in backend[x] : ~Alive(x) /\ ~Stray(x, u)
          => u = "up" /\ record = x /\ \A y \in Daemon : ~Begun(y)
    BY DEF Inv, Basics, Inherited, Stray
  <2>3. d = e
    <3>1. CASE Alive(d) /\ Alive(e)
      BY <2>1, <3>1 DEF Inv, OneAtATime
    <3>2. CASE ~Alive(d)
      <4>1. record = d /\ ~Begun(e)
        BY <2>2, <3>2
      <4> QED BY <2>1, <2>2, <4>1
    <3>3. CASE ~Alive(e)
      <4>1. record = e /\ ~Begun(d)
        BY <2>2, <3>3
      <4> QED BY <2>1, <2>2, <4>1
    <3> QED BY <3>1, <3>2, <3>3
  <2>4. s # t /\ Alive(d)
    BY <2>2, <2>3
  <2>5. ~({s, t} \subseteq {"up", "spawned"})
    BY <2>3, <2>4 DEF Inv, Basics
  <2>6. {s, t} \subseteq {"up", "spawned"} \cup Stopping
    BY DEF Stray, Running, Recorded, Stopping, Swept
  <2> QED BY <2>3, <2>5, <2>6
<1> QED BY InvHolds, <1>1, PTL

\* When doze down has waited for the end of a daemon, nothing is left of it but what
\* its pid file did not name.
THEOREM DownIsClean == Spec => []DownLeavesNothing
<1>1. Inv => DownLeavesNothing
  <2> SUFFICES ASSUME Inv, Unless({"late", "unswept", "died"}),
                      NEW c \in Command, cmd[c].pc = "stopped"
               PROVE  port # cmd[c].of /\ backend[cmd[c].of] \subseteq {"spawned"}
    BY DEF DownLeavesNothing
  <2>1. cmd[c].of \in Daemon /\ ~Alive(cmd[c].of) /\ pc[cmd[c].of] # "unborn"
    BY DEF Inv, Basics
  <2>2. pc[cmd[c].of] = "gone"
    BY <2>1 DEF Inv, Ended, Unless, Alive
  <2>3. backend[cmd[c].of] \subseteq {"spawned"}
    BY <2>1, <2>2 DEF Inv, SweptClean, Unless
  <2>4. port # cmd[c].of
    BY <2>1, DaemonsConstants DEF Inv, Basics, Holding, Begun
  <2> QED BY <2>3, <2>4
<1> QED BY InvHolds, <1>1, PTL
================================================================================
