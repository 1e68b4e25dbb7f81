------------------------------ MODULE Daemons -------------------------------
(***************************************************************************)
(* The daemons of one stack, one after the other and sometimes beside each *)
(* other: how a daemon starts and ends (daemon.Run, control.NewServer and  *)
(* Serve), how commands find, start and stop it (daemonctl), and the files *)
(* they know each other by: the control socket, doze.pid and the pid file  *)
(* of a backend, which the next daemon reclaims (Runtime.Reconcile).       *)
(*                                                                         *)
(* The stack has one instance, whose life is in Runtime; here its          *)
(* processes are booted, stopped or end at any moment, and a boot may      *)
(* begin while the process before is still being stopped.  All listeners   *)
(* of the stack are one, on a port, or there is none.  The stack has no    *)
(* names, which would exclude a second daemon by a registry of the         *)
(* machine.                                                                *)
(***************************************************************************)
EXTENDS Naturals

CONSTANTS
  Exclusive,  \* a listener of the stack is on a port, which has one owner
  Daemon,     \* bound: the daemons that are ever started, by their pids, which grow
  Command,    \* bound: the invocations of doze up and doze down, in their order
  None        \* nobody

ASSUME DaemonsConstants ==
  /\ Daemon \cup Command \subseteq Nat /\ None \notin Daemon
  /\ Exclusive \in BOOLEAN

VARIABLES
  pc,       \* where each daemon is in Run
  asked,    \* the live ones that were sent SIGTERM
  server,   \* the control server of each
  path,     \* whose socket the path of the control socket leads to
  port,     \* whose listeners have the addresses of the stack
  pidfile,  \* doze.pid
  backend,  \* the processes that each daemon booted, by what becomes of them
  greeting, \* those that end with a connection that has not said what it wants
  client,   \* those that end with one that waits for a boot, or has a backend
  record,   \* the pid file of the backend: the daemon that booted the one it names
  cmd,      \* how far each command is
  flaws     \* history: the unguarded cases that have occurred

vars == <<pc, asked, server, path, port, pidfile, backend, greeting, client, record,
          cmd, flaws>>
files == <<path, pidfile, record>>

Init ==
  /\ pc = [d \in Daemon |-> "unborn"]
  /\ asked = {}
  /\ server = [d \in Daemon |-> "none"]
  /\ path = None /\ port = None /\ pidfile = None
  /\ backend = [d \in Daemon |-> {}]
  /\ greeting = {} /\ client = {} /\ record = None
  /\ cmd = [c \in Command |-> [pc |-> "new", of |-> None]]
  /\ flaws = {}

Alive(d) == pc[d] \notin {"unborn", "gone", "dead", "failed"}
Beside(d) == {e \in Daemon \ {d} : Alive(e)}

\* A process that was started is registered and recorded ("up"), until a Stop
\* ("dropped") or StopAll ("swept") takes it out of the map.  At most one of these is
\* there, the last that registered, which the pid file names; one that is still being
\* stopped when the next registers is "outlived" or "outswept".  One whose pid file
\* and mark in the registry were removed behind its back is "forgotten", still in the
\* map, and "lost" once the next boot has taken its place there.
Recorded == {"up", "dropped", "swept"}
Swept    == {"swept", "outswept"}
Stopping == Swept \cup {"dropped", "outlived"}
Running  == Recorded \cup Stopping \cup {"spawned", "forgotten", "lost"}
InMap    == {"up", "forgotten"}

\* It has ended: in the map still, or with a Stop or its watcher past the maps and
\* about to remove the pid file.
Over == {"ended", "cleaning"}

\* A removal of the pid file is due, by a Stop that still waits or by somebody who
\* has noticed an end.  Bound: one is due at a time, the one of StopAll apart.
Due(d) == backend[d] \cap {"dropped", "outlived", "cleaning"} # {}

Runs(d) == backend[d] \cap Running # {}

\* It has bound the addresses of the stack, and not begun to reap its backends.
Open(d) == pc[d] \in {"remove", "listen", "pidfile", "serve"}

Goto(d, where) == pc' = [pc EXCEPT ![d] = where]

Becomes(d, old, new) == backend' = [backend EXCEPT ![d] = (@ \ old) \cup new]

\* The connections of a daemon end with the last of its processes.
Served == client' = {e \in client : Runs(e)'}

\* What the daemon leaves running: the process that its pid file names ("up"), and
\* others ("spawned").
Left(d) ==
  LET named == {s \in Recorded : record = d}
  IN  {s \in {"up"} : backend[d] \cap named # {}}
        \cup {s \in {"spawned"} : backend[d] \cap (Running \ named) # {}}

\* With the process go its listeners, and nothing else.
Leaves(d, how) ==
  /\ Goto(d, how)
  /\ asked' = asked \ {d}
  /\ port' = IF port = d THEN None ELSE port
  /\ greeting' = greeting \ {d} /\ client' = client \ {d}
  /\ server' = [server EXCEPT ![d] = "none"]
  /\ backend' = [backend EXCEPT ![d] = Left(d)]
  /\ flaws' = flaws \cup {f \in {"died"} : how # "gone"}

-----------------------------------------------------------------------------
(* Backends. *)

\* Nothing that runs and is marked as running, and no boot to join.
Idle(d) == backend[d] \cap {"spawned", "up"} = {}

\* A process is started, although one may still be stopping, or one that has ended
\* may still be in the map; its watcher takes it out in time or finds the next one.
\* Bound: beside such a one while no other daemon is alive.
Spawns(d) ==
  /\ ~("ended" \in backend[d] /\ Due(d))
  /\ backend[d] # {} => Beside(d) = {}
  /\ \E due \in SUBSET {s \in {"cleaning"} : "ended" \in backend[d]} :
       Becomes(d, {"ended"}, {"spawned"} \cup due)

\* A mutant: BeginShutdown does not close the gate.
BootAnyTime(d) ==
  /\ Open(d) \/ pc[d] = "reap"
  /\ Idle(d) /\ Spawns(d)
  /\ UNCHANGED <<pc, asked, server, files, port, greeting, client, cmd, flaws>>

\* A connection, or a command once the daemon serves, boots the instance: its process
\* is started ...
Boot(d) ==
  /\ Open(d) /\ Idle(d) /\ Spawns(d)
  /\ UNCHANGED <<pc, asked, server, files, port, greeting, client, cmd, flaws>>

\* ... and, once it is ready, registered and recorded.
Registered(d) ==
  /\ Alive(d) /\ "spawned" \in backend[d]
  /\ Becomes(d, {"spawned", "dropped", "swept", "forgotten"},
             {"up"} \cup {s \in {"outlived"} : "dropped" \in backend[d]}
                    \cup {s \in {"outswept"} : "swept" \in backend[d]}
                    \cup {s \in {"lost"} : "forgotten" \in backend[d]})
  /\ record' = d
  /\ flaws' = flaws \cup {f \in {"late"} : pc[d] \in {"wait", "unpid", "exit"}}
  /\ UNCHANGED <<pc, asked, server, path, port, pidfile, greeting, client, cmd>>

\* The boot fails, or its context is cancelled, and what it started is stopped.
BootFails(d) ==
  /\ Alive(d) /\ "spawned" \in backend[d]
  /\ Becomes(d, {"spawned"}, {}) /\ Served
  /\ UNCHANGED <<pc, asked, server, files, port, greeting, cmd, flaws>>

\* A connection that has said nothing is refused, or the client leaves.
Refused(d) ==
  /\ d \in greeting
  /\ greeting' = greeting \ {d}
  /\ UNCHANGED <<pc, asked, server, files, port, backend, client, cmd, flaws>>

\* The client of another leaves; a boot it waits for is not told.
Disconnect(d) ==
  /\ d \in client /\ "spawned" \notin backend[d]
  /\ client' = client \ {d}
  /\ UNCHANGED <<pc, asked, server, files, port, backend, greeting, cmd, flaws>>

\* The backend ends by itself, or of the signal that Linux sends when its daemon
\* is gone, and its connections with it.
Ends(d) ==
  /\ \/ Alive(d) /\ backend[d] \cap InMap # {} /\ Becomes(d, InMap, {"ended"})
     \/ Alive(d) /\ "lost" \in backend[d] /\ Becomes(d, {"lost"}, {})
     \/ ~Alive(d) /\ \E s \in backend[d] : Becomes(d, {s}, {})
  /\ Served
  /\ UNCHANGED <<pc, asked, server, files, port, greeting, cmd, flaws>>

\* Runtime.watch takes it out of the map, or a Stop that finds it there ...
Noticed(d) ==
  /\ Alive(d) /\ "ended" \in backend[d] /\ ~Due(d)
  /\ Becomes(d, {"ended"}, {"cleaning"})
  /\ UNCHANGED <<pc, asked, server, files, port, greeting, client, cmd, flaws>>

\* ... and removes the pid file and the mark, whatever they speak of by then.
Erases(d, what) ==
  /\ Becomes(d, what \cup {"up"}, {s \in {"forgotten"} : InMap \cap backend[d] # {}})
  /\ record' = None

Cleaned(d) ==
  /\ Alive(d) /\ "cleaning" \in backend[d]
  /\ Erases(d, {"cleaning"})
  /\ UNCHANGED <<pc, asked, server, path, port, pidfile, greeting, client, cmd, flaws>>

\* Runtime.Stop, called by the reaper or a command, takes it out of the maps ...
\* Bound: it is called while no other daemon is alive.
Drop(d) ==
  /\ pc[d] \in {"serve", "reap"} /\ backend[d] \cap InMap # {}
  /\ ~Due(d) /\ Beside(d) = {}
  /\ Becomes(d, InMap, {"dropped"})
  /\ UNCHANGED <<pc, asked, server, files, port, greeting, client, cmd, flaws>>

\* ... until the process is gone; its pid file is then removed like that of one
\* that has ended.
StopEnds(d) ==
  /\ Alive(d)
  /\ \E s \in backend[d] \cap {"dropped", "outlived"} : Becomes(d, {s}, {"cleaning"})
  /\ Served
  /\ UNCHANGED <<pc, asked, server, files, port, greeting, cmd, flaws>>

\* StopAll makes the same call ...
Sweep(d) ==
  /\ pc[d] = "reap" /\ backend[d] \cap InMap # {} /\ backend[d] \cap Swept = {}
  /\ Becomes(d, InMap, {"swept"})
  /\ UNCHANGED <<pc, asked, server, files, port, greeting, client, cmd, flaws>>

\* ... and waits for it before it looks again: no boot begins any more.
SweepEnds(d) ==
  /\ Alive(d) /\ backend[d] \cap Swept # {}
  /\ Erases(d, Swept) /\ Served
  /\ UNCHANGED <<pc, asked, server, path, port, pidfile, greeting, cmd, flaws>>

-----------------------------------------------------------------------------
(* Run, from its start until it serves. *)

\* A mutant: what a crash left behind is not killed.
ReclaimNothing(d) ==
  /\ pc[d] = "reclaim"
  /\ Goto(d, "bind")
  /\ record' = None
  /\ flaws' = flaws \cup {f \in {"beside"} : Beside(d) # {}}
  /\ UNCHANGED <<asked, server, path, port, pidfile, backend, greeting, client, cmd>>

\* Reconcile kills what the pid file names, whose daemon may be alive: it will
\* notice, or its Stop return.
Reclaim(d) ==
  /\ pc[d] = "reclaim"
  /\ Goto(d, "bind")
  /\ backend' = [e \in Daemon |->
       IF record # e THEN backend[e]
       ELSE IF ~Alive(e) THEN backend[e] \ {"up"}
       ELSE (backend[e] \ {"up", "dropped"})
              \cup {s \in {"ended"} : "up" \in backend[e]}
              \cup {s \in {"cleaning"} : "dropped" \in backend[e]}]
  /\ Served
  /\ record' = None
  /\ flaws' = flaws \cup {f \in {"beside"} : Beside(d) # {}}
  /\ UNCHANGED <<asked, server, path, port, pidfile, greeting, cmd>>

\* The addresses are free, or Run fails.  A stack without a listener has none.
Bound(d) ==
  /\ pc[d] = "bind" /\ port = None
  /\ port' = IF Exclusive THEN d ELSE None
  /\ Goto(d, "remove")
  /\ flaws' = flaws \cup {f \in {"handover"} :
                       \E e \in Beside(d) : pc[e] \notin {"reclaim", "bind"}}
  /\ UNCHANGED <<asked, server, files, backend, greeting, client, cmd>>

\* A mutant: the control socket is set up before the listeners.
BindLate(d) ==
  \/ Bound(d)
  \/ /\ pc[d] = "bind" /\ port # None /\ Leaves(d, "failed")
     /\ path' = None
     /\ UNCHANGED <<pidfile, record, cmd>>

Bind(d) ==
  \/ Bound(d)
  \/ /\ pc[d] = "bind" /\ port # None /\ Leaves(d, "failed")
     /\ UNCHANGED <<files, cmd>>

\* NewServer removes the path and listens on it.
Remove(d) ==
  /\ pc[d] = "remove"
  /\ Goto(d, "listen")
  /\ path' = None
  /\ UNCHANGED <<asked, server, port, pidfile, backend, greeting, client, record, cmd, flaws>>

Listen(d) ==
  /\ pc[d] = "listen"
  /\ IF path = None
       THEN /\ Goto(d, "pidfile")
            /\ path' = d /\ server' = [server EXCEPT ![d] = "open"]
            /\ UNCHANGED <<asked, port, backend, greeting, client, flaws>>
       ELSE Leaves(d, "failed") /\ UNCHANGED path
  /\ UNCHANGED <<pidfile, record, cmd>>

WritePidfile(d) ==
  /\ pc[d] = "pidfile"
  /\ Goto(d, "serve")
  /\ pidfile' = d
  /\ UNCHANGED <<asked, server, path, port, backend, greeting, client, record, cmd, flaws>>

-----------------------------------------------------------------------------
(* Its end. *)

\* The listeners close on the signal, wherever Run is.
Release(d) ==
  /\ Alive(d) /\ d \in asked /\ port = d
  /\ port' = None
  /\ UNCHANGED <<pc, asked, server, files, backend, greeting, client, cmd, flaws>>

\* The goroutine of Serve: closing a listener removes its path, and so does the
\* line after it, whoever listens there by now.
CloseServer(d) ==
  /\ Alive(d) /\ d \in asked /\ pc[d] \notin {"listen", "pidfile"}
  /\ \/ server[d] = "open" /\ server' = [server EXCEPT ![d] = "closed"]
     \/ server[d] = "closed" /\ server' = [server EXCEPT ![d] = "removed"]
  /\ path' = None
  /\ UNCHANGED <<pc, asked, port, pidfile, backend, greeting, client, record, cmd, flaws>>

BeginShutdown(d) ==
  /\ pc[d] = "serve" /\ d \in asked
  /\ Goto(d, "reap")
  /\ UNCHANGED <<asked, server, files, port, backend, greeting, client, cmd, flaws>>

\* The connections that are there when the backends are reaped, accepted long ago
\* perhaps, count from here on: what the others did was to boot.
Held(d) ==
  /\ greeting' \in {greeting, greeting \cup {d}}
  /\ client' \in {client, client \cup {e \in {d} : Runs(e)}}

\* A mutant: StopAll does not wait for the calls it has made.
ReapedSoon(d) ==
  /\ pc[d] = "reap" /\ backend[d] \cap (InMap \cup {"ended"}) = {}
  /\ Goto(d, "wait")
  /\ flaws' = flaws \cup {f \in {"unswept"} : backend[d] \cap {"dropped", "outlived"} # {}}
  /\ Held(d)
  /\ UNCHANGED <<asked, server, files, port, backend, cmd>>

\* StopAll finds nothing registered.  It does not see a boot that has registered
\* nothing yet, nor what another call of Stop is still stopping.
Reaped(d) ==
  /\ pc[d] = "reap" /\ backend[d] \cap (InMap \cup {"ended"} \cup Swept) = {}
  /\ Goto(d, "wait")
  /\ flaws' = flaws \cup {f \in {"unswept"} : backend[d] \cap {"dropped", "outlived"} # {}}
  /\ Held(d)
  /\ UNCHANGED <<asked, server, files, port, backend, cmd>>

\* The handlers of the connections have returned.  Nothing bounds wg.Wait, nor how
\* long a client takes to say what it wants.
Waited(d) ==
  /\ pc[d] = "wait" /\ d \notin greeting \cup client
  /\ Goto(d, "unpid")
  /\ UNCHANGED <<asked, server, files, port, backend, greeting, client, cmd, flaws>>

\* The pid file is removed whatever it names.
Unpid(d) ==
  /\ pc[d] = "unpid"
  /\ Goto(d, "exit")
  /\ pidfile' = None
  /\ UNCHANGED <<asked, server, path, port, backend, greeting, client, record, cmd, flaws>>

Exit(d) ==
  /\ pc[d] = "exit"
  /\ Leaves(d, "gone")
  /\ UNCHANGED <<files, cmd>>

\* It crashes, is killed, or a step of Run that is not modelled fails, before or
\* after a first connection has booted something.
Dies(d) ==
  /\ Alive(d)
  /\ Leaves(d, "dead")
  /\ UNCHANGED <<files, cmd>>

-----------------------------------------------------------------------------
(* Commands. *)

Reachable == path # None /\ server[path] = "open"

Then(c, where, d) == cmd' = [cmd EXCEPT ![c] = [pc |-> where, of |-> d]]

Begins(c) == cmd[c].pc = "new" /\ \A b \in Command : b < c => cmd[b].pc # "new"

CommandStep == UNCHANGED <<server, files, port, backend, greeting, client, flaws>>

\* doze up, and Attach: is a daemon there?
Up(c) ==
  /\ Begins(c)
  /\ Then(c, IF Reachable THEN "done" ELSE "start", None)
  /\ UNCHANGED <<pc, asked>> /\ CommandStep

\* Another command may have started one by now.  The wait for the socket that
\* follows changes nothing.
Start(c) ==
  /\ cmd[c].pc = "start"
  /\ \E d \in Daemon :
       /\ pc[d] = "unborn" /\ \A e \in Daemon : e < d => pc[e] # "unborn"
       /\ Goto(d, "reclaim")
       /\ Then(c, "done", None)
  /\ UNCHANGED asked /\ CommandStep

\* doze down, and Shutdown: the daemon that doze.pid names, if it is alive.
Down(c) ==
  /\ Begins(c)
  /\ IF pidfile # None /\ Alive(pidfile)
       THEN asked' = asked \cup {pidfile} /\ Then(c, "await", pidfile)
       ELSE asked' = asked /\ Then(c, "done", None)
  /\ UNCHANGED pc /\ CommandStep

\* It is gone, or twenty seconds have passed.
Stopped(c) ==
  /\ cmd[c].pc = "await"
  /\ IF Alive(cmd[c].of) THEN Then(c, "done", None) ELSE Then(c, "stopped", cmd[c].of)
  /\ UNCHANGED <<pc, asked>> /\ CommandStep

-----------------------------------------------------------------------------
Run(d) ==
  \/ Reclaim(d) \/ Bind(d) \/ Remove(d) \/ Listen(d) \/ WritePidfile(d)
  \/ BeginShutdown(d) \/ Reaped(d) \/ Waited(d) \/ Unpid(d) \/ Exit(d)

Next ==
  \/ \E d \in Daemon :
       \/ Boot(d) \/ Refused(d) \/ Disconnect(d) \/ Registered(d) \/ BootFails(d)
       \/ Ends(d) \/ Noticed(d) \/ Cleaned(d) \/ Drop(d) \/ StopEnds(d) \/ Sweep(d) \/ SweepEnds(d)
       \/ Run(d) \/ Release(d) \/ CloseServer(d) \/ Dies(d)
  \/ \E c \in Command : Up(c) \/ Start(c) \/ Down(c) \/ Stopped(c)

Spec == Init /\ [][Next]_vars

\* A daemon goes on with what it does, its goroutines close the listeners, notice
\* and clean up, StopAll goes on with its stop, and a boot, which has a budget,
\* comes to its end.  Clients do what they like.
FairSpec ==
  /\ Spec
  /\ \A d \in Daemon :
       /\ WF_vars(Run(d)) /\ WF_vars(Release(d))
       /\ WF_vars(Noticed(d)) /\ WF_vars(Cleaned(d))
       /\ WF_vars(Registered(d) \/ BootFails(d))
       /\ WF_vars(Sweep(d)) /\ WF_vars(SweepEnds(d)) /\ WF_vars(StopEnds(d))

-----------------------------------------------------------------------------
(* Properties. *)

TypeOK ==
  /\ pc \in [Daemon -> {"unborn", "reclaim", "bind", "remove", "listen", "pidfile",
                        "serve", "reap", "wait", "unpid", "exit", "gone", "dead", "failed"}]
  /\ asked \subseteq Daemon
  /\ server \in [Daemon -> {"none", "open", "closed", "removed"}]
  /\ {path, port, pidfile, record} \subseteq Daemon \cup {None}
  /\ backend \in [Daemon -> SUBSET (Running \cup Over)]
  /\ greeting \subseteq Daemon /\ client \subseteq Daemon
  /\ \A c \in Command :
       /\ cmd[c].pc \in {"new", "start", "await", "done", "stopped"}
       /\ cmd[c].of \in Daemon \cup {None}
  /\ flaws \subseteq {"late", "unswept", "beside", "handover", "died"}

Unless(cases) == flaws \cap cases = {}

\* A daemon fails to start only beside another one: what a crash leaves, a socket
\* file and a pid file, does not keep the next one from starting.
FailsOnlyBeside == (\E d \in Daemon : pc[d] = "failed") => "beside" \in flaws

\* A daemon that serves and was not asked to stop is found by its socket and by
\* its pid file, "however we started" (daemon.go:309), beside others that fail
\* to start and after any crash, unless it took over from one that was still
\* reaping.
FoundWhileServing ==
  /\ TypeOK /\ FailsOnlyBeside
  /\ Unless({"handover"}) =>
       \A d \in Daemon : pc[d] = "serve" /\ d \notin asked => Reachable /\ path = d /\ pidfile = d

\* Two processes of the instance run on the same data, across crashes of daemons,
\* only if the daemon that booted both is stopping one of them, or one is stray: its
\* daemon ended while its pid file did not name it (Runtime.Reconcile), or the late
\* end of a Stop or watcher has removed its record and mark (runtime.go:680, 715);
\* or if two daemons were alive at once.
Stray(d, s) == s \in {"forgotten", "lost"} \/ (s = "spawned" /\ ~Alive(d))
OneBackend ==
  Unless({"beside"}) =>
    \A d, e \in Daemon : \A s \in backend[d] \cap Running, t \in backend[e] \cap Running :
      \/ <<d, s>> = <<e, t>>
      \/ d = e /\ {s, t} \cap Stopping # {}
      \/ Stray(d, s) \/ Stray(e, t)

\* When doze down says that the stack is stopped, nothing of that daemon listens or
\* runs (down.go:13), or only what its pid file did not name, unless it died, a boot
\* ended after the reaping, or somebody else was stopping the backend meanwhile.
DownLeavesNothing ==
  Unless({"late", "unswept", "died"}) =>
    \A c \in Command : cmd[c].pc = "stopped" =>
      port # cmd[c].of /\ backend[cmd[c].of] \subseteq {"spawned"}

\* A daemon that was sent SIGTERM ends, and doze down has something to wait for
\* (daemon.go:331), unless a client holds it for good: one that never says what it
\* wants, or one whose backend StopAll did not find, lost or booted too late.
Kept(d) ==
  d \in greeting \/ (d \in client /\ backend[d] \cap (InMap \cup {"lost"}) # {})
AskedEnds == \A d \in Daemon : <>[]Kept(d) \/ (d \in asked ~> ~Alive(d))
=============================================================================
