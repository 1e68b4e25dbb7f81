----------------------------- MODULE FileWatch ------------------------------
(***************************************************************************)
(* The restart of an app when a file it watches changes: the poll loop     *)
(* (internal/watch), what it does with the app (runtime/watch.go), and the *)
(* boots and stops that start and cancel such loops (runtime.go).          *)
(*                                                                         *)
(* The files are a version, which every write increases.  An app has the   *)
(* version that was there when it was spawned.  A crash is noticed at      *)
(* once; what else happens to an app is in Runtime.                        *)
(***************************************************************************)
EXTENDS Naturals, FiniteSets

CONSTANTS Poller,     \* bound: the poll loops that exist at once
          None,       \* no poll loop
          MaxWrite,   \* bound: the writes to watched files
          MaxMove     \* bound: the wakes, stops and crashes

ASSUME FileWatchConstants == None \notin Poller /\ MaxWrite \in Nat /\ MaxMove \in Nat

VARIABLES
  files,    \* the version of the watched files
  app,      \* whether the app is registered, and the version it has read
  pending,  \* Runtime.readyPending: on_ready is to be run again
  failed,   \* the registry says that the app failed
  boot,     \* how far the boot in flight is
  watcher,  \* Runtime.watchers: the loop a Stop would cancel
  loops,    \* the poll loops
  seen,     \* history: the versions written by somebody else than a boot, the
            \* newest that a loop had to notice, whether the app was last
            \* stopped, and the unguarded cases that have occurred
  used      \* what of MaxMove is used

vars == <<files, app, pending, failed, boot, watcher, loops, seen, used>>

Gone == [pc |-> "gone", prev |-> 0, first |-> 0, diff |-> FALSE, cancelled |-> FALSE]

Init ==
  /\ files = 0
  /\ app = [up |-> FALSE, has |-> 0]
  /\ pending = FALSE /\ failed = FALSE
  /\ boot = "none"
  /\ watcher = None
  /\ loops = [p \in Poller |-> Gone]
  /\ seen = [edits |-> {}, owed |-> 0, stopped |-> TRUE, flaws |-> {}]
  /\ used = 0

Move == used < MaxMove /\ used' = used + 1
Reacting == {p \in Poller : loops[p].pc \in {"stop", "boot", "booting"}}
Looking == {p \in Poller : loops[p].pc = "wait" /\ ~loops[p].cancelled}

-----------------------------------------------------------------------------
(* The files. *)

\* Somebody saves a file.  A loop that looks has to notice, unless a boot that
\* may have read the file already is about to replace it.
Edit ==
  /\ files < MaxWrite
  /\ files' = files + 1
  /\ seen' = [seen EXCEPT !.edits = @ \cup {files + 1},
                !.owed = IF Looking # {} /\ boot = "none" /\ Reacting = {} THEN files + 1 ELSE @]
  /\ UNCHANGED <<app, pending, failed, boot, watcher, loops, used>>

\* The steps of a boot write to what is watched.
StepWrites ==
  /\ boot \in {"setup", "ready", "rerun"} /\ files < MaxWrite
  /\ files' = files + 1
  /\ seen' = [seen EXCEPT !.flaws = @ \cup {f \in {"watching"} :
                                        \E p \in Poller : loops[p].pc = "wait"}]
  /\ UNCHANGED <<app, pending, failed, boot, watcher, loops, used>>

-----------------------------------------------------------------------------
(* Boots and stops. *)

\* What a boot does first: nothing for an app that is up and ready.  One caller
\* joins the boot of another.
Asked ==
  boot' = IF boot # "none" THEN boot
          ELSE IF ~app.up THEN "setup"
          ELSE IF failed THEN "rerun" ELSE "none"

\* A connection or a command wakes the app.
Wakes ==
  /\ Asked
  /\ seen' = [seen EXCEPT !.stopped = FALSE]
  /\ Move
  /\ UNCHANGED <<files, app, pending, failed, watcher, loops>>

Spawn ==
  /\ boot = "setup"
  /\ app' = [up |-> TRUE, has |-> files]
  /\ failed' = FALSE
  /\ boot' = "ready"
  /\ UNCHANGED <<files, pending, watcher, loops, seen, used>>

\* The boot fails before the app is registered, or its on_ready steps do.
BootFails ==
  /\ boot \in {"setup", "ready", "rerun"}
  /\ boot' = "none"
  /\ pending' = (pending \/ boot = "ready")
  /\ failed' = TRUE
  /\ UNCHANGED <<files, app, watcher, loops, seen, used>>

\* on_ready has passed.  A boot that only ran it again ends here.
IsReady ==
  /\ boot \in {"ready", "rerun"}
  /\ boot' = IF boot = "ready" THEN "watch" ELSE "none"
  /\ pending' = (pending /\ boot = "ready")
  /\ failed' = FALSE
  /\ seen' = [seen EXCEPT !.flaws = @ \cup {f \in {"rerun"} : boot = "rerun"}]
  /\ UNCHANGED <<files, app, watcher, loops, used>>

Cancelled(ps) == [p \in Poller |-> [loops[p] EXCEPT !.cancelled = @ \/ p \in ps]]

Free == CHOOSE p \in Poller : loops[p].pc = "gone"

\* Mutants: the new loop has the context of the boot; it compares with what the
\* app has read.
StartedForBoot(p) ==
  [Cancelled({watcher}) EXCEPT ![p] = [Gone EXCEPT !.pc = "first", !.cancelled = TRUE]]
StartedFromSpawn(p) ==
  [Cancelled({watcher}) EXCEPT ![p] =
    [Gone EXCEPT !.pc = "wait", !.prev = app.has, !.first = app.has]]

Started(p) == [Cancelled({watcher}) EXCEPT ![p] = [Gone EXCEPT !.pc = "first"]]

\* startWatch: whether the app still runs is not looked at.
StartWatch ==
  /\ boot = "watch"
  /\ \E p \in Poller : loops[p].pc = "gone"
  /\ boot' = "none"
  /\ loops' = Started(Free)
  /\ watcher' = Free
  /\ UNCHANGED <<files, app, pending, failed, seen, used>>

\* A mutant: a stop leaves the loop alone.
TakenDownOnly ==
  /\ app' = [up |-> FALSE, has |-> 0]
  /\ pending' = FALSE
  /\ UNCHANGED <<watcher, loops>>

\* Runtime.Stop.
TakenDown ==
  /\ app' = [up |-> FALSE, has |-> 0]
  /\ pending' = FALSE
  /\ watcher' = None
  /\ loops' = Cancelled({watcher})

\* Somebody stops the app.  A boot or a restart that is under way goes on.
UserStop ==
  /\ TakenDown
  /\ seen' = [seen EXCEPT !.stopped = boot = "none" /\ Reacting = {}]
  /\ Move
  /\ UNCHANGED <<files, failed, boot>>

\* The app ends by itself: its loop is not cancelled.
Crash ==
  /\ app.up
  /\ app' = [up |-> FALSE, has |-> 0]
  /\ pending' = FALSE
  /\ Move
  /\ UNCHANGED <<files, failed, boot, watcher, loops, seen>>

-----------------------------------------------------------------------------
(* Poll. *)

First(p) ==
  /\ loops[p].pc = "first"
  /\ loops' = [loops EXCEPT ![p].pc = "wait", ![p].prev = files, ![p].first = files]
  /\ UNCHANGED <<files, app, pending, failed, boot, watcher, seen, used>>

\* A mutant: a second change takes the place of the first.
UnsettledOnce(p) == files # loops[p].prev /\ ~loops[p].diff

\* There are changes to report when the files have been quiet for a look.
Unsettled(p) == files # loops[p].prev

\* One look.  A loop that was cancelled may take the tick instead of the
\* cancellation when both are there.
Tick(p) ==
  /\ loops[p].pc = "wait"
  /\ LET fires == files = loops[p].prev /\ loops[p].diff IN
       /\ loops' = [loops EXCEPT ![p].prev = files, ![p].diff = Unsettled(p),
                      ![p].pc = IF fires THEN "stop" ELSE @]
       /\ seen' = [seen EXCEPT !.flaws = @ \cup {f \in {"late"} : fires /\ loops[p].cancelled}]
  /\ UNCHANGED <<files, app, pending, failed, boot, watcher, used>>

\* onChange: Stop, which may fail, and Boot.
ReactStop(p) ==
  /\ loops[p].pc = "stop"
  /\ app' = [up |-> FALSE, has |-> 0]
  /\ pending' = FALSE
  /\ watcher' = None
  /\ \E pc \in {"boot"} \cup {x \in {"after"} : app.up} :
       loops' = [Cancelled({watcher}) EXCEPT ![p].pc = pc]
  /\ UNCHANGED <<files, failed, boot, seen, used>>

ReactBoot(p) ==
  /\ loops[p].pc = "boot"
  /\ Asked
  /\ loops' = [loops EXCEPT ![p].pc = IF app.up /\ ~failed THEN "after" ELSE "booting"]
  /\ UNCHANGED <<files, app, pending, failed, watcher, seen, used>>

ReactEnds(p) ==
  /\ loops[p].pc = "booting" /\ boot = "none"
  /\ loops' = [loops EXCEPT ![p].pc = "after"]
  /\ UNCHANGED <<files, app, pending, failed, boot, watcher, seen, used>>

\* What the reaction wrote is not a change.
After(p) ==
  /\ loops[p].pc = "after"
  /\ loops' = [loops EXCEPT ![p].pc = "wait", ![p].prev = files]
  /\ UNCHANGED <<files, app, pending, failed, boot, watcher, seen, used>>

Ends(p) ==
  /\ loops[p].pc = "wait" /\ loops[p].cancelled
  /\ loops' = [loops EXCEPT ![p] = Gone]
  /\ UNCHANGED <<files, app, pending, failed, boot, watcher, seen, used>>

-----------------------------------------------------------------------------
Boots == Spawn \/ BootFails \/ IsReady \/ StartWatch
Polls(p) == First(p) \/ Tick(p) \/ ReactStop(p) \/ ReactBoot(p) \/ ReactEnds(p) \/ After(p)

Next ==
  \/ Edit \/ StepWrites \/ Wakes \/ UserStop \/ Crash
  \/ Spawn \/ BootFails \/ IsReady \/ StartWatch
  \/ \E p \in Poller : Polls(p) \/ Ends(p)

Spec == Init /\ [][Next]_vars

\* Boots go on, the ticker ticks, and a loop that has been cancelled sees it.
FairSpec ==
  /\ Spec
  /\ WF_vars(Boots)
  /\ \A p \in Poller : WF_vars(Polls(p)) /\ SF_vars(Ends(p))

-----------------------------------------------------------------------------
(* Properties. *)

TypeOK ==
  /\ files \in 0..MaxWrite /\ app \in [up : BOOLEAN, has : 0..MaxWrite]
  /\ pending \in BOOLEAN /\ failed \in BOOLEAN
  /\ boot \in {"none", "setup", "ready", "rerun", "watch"}
  /\ watcher \in {None} \cup {p \in Poller : loops[p].pc # "gone"}
  /\ \A p \in Poller :
       /\ loops[p].pc \in {"gone", "first", "wait", "stop", "boot", "booting", "after"}
       /\ loops[p].prev \in 0..files
  /\ seen.owed \in 0..files
  /\ seen.flaws \subseteq {"watching", "rerun", "late"}

Unless(flaws) == seen.flaws \cap flaws = {}

\* At most one loop has not been cancelled, and it is the one a stop would cancel.
OneLoop ==
  \A p \in Poller : loops[p].pc # "gone" /\ ~loops[p].cancelled => watcher = p

\* An app that was started with its steps is watched as long as it is up
\* (watch.go:14-15), unless on_ready passed only when it was run again.
AwakeIsWatched ==
  Unless({"rerun"}) => (app.up /\ boot = "none" /\ ~failed =>
    watcher # None /\ ~loops[watcher].cancelled)

\* An app that is awake has one loop that a stop can reach, and no other loop is
\* left to act, over any wakes, stops, crashes and reactions.
OneLoopWatches == TypeOK /\ OneLoop /\ AwakeIsWatched

\* When a user stopped the app and nothing was under way, no loop starts it again,
\* unless it had just taken its last tick.
StopIsKept ==
  Unless({"late"}) => (seen.stopped => ~app.up /\ boot = "none")

\* A loop restarts the app only when somebody else than a boot has written since
\* the loop began (poll.go:96), unless the loop had outlived a crash.
OnlyEditsRestart ==
  Unless({"watching"}) =>
    \A p \in Poller : loops[p].pc = "stop" => \E v \in seen.edits : v > loops[p].first

\* An edit that was made while a loop looked does not leave the app with the
\* version before it.
EditsReachTheApp ==
  \A v \in 1..MaxWrite : seen.owed >= v ~> ~app.up \/ app.has >= v
=============================================================================
