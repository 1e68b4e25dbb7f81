---------------------------- MODULE FileWatchProofs ----------------------------
(***************************************************************************)
(* An app that watches its files has one loop that acts, however many      *)
(* loops are still on their way out, and that loop acts for a reason.      *)
(*                                                                         *)
(* Why one loop: what is not cancelled is what a Stop would cancel         *)
(* (OneLoop), and conversely (InForce).  Why a stop is kept: it leaves     *)
(* only loops that are cancelled and react no more (Quiet).  Why an edit:  *)
(* a loop that is about to see a difference has somebody's write after it  *)
(* began (HasReason), and no difference is left over from the last         *)
(* reaction (Settled).                                                     *)
(***************************************************************************)
EXTENDS FileWatch, TLAPS

Loop == [pc : {"gone", "first", "wait", "stop", "boot", "booting", "after"},
         prev : Nat, first : Nat, diff : BOOLEAN, cancelled : BOOLEAN]

\* The type of seen when the files have version f.
Seen(f) == [edits : SUBSET Nat, owed : 0..f, stopped : BOOLEAN,
            flaws : SUBSET {"watching", "rerun", "late"}]

Typed ==
  /\ files \in 0..MaxWrite /\ app \in [up : BOOLEAN, has : 0..MaxWrite]
  /\ pending \in BOOLEAN /\ failed \in BOOLEAN
  /\ boot \in {"none", "setup", "ready", "rerun", "watch"}
  /\ watcher \in Poller \cup {None}
  /\ loops \in [Poller -> Loop]
  /\ \A p \in Poller : loops[p].prev <= files /\ loops[p].first <= files
  /\ seen \in Seen(files)

\* The loop that a Stop would cancel is there and has not been cancelled.
InForce ==
  watcher # None => loops[watcher].pc # "gone" /\ ~loops[watcher].cancelled

\* After a stop that was not beside anything no loop will act.
Quiet ==
  Unless({"late"}) /\ seen.stopped =>
    /\ ~app.up /\ boot = "none" /\ Reacting = {}
    /\ \A p \in Poller : loops[p].pc # "gone" => loops[p].cancelled

\* Only a loop that looks carries a difference from one look to the next.
Settled == \A p \in Poller : loops[p].diff => loops[p].pc = "wait"

\* A loop that looks and has a difference, or will find one, and a loop that has
\* begun to react, do so for a write after the loop began.
HasReason ==
  Unless({"watching"}) =>
    \A p \in Poller :
      \/ loops[p].pc = "wait" /\ (loops[p].diff \/ loops[p].prev # files)
      \/ loops[p].pc = "stop"
      => \E v \in seen.edits : v > loops[p].first

Inv == Typed /\ OneLoop /\ InForce /\ AwakeIsWatched /\ Quiet /\ Settled /\ HasReason
-----------------------------------------------------------------------------

LEMMA InitInv == Init => Inv
<1> SUFFICES ASSUME Init
             PROVE  Inv
  OBVIOUS
<1> USE FileWatchConstants DEF Init
<1>1. Gone \in Loop
  BY DEF Gone, Loop
<1>2. Typed
  <2>1. loops \in [Poller -> Loop]
    BY <1>1
  <2>2. seen \in Seen(files)
    BY DEF Seen
  <2>3. app \in [up : BOOLEAN, has : 0..MaxWrite]
    OBVIOUS
  <2>4. \A p \in Poller : loops[p].prev <= files /\ loops[p].first <= files
    BY DEF Gone
  <2> QED BY <2>1, <2>2, <2>3, <2>4 DEF Typed
<1>3. OneLoop /\ InForce /\ AwakeIsWatched /\ Settled
  BY DEF OneLoop, InForce, AwakeIsWatched, Settled, Gone
<1>4. Quiet
  BY DEF Quiet, Reacting, Gone
<1>5. HasReason
  BY DEF HasReason, Gone
<1> QED BY <1>2, <1>3, <1>4, <1>5 DEF Inv

\* The loop that startWatch takes was free.
LEMMA FreeIsGone ==
  ASSUME NEW q \in Poller, loops[q].pc = "gone"
  PROVE  Free \in Poller /\ loops[Free].pc = "gone"
BY DEF Free

\* What a cancellation does to each loop.
LEMMA CancelledFrame ==
  ASSUME Typed, NEW ps
  PROVE  /\ Cancelled(ps) \in [Poller -> Loop]
         /\ \A p \in Poller :
              /\ Cancelled(ps)[p].pc = loops[p].pc
              /\ Cancelled(ps)[p].prev = loops[p].prev
              /\ Cancelled(ps)[p].first = loops[p].first
              /\ Cancelled(ps)[p].diff = loops[p].diff
              /\ Cancelled(ps)[p].cancelled <=> loops[p].cancelled \/ p \in ps
<1> SUFFICES ASSUME NEW p \in Poller
             PROVE  /\ Cancelled(ps)[p] \in Loop
                    /\ Cancelled(ps)[p].pc = loops[p].pc
                    /\ Cancelled(ps)[p].prev = loops[p].prev
                    /\ Cancelled(ps)[p].first = loops[p].first
                    /\ Cancelled(ps)[p].diff = loops[p].diff
                    /\ Cancelled(ps)[p].cancelled <=> loops[p].cancelled \/ p \in ps
  BY DEF Cancelled
<1>1. Cancelled(ps)[p] = [loops[p] EXCEPT !.cancelled = @ \/ p \in ps]
  BY DEF Cancelled
<1>2. loops[p] \in Loop
  BY DEF Typed
<1>3. (loops[p].cancelled \/ p \in ps) \in BOOLEAN
  OBVIOUS
<1> QED BY <1>1, <1>2, <1>3 DEF Loop

\* The steps that leave the loops and the watchers alone.
Aside ==
  \/ Edit \/ StepWrites \/ Wakes \/ Crash \/ Spawn \/ BootFails \/ IsReady

\* The steps of a loop that move no other loop and cancel nothing.
Steps(p) == First(p) \/ Tick(p) \/ ReactBoot(p) \/ ReactEnds(p) \/ After(p)

\* What has occurred has occurred.
LEMMA FlawsGrow ==
  ASSUME Typed, [Next]_vars
  PROVE  seen.flaws \subseteq seen'.flaws
<1> USE DEF Typed, Seen
<1>1. CASE Edit \/ StepWrites \/ Wakes \/ UserStop
  <2>1. CASE Edit
    BY <2>1 DEF Edit
  <2>2. CASE StepWrites
    BY <2>2 DEF StepWrites
  <2>3. CASE Wakes \/ UserStop
    BY <2>3 DEF Wakes, UserStop
  <2> QED BY <1>1, <2>1, <2>2, <2>3
<1>2. CASE Crash \/ Spawn \/ BootFails \/ StartWatch \/ UNCHANGED vars
  BY <1>2 DEF Crash, Spawn, BootFails, StartWatch, vars
<1>3. CASE IsReady
  BY <1>3 DEF IsReady
<1>4. ASSUME NEW p \in Poller, Tick(p)
      PROVE  seen.flaws \subseteq seen'.flaws
  BY <1>4 DEF Tick
<1>5. ASSUME NEW p \in Poller, Polls(p) \/ Ends(p), ~Tick(p)
      PROVE  UNCHANGED seen
  BY <1>5 DEF Polls, First, ReactStop, ReactBoot, ReactEnds, After, Ends
<1> QED BY <1>1, <1>2, <1>3, <1>4, <1>5 DEF Next

LEMMA TypedStep == Inv /\ [Next]_vars => Typed'
<1> SUFFICES ASSUME Typed, [Next]_vars
             PROVE  Typed'
  BY DEF Inv
<1> USE FileWatchConstants DEF Typed
<1>0. \A p \in Poller : /\ loops[p] \in Loop
                         /\ loops[p].prev \in Nat /\ loops[p].first \in Nat
  BY DEF Loop
<1>a. /\ files \in Nat /\ files \in 0..MaxWrite
      /\ seen.owed \in 0..files /\ seen.edits \subseteq Nat
  <2>1. files \in Nat /\ files \in 0..MaxWrite
    OBVIOUS
  <2> QED BY <2>1 DEF Seen
<1>1. CASE Edit
  <2>1. files' = files + 1 /\ files' \in 0..MaxWrite
    BY <1>1, <1>a DEF Edit
  <2>2. PICK o \in {seen.owed, files + 1} :
          seen' = [seen EXCEPT !.edits = @ \cup {files + 1}, !.owed = o]
    BY <1>1 DEF Edit
  <2>3. o \in 0..files' /\ seen.edits \cup {files + 1} \in SUBSET Nat
    BY <1>a, <2>1, <2>2
  <2>4. seen' \in Seen(files')
    BY <2>2, <2>3 DEF Seen
  <2>5. \A p \in Poller : loops[p].prev <= files' /\ loops[p].first <= files'
    BY <1>0, <1>a, <2>1
  <2> QED BY <1>1, <2>1, <2>4, <2>5 DEF Edit
<1>2. CASE StepWrites
  <2>1. files' = files + 1 /\ files' \in 0..MaxWrite
    <3>1. files < MaxWrite /\ files' = files + 1
      BY <1>2 DEF StepWrites
    <3> QED BY <1>a, <3>1
  <2>2. seen.owed \in 0..files'
    BY <1>a, <2>1
  <2>3. seen' \in Seen(files')
    BY <1>2, <2>2 DEF StepWrites, Seen
  <2>4. \A p \in Poller : loops[p].prev <= files' /\ loops[p].first <= files'
    BY <1>0, <1>a, <2>1
  <2> QED BY <1>2, <2>1, <2>3, <2>4 DEF StepWrites
<1>3. CASE Wakes
  BY <1>3 DEF Wakes, Asked, Seen
<1>4. CASE Crash \/ Spawn \/ BootFails
  <2>1. app' \in [up : BOOLEAN, has : 0..MaxWrite]
    <3>1. app' = app \/ \E u \in BOOLEAN, h \in {0, files} : app' = [up |-> u, has |-> h]
      BY <1>4 DEF Crash, Spawn, BootFails
    <3> QED BY <1>a, <3>1
  <2>2. pending' \in BOOLEAN
    BY <1>4 DEF Crash, Spawn, BootFails
  <2> QED BY <1>4, <2>1, <2>2 DEF Crash, Spawn, BootFails
<1>5. CASE IsReady
  <2>1. seen' \in Seen(files)
    BY <1>5 DEF IsReady, Seen
  <2> QED BY <1>5, <2>1 DEF IsReady
<1>6. CASE StartWatch
  <2>1. Free \in Poller
    BY <1>6, FreeIsGone DEF StartWatch
  <2>2. [Gone EXCEPT !.pc = "first"] \in Loop
    BY DEF Gone, Loop
  <2>3. Cancelled({watcher}) \in [Poller -> Loop]
    BY CancelledFrame
  <2>4. loops' \in [Poller -> Loop]
    BY <1>6, <2>1, <2>2, <2>3 DEF StartWatch, Started
  <2>5. \A p \in Poller : loops'[p].prev <= files /\ loops'[p].first <= files
    BY <1>6, <2>1, <2>3, CancelledFrame DEF StartWatch, Started, Gone
  <2> QED BY <1>6, <2>1, <2>4, <2>5 DEF StartWatch
<1>7. CASE UserStop
  <2>1. seen' \in Seen(files)
    <3>1. (boot = "none" /\ Reacting = {}) \in BOOLEAN
      OBVIOUS
    <3> QED BY <1>7, <3>1 DEF UserStop, Seen
  <2>2. app' \in [up : BOOLEAN, has : 0..MaxWrite]
    BY <1>7 DEF UserStop, TakenDown
  <2>3. /\ loops' \in [Poller -> Loop]
        /\ \A p \in Poller : loops'[p].prev <= files /\ loops'[p].first <= files
    BY <1>7, CancelledFrame DEF UserStop, TakenDown
  <2> QED BY <1>7, <2>1, <2>2, <2>3 DEF UserStop, TakenDown
<1>8. ASSUME NEW p \in Poller, Steps(p) \/ Ends(p)
      PROVE  Typed'
  <2>1. loops' \in [Poller -> Loop] /\ loops'[p].prev <= files /\ loops'[p].first <= files
    <3>1. CASE First(p) \/ After(p)
      BY <1>0, <3>1 DEF First, After, Loop
    <3>2. CASE Tick(p)
      <4>1. PICK w \in {"wait", "stop"} :
              loops' = [loops EXCEPT ![p].prev = files, ![p].diff = Unsettled(p), ![p].pc = w]
        BY <3>2 DEF Tick
      <4>2. Unsettled(p) \in BOOLEAN
        BY DEF Unsettled
      <4>3. [loops[p] EXCEPT !.prev = files, !.diff = Unsettled(p), !.pc = w] \in Loop
        BY <1>0, <1>a, <4>2 DEF Loop
      <4>4. loops'[p] = [loops[p] EXCEPT !.prev = files, !.diff = Unsettled(p), !.pc = w]
        BY <4>1
      <4>5. loops'[p].prev = files /\ loops'[p].first = loops[p].first
        BY <1>0, <4>4 DEF Loop
      <4> QED BY <1>a, <4>1, <4>3, <4>4, <4>5
    <3>3. CASE ReactBoot(p) \/ ReactEnds(p)
      BY <1>0, <3>3 DEF ReactBoot, ReactEnds, Loop
    <3>4. CASE Ends(p)
      BY <1>0, <3>4 DEF Ends, Gone, Loop
    <3> QED BY <1>8, <3>1, <3>2, <3>3, <3>4 DEF Steps
  <2>2. \A q \in Poller \ {p} : loops'[q] = loops[q]
    BY <1>8 DEF Steps, First, Tick, ReactBoot, ReactEnds, After, Ends
  <2>3. seen' \in Seen(files)
    <3>1. CASE Tick(p)
      BY <3>1 DEF Tick, Seen
    <3> QED BY <1>8, <3>1 DEF Steps, First, ReactBoot, ReactEnds, After, Ends
  <2>4. /\ UNCHANGED <<files, app, pending, failed, watcher>>
        /\ boot' \in {"none", "setup", "ready", "rerun", "watch"}
    BY <1>8 DEF Steps, First, Tick, ReactBoot, ReactEnds, After, Ends, Asked
  <2> QED BY <2>1, <2>2, <2>3, <2>4
<1>9. ASSUME NEW p \in Poller, ReactStop(p)
      PROVE  Typed'
  <2>1. PICK pc \in {"boot", "after"} : loops' = [Cancelled({watcher}) EXCEPT ![p].pc = pc]
    BY <1>9 DEF ReactStop
  <2>2. Cancelled({watcher})[p] \in Loop
    BY CancelledFrame
  <2>3. [Cancelled({watcher})[p] EXCEPT !.pc = pc] \in Loop
    BY <2>2 DEF Loop
  <2>4. loops' \in [Poller -> Loop]
    BY <2>1, <2>3, CancelledFrame
  <2>5. \A q \in Poller : loops'[q].prev <= files /\ loops'[q].first <= files
    BY <2>1, <2>2, CancelledFrame DEF Loop
  <2>6. app' \in [up : BOOLEAN, has : 0..MaxWrite]
    BY <1>9 DEF ReactStop
  <2> QED BY <1>9, <2>4, <2>5, <2>6 DEF ReactStop
<1>10. CASE UNCHANGED vars
  BY <1>10 DEF vars
<1> QED BY <1>1, <1>2, <1>3, <1>4, <1>5, <1>6, <1>7, <1>8, <1>9, <1>10 DEF Next, Polls, Steps
-----------------------------------------------------------------------------
(* One loop that acts. *)

\* How a step changes the loops as far as cancellation goes.
LEMMA LoopsFrame ==
  ASSUME Typed, [Next]_vars
  PROVE  \/ /\ watcher' = watcher
            /\ \A p \in Poller :
                 \/ /\ loops'[p].cancelled = loops[p].cancelled
                    /\ loops'[p].pc = "gone" <=> loops[p].pc = "gone"
                 \/ loops[p].cancelled /\ loops'[p].pc = "gone"
         \/ /\ StartWatch
            /\ watcher' \in Poller /\ loops[watcher'].pc = "gone"
            /\ loops'[watcher'] = [Gone EXCEPT !.pc = "first"]
            /\ \A p \in Poller \ {watcher'} :
                 /\ loops'[p].pc = loops[p].pc
                 /\ loops'[p].cancelled <=> loops[p].cancelled \/ p = watcher
         \/ /\ UserStop \/ \E p \in Poller : ReactStop(p)
            /\ watcher' = None
            /\ \A p \in Poller :
                 /\ loops'[p].pc = "gone" <=> loops[p].pc = "gone"
                 /\ loops'[p].cancelled <=> loops[p].cancelled \/ p = watcher
<1> USE DEF Typed
<1>0. \A p \in Poller : loops[p] \in Loop
  OBVIOUS
<1>1. CASE Aside \/ UNCHANGED vars
  BY <1>1 DEF Aside, Edit, StepWrites, Wakes, Crash, Spawn, BootFails, IsReady, vars
<1>2. CASE StartWatch
  <2>1. Free \in Poller /\ loops[Free].pc = "gone"
    BY <1>2, FreeIsGone DEF StartWatch
  <2>2. loops' = [Cancelled({watcher}) EXCEPT ![Free] = [Gone EXCEPT !.pc = "first"]]
    BY <1>2 DEF StartWatch, Started
  <2>3. watcher' = Free
    BY <1>2 DEF StartWatch
  <2> QED BY <1>2, <2>1, <2>2, <2>3, CancelledFrame
<1>3. CASE UserStop
  BY <1>3, CancelledFrame DEF UserStop, TakenDown
<1>4. ASSUME NEW p \in Poller, ReactStop(p)
      PROVE  /\ watcher' = None
             /\ \A q \in Poller :
                  /\ loops'[q].pc = "gone" <=> loops[q].pc = "gone"
                  /\ loops'[q].cancelled <=> loops[q].cancelled \/ q = watcher
  <2>1. PICK pc \in {"boot", "after"} : loops' = [Cancelled({watcher}) EXCEPT ![p].pc = pc]
    BY <1>4 DEF ReactStop
  <2>2. /\ Cancelled({watcher}) \in [Poller -> Loop]
        /\ loops'[p] = [Cancelled({watcher})[p] EXCEPT !.pc = pc]
    BY <2>1, CancelledFrame
  <2>3. loops'[p].pc = pc /\ loops'[p].cancelled = Cancelled({watcher})[p].cancelled
    BY <2>2 DEF Loop
  <2>4. \A q \in Poller \ {p} : loops'[q] = Cancelled({watcher})[q]
    BY <2>1, <2>2
  <2>5. loops[p].pc = "stop" /\ watcher' = None
    BY <1>4 DEF ReactStop
  <2> QED BY <2>1, <2>3, <2>4, <2>5, CancelledFrame
<1>5. ASSUME NEW p \in Poller, Steps(p) \/ Ends(p)
      PROVE  /\ watcher' = watcher
             /\ \A q \in Poller :
                  \/ /\ loops'[q].cancelled = loops[q].cancelled
                     /\ loops'[q].pc = "gone" <=> loops[q].pc = "gone"
                  \/ loops[q].cancelled /\ loops'[q].pc = "gone"
  <2>1. watcher' = watcher /\ \A q \in Poller \ {p} : loops'[q] = loops[q]
    BY <1>5 DEF Steps, First, Tick, ReactBoot, ReactEnds, After, Ends
  <2>2. CASE Ends(p)
    BY <2>1, <2>2 DEF Ends, Gone
  <2>3. CASE Steps(p)
    <3>1. loops[p].pc # "gone" /\ loops'[p].pc # "gone"
      BY <1>0, <2>3 DEF Steps, First, Tick, ReactBoot, ReactEnds, After, Loop
    <3>2. loops'[p].cancelled = loops[p].cancelled
      BY <1>0, <2>3 DEF Steps, First, Tick, ReactBoot, ReactEnds, After, Loop
    <3> QED BY <2>1, <3>1, <3>2
  <2> QED BY <1>5, <2>2, <2>3
<1> QED BY <1>1, <1>2, <1>3, <1>4, <1>5 DEF Next, Polls, Steps, Aside

LEMMA OneLoopStep == Inv /\ [Next]_vars => (OneLoop /\ InForce)'
<1> SUFFICES ASSUME Inv, [Next]_vars
             PROVE  (OneLoop /\ InForce)'
  OBVIOUS
<1>1. Typed /\ OneLoop /\ InForce /\ None \notin Poller
  BY FileWatchConstants DEF Inv
<1>2. loops \in [Poller -> Loop] /\ watcher \in Poller \cup {None}
  BY <1>1 DEF Typed
<1> QED BY <1>1, <1>2, LoopsFrame DEF OneLoop, InForce, Gone, Loop
\* An app that is up and ready was so before the step, or has just been given its
\* loop: every other way to be ready leaves a boot in flight, or is the unguarded
\* case.
LEMMA AwakeFrame ==
  ASSUME Typed, [Next]_vars, "rerun" \notin seen'.flaws, app'.up, boot' = "none", ~failed'
  PROVE  \/ StartWatch
         \/ /\ Unless({"rerun"}) /\ app.up /\ boot = "none" /\ ~failed
            /\ ~UserStop /\ ~(\E p \in Poller : ReactStop(p))
<1> USE DEF Typed, Unless
<1>0. ~UserStop /\ ~(\E p \in Poller : ReactStop(p))
  BY DEF UserStop, TakenDown, ReactStop
<1>1. CASE Edit \/ StepWrites \/ Wakes
  <2>1. boot = "none" /\ seen'.flaws = seen.flaws
    BY <1>1 DEF Edit, StepWrites, Wakes, Asked, Seen
  <2> QED BY <1>0, <1>1, <2>1 DEF Edit, StepWrites, Wakes
<1>2. CASE Crash \/ Spawn \/ BootFails \/ UserStop
  BY <1>2 DEF Crash, Spawn, BootFails, UserStop, TakenDown
<1>3. CASE IsReady
  BY <1>3 DEF IsReady, Seen
<1>4. ASSUME NEW p \in Poller, Steps(p) \/ Ends(p) \/ ReactStop(p)
      PROVE  /\ Unless({"rerun"}) /\ app.up /\ boot = "none" /\ ~failed
             /\ ~UserStop /\ ~(\E q \in Poller : ReactStop(q))
  <2>1. ~ReactStop(p) /\ ~UserStop /\ ~(\E q \in Poller : ReactStop(q))
    BY <1>0
  <2>2. CASE Tick(p)
    BY <2>1, <2>2 DEF Tick, Seen
  <2>3. CASE ReactBoot(p)
    BY <2>1, <2>3 DEF ReactBoot, Asked
  <2>4. CASE First(p) \/ ReactEnds(p) \/ After(p) \/ Ends(p)
    BY <2>1, <2>4 DEF First, ReactEnds, After, Ends
  <2> QED BY <1>4, <2>1, <2>2, <2>3, <2>4 DEF Steps
<1>5. CASE UNCHANGED vars
  BY <1>0, <1>5 DEF vars
<1> QED BY <1>1, <1>2, <1>3, <1>4, <1>5 DEF Next, Polls, Steps

LEMMA AwakeStep == Inv /\ [Next]_vars => AwakeIsWatched'
<1> SUFFICES ASSUME Inv, [Next]_vars, "rerun" \notin seen'.flaws, app'.up, boot' = "none",
                    ~failed'
             PROVE  watcher' # None /\ ~loops'[watcher'].cancelled
  BY DEF AwakeIsWatched, Unless
<1>1. InForce'
  BY OneLoopStep
<1>2. watcher' # None
  <2>1. CASE StartWatch
    BY <2>1, FreeIsGone, FileWatchConstants DEF StartWatch
  <2>2. CASE ~StartWatch
    <3>1. /\ Unless({"rerun"}) /\ app.up /\ boot = "none" /\ ~failed
          /\ ~UserStop /\ ~(\E p \in Poller : ReactStop(p))
      BY <2>2, AwakeFrame DEF Inv
    <3>2. watcher' = watcher
      BY <2>2, <3>1, LoopsFrame DEF Inv
    <3> QED BY <3>1, <3>2 DEF Inv, AwakeIsWatched
  <2> QED BY <2>1, <2>2
<1> QED BY <1>1, <1>2 DEF InForce

LEMMA QuietStep == Inv /\ [Next]_vars => Quiet'
<1> SUFFICES ASSUME Inv, [Next]_vars, "late" \notin seen'.flaws, seen'.stopped
             PROVE  /\ ~app'.up /\ boot' = "none"
                    /\ \A p \in Poller :
                         /\ loops'[p].pc \notin {"stop", "boot", "booting"}
                         /\ loops'[p].pc # "gone" => loops'[p].cancelled
  BY DEF Quiet, Reacting, Unless
<1> USE DEF Inv, Typed
<1>0. \A p \in Poller : loops[p] \in Loop
  OBVIOUS
<1>1. Unless({"late"})
  BY FlawsGrow DEF Unless
<1>2. CASE UserStop
  <2>1. boot = "none" /\ Reacting = {} /\ ~app'.up /\ boot' = "none"
    BY <1>2 DEF UserStop, TakenDown, Seen
  <2>2. loops' = Cancelled({watcher})
    BY <1>2 DEF UserStop, TakenDown
  <2> QED BY <2>1, <2>2, CancelledFrame DEF Reacting, OneLoop
<1>3. CASE ~UserStop
  <2>1. seen.stopped
    BY <1>3 DEF Next, Edit, StepWrites, Wakes, Crash, Spawn, BootFails, IsReady, StartWatch,
       Polls, First, Tick, ReactStop, ReactBoot, ReactEnds, After, Ends, vars, Seen
  <2>2. /\ ~app.up /\ boot = "none"
        /\ \A p \in Poller : /\ loops[p].pc \notin {"stop", "boot", "booting"}
                             /\ loops[p].pc # "gone" => loops[p].cancelled
    BY <1>1, <2>1 DEF Quiet, Reacting
  <2>3. CASE Wakes
    BY <2>3 DEF Wakes, Seen
  <2>4. CASE Edit \/ StepWrites \/ Crash \/ Spawn \/ BootFails \/ IsReady \/ StartWatch
             \/ UNCHANGED vars
    BY <2>2, <2>4 DEF Edit, StepWrites, Crash, Spawn, BootFails, IsReady, StartWatch, vars
  <2>5. ASSUME NEW p \in Poller, Polls(p) \/ Ends(p)
        PROVE  /\ ~app'.up /\ boot' = "none"
               /\ \A q \in Poller :
                    /\ loops'[q].pc \notin {"stop", "boot", "booting"}
                    /\ loops'[q].pc # "gone" => loops'[q].cancelled
    <3>1. First(p) \/ Tick(p) \/ After(p) \/ Ends(p)
      BY <2>2, <2>5 DEF Polls, ReactStop, ReactBoot, ReactEnds
    <3>2. UNCHANGED <<app, boot>> /\ \A q \in Poller \ {p} : loops'[q] = loops[q]
      BY <3>1 DEF First, Tick, After, Ends
    <3>3. CASE First(p) \/ After(p)
      <4>1. loops'[p].pc = "wait" /\ loops'[p].cancelled = loops[p].cancelled
        BY <1>0, <3>3 DEF First, After, Loop
      <4> QED BY <2>2, <3>2, <3>3, <4>1 DEF First, After
    <3>4. CASE Ends(p)
      BY <2>2, <3>2, <3>4 DEF Ends, Gone
    <3>5. CASE Tick(p)
      <4>1. loops[p].cancelled /\ loops[p].pc = "wait"
        BY <2>2, <3>5 DEF Tick
      <4>2. ~(files = loops[p].prev /\ loops[p].diff)
        BY <3>5, <4>1 DEF Tick, Unless, Seen
      <4>3. loops'[p].pc = loops[p].pc /\ loops'[p].cancelled = loops[p].cancelled
        BY <1>0, <3>5, <4>2 DEF Tick, Loop
      <4> QED BY <2>2, <3>2, <4>1, <4>3
    <3> QED BY <3>1, <3>3, <3>4, <3>5
  <2> QED BY <1>3, <2>3, <2>4, <2>5 DEF Next
<1> QED BY <1>2, <1>3
-----------------------------------------------------------------------------
(* The reason of a reaction. *)

LEMMA SettledStep == Inv /\ [Next]_vars => Settled'
<1> SUFFICES ASSUME Inv, [Next]_vars
             PROVE  Settled'
  OBVIOUS
<1> USE DEF Inv, Typed, Settled
<1>0. \A p \in Poller : loops[p] \in Loop
  OBVIOUS
<1>1. CASE Aside \/ UNCHANGED vars
  BY <1>1 DEF Aside, Edit, StepWrites, Wakes, Crash, Spawn, BootFails, IsReady, vars
<1>2. CASE StartWatch
  BY <1>2, FreeIsGone, CancelledFrame DEF StartWatch, Started, Gone
<1>3. CASE UserStop
  BY <1>3, CancelledFrame DEF UserStop, TakenDown
<1>4. ASSUME NEW p \in Poller, ReactStop(p)
      PROVE  Settled'
  <2>1. PICK pc \in {"boot", "after"} : loops' = [Cancelled({watcher}) EXCEPT ![p].pc = pc]
    BY <1>4 DEF ReactStop
  <2>2. loops'[p].diff = loops[p].diff
    BY <2>1, CancelledFrame DEF Loop
  <2>3. ~loops[p].diff
    BY <1>4 DEF ReactStop
  <2> QED BY <2>1, <2>2, <2>3, CancelledFrame
<1>5. ASSUME NEW p \in Poller, Steps(p) \/ Ends(p)
      PROVE  Settled'
  <2>1. \A q \in Poller \ {p} : loops'[q] = loops[q]
    BY <1>5 DEF Steps, First, Tick, ReactBoot, ReactEnds, After, Ends
  <2>2. loops'[p].diff => loops'[p].pc = "wait"
    <3>1. CASE Ends(p)
      BY <3>1 DEF Ends, Gone
    <3>2. CASE Tick(p)
      BY <1>0, <3>2 DEF Tick, Unsettled, Loop
    <3>3. CASE First(p) \/ ReactBoot(p) \/ ReactEnds(p) \/ After(p)
      BY <1>0, <3>3 DEF First, ReactBoot, ReactEnds, After, Loop
    <3> QED BY <1>5, <3>1, <3>2, <3>3 DEF Steps
  <2> QED BY <2>1, <2>2
<1> QED BY <1>1, <1>2, <1>3, <1>4, <1>5 DEF Next, Polls, Steps, Aside

\* What HasReason says of one loop, when the files have version f and others wrote e.
Reason(l, f, e) ==
  \/ l.pc = "wait" /\ (l.diff \/ l.prev # f)
  \/ l.pc = "stop"
  => \E v \in e : v > l.first

LEMMA ReasonStep == Inv /\ [Next]_vars => HasReason'
<1> SUFFICES ASSUME Inv, [Next]_vars, "watching" \notin seen'.flaws, NEW p \in Poller
             PROVE  Reason(loops'[p], files', seen'.edits)
  BY DEF HasReason, Reason, Unless
<1>0. /\ Typed /\ seen \in Seen(files) /\ loops \in [Poller -> Loop]
      /\ loops[p] \in Loop /\ loops[p].first <= files /\ files \in 0..MaxWrite
  BY DEF Inv, Typed
<1>a. loops[p].first \in Nat /\ files \in Nat /\ loops[p].first <= files
  BY <1>0, FileWatchConstants DEF Loop
<1>1. Unless({"watching"})
  BY <1>0, FlawsGrow DEF Unless
<1>2. Reason(loops[p], files, seen.edits)
  BY <1>1 DEF Inv, HasReason, Reason
<1>3. CASE Edit
  <2>1. files' = files + 1 /\ files + 1 \in seen'.edits /\ UNCHANGED loops
    BY <1>0, <1>3 DEF Edit, Seen
  <2>2. files + 1 > loops[p].first
    BY <1>a
  <2> QED BY <2>1, <2>2 DEF Reason
<1>4. CASE StepWrites
  <2>1. loops[p].pc # "wait" /\ UNCHANGED loops /\ seen'.edits = seen.edits
    BY <1>0, <1>4 DEF StepWrites, Unless, Seen
  <2> QED BY <1>2, <2>1 DEF Reason
<1>5. CASE Wakes \/ Crash \/ Spawn \/ BootFails \/ IsReady \/ UNCHANGED vars
  <2>1. UNCHANGED <<loops, files>> /\ seen'.edits = seen.edits
    BY <1>0, <1>5 DEF Wakes, Crash, Spawn, BootFails, IsReady, vars, Seen
  <2> QED BY <1>2, <2>1
<1>6. CASE StartWatch \/ UserStop
  <2>1. UNCHANGED files /\ seen'.edits = seen.edits
    BY <1>0, <1>6 DEF StartWatch, UserStop, Seen
  <2>2. \/ loops'[p] = Cancelled({watcher})[p]
        \/ loops'[p] = [Gone EXCEPT !.pc = "first"]
    <3>1. CASE StartWatch
      <4>1. loops' = [Cancelled({watcher}) EXCEPT ![Free] = [Gone EXCEPT !.pc = "first"]]
        BY <3>1 DEF StartWatch, Started
      <4> QED BY <1>0, <4>1, CancelledFrame
    <3>2. CASE UserStop
      BY <3>2 DEF UserStop, TakenDown
    <3> QED BY <1>6, <3>1, <3>2
  <2>3. Reason(Cancelled({watcher})[p], files, seen.edits)
    BY <1>0, <1>2, CancelledFrame DEF Reason
  <2>4. Reason([Gone EXCEPT !.pc = "first"], files, seen.edits)
    BY DEF Reason, Gone
  <2> QED BY <2>1, <2>2, <2>3, <2>4
<1>7. ASSUME NEW q \in Poller, ReactStop(q)
      PROVE  Reason(loops'[p], files', seen'.edits)
  <2>1. PICK pc \in {"boot", "after"} : loops' = [Cancelled({watcher}) EXCEPT ![q].pc = pc]
    BY <1>7 DEF ReactStop
  <2>2. CASE q = p
    <3>1. loops'[p].pc = pc
      <4>1. Cancelled({watcher})[p] \in Loop
        BY <1>0, CancelledFrame
      <4>2. loops'[p] = [Cancelled({watcher})[p] EXCEPT !.pc = pc]
        BY <1>0, <2>1, <2>2, CancelledFrame
      <4> QED BY <4>1, <4>2 DEF Loop
    <3> QED BY <3>1 DEF Reason
  <2>3. CASE q # p
    <3>1. loops'[p] = Cancelled({watcher})[p] /\ UNCHANGED <<files, seen>>
      BY <1>0, <1>7, <2>1, <2>3, CancelledFrame DEF ReactStop
    <3>2. Reason(Cancelled({watcher})[p], files, seen.edits)
      BY <1>0, <1>2, CancelledFrame DEF Reason
    <3> QED BY <3>1, <3>2
  <2> QED BY <2>2, <2>3
<1>8. ASSUME NEW q \in Poller, q # p, Steps(q) \/ Ends(q)
      PROVE  Reason(loops'[p], files', seen'.edits)
  <2>1. loops'[p] = loops[p] /\ UNCHANGED files
    BY <1>0, <1>8 DEF Steps, First, Tick, ReactBoot, ReactEnds, After, Ends
  <2>2. seen'.edits = seen.edits
    BY <1>0, <1>8 DEF Steps, First, Tick, ReactBoot, ReactEnds, After, Ends, Seen
  <2> QED BY <1>2, <2>1, <2>2
<1>9. CASE First(p) \/ After(p)
  <2>1. ~loops[p].diff
    BY <1>9 DEF Inv, Settled, First, After
  <2>2. loops'[p].prev = files' /\ loops'[p].pc = "wait" /\ loops'[p].diff = loops[p].diff
    <3>1. \/ loops' = [loops EXCEPT ![p].pc = "wait", ![p].prev = files, ![p].first = files]
          \/ loops' = [loops EXCEPT ![p].pc = "wait", ![p].prev = files]
      BY <1>9 DEF First, After
    <3>2. UNCHANGED files
      BY <1>9 DEF First, After
    <3> QED BY <1>0, <3>1, <3>2 DEF Loop
  <2> QED BY <2>1, <2>2 DEF Reason
<1>10. CASE Tick(p)
  <2>1. UNCHANGED files /\ seen'.edits = seen.edits
    BY <1>0, <1>10 DEF Tick, Seen
  <2>2. /\ loops'[p].prev = files /\ loops'[p].first = loops[p].first
        /\ loops'[p].diff <=> files # loops[p].prev
        /\ loops'[p].pc = "stop" => files = loops[p].prev /\ loops[p].diff
    BY <1>0, <1>10 DEF Tick, Unsettled, Loop
  <2>3. loops[p].pc = "wait" /\ loops'[p].pc \in {"wait", "stop"}
    BY <1>0, <1>10 DEF Tick, Loop
  <2> QED BY <1>2, <2>1, <2>2, <2>3 DEF Reason
<1>11. CASE ReactBoot(p) \/ ReactEnds(p) \/ Ends(p)
  <2>1. loops'[p].pc \notin {"wait", "stop"}
    <3>1. \/ \E x \in {"after", "booting"} : loops' = [loops EXCEPT ![p].pc = x]
          \/ loops' = [loops EXCEPT ![p] = Gone]
      BY <1>11 DEF ReactBoot, ReactEnds, Ends
    <3> QED BY <1>0, <3>1 DEF Gone, Loop
  <2> QED BY <2>1 DEF Reason
<1> QED BY <1>3, <1>4, <1>5, <1>6, <1>7, <1>8, <1>9, <1>10, <1>11 DEF Next, Polls, Steps

LEMMA InvHolds == Spec => []Inv
<1>1. Inv /\ [Next]_vars => Inv'
  BY TypedStep, OneLoopStep, AwakeStep, QuietStep, SettledStep, ReasonStep DEF Inv
<1> QED BY <1>1, InitInv, PTL DEF Spec

\* An app that is awake is watched, by one loop that a stop can reach, and no
\* other loop is left to act, over any number of wakes, stops, crashes and
\* reactions (Runtime.startWatch, Runtime.Stop).
THEOREM OneLoopAtATime == Spec => []OneLoopWatches
<1>1. Inv => OneLoopWatches
  <2> SUFFICES ASSUME Inv
               PROVE  TypeOK
    BY DEF Inv, OneLoopWatches
  <2>1. watcher \in {None} \cup {p \in Poller : loops[p].pc # "gone"}
    BY DEF Inv, Typed, InForce
  <2>2. \A p \in Poller : loops[p].prev \in 0..files
    BY FileWatchConstants DEF Inv, Typed, Loop
  <2> QED BY <2>1, <2>2 DEF Inv, Typed, Loop, Seen, TypeOK
<1> QED BY <1>1, InvHolds, PTL

\* An app that a user stopped with nothing under way is not started again by a loop,
\* unless the loop had just taken its last tick.
THEOREM StoppedStaysStopped == Spec => []StopIsKept
<1>1. Inv => StopIsKept
  BY DEF Inv, Quiet, StopIsKept
<1> QED BY <1>1, InvHolds, PTL

\* A loop restarts the app only for a write of somebody else than a boot, made
\* after the loop began (watch.Poll).
THEOREM RestartsHaveAReason == Spec => []OnlyEditsRestart
<1>1. Inv => OnlyEditsRestart
  BY DEF Inv, HasReason, OnlyEditsRestart
<1> QED BY <1>1, InvHolds, PTL
===============================================================================
