----------------------------- MODULE Structure ------------------------------
(***************************************************************************)
(* The structure doze applies to its instances and what it remembers of    *)
(* it: Apply and Destroy (internal/runtime/apply.go), the converged marker *)
(* (runtime.go), the records of tasks (tasks.go), and the file all of it   *)
(* shares, .doze/state.json, with its lock (internal/state/state.go).      *)
(*                                                                         *)
(* A sync is a call of Apply or Destroy.  It holds the lock file from its  *)
(* load of the state to its save; a task's record is written by a load and *)
(* a save of its own, which do not look at the lock.  A save truncates a   *)
(* temporary file, writes it and renames it; everyone uses the same one.   *)
(* A boot is one step up to the registration of its backend.  From there   *)
(* on whoever comes is served, also while the boot converges.  A           *)
(* convergence either completes or leaves some of the objects behind.      *)
(***************************************************************************)
EXTENDS Naturals, FiniteSets, Sequences

CONSTANTS Inst,       \* instances whose engine manages objects
          Obj,        \* the objects
          Declared,   \* the configurations in turn: the objects of each instance
          Syncer,     \* calls of Apply and Destroy
          Task,       \* one-shot tasks
          None,       \* no record, no fingerprint, nobody
          MaxEdit,    \* bound: the edits of a task's inputs
          MaxMove     \* bound: the syncs, runs of tasks, edits and deaths of the daemon

Records == [result : {"done", "failed"}, inputs : 0..MaxEdit]
States == [ok : BOOLEAN, objs : [Inst -> SUBSET Obj], tasks : [Task -> Records \cup {None}]]

ASSUME StructureConstants ==
  /\ Declared \in Seq([Inst -> SUBSET Obj]) /\ Declared # <<>>
  /\ Syncer \cap Task = {}
  /\ None \notin Syncer \cup Task \cup Inst \cup {"tmp", "live", "dead"}
  /\ None \notin Records /\ None \notin States /\ \A objs \in SUBSET Obj : None # objs
  /\ MaxEdit \in Nat /\ MaxMove \in Nat

Saver == Syncer \cup Task

VARIABLES
  conf,     \* the configuration in force
  real,     \* the objects that exist in each instance
  marker,   \* the .doze-converged file of each instance
  up,       \* the instances whose backend is registered and runs
  boot,     \* what a boot does next that has registered its backend
  tainted,  \* Registry's mark
  file,     \* state.json
  tmp,      \* state.json.tmp
  lock,     \* state.json.lock: who created it, and whether it is past its ttl
  sync,     \* how far each sync is
  task,     \* how far each task is, and the version of its inputs
  save,     \* what each saver has loaded and which file it has open
  seen,     \* history: what was last recorded of a task, the inputs a run of it
            \* has succeeded with, and the unguarded cases that have occurred
  used      \* what of MaxMove is used

vars == <<conf, real, marker, up, boot, tainted, file, tmp, lock, sync, task, save, seen, used>>
world == <<conf, real, marker, up, boot, tainted>>
disk == <<file, tmp, lock>>

Empty == [ok |-> TRUE, objs |-> [n \in Inst |-> {}], tasks |-> [t \in Task |-> None]]
Torn == [Empty EXCEPT !.ok = FALSE]
NoSave == [copy |-> Empty, fresh |-> FALSE, fd |-> None]
NoSync == [pc |-> "idle", op |-> None, todo |-> {}, at |-> None, tried |-> FALSE]

Want(n) == Declared[conf][n]

Init ==
  /\ conf = 1
  /\ real = [n \in Inst |-> {}]
  /\ marker = [n \in Inst |-> None]
  /\ up = {} /\ boot = [n \in Inst |-> "none"] /\ tainted = {}
  /\ file = Empty /\ tmp = None
  /\ lock = [by |-> None, old |-> FALSE]
  /\ sync = [s \in Syncer |-> NoSync]
  /\ task = [t \in Task |-> [pc |-> "idle", inputs |-> 0, hash |-> 0, rec |-> None]]
  /\ save = [p \in Saver |-> NoSave]
  /\ seen = [ran |-> [t \in Task |-> None], good |-> [t \in Task |-> {}], flaws |-> {}]
  /\ used = 0

Move == used < MaxMove /\ used' = used + 1

-----------------------------------------------------------------------------
(* state.json: Load, and Save in its three steps. *)

Flawed(f) == seen' = [seen EXCEPT !.flaws = @ \cup f]

Loaded(p) == save' = [save EXCEPT ![p] = [copy |-> file, fresh |-> TRUE, fd |-> None]]

\* A mutant: the state is written in place.
OpenInPlace(p) ==
  /\ file' = Torn
  /\ save' = [save EXCEPT ![p].fd = "live"]
  /\ UNCHANGED <<tmp, lock, seen>>

\* Truncates the temporary file, which another saver may have open.
OpenTmp(p) ==
  /\ tmp' = Torn
  /\ save' = [save EXCEPT ![p].fd = "tmp"]
  /\ Flawed({f \in {"overlap"} : \E q \in Saver \ {p} : save[q].fd # None})
  /\ UNCHANGED <<file, lock>>

\* Writes to whatever the open file is called by now; two writers of one file
\* may leave a mixture.
Bytes(p) == {save[p].copy} \cup {c \in {Torn} : "overlap" \in seen.flaws}

WriteTmp(p) ==
  /\ \/ save[p].fd = "tmp" /\ tmp' \in Bytes(p) /\ UNCHANGED file
     \/ save[p].fd = "live" /\ file' \in Bytes(p) /\ UNCHANGED tmp
  /\ UNCHANGED <<lock, save, seen>>

\* Renames the temporary file if it is still there.  What the others hold a copy
\* of is out of date from now on, and what they have open is state.json.
Renamed(p) ==
  /\ IF tmp = None THEN UNCHANGED <<file, tmp>> ELSE file' = tmp /\ tmp' = None
  /\ save' = [q \in Saver |->
       IF q = p THEN NoSave
                ELSE [save[q] EXCEPT !.fresh = FALSE,
                                     !.fd = IF @ = "tmp" THEN "live" ELSE @]]
  /\ seen' = [seen EXCEPT
       !.flaws = @ \cup {f \in {"stale copy"} : ~save[p].fresh},
       !.ran = [t \in Task |-> IF t = p THEN task[t].rec ELSE @[t]]]
  /\ UNCHANGED lock

-----------------------------------------------------------------------------
(* Instances. *)

Goto(s, pc) == sync' = [sync EXCEPT ![s].pc = pc]
At(s) == sync[s].at

\* A convergence that completes, or stops with some of the objects made.
Made(n) == real' = [real EXCEPT ![n] = @ \cup Want(n)]

HalfMade(n) ==
  /\ \E some \in SUBSET Want(n) : real' = [real EXCEPT ![n] = @ \cup some]
  /\ tainted' = tainted \cup {n}

Marks(n) ==
  /\ marker' = [marker EXCEPT ![n] = Want(n)]
  /\ tainted' = tainted \ {n}

\* A boot up to MarkRunning.  It is to converge an instance that has no marker or
\* has drifted.
Started(n) ==
  /\ n \notin up /\ boot[n] = "none"
  /\ up' = up \cup {n}
  /\ boot' = [boot EXCEPT ![n] = IF marker[n] = Want(n) THEN "none" ELSE "converge"]
  /\ UNCHANGED <<conf, real, marker, tainted>>

\* What a sync goes on with when the instance is booted.
Booted(s) == IF sync[s].op = "apply" THEN "converge" ELSE "prune"

\* The boot of n is over: so is the wait of the syncs that joined it.
Over(n, ok) ==
  /\ boot' = [boot EXCEPT ![n] = "none"]
  /\ sync' = [s \in Syncer |->
       IF sync[s].pc = "boot" /\ At(s) = n
         THEN [sync[s] EXCEPT !.pc = IF ok THEN Booted(s) ELSE "unlock"]
         ELSE sync[s]]

\* The boot converges what it has registered, which may have been stopped by now.
\* When that fails the backend is taken down.
BootConverges(n) ==
  /\ boot[n] = "converge"
  /\ \/ /\ n \in up
        /\ Made(n)
        /\ boot' = [boot EXCEPT ![n] = "mark"]
        /\ UNCHANGED <<up, tainted, sync>>
     \/ /\ HalfMade(n)
        /\ up' = up \ {n}
        /\ Over(n, FALSE)
  /\ UNCHANGED <<conf, marker, disk, task, save, seen, used>>

BootMarks(n) ==
  /\ boot[n] = "mark"
  /\ Marks(n)
  /\ Over(n, TRUE)
  /\ UNCHANGED <<conf, real, up, disk, task, save, seen, used>>

\* A connection wakes an instance, and it goes to sleep again.
Wake(n) ==
  /\ Started(n)
  /\ Flawed({f \in {"woken"} : \E s \in Syncer : sync[s].pc = "clear" /\ At(s) = n})
  /\ UNCHANGED <<disk, sync, task, save, used>>

Sleep(n) ==
  /\ n \in up
  /\ up' = up \ {n}
  /\ UNCHANGED <<conf, real, marker, boot, tainted, disk, sync, task, save, seen, used>>

-----------------------------------------------------------------------------
(* The lock file. *)

\* A call of Apply or Destroy, for one instance or for all.
Call(s) ==
  /\ sync[s].pc = "idle"
  /\ \E op \in {"apply", "destroy"}, todo \in {Inst} \cup {{n} : n \in Inst} :
       sync' = [sync EXCEPT ![s] = [NoSync EXCEPT !.pc = "lock", !.op = op, !.todo = todo]]
  /\ Move
  /\ UNCHANGED <<world, disk, task, save, seen>>

\* A mutant: the lock file is created without O_EXCL.
CreateAnyway(s) ==
  /\ sync[s].pc = "lock"
  /\ lock' = [by |-> s, old |-> FALSE] /\ Goto(s, "load")
  /\ UNCHANGED <<world, file, tmp, task, save, seen, used>>

\* O_EXCL creates the file or fails; a file past its ttl is removed.
Create(s) ==
  /\ sync[s].pc = "lock"
  /\ IF lock.by = None
       THEN lock' = [by |-> s, old |-> FALSE] /\ Goto(s, "load")
       ELSE /\ UNCHANGED lock
            /\ IF lock.old THEN Goto(s, "break")
                           ELSE sync' = [sync EXCEPT ![s] = NoSync]
  /\ UNCHANGED <<world, file, tmp, task, save, seen, used>>

\* The file is removed by its name: its owner may be alive, and it may not be
\* the file that was found old.  The second time the call fails after that.
Break(s) ==
  /\ sync[s].pc = "break"
  /\ sync' = [sync EXCEPT ![s] =
       IF @.tried THEN NoSync ELSE [@ EXCEPT !.pc = "lock", !.tried = TRUE]]
  /\ lock' = [by |-> None, old |-> FALSE]
  /\ Flawed({f \in {"lock taken"} : lock.by \in Syncer})
  /\ UNCHANGED <<world, file, tmp, task, save, used>>

\* The clock: a lock file is not touched again, so it gets old.
Age ==
  /\ lock.by # None /\ ~lock.old
  /\ lock' = [lock EXCEPT !.old = TRUE]
  /\ UNCHANGED <<world, file, tmp, sync, task, save, seen, used>>

\* The call returns, and removes the lock file whosever it is.
Return(s) ==
  /\ sync[s].pc = "unlock"
  /\ lock' = [by |-> None, old |-> FALSE]
  /\ sync' = [sync EXCEPT ![s] = NoSync]
  /\ save' = [save EXCEPT ![s] = NoSave]
  /\ UNCHANGED <<world, file, tmp, task, seen, used>>

Load(s) ==
  /\ sync[s].pc = "load"
  /\ IF file.ok THEN Loaded(s) /\ Goto(s, "next")
                ELSE Goto(s, "unlock") /\ UNCHANGED save
  /\ UNCHANGED <<world, disk, task, seen, used>>

-----------------------------------------------------------------------------
(* Apply and Destroy. *)

Recorded(s, n) == save[s].copy.objs[n]
\* A mutant: the state that is saved begins empty.
RecordAnew(s, n, objs) == save' = [save EXCEPT ![s].copy = [Empty EXCEPT !.objs[n] = objs]]
Record(s, n, objs) == save' = [save EXCEPT ![s].copy.objs[n] = objs]
Done(s) ==
  sync' = [sync EXCEPT ![s] =
    [@ EXCEPT !.pc = "next", !.todo = sync[s].todo \ {At(s)}, !.at = None]]

\* The next instance is booted: the first half of Up, and all of it for Destroy,
\* which passes over what has nothing recorded.  A backend that is registered is
\* used as it is, a boot that is under way is joined, or the sync boots it.
Begin(s) ==
  /\ sync[s].pc = "next"
  /\ \E n \in sync[s].todo :
       LET go(pc) == sync' = [sync EXCEPT ![s] = [@ EXCEPT !.at = n, !.pc = pc]] IN
       IF sync[s].op = "destroy" /\ Recorded(s, n) = {}
         THEN /\ sync' = [sync EXCEPT ![s].todo = @ \ {n}]
              /\ UNCHANGED world
         ELSE \/ n \in up /\ go(Booted(s)) /\ UNCHANGED world
              \/ n \notin up /\ boot[n] # "none" /\ go("boot") /\ UNCHANGED world
              \/ Started(n) /\ go(IF marker[n] = Want(n) THEN Booted(s) ELSE "boot")
              \/ n \notin up /\ boot[n] = "none" /\ Goto(s, "unlock") /\ UNCHANGED world
  /\ UNCHANGED <<disk, task, save, seen, used>>

\* ensureConverged: a failure leaves the backend up, tainted and unmarked.  A
\* backend that sleeps by now cannot be converged.
Converge(s) ==
  /\ sync[s].pc = "converge"
  /\ LET n == At(s) IN
     \/ /\ n \in up
        /\ Made(n) /\ Goto(s, "mark")
        /\ UNCHANGED <<marker, tainted>>
     \/ /\ HalfMade(n)
        /\ marker' = [marker EXCEPT ![n] = None]
        /\ Goto(s, "unlock")
  /\ UNCHANGED <<conf, up, boot, disk, task, save, seen, used>>

Mark(s) ==
  /\ sync[s].pc = "mark"
  /\ Marks(At(s)) /\ Goto(s, "prune")
  /\ UNCHANGED <<conf, real, up, boot, disk, task, save, seen, used>>

\* A mutant: the objects are recorded although dropping some failed.
PruneOrNot(s) ==
  /\ sync[s].pc = "prune" /\ sync[s].op = "apply"
  /\ LET n == At(s)
         removed == Recorded(s, n) \ Want(n) IN
       /\ \E some \in SUBSET removed : real' = [real EXCEPT ![n] = @ \ some]
       /\ Record(s, n, Want(n)) /\ Done(s)
  /\ UNCHANGED <<conf, marker, up, boot, tainted, disk, task, seen, used>>

\* reconcileObjects: what was recorded and is no longer declared is dropped.
PruneRemoved(s) ==
  /\ sync[s].pc = "prune" /\ sync[s].op = "apply"
  /\ LET n == At(s)
         removed == Recorded(s, n) \ Want(n) IN
     \/ /\ removed = {} \/ n \in up
        /\ real' = [real EXCEPT ![n] = @ \ removed]
        /\ Record(s, n, Want(n)) /\ Done(s)
     \/ /\ removed # {}
        /\ \E some \in {r \in SUBSET removed : r = {} \/ n \in up} :
             real' = [real EXCEPT ![n] = @ \ some]
        /\ Goto(s, "unlock") /\ UNCHANGED save
  /\ UNCHANGED <<conf, marker, up, boot, tainted, disk, task, seen, used>>

\* pruneAll: everything recorded is dropped, then the backend is stopped, also
\* when dropping failed.
PruneAll(s) ==
  /\ sync[s].pc = "prune" /\ sync[s].op = "destroy"
  /\ LET n == At(s)
         woken == {f \in {"woken"} : boot[n] # "none"} IN
     \/ /\ n \in up
        /\ real' = [real EXCEPT ![n] = @ \ Recorded(s, n)]
        /\ Goto(s, "stop") /\ Flawed(woken)
     \/ /\ \E some \in {r \in SUBSET Recorded(s, n) : r = {} \/ n \in up} :
             /\ real' = [real EXCEPT ![n] = @ \ some]
             /\ Flawed(woken \cup {f \in {"half pruned"} : some # {}})
        /\ Goto(s, "abort")
  /\ UNCHANGED <<conf, marker, up, boot, tainted, disk, task, save, used>>

StopPruned(s) ==
  /\ sync[s].pc \in {"stop", "abort"}
  /\ up' = up \ {At(s)}
  /\ Goto(s, IF sync[s].pc = "stop" THEN "clear" ELSE "unlock")
  /\ UNCHANGED <<conf, real, marker, boot, tainted, disk, task, save, seen, used>>

\* A mutant: the marker is kept.
ClearRecord(s) ==
  /\ sync[s].pc = "clear"
  /\ Record(s, At(s), {})
  /\ Done(s)
  /\ UNCHANGED <<world, disk, task, seen, used>>

\* Destroy forgets the objects and the marker that vouched for them.
Clear(s) ==
  /\ sync[s].pc = "clear"
  /\ Record(s, At(s), {})
  /\ marker' = [marker EXCEPT ![At(s)] = None]
  /\ Done(s)
  /\ UNCHANGED <<conf, real, up, boot, tainted, disk, task, seen, used>>

SaveSync(s) ==
  \/ /\ sync[s].pc = "next" /\ sync[s].todo = {}
     /\ OpenTmp(s) /\ Goto(s, "write")
     /\ UNCHANGED <<world, task, used>>
  \/ /\ sync[s].pc = "write"
     /\ WriteTmp(s) /\ Goto(s, "rename")
     /\ UNCHANGED <<world, task, used>>
  \/ /\ sync[s].pc = "rename"
     /\ Renamed(s) /\ Goto(s, "unlock")
     /\ UNCHANGED <<world, task, used>>

-----------------------------------------------------------------------------
(* Tasks. *)

Edit(t) ==
  /\ task[t].inputs < MaxEdit
  /\ task' = [task EXCEPT ![t].inputs = @ + 1]
  /\ Move
  /\ UNCHANGED <<world, disk, sync, save, seen>>

UpToDate(t) ==
  /\ file.ok
  /\ file.tasks[t] = [result |-> "done", inputs |-> task[t].inputs]

\* What needs the task starts it unless it is up to date; a command always does.
RunTask(t) ==
  /\ task[t].pc = "idle"
  /\ \E force \in BOOLEAN : force \/ ~UpToDate(t)
  /\ task' = [task EXCEPT ![t] = [@ EXCEPT !.pc = "run", !.hash = task[t].inputs]]
  /\ Move
  /\ UNCHANGED <<world, disk, sync, save, seen>>

\* A mutant: the inputs are hashed when the command has ended.
TaskEndsHashed(t) ==
  /\ task[t].pc = "run"
  /\ \E result \in {"done", "failed"} :
       /\ task' = [task EXCEPT ![t] = [@ EXCEPT
            !.pc = "load", !.rec = [result |-> result, inputs |-> task[t].inputs]]]
       /\ seen' = [seen EXCEPT !.good[t] =
                     IF result = "done" THEN @ \cup {task[t].hash} ELSE @]
  /\ UNCHANGED <<world, disk, sync, save, used>>

\* The command ends, or is stopped.  The record has the inputs it started with.
TaskEnds(t) ==
  /\ task[t].pc = "run"
  /\ \E result \in {"done", "failed"} :
       /\ task' = [task EXCEPT ![t] = [@ EXCEPT
            !.pc = "load", !.rec = [result |-> result, inputs |-> task[t].hash]]]
       /\ seen' = [seen EXCEPT !.good[t] =
                     IF result = "done" THEN @ \cup {task[t].hash} ELSE @]
  /\ UNCHANGED <<world, disk, sync, save, used>>

\* ResetData drops the record.
ForgetTask(t) ==
  /\ task[t].pc = "idle"
  /\ task' = [task EXCEPT ![t] = [@ EXCEPT !.pc = "load", !.rec = None]]
  /\ Move
  /\ UNCHANGED <<world, disk, sync, save, seen>>

\* setTaskRecord.  taskMu keeps tasks apart, and only them.
SaveTask(t) ==
  \/ /\ task[t].pc = "load"
     /\ \A u \in Task : task[u].pc \notin {"open", "write", "rename"}
     /\ IF file.ok
          THEN /\ save' = [save EXCEPT ![t] =
                    [copy |-> [file EXCEPT !.tasks[t] = task[t].rec], fresh |-> TRUE, fd |-> None]]
               /\ task' = [task EXCEPT ![t].pc = "open"]
          ELSE /\ task' = [task EXCEPT ![t] = [@ EXCEPT !.pc = "idle", !.rec = None]]
               /\ UNCHANGED save
     /\ UNCHANGED <<world, disk, sync, seen, used>>
  \/ /\ task[t].pc = "open"
     /\ OpenTmp(t)
     /\ task' = [task EXCEPT ![t].pc = "write"]
     /\ UNCHANGED <<world, sync, used>>
  \/ /\ task[t].pc = "write"
     /\ WriteTmp(t)
     /\ task' = [task EXCEPT ![t].pc = "rename"]
     /\ UNCHANGED <<world, sync, used>>
  \/ /\ task[t].pc = "rename"
     /\ Renamed(t)
     /\ task' = [task EXCEPT ![t] = [@ EXCEPT !.pc = "idle", !.rec = None, !.hash = 0]]
     /\ UNCHANGED <<world, sync, used>>

-----------------------------------------------------------------------------
\* The daemon dies, at any moment, and one with this configuration or the next
\* takes its place.  The files stay as they are, the lock file among them.
Restart ==
  /\ conf' \in {conf, conf + 1} \cap DOMAIN Declared
  /\ up' = {} /\ boot' = [n \in Inst |-> "none"] /\ tainted' = {}
  /\ lock' = [lock EXCEPT !.by = IF @ \in Syncer THEN "dead" ELSE @]
  /\ sync' = [s \in Syncer |-> NoSync]
  /\ task' = [t \in Task |-> [task[t] EXCEPT !.pc = "idle", !.rec = None, !.hash = 0]]
  /\ save' = [p \in Saver |-> NoSave]
  /\ Flawed({f \in {"half pruned"} : \E s \in Syncer : sync[s].pc \in {"stop", "clear"}})
  /\ Move
  /\ UNCHANGED <<real, marker, file, tmp>>

Next ==
  \/ \E n \in Inst : Wake(n) \/ Sleep(n) \/ BootConverges(n) \/ BootMarks(n)
  \/ \E s \in Syncer :
       \/ Call(s) \/ Create(s) \/ Break(s) \/ Return(s) \/ Load(s) \/ Begin(s)
       \/ Converge(s) \/ Mark(s) \/ PruneRemoved(s) \/ PruneAll(s) \/ StopPruned(s)
       \/ Clear(s) \/ SaveSync(s)
  \/ \E t \in Task : Edit(t) \/ RunTask(t) \/ TaskEnds(t) \/ ForgetTask(t) \/ SaveTask(t)
  \/ Age \/ Restart

Spec == Init /\ [][Next]_vars

-----------------------------------------------------------------------------
(* Properties. *)

TypeOK ==
  /\ conf \in DOMAIN Declared
  /\ real \in [Inst -> SUBSET Obj] /\ marker \in [Inst -> (SUBSET Obj) \cup {None}]
  /\ up \subseteq Inst /\ tainted \subseteq Inst
  /\ boot \in [Inst -> {"none", "converge", "mark"}]
  /\ file \in States /\ tmp \in States \cup {None}
  /\ lock \in [by : Syncer \cup {None, "dead"}, old : BOOLEAN]
  /\ \A s \in Syncer : sync[s].todo \subseteq Inst /\ sync[s].at \in Inst \cup {None}
  /\ \A t \in Task : task[t].inputs \in 0..MaxEdit /\ task[t].rec \in Records \cup {None}
  /\ \A p \in Saver : save[p].copy \in States /\ save[p].fd \in {None, "tmp", "live"}
  /\ seen.flaws \subseteq {"overlap", "stale copy", "lock taken", "woken", "half pruned"}

Unless(flaws) == seen.flaws \cap flaws = {}

\* Two syncs are at work together only after a lock file was removed whose owner
\* was alive (state.go:104-105: "so two applies can't race").
Holder == {s \in Syncer : sync[s].pc \notin {"idle", "lock", "break"}}

OneSyncAtATime == Unless({"lock taken"}) => Cardinality(Holder) <= 1

\* state.json can be read back, also after the daemon died in the middle of a
\* save, unless two saves used the temporary file at once (state.go:87).
FileIsWhole == Unless({"overlap"}) => file.ok

\* There is a state.json to read at every moment, whoever renamed over it, and
\* it is whole (state.go:87-96).
FilesAreSound == TypeOK /\ FileIsWhole

\* What was recorded of a task stays recorded, unless a sync saved the copy it
\* had loaded before.
RecordsAreKept ==
  Unless({"overlap", "stale copy"}) => \A t \in Task : file.tasks[t] = seen.ran[t]

\* A task is passed over only when a run that started with the inputs it has now
\* has succeeded: in particular not when they were edited during the run.
PassedOverWhenDone ==
  \A t \in Task : UpToDate(t) => task[t].inputs \in seen.good[t]

\* An object leaves the record only when it is gone from its instance or is
\* still declared: otherwise no sync would ever drop it.
ForgetsOnlyWhatIsGone ==
  [][Unless({"overlap", "stale copy"})' =>
       \A n \in Inst : (file.objs[n] \ file'.objs[n]) \cap real'[n] \subseteq Want(n)']_vars

\* A Destroy has dropped what it could and is about to stop the backend.
Stopping(n) == \E s \in Syncer : sync[s].pc \in {"stop", "abort"} /\ At(s) = n

\* A backend that runs when its boot is over, is not marked tainted and is not being
\* destroyed has the structure declared for it, unless a Destroy failed half way, met
\* another sync or a boot, or found the instance woken before it had removed the
\* marker (apply.go:123-125).  While the boot still converges the backend is served
\* as it is (runtime.go:224-230), against runtime.go:463-464.
ServesWhatIsDeclared ==
  Unless({"half pruned", "woken", "lock taken"}) =>
    \A n \in up \ tainted : boot[n] = "none" /\ ~Stopping(n) => Want(n) \subseteq real[n]
=============================================================================
