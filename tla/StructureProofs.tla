---------------------------- MODULE StructureProofs ----------------------------
(***************************************************************************)
(* The structure that is applied, for any instances, objects, declared     *)
(* configurations, syncs and tasks, and with any number of unguarded cases *)
(* together.                                                               *)
(*                                                                         *)
(* The lock names who holds it (Locked).  Unless two saves overlapped, who *)
(* has the temporary file open is alone with it (OneFile), and whoever     *)
(* loaded the state since the last rename has it as it is, but for what it *)
(* has done itself (FreshCopies).  Whatever is read back of a task is the  *)
(* record of a run of it (Honest), and a marker vouches for what is there  *)
(* (Vouched).                                                              *)
(***************************************************************************)
EXTENDS Structure, FiniteSetTheorems, TLAPS

SyncPcs == {"idle", "lock", "break", "load", "next", "boot", "converge", "mark", "prune",
            "stop", "abort", "clear", "write", "rename", "unlock"}

\* A sync is at one of its instances.
Busy == {"boot", "converge", "mark", "prune", "stop", "abort", "clear"}

SyncT == [pc : SyncPcs,
          op : {None, "apply", "destroy"}, todo : SUBSET Inst, at : Inst \cup {None},
          tried : BOOLEAN]
TaskT == [pc : {"idle", "run", "load", "open", "write", "rename"}, inputs : 0..MaxEdit,
          hash : 0..MaxEdit, rec : Records \cup {None}]
SaveT == [copy : States, fresh : BOOLEAN, fd : {None, "tmp", "live"}]
SeenT == [ran : [Task -> Records \cup {None}], good : [Task -> SUBSET (0..MaxEdit)],
          flaws : SUBSET {"overlap", "stale copy", "lock taken", "woken", "half pruned"}]

Typed ==
  /\ conf \in DOMAIN Declared
  /\ real \in [Inst -> SUBSET Obj] /\ marker \in [Inst -> (SUBSET Obj) \cup {None}]
  /\ up \subseteq Inst /\ tainted \subseteq Inst
  /\ boot \in [Inst -> {"none", "converge", "mark"}]
  /\ file \in States /\ tmp \in States \cup {None}
  /\ lock \in [by : Syncer \cup {None, "dead"}, old : BOOLEAN]
  /\ sync \in [Syncer -> SyncT] /\ task \in [Task -> TaskT]
  /\ save \in [Saver -> SaveT] /\ seen \in SeenT

Overlapped == "overlap" \in seen.flaws

\* Where a saver is, and where it is in its save.
Where(p) == IF p \in Syncer THEN sync[p].pc ELSE task[p].pc
Saving(p) == Where(p) \in {"write", "rename"}

\* What a saver holds goes with where it is.
Standing ==
  /\ \A p \in Saver :
       /\ save[p].copy.ok
       /\ save[p].fd # None <=> Saving(p)
       /\ Where(p) \in {"idle", "lock", "break", "run", "load"} => ~save[p].fresh
  /\ \A s \in Syncer : sync[s].pc \in Busy => At(s) \in sync[s].todo

\* Without an overlap one saver at a time has the temporary file, and what it
\* renames is what it holds.
OneFile ==
  ~Overlapped =>
    /\ file.ok
    /\ \A p, q \in Saver : save[p].fd # None /\ save[q].fd # None => p = q
    /\ \A p \in Saver : /\ save[p].fd # "live"
                        /\ Where(p) = "rename" => tmp = save[p].copy

\* A fresh copy differs from the file by what its holder has done: a task by its
\* record, a sync by the objects that it has pruned, as far as nobody declares them.
TaskIsFresh(t) == save[t].copy = [file EXCEPT !.tasks[t] = task[t].rec]

SyncIsFresh(s) ==
  /\ save[s].copy.tasks = file.tasks
  /\ \A n \in sync[s].todo : save[s].copy.objs[n] = file.objs[n]
  /\ \A n \in Inst : (file.objs[n] \ save[s].copy.objs[n]) \cap real[n] \subseteq Want(n)
  /\ sync[s].pc \in {"stop", "clear"} =>
       file.objs[At(s)] \cap real[At(s)] \subseteq Want(At(s))

FreshCopies ==
  ~Overlapped =>
    /\ \A t \in Task : save[t].fresh => TaskIsFresh(t)
    /\ \A s \in Syncer : save[s].fresh => SyncIsFresh(s)

\* A state says of a task that it is done only for inputs that a run of it
\* succeeded with.
Truthful(state) ==
  state.ok => \A t \in Task, i \in 0..MaxEdit :
                state.tasks[t] = [result |-> "done", inputs |-> i] => i \in seen.good[t]

Honest ==
  /\ Truthful(file) /\ (tmp # None => Truthful(tmp))
  /\ \A p \in Saver : Truthful(save[p].copy)
  /\ \A t \in Task, i \in 0..MaxEdit :
       task[t].rec = [result |-> "done", inputs |-> i] => i \in seen.good[t]

\* A sync that is past the lock file owns it.
Locked == Unless({"lock taken"}) => \A s \in Holder : lock.by = s

\* A marker vouches for what is there, but while a Destroy that has dropped the
\* objects is about to remove it.  What is about to be marked is there.
Vouched ==
  Unless({"half pruned", "woken", "lock taken"}) =>
    /\ \A n \in Inst : /\ \/ marker[n] = None
                          \/ marker[n] \subseteq real[n]
                          \/ \E s \in Syncer : sync[s].pc \in {"stop", "clear"} /\ At(s) = n
                       /\ boot[n] = "mark" => Want(n) \subseteq real[n]
    /\ \A s \in Syncer :
         /\ sync[s].pc = "mark" => Want(At(s)) \subseteq real[At(s)]
         /\ sync[s].pc = "prune" /\ sync[s].op = "apply" => marker[At(s)] = Want(At(s))
         /\ sync[s].pc = "clear" => At(s) \notin up

Inv == /\ Typed /\ Standing /\ OneFile /\ FreshCopies /\ RecordsAreKept /\ Honest
       /\ Locked /\ Vouched /\ ServesWhatIsDeclared

-----------------------------------------------------------------------------
(* Types. *)

LEMMA TypedIsTypeOK == Typed => TypeOK
<1> SUFFICES ASSUME Typed
             PROVE  TypeOK
  OBVIOUS
<1>1. \A s \in Syncer : sync[s].todo \subseteq Inst /\ sync[s].at \in Inst \cup {None}
  BY DEF Typed, SyncT
<1>2. \A t \in Task : task[t].inputs \in 0..MaxEdit /\ task[t].rec \in Records \cup {None}
  BY DEF Typed, TaskT
<1>3. \A p \in Saver : save[p].copy \in States /\ save[p].fd \in {None, "tmp", "live"}
  BY DEF Typed, SaveT
<1>4. seen.flaws \subseteq {"overlap", "stale copy", "lock taken", "woken", "half pruned"}
  BY DEF Typed, SeenT
<1> QED BY <1>1, <1>2, <1>3, <1>4 DEF Typed, TypeOK

LEMMA EmptyType == Empty \in States /\ Torn \in States /\ Empty.ok /\ ~Torn.ok
BY DEF Empty, Torn, States

LEMMA NoSaveType == /\ NoSave \in SaveT /\ NoSave.copy = Empty
                    /\ NoSave.fresh = FALSE /\ NoSave.fd = None
BY EmptyType DEF NoSave, SaveT

LEMMA NoSyncType == /\ NoSync \in SyncT /\ NoSync.pc = "idle"
BY DEF NoSync, SyncT, SyncPcs

LEMMA WantType == ASSUME Typed, NEW n \in Inst
                  PROVE  Want(n) \in SUBSET Obj
BY StructureConstants DEF Typed, Want

LEMMA InitInv == Init => Inv
<1> SUFFICES ASSUME Init
             PROVE  Inv
  OBVIOUS
<1> USE DEF Init
<1>1. Typed
  <2>1. conf \in DOMAIN Declared
    BY StructureConstants
  <2>2. sync \in [Syncer -> SyncT]
    BY NoSyncType
  <2>3. task \in [Task -> TaskT]
    BY StructureConstants DEF TaskT
  <2>4. save \in [Saver -> SaveT]
    BY NoSaveType
  <2>5. seen \in SeenT
    BY DEF SeenT
  <2>6. file \in States
    BY EmptyType
  <2> QED BY <2>1, <2>2, <2>3, <2>4, <2>5, <2>6 DEF Typed
<1>2. /\ \A s \in Syncer : sync[s] = NoSync
      /\ \A t \in Task : task[t].pc = "idle" /\ task[t].rec = None
      /\ \A p \in Saver : save[p] = NoSave
  OBVIOUS
<1>3. Standing
  BY <1>2, NoSyncType, NoSaveType, EmptyType, StructureConstants
     DEF Standing, Saving, Saver, Where, Busy
<1>4. OneFile /\ FreshCopies
  BY <1>2, NoSyncType, NoSaveType, EmptyType, StructureConstants
     DEF OneFile, FreshCopies, Saver, Where
<1>5. RecordsAreKept
  BY DEF RecordsAreKept, Empty
<1>6. Honest
  <2>1. \A i \in 0..MaxEdit : [result |-> "done", inputs |-> i] # None
    BY StructureConstants DEF Records
  <2>2. \A t \in Task : Empty.tasks[t] = None
    BY DEF Empty
  <2>3. Truthful(Empty)
    BY <2>1, <2>2 DEF Truthful
  <2> QED BY <1>2, <2>1, <2>3, NoSaveType DEF Honest
<1>7. Holder = {}
  BY <1>2, NoSyncType DEF Holder
<1>8. Vouched /\ ServesWhatIsDeclared
  BY <1>2, NoSyncType DEF Vouched, ServesWhatIsDeclared
<1> QED BY <1>1, <1>3, <1>4, <1>5, <1>6, <1>7, <1>8 DEF Inv, Locked

LEMMA StartedType ==
  ASSUME Typed, NEW n \in Inst, UNCHANGED world \/ Started(n)
  PROVE  /\ UNCHANGED <<conf, real, marker, tainted>> /\ up' \subseteq Inst
         /\ boot' \in [Inst -> {"none", "converge", "mark"}]
BY DEF Typed, world, Started

LEMMA FlawedType ==
  ASSUME Typed, NEW f, Flawed(f),
         f \subseteq {"overlap", "stale copy", "lock taken", "woken", "half pruned"}
  PROVE  /\ seen' \in SeenT /\ seen'.flaws = seen.flaws \cup f
         /\ seen'.ran = seen.ran /\ seen'.good = seen.good
BY DEF Typed, SeenT, Flawed

\* The steps of a save, apart from where its saver is.
SaveStep(p) == OpenTmp(p) \/ WriteTmp(p) \/ Renamed(p)

LEMMA SaveStepType ==
  ASSUME Typed, NEW p \in Saver, SaveStep(p)
  PROVE  /\ file' \in States /\ tmp' \in States \cup {None} /\ lock' = lock
         /\ save' \in [Saver -> SaveT] /\ seen' \in SeenT
<1>1. CASE OpenTmp(p)
  <2>1. seen' \in SeenT
    BY <1>1, FlawedType DEF OpenTmp
  <2>2. save' \in [Saver -> SaveT]
    BY <1>1 DEF OpenTmp, Typed, SaveT
  <2> QED BY <1>1, <2>1, <2>2, EmptyType DEF OpenTmp, Typed
<1>2. CASE WriteTmp(p)
  <2>1. Bytes(p) \subseteq States
    BY EmptyType DEF Bytes, Typed, SaveT
  <2> QED BY <1>2, <2>1 DEF WriteTmp, Typed
<1>3. CASE Renamed(p)
  <2>1. seen' \in SeenT
    <3>1. \A t \in Task : task[t].rec \in Records \cup {None}
      BY DEF Typed, TaskT
    <3> QED BY <1>3, <3>1 DEF Renamed, Typed, SeenT
  <2>2. save' \in [Saver -> SaveT]
    <3>1. \A q \in Saver : [save[q] EXCEPT !.fresh = FALSE,
                              !.fd = IF @ = "tmp" THEN "live" ELSE @] \in SaveT
      BY DEF Typed, SaveT
    <3> QED BY <1>3, <3>1, NoSaveType DEF Renamed
  <2>3. file' \in States /\ tmp' \in States \cup {None}
    BY <1>3 DEF Renamed, Typed
  <2> QED BY <1>3, <2>1, <2>2, <2>3 DEF Renamed
<1> QED BY <1>1, <1>2, <1>3 DEF SaveStep

LEMMA GotoType ==
  ASSUME Typed, NEW s \in Syncer, NEW pc \in SyncPcs, Goto(s, pc)
  PROVE  /\ sync' \in [Syncer -> SyncT] /\ sync'[s].pc = pc /\ sync'[s].op = sync[s].op
         /\ sync'[s].todo = sync[s].todo /\ sync'[s].at = sync[s].at
         /\ sync'[s].tried = sync[s].tried /\ \A r \in Syncer \ {s} : sync'[r] = sync[r]
BY DEF Typed, SyncT, Goto, SyncPcs

LEMMA DoneType ==
  ASSUME Typed, NEW s \in Syncer, Done(s)
  PROVE  /\ sync' \in [Syncer -> SyncT] /\ sync'[s].pc = "next" /\ sync'[s].op = sync[s].op
         /\ sync'[s].todo = sync[s].todo \ {At(s)} /\ sync'[s].at = None
         /\ \A r \in Syncer \ {s} : sync'[r] = sync[r]
<1>1. sync[s] \in SyncT /\ sync \in [Syncer -> SyncT]
  BY DEF Typed
<1>2. PICK v : v = [sync[s] EXCEPT !.pc = "next", !.todo = sync[s].todo \ {At(s)}, !.at = None]
  OBVIOUS
<1>3. /\ v \in SyncT /\ v.pc = "next" /\ v.op = sync[s].op
      /\ v.todo = sync[s].todo \ {At(s)} /\ v.at = None
  BY <1>1, <1>2 DEF SyncT, SyncPcs
<1>4. sync' = [sync EXCEPT ![s] = v]
  BY <1>1, <1>2 DEF Done
<1> QED BY <1>1, <1>3, <1>4

LEMMA RecordType ==
  ASSUME Typed, NEW s \in Syncer, NEW n \in Inst, NEW objs \in SUBSET Obj, Record(s, n, objs)
  PROVE  /\ save' \in [Saver -> SaveT] /\ \A p \in Saver \ {s} : save'[p] = save[p]
         /\ save'[s].fresh = save[s].fresh /\ save'[s].fd = save[s].fd
         /\ save'[s].copy.ok = save[s].copy.ok /\ save'[s].copy.tasks = save[s].copy.tasks
         /\ save'[s].copy.objs = [save[s].copy.objs EXCEPT ![n] = objs]
<1>1. s \in Saver
  BY DEF Saver
<1>2. save[s] \in SaveT /\ save[s].copy \in States
  BY <1>1 DEF Typed, SaveT
<1>3. [save[s].copy EXCEPT !.objs[n] = objs] \in States
  BY <1>2 DEF States
<1>4. PICK c \in States : c = [save[s].copy EXCEPT !.objs[n] = objs]
  BY <1>3
<1>5. save' = [save EXCEPT ![s] = [@ EXCEPT !.copy = c]]
  BY <1>4 DEF Record
<1>6. save'[s] = [save[s] EXCEPT !.copy = c]
  BY <1>1, <1>5 DEF Typed
<1>7. save' \in [Saver -> SaveT]
  BY <1>2, <1>5 DEF Typed, SaveT
<1>8. /\ c.ok = save[s].copy.ok /\ c.tasks = save[s].copy.tasks
      /\ c.objs = [save[s].copy.objs EXCEPT ![n] = objs]
  BY <1>2, <1>4 DEF States
<1>9. save'[s].copy = c /\ save'[s].fresh = save[s].fresh /\ save'[s].fd = save[s].fd
  BY <1>2, <1>6 DEF SaveT
<1> QED BY <1>5, <1>7, <1>8, <1>9 DEF Typed

LEMMA LoadedType ==
  ASSUME Typed, NEW p \in Saver, Loaded(p)
  PROVE  /\ save' \in [Saver -> SaveT] /\ \A q \in Saver \ {p} : save'[q] = save[q]
         /\ save'[p].copy = file /\ save'[p].fresh = TRUE /\ save'[p].fd = None
BY DEF Typed, SaveT, Loaded

\* How a sync begins with an instance.
LEMMA BeginIs ==
  ASSUME Typed, NEW s \in Syncer, Begin(s)
  PROVE  /\ UNCHANGED <<file, tmp, lock, task, save, seen>> /\ sync[s].pc = "next"
         /\ sync' \in [Syncer -> SyncT] /\ \A r \in Syncer \ {s} : sync'[r] = sync[r]
         /\ \E n \in sync[s].todo :
              /\ n \in Inst /\ (UNCHANGED world \/ Started(n))
              /\ \/ /\ sync'[s].pc = "next" /\ sync'[s].todo = sync[s].todo \ {n}
                 \/ /\ sync'[s].pc \in {"boot", "converge", "prune"} /\ At(s)' = n
                    /\ sync'[s].pc = "prune" => sync'[s].op # "apply"
                    /\ sync'[s].todo = sync[s].todo
                 \/ /\ sync'[s].pc = "unlock" /\ sync'[s].todo = sync[s].todo
<1>0. sync[s] \in SyncT
  BY DEF Typed
<1>1. UNCHANGED <<file, tmp, lock, task, save, seen>> /\ sync[s].pc = "next"
  BY DEF Begin, disk
<1>2. PICK n \in sync[s].todo :
        \/ sync' = [sync EXCEPT ![s].todo = @ \ {n}] /\ UNCHANGED world
        \/ /\ UNCHANGED world \/ Started(n)
           /\ \E pc \in {"boot", Booted(s)} :
                sync' = [sync EXCEPT ![s] = [@ EXCEPT !.at = n, !.pc = pc]]
        \/ Goto(s, "unlock") /\ UNCHANGED world
  BY DEF Begin
<1>3. n \in Inst
  BY <1>0 DEF SyncT
<1>4. CASE sync' = [sync EXCEPT ![s].todo = @ \ {n}] /\ UNCHANGED world
  <2>1. PICK v : v = [sync[s] EXCEPT !.todo = sync[s].todo \ {n}]
    OBVIOUS
  <2>2. v \in SyncT /\ v.pc = "next" /\ v.todo = sync[s].todo \ {n}
    BY <1>0, <1>1, <2>1 DEF SyncT
  <2>3. sync' = [sync EXCEPT ![s] = v]
    BY <1>4, <2>1 DEF Typed
  <2> QED BY <1>1, <1>3, <1>4, <2>2, <2>3 DEF Typed
<1>5. ASSUME NEW pc \in {"boot", Booted(s)},
             sync' = [sync EXCEPT ![s] = [@ EXCEPT !.at = n, !.pc = pc]]
      PROVE  /\ sync' \in [Syncer -> SyncT] /\ \A r \in Syncer \ {s} : sync'[r] = sync[r]
             /\ sync'[s].pc \in {"boot", "converge", "prune"} /\ At(s)' = n
             /\ sync'[s].pc = "prune" => sync'[s].op # "apply"
             /\ sync'[s].todo = sync[s].todo
  <2>1. PICK v : v = [sync[s] EXCEPT !.at = n, !.pc = pc]
    OBVIOUS
  <2>2. pc \in {"boot", "converge", "prune"} /\ (pc = "prune" => sync[s].op # "apply")
    BY DEF Booted
  <2>3. /\ v \in SyncT /\ v.pc = pc /\ v.at = n /\ v.op = sync[s].op
        /\ v.todo = sync[s].todo
    BY <1>0, <1>3, <2>1, <2>2 DEF SyncT, SyncPcs
  <2>4. sync' = [sync EXCEPT ![s] = v]
    BY <1>5, <2>1
  <2>5. /\ sync' \in [Syncer -> SyncT] /\ sync'[s] = v
        /\ \A r \in Syncer \ {s} : sync'[r] = sync[r]
    BY <2>3, <2>4 DEF Typed
  <2> QED BY <2>2, <2>3, <2>5 DEF At
<1>6. CASE Goto(s, "unlock") /\ UNCHANGED world
  BY <1>1, <1>3, <1>6, GotoType DEF SyncPcs
<1>7. CASE UNCHANGED world \/ Started(n)
  BY <1>1, <1>2, <1>3, <1>4, <1>5, <1>6, <1>7
<1> QED BY <1>2, <1>7

\* The boot of an instance goes on.
Boots(n) == BootConverges(n) \/ BootMarks(n)

\* A boot that ends moves the syncs that wait for it, and no others.
LEMMA OverMoves ==
  ASSUME Typed, NEW n \in Inst, NEW ok \in BOOLEAN, Over(n, ok)
  PROVE  /\ boot' \in [Inst -> {"none", "converge", "mark"}]
         /\ boot'[n] = "none" /\ \A m \in Inst \ {n} : boot'[m] = boot[m]
         /\ sync' \in [Syncer -> SyncT]
         /\ \A s \in Syncer :
              \/ sync'[s] = sync[s]
              \/ /\ sync[s].pc = "boot" /\ sync'[s].pc \in {"converge", "prune", "unlock"}
                 /\ sync'[s].pc = "prune" => sync'[s].op # "apply"
                 /\ sync'[s].todo = sync[s].todo /\ At(s)' = At(s)
<1>1. /\ boot' \in [Inst -> {"none", "converge", "mark"}]
      /\ boot'[n] = "none" /\ \A m \in Inst \ {n} : boot'[m] = boot[m]
  BY DEF Over, Typed
<1>2. ASSUME NEW s \in Syncer
      PROVE  /\ sync'[s] \in SyncT
             /\ \/ sync'[s] = sync[s]
                \/ /\ sync[s].pc = "boot" /\ sync'[s].pc \in {"converge", "prune", "unlock"}
                   /\ sync'[s].pc = "prune" => sync'[s].op # "apply"
                   /\ sync'[s].todo = sync[s].todo /\ At(s)' = At(s)
  <2>0. sync[s] \in SyncT
    BY DEF Typed
  <2>1. PICK pc : pc = IF ok THEN Booted(s) ELSE "unlock"
    OBVIOUS
  <2>2. pc \in {"converge", "prune", "unlock"} /\ (pc = "prune" => sync[s].op # "apply")
    BY <2>1 DEF Booted
  <2>3. PICK v : v = [sync[s] EXCEPT !.pc = pc]
    OBVIOUS
  <2>4. /\ v \in SyncT /\ v.pc = pc /\ v.at = sync[s].at /\ v.op = sync[s].op
        /\ v.todo = sync[s].todo
    BY <2>0, <2>2, <2>3 DEF SyncT, SyncPcs
  <2>5. sync'[s] = IF sync[s].pc = "boot" /\ At(s) = n THEN v ELSE sync[s]
    BY <2>1, <2>3 DEF Over
  <2> QED BY <2>0, <2>2, <2>4, <2>5 DEF At
<1>3. sync' \in [Syncer -> SyncT]
  <2>1. DOMAIN sync' = Syncer /\ sync' = [s \in Syncer |-> sync'[s]]
    BY DEF Over
  <2> QED BY <1>2, <2>1
<1> QED BY <1>1, <1>2, <1>3

LEMMA BootsFrame ==
  ASSUME Typed, NEW n \in Inst, Boots(n)
  PROVE  /\ UNCHANGED <<conf, file, tmp, lock, task, save, seen>>
         /\ real' \in [Inst -> SUBSET Obj] /\ marker' \in [Inst -> (SUBSET Obj) \cup {None}]
         /\ up' \subseteq up /\ tainted' \subseteq Inst
         /\ boot' \in [Inst -> {"none", "converge", "mark"}]
         /\ \A m \in Inst : real'[m] \subseteq real[m] \cup Want(m)
         /\ sync' \in [Syncer -> SyncT]
         /\ \A s \in Syncer :
              \/ sync'[s] = sync[s]
              \/ /\ sync[s].pc = "boot" /\ sync'[s].pc \in {"converge", "prune", "unlock"}
                 /\ sync'[s].pc = "prune" => sync'[s].op # "apply"
                 /\ sync'[s].todo = sync[s].todo /\ At(s)' = At(s)
<1>0. Want(n) \in SUBSET Obj
  BY WantType
<1>1. CASE BootConverges(n)
  <2>1. UNCHANGED <<conf, marker, file, tmp, lock, task, save, seen>>
    BY <1>1 DEF BootConverges, disk
  <2>2. PICK some \in SUBSET Want(n) : real' = [real EXCEPT ![n] = real[n] \cup some]
    BY <1>1 DEF BootConverges, Made, HalfMade
  <2>3. /\ real' \in [Inst -> SUBSET Obj]
        /\ \A m \in Inst : real'[m] \subseteq real[m] \cup Want(m)
    BY <1>0, <2>2 DEF Typed
  <2>4. up' \subseteq up /\ tainted' \subseteq Inst
    BY <1>1 DEF BootConverges, HalfMade, Typed
  <2>5. CASE boot' = [boot EXCEPT ![n] = "mark"] /\ sync' = sync
    BY <2>1, <2>3, <2>4, <2>5 DEF Typed
  <2>6. CASE Over(n, FALSE)
    BY <2>1, <2>3, <2>4, <2>6, OverMoves DEF Typed
  <2> QED BY <1>1, <2>5, <2>6 DEF BootConverges
<1>2. CASE BootMarks(n)
  <2>1. UNCHANGED <<conf, real, up, file, tmp, lock, task, save, seen>>
    BY <1>2 DEF BootMarks, disk
  <2>2. marker' \in [Inst -> (SUBSET Obj) \cup {None}] /\ tainted' \subseteq Inst
    BY <1>0, <1>2 DEF BootMarks, Marks, Typed
  <2>3. Over(n, TRUE)
    BY <1>2 DEF BootMarks
  <2> QED BY <2>1, <2>2, <2>3, OverMoves DEF Typed
<1> QED BY <1>1, <1>2 DEF Boots

\* The steps of a sync at the lock file and at the state file.
LEMMA LockingType ==
  ASSUME Typed, NEW s \in Syncer,
         Call(s) \/ Create(s) \/ Break(s) \/ Return(s) \/ Load(s) \/ SaveSync(s)
  PROVE  Typed'
<1>1. CASE Call(s)
  <2>1. sync' \in [Syncer -> SyncT]
    <3>1. PICK op \in {"apply", "destroy"}, todo \in {Inst} \cup {{n} : n \in Inst} :
            sync' = [sync EXCEPT ![s] = [NoSync EXCEPT !.pc = "lock", !.op = op, !.todo = todo]]
      BY <1>1 DEF Call
    <3>2. [NoSync EXCEPT !.pc = "lock", !.op = op, !.todo = todo] \in SyncT
      BY NoSyncType DEF SyncT, SyncPcs
    <3> QED BY <3>1, <3>2 DEF Typed
  <2>2. UNCHANGED <<conf, real, marker, up, boot, tainted, file, tmp, lock, task, save, seen>>
    BY <1>1 DEF Call, world, disk
  <2> QED BY <2>1, <2>2 DEF Typed
<1>2. CASE Create(s)
  <2>1. sync' \in [Syncer -> SyncT]
    <3>1. Goto(s, "load") \/ Goto(s, "break") \/ sync' = [sync EXCEPT ![s] = NoSync]
      BY <1>2 DEF Create
    <3> QED BY <3>1, GotoType, NoSyncType DEF SyncPcs, Typed
  <2>2. lock' \in [by : Syncer \cup {None, "dead"}, old : BOOLEAN]
    <3>1. lock' = lock \/ lock' = [by |-> s, old |-> FALSE]
      BY <1>2 DEF Create
    <3>2. lock \in [by : Syncer \cup {None, "dead"}, old : BOOLEAN]
      BY DEF Typed
    <3>3. [by |-> s, old |-> FALSE] \in [by : Syncer \cup {None, "dead"}, old : BOOLEAN]
      OBVIOUS
    <3> QED BY <3>1, <3>2, <3>3
  <2>3. UNCHANGED <<conf, real, marker, up, boot, tainted, file, tmp, task, save, seen>>
    BY <1>2 DEF Create, world
  <2> QED BY <2>1, <2>2, <2>3 DEF Typed
<1>3. CASE Break(s)
  <2>1. sync' \in [Syncer -> SyncT]
    <3>1. sync[s] \in SyncT
      BY DEF Typed
    <3>2. [sync[s] EXCEPT !.pc = "lock", !.tried = TRUE] \in SyncT
      BY <3>1 DEF SyncT, SyncPcs
    <3> QED BY <1>3, <3>2, NoSyncType DEF Break, Typed
  <2>2. lock' \in [by : Syncer \cup {None, "dead"}, old : BOOLEAN]
    BY <1>3 DEF Break, Typed
  <2>3. seen' \in SeenT
    BY <1>3, FlawedType DEF Break
  <2>4. UNCHANGED <<conf, real, marker, up, boot, tainted, file, tmp, task, save>>
    BY <1>3 DEF Break, world
  <2> QED BY <2>1, <2>2, <2>3, <2>4 DEF Typed
<1>4. CASE Return(s)
  <2>1. sync' \in [Syncer -> SyncT] /\ save' \in [Saver -> SaveT]
    BY <1>4, NoSyncType, NoSaveType DEF Return, Typed
  <2>2. lock' \in [by : Syncer \cup {None, "dead"}, old : BOOLEAN]
    BY <1>4 DEF Return, Typed
  <2>3. UNCHANGED <<conf, real, marker, up, boot, tainted, file, tmp, task, seen>>
    BY <1>4 DEF Return, world
  <2> QED BY <2>1, <2>2, <2>3 DEF Typed
<1>5. CASE Load(s)
  <2>1. sync' \in [Syncer -> SyncT]
    BY <1>5, GotoType DEF Load, SyncPcs
  <2>2. save' \in [Saver -> SaveT]
    BY <1>5, LoadedType DEF Load, Saver, Typed
  <2>3. UNCHANGED <<conf, real, marker, up, boot, tainted, file, tmp, lock, task, seen>>
    BY <1>5 DEF Load, world, disk
  <2> QED BY <2>1, <2>2, <2>3 DEF Typed
<1>6. CASE SaveSync(s)
  <2>1. sync' \in [Syncer -> SyncT]
    BY <1>6, GotoType DEF SaveSync, SyncPcs
  <2>2. SaveStep(s)
    BY <1>6 DEF SaveSync, SaveStep
  <2>3. s \in Saver
    BY DEF Saver
  <2>4. UNCHANGED <<conf, real, marker, up, boot, tainted, task>>
    BY <1>6 DEF SaveSync, world
  <2> QED BY <2>1, <2>2, <2>3, <2>4, SaveStepType DEF Typed
<1> QED BY <1>1, <1>2, <1>3, <1>4, <1>5, <1>6

\* The steps of a sync at an instance.
LEMMA ApplyingType ==
  ASSUME Typed, Standing, NEW s \in Syncer,
         \/ Begin(s) \/ Converge(s) \/ Mark(s) \/ PruneRemoved(s) \/ PruneAll(s)
         \/ StopPruned(s) \/ Clear(s)
  PROVE  Typed'
<1>1. CASE Begin(s)
  <2>1. PICK n \in Inst : UNCHANGED world \/ Started(n)
    BY <1>1, BeginIs
  <2>2. UNCHANGED <<file, tmp, lock, task, save, seen>> /\ sync' \in [Syncer -> SyncT]
    BY <1>1, BeginIs
  <2> QED BY <2>1, <2>2, StartedType DEF Typed
<1>2. CASE ~Begin(s)
  <2> USE DEF Converge, Mark, PruneRemoved, PruneAll, StopPruned, Clear
  <2>1. At(s) \in Inst
    BY <1>2 DEF Standing, Busy, Typed, SyncT, At
  <2>2. sync' \in [Syncer -> SyncT]
    BY <1>2, GotoType, DoneType DEF SyncPcs
  <2>3. save' \in [Saver -> SaveT]
    <3>1. \/ save' = save \/ Record(s, At(s), Want(At(s))) \/ Record(s, At(s), {})
      BY <1>2
    <3>2. CASE save' = save
      BY <3>2 DEF Typed
    <3>3. CASE Record(s, At(s), Want(At(s)))
      BY <2>1, <3>3, RecordType, WantType
    <3>4. CASE Record(s, At(s), {})
      <4>1. {} \in SUBSET Obj
        OBVIOUS
      <4> QED BY <2>1, <3>4, <4>1, RecordType
    <3> QED BY <3>1, <3>2, <3>3, <3>4
  <2>4. seen' \in SeenT
    <3>1. seen' = seen \/ \E f \in SUBSET {"woken", "half pruned"} : Flawed(f)
      BY <1>2
    <3> QED BY <3>1, FlawedType DEF Typed
  <2>5. /\ UNCHANGED <<conf, boot>>
        /\ real' \in [Inst -> SUBSET Obj] /\ marker' \in [Inst -> (SUBSET Obj) \cup {None}]
        /\ up' \subseteq Inst /\ tainted' \subseteq Inst
    <3>1. CASE Converge(s) \/ Mark(s)
      BY <3>1, <2>1, WantType DEF Made, HalfMade, Marks, Typed
    <3>2. CASE PruneRemoved(s) \/ PruneAll(s) \/ StopPruned(s) \/ Clear(s)
      BY <3>2, <2>1 DEF Typed
    <3> QED BY <1>2, <3>1, <3>2
  <2>6. UNCHANGED <<file, tmp, lock, task>>
    BY <1>2 DEF disk
  <2> QED BY <2>2, <2>3, <2>4, <2>5, <2>6 DEF Typed
<1> QED BY <1>1, <1>2

TaskPcs == {"idle", "run", "load", "open", "write", "rename"}

LEMMA TaskSet ==
  ASSUME Typed, NEW t \in Task, NEW v \in TaskT, task' = [task EXCEPT ![t] = v]
  PROVE  /\ task' \in [Task -> TaskT] /\ task'[t] = v
         /\ \A u \in Task \ {t} : task'[u] = task[u]
BY DEF Typed

\* What a step of a task makes of its record.
LEMMA EditMoves ==
  ASSUME Typed, NEW t \in Task, Edit(t)
  PROVE  /\ task' \in [Task -> TaskT] /\ \A u \in Task \ {t} : task'[u] = task[u]
         /\ task'[t].pc = task[t].pc /\ task'[t].rec = task[t].rec
<1>0. task[t] \in TaskT
  BY DEF Typed
<1>1. PICK v : v = [task[t] EXCEPT !.inputs = task[t].inputs + 1]
  OBVIOUS
<1>2. v \in TaskT /\ v.pc = task[t].pc /\ v.rec = task[t].rec
  BY <1>0, <1>1, StructureConstants DEF TaskT, Edit
<1>3. task' = [task EXCEPT ![t] = v]
  BY <1>0, <1>1 DEF Edit, Typed
<1> QED BY <1>2, <1>3, TaskSet

LEMMA RunMoves ==
  ASSUME Typed, NEW t \in Task, RunTask(t)
  PROVE  /\ task' \in [Task -> TaskT] /\ \A u \in Task \ {t} : task'[u] = task[u]
         /\ task[t].pc = "idle" /\ task'[t].pc = "run" /\ task'[t].rec = task[t].rec
<1>0. task[t] \in TaskT
  BY DEF Typed
<1>1. PICK v : v = [task[t] EXCEPT !.pc = "run", !.hash = task[t].inputs]
  OBVIOUS
<1>2. v \in TaskT /\ v.pc = "run" /\ v.rec = task[t].rec
  BY <1>0, <1>1 DEF TaskT
<1>3. task' = [task EXCEPT ![t] = v] /\ task[t].pc = "idle"
  BY <1>1 DEF RunTask
<1> QED BY <1>2, <1>3, TaskSet

LEMMA EndMoves ==
  ASSUME Typed, NEW t \in Task, TaskEnds(t)
  PROVE  /\ task' \in [Task -> TaskT] /\ \A u \in Task \ {t} : task'[u] = task[u]
         /\ task[t].pc = "run" /\ task'[t].pc = "load"
         /\ \E result \in {"done", "failed"} :
              /\ task'[t].rec = [result |-> result, inputs |-> task[t].hash]
              /\ seen' = [seen EXCEPT !.good[t] =
                            IF result = "done" THEN @ \cup {task[t].hash} ELSE @]
<1>0. task[t] \in TaskT
  BY DEF Typed
<1>1. PICK result \in {"done", "failed"} :
        /\ task' = [task EXCEPT ![t] = [@ EXCEPT
             !.pc = "load", !.rec = [result |-> result, inputs |-> task[t].hash]]]
        /\ seen' = [seen EXCEPT !.good[t] =
                      IF result = "done" THEN @ \cup {task[t].hash} ELSE @]
  BY DEF TaskEnds
<1>2. PICK rec : rec = [result |-> result, inputs |-> task[t].hash]
  OBVIOUS
<1>3. rec \in Records
  BY <1>0, <1>2 DEF Records, TaskT
<1>4. PICK v : v = [task[t] EXCEPT !.pc = "load", !.rec = rec]
  OBVIOUS
<1>5. v \in TaskT /\ v.pc = "load" /\ v.rec = rec
  BY <1>0, <1>3, <1>4 DEF TaskT
<1>6. task' = [task EXCEPT ![t] = v]
  BY <1>1, <1>2, <1>4
<1>7. task[t].pc = "run"
  BY DEF TaskEnds
<1>8. /\ task' \in [Task -> TaskT] /\ task'[t] = v
      /\ \A u \in Task \ {t} : task'[u] = task[u]
  BY <1>5, <1>6, TaskSet
<1> QED BY <1>1, <1>2, <1>5, <1>7, <1>8

LEMMA ForgetMoves ==
  ASSUME Typed, NEW t \in Task, ForgetTask(t)
  PROVE  /\ task' \in [Task -> TaskT] /\ \A u \in Task \ {t} : task'[u] = task[u]
         /\ task[t].pc = "idle" /\ task'[t].pc = "load" /\ task'[t].rec = None
<1>0. task[t] \in TaskT
  BY DEF Typed
<1>1. PICK v : v = [task[t] EXCEPT !.pc = "load", !.rec = None]
  OBVIOUS
<1>2. v \in TaskT /\ v.pc = "load" /\ v.rec = None
  BY <1>0, <1>1 DEF TaskT
<1>3. task' = [task EXCEPT ![t] = v] /\ task[t].pc = "idle"
  BY <1>1 DEF ForgetTask
<1> QED BY <1>2, <1>3, TaskSet

LEMMA SaveMoves ==
  ASSUME Typed, NEW t \in Task, SaveTask(t)
  PROVE  /\ task' \in [Task -> TaskT] /\ \A u \in Task \ {t} : task'[u] = task[u]
         /\ \/ /\ task[t].pc = "load" /\ file.ok
               /\ task'[t].pc = "open" /\ task'[t].rec = task[t].rec
               /\ save' = [save EXCEPT ![t] = [copy |-> [file EXCEPT !.tasks[t] = task[t].rec],
                                               fresh |-> TRUE, fd |-> None]]
               /\ UNCHANGED <<file, tmp, lock, seen>>
            \/ /\ task[t].pc = "load" /\ task'[t].pc = "idle" /\ task'[t].rec = None
               /\ UNCHANGED <<file, tmp, lock, save, seen>>
            \/ /\ task[t].pc = "open" /\ OpenTmp(t)
               /\ task'[t].pc = "write" /\ task'[t].rec = task[t].rec
            \/ /\ task[t].pc = "write" /\ WriteTmp(t)
               /\ task'[t].pc = "rename" /\ task'[t].rec = task[t].rec
            \/ /\ task[t].pc = "rename" /\ Renamed(t)
               /\ task'[t].pc = "idle" /\ task'[t].rec = None
<1>0. task[t] \in TaskT
  BY DEF Typed
<1>1. CASE task[t].pc = "load" /\ file.ok
  <2>1. PICK v : v = [task[t] EXCEPT !.pc = "open"]
    OBVIOUS
  <2>2. v \in TaskT /\ v.pc = "open" /\ v.rec = task[t].rec
    BY <1>0, <2>1 DEF TaskT
  <2>3. task' = [task EXCEPT ![t] = v]
    BY <1>0, <1>1, <2>1 DEF SaveTask, Typed
  <2>4. /\ save' = [save EXCEPT ![t] = [copy |-> [file EXCEPT !.tasks[t] = task[t].rec],
                                        fresh |-> TRUE, fd |-> None]]
        /\ UNCHANGED <<file, tmp, lock, seen>>
    BY <1>1 DEF SaveTask, disk
  <2> QED BY <1>1, <2>2, <2>3, <2>4, TaskSet
<1>2. CASE task[t].pc = "load" /\ ~file.ok
  <2>1. PICK v : v = [task[t] EXCEPT !.pc = "idle", !.rec = None]
    OBVIOUS
  <2>2. v \in TaskT /\ v.pc = "idle" /\ v.rec = None
    BY <1>0, <2>1 DEF TaskT
  <2>3. task' = [task EXCEPT ![t] = v] /\ UNCHANGED <<file, tmp, lock, save, seen>>
    BY <1>2, <2>1 DEF SaveTask, disk
  <2> QED BY <1>2, <2>2, <2>3, TaskSet
<1>3. CASE task[t].pc = "open"
  <2>1. PICK v : v = [task[t] EXCEPT !.pc = "write"]
    OBVIOUS
  <2>2. v \in TaskT /\ v.pc = "write" /\ v.rec = task[t].rec
    BY <1>0, <2>1 DEF TaskT
  <2>3. task' = [task EXCEPT ![t] = v] /\ OpenTmp(t)
    BY <1>0, <1>3, <2>1 DEF SaveTask, Typed
  <2> QED BY <1>3, <2>2, <2>3, TaskSet
<1>4. CASE task[t].pc = "write"
  <2>1. PICK v : v = [task[t] EXCEPT !.pc = "rename"]
    OBVIOUS
  <2>2. v \in TaskT /\ v.pc = "rename" /\ v.rec = task[t].rec
    BY <1>0, <2>1 DEF TaskT
  <2>3. task' = [task EXCEPT ![t] = v] /\ WriteTmp(t)
    BY <1>0, <1>4, <2>1 DEF SaveTask, Typed
  <2> QED BY <1>4, <2>2, <2>3, TaskSet
<1>5. CASE task[t].pc = "rename"
  <2>1. PICK v : v = [task[t] EXCEPT !.pc = "idle", !.rec = None, !.hash = 0]
    OBVIOUS
  <2>2. v \in TaskT /\ v.pc = "idle" /\ v.rec = None
    <3>1. 0 \in 0..MaxEdit
      BY StructureConstants
    <3> QED BY <1>0, <2>1, <3>1 DEF TaskT
  <2>3. task' = [task EXCEPT ![t] = v] /\ Renamed(t)
    BY <1>5, <2>1 DEF SaveTask
  <2> QED BY <1>5, <2>2, <2>3, TaskSet
<1> QED BY <1>1, <1>2, <1>3, <1>4, <1>5 DEF SaveTask

LEMMA TasksType ==
  ASSUME Typed, NEW t \in Task,
         Edit(t) \/ RunTask(t) \/ TaskEnds(t) \/ ForgetTask(t) \/ SaveTask(t)
  PROVE  Typed'
<1>1. task' \in [Task -> TaskT]
  BY EditMoves, RunMoves, EndMoves, ForgetMoves, SaveMoves
<1>2. UNCHANGED <<conf, real, marker, up, boot, tainted, sync>>
  BY DEF Edit, RunTask, TaskEnds, ForgetTask, SaveTask, world
<1>3. t \in Saver /\ task[t] \in TaskT
  BY DEF Saver, Typed
<1>4. CASE SaveTask(t) /\ task[t].pc = "load" /\ save' # save
  <2>1. /\ save' = [save EXCEPT ![t] = [copy |-> [file EXCEPT !.tasks[t] = task[t].rec],
                                       fresh |-> TRUE, fd |-> None]]
        /\ UNCHANGED <<file, tmp, lock, seen>>
    BY <1>4 DEF SaveTask, disk
  <2>2. PICK c : c = [file EXCEPT !.tasks[t] = task[t].rec]
    OBVIOUS
  <2>3. c \in States
    BY <1>3, <2>2 DEF Typed, States, TaskT
  <2>4. [copy |-> c, fresh |-> TRUE, fd |-> None] \in SaveT
    BY <2>3 DEF SaveT
  <2>5. save' \in [Saver -> SaveT]
    BY <2>1, <2>2, <2>4 DEF Typed
  <2> QED BY <1>1, <1>2, <2>1, <2>5 DEF Typed
<1>5. CASE SaveTask(t) /\ SaveStep(t)
  BY <1>1, <1>2, <1>3, <1>5, SaveStepType DEF Typed
<1>6. CASE TaskEnds(t)
  <2>1. seen' \in SeenT
    <3>1. PICK result \in {"done", "failed"} :
            seen' = [seen EXCEPT !.good[t] = IF result = "done" THEN @ \cup {task[t].hash} ELSE @]
      BY <1>6 DEF TaskEnds
    <3>2. task[t].hash \in 0..MaxEdit
      BY <1>3 DEF TaskT
    <3>3. seen \in SeenT
      BY DEF Typed
    <3> QED BY <3>1, <3>2, <3>3 DEF SeenT
  <2>2. UNCHANGED <<file, tmp, lock, save>>
    BY <1>6 DEF TaskEnds, disk
  <2> QED BY <1>1, <1>2, <2>1, <2>2 DEF Typed
<1>7. CASE UNCHANGED <<file, tmp, lock, save, seen>>
  BY <1>1, <1>2, <1>7 DEF Typed
<1>8. UNCHANGED <<file, tmp, lock, save, seen>> \/ TaskEnds(t) \/ SaveTask(t)
  BY DEF Edit, RunTask, ForgetTask, disk
<1>9. SaveTask(t) => \/ SaveStep(t) \/ UNCHANGED <<file, tmp, lock, save, seen>>
                     \/ task[t].pc = "load" /\ save' # save
  BY DEF SaveTask, SaveStep, disk
<1> QED BY <1>4, <1>5, <1>6, <1>7, <1>8, <1>9

LEMMA TypedStep == Typed /\ Standing /\ [Next]_vars => Typed'
<1> SUFFICES ASSUME Typed, Standing, [Next]_vars
             PROVE  Typed'
  OBVIOUS
<1>1. ASSUME NEW n \in Inst, Wake(n)
      PROVE  Typed'
  <2>1. seen' \in SeenT
    BY <1>1, FlawedType DEF Wake
  <2>2. UNCHANGED <<file, tmp, lock, sync, task, save>>
    BY <1>1 DEF Wake, disk
  <2>3. Started(n)
    BY <1>1 DEF Wake
  <2> QED BY <2>1, <2>2, <2>3, StartedType DEF Typed
<1>2. ASSUME NEW n \in Inst, Sleep(n)
      PROVE  Typed'
  BY <1>2 DEF Sleep, Typed, disk
<1>2a. ASSUME NEW n \in Inst, Boots(n)
       PROVE  Typed'
  <2>1. up' \subseteq Inst
    BY <1>2a, BootsFrame DEF Typed
  <2> QED BY <1>2a, <2>1, BootsFrame DEF Typed
<1>3. CASE Age
  <2>1. lock' \in [by : Syncer \cup {None, "dead"}, old : BOOLEAN]
    BY <1>3 DEF Age, Typed
  <2> QED BY <1>3, <2>1 DEF Age, Typed, world
<1>4. CASE Restart
  <2>1. lock' \in [by : Syncer \cup {None, "dead"}, old : BOOLEAN]
    <3>1. lock \in [by : Syncer \cup {None, "dead"}, old : BOOLEAN]
      BY DEF Typed
    <3>2. lock' = [lock EXCEPT !.by = IF @ \in Syncer THEN "dead" ELSE @]
      BY <1>4 DEF Restart
    <3> QED BY <3>1, <3>2
  <2>2. sync' \in [Syncer -> SyncT] /\ save' \in [Saver -> SaveT]
    BY <1>4, NoSyncType, NoSaveType DEF Restart
  <2>3. task' \in [Task -> TaskT]
    <3>1. ASSUME NEW t \in Task
          PROVE  [task[t] EXCEPT !.pc = "idle", !.rec = None, !.hash = 0] \in TaskT
      <4>1. task[t] \in TaskT
        BY DEF Typed
      <4>2. 0 \in 0..MaxEdit
        BY StructureConstants
      <4> QED BY <4>1, <4>2 DEF TaskT
    <3> QED BY <1>4, <3>1 DEF Restart
  <2>4. seen' \in SeenT
    BY <1>4, FlawedType DEF Restart
  <2>5. /\ conf' \in DOMAIN Declared /\ up' = {} /\ tainted' = {}
        /\ boot' \in [Inst -> {"none", "converge", "mark"}]
        /\ UNCHANGED <<real, marker, file, tmp>>
    BY <1>4 DEF Restart
  <2> QED BY <2>1, <2>2, <2>3, <2>4, <2>5 DEF Typed
<1>5. CASE UNCHANGED vars
  BY <1>5 DEF vars, Typed
<1> QED BY <1>1, <1>2, <1>2a, <1>3, <1>4, <1>5, LockingType, ApplyingType, TasksType
        DEF Next, Boots

-----------------------------------------------------------------------------
(* What a step of each kind leaves alone. *)

Locks(s) == Call(s) \/ Create(s) \/ Break(s) \/ Return(s) \/ Load(s)
Applies(s) == \/ Begin(s) \/ Converge(s) \/ Mark(s) \/ PruneRemoved(s) \/ PruneAll(s)
              \/ StopPruned(s) \/ Clear(s)
Others == (\E n \in Inst : Wake(n) \/ Sleep(n)) \/ Age \/ UNCHANGED vars

\* A task goes on, but does not touch the state file.
Tries(t) ==
  /\ Edit(t) \/ RunTask(t) \/ TaskEnds(t) \/ ForgetTask(t) \/ SaveTask(t)
  /\ UNCHANGED <<file, tmp>> /\ (SaveTask(t) => task[t].pc = "load")

\* A saver goes on with its save.
Saves(p) ==
  /\ (p \in Syncer /\ SaveSync(p)) \/ (p \in Task /\ SaveTask(p))
  /\ UNCHANGED world
  /\ \A s \in Syncer : /\ sync'[s].todo = sync[s].todo /\ sync'[s].at = sync[s].at
                       /\ s # p => sync'[s] = sync[s]
  /\ \A t \in Task \ {p} : task'[t] = task[t]
  /\ \/ /\ OpenTmp(p) /\ Where(p) \in {"next", "open"} /\ Where(p)' = "write"
        /\ \A t \in Task : task'[t].rec = task[t].rec
     \/ /\ WriteTmp(p) /\ Where(p) = "write" /\ Where(p)' = "rename"
        /\ \A t \in Task : task'[t].rec = task[t].rec
     \/ /\ Renamed(p) /\ Where(p) = "rename" /\ Where(p)' \in {"unlock", "idle"}
        /\ \A t \in Task : task'[t].rec \in {task[t].rec, None}

LEMMA NextIs ==
  ASSUME Typed, [Next]_vars
  PROVE  \/ \E p \in Saver : Saves(p)
         \/ \E s \in Syncer : Locks(s) \/ Applies(s)
         \/ \E t \in Task : Tries(t)
         \/ \E n \in Inst : Boots(n)
         \/ Others \/ Restart
<1>1. ASSUME NEW s \in Syncer, SaveSync(s)
      PROVE  Saves(s)
  <2>1. UNCHANGED <<world, task>>
    BY <1>1 DEF SaveSync
  <2>2. \/ OpenTmp(s) /\ Goto(s, "write") /\ sync[s].pc = "next"
        \/ WriteTmp(s) /\ Goto(s, "rename") /\ sync[s].pc = "write"
        \/ Renamed(s) /\ Goto(s, "unlock") /\ sync[s].pc = "rename"
    BY <1>1 DEF SaveSync
  <2>3. /\ \A r \in Syncer : /\ sync'[r].todo = sync[r].todo /\ sync'[r].at = sync[r].at
                             /\ r # s => sync'[r] = sync[r]
        /\ \/ OpenTmp(s) /\ sync'[s].pc = "write" /\ sync[s].pc = "next"
           \/ WriteTmp(s) /\ sync'[s].pc = "rename" /\ sync[s].pc = "write"
           \/ Renamed(s) /\ sync'[s].pc = "unlock" /\ sync[s].pc = "rename"
    BY <2>2, GotoType DEF SyncPcs
  <2> QED BY <1>1, <2>1, <2>3 DEF Saves, Where
<1>2. ASSUME NEW t \in Task, SaveTask(t), task[t].pc # "load"
      PROVE  Saves(t)
  <2>1. t \notin Syncer
    BY StructureConstants
  <2>2. UNCHANGED <<world, sync>>
    BY <1>2 DEF SaveTask
  <2>3. /\ \A u \in Task \ {t} : task'[u] = task[u]
        /\ \/ /\ task[t].pc = "open" /\ OpenTmp(t)
              /\ task'[t].pc = "write" /\ task'[t].rec = task[t].rec
           \/ /\ task[t].pc = "write" /\ WriteTmp(t)
              /\ task'[t].pc = "rename" /\ task'[t].rec = task[t].rec
           \/ /\ task[t].pc = "rename" /\ Renamed(t)
              /\ task'[t].pc = "idle" /\ task'[t].rec = None
    BY <1>2, SaveMoves
  <2> QED BY <1>2, <2>1, <2>2, <2>3 DEF Saves, Where
<1>3. ASSUME NEW t \in Task, SaveTask(t), task[t].pc = "load"
      PROVE  Tries(t)
  BY <1>3 DEF Tries, SaveTask, disk
<1>4. ASSUME NEW t \in Task, Edit(t) \/ RunTask(t) \/ TaskEnds(t) \/ ForgetTask(t)
      PROVE  Tries(t)
  <2>1. ~SaveTask(t) \/ task[t].pc = "load"
    BY <1>4, EditMoves, RunMoves, EndMoves, ForgetMoves, SaveMoves
  <2> QED BY <1>4, <2>1 DEF Tries, Edit, RunTask, TaskEnds, ForgetTask, disk
<1> QED BY <1>1, <1>2, <1>3, <1>4 DEF Next, Locks, Applies, Boots, Others, Saver

LEMMA OthersFrame ==
  ASSUME Typed, Others
  PROVE  /\ UNCHANGED <<conf, file, tmp, sync, task, save>> /\ lock'.by = lock.by
         /\ \A n \in Inst : real'[n] \subseteq real[n] \cup Want(n)
         /\ seen'.ran = seen.ran /\ seen'.good = seen.good
         /\ seen.flaws \subseteq seen'.flaws /\ seen'.flaws \subseteq seen.flaws \cup {"woken"}
<1>1. ASSUME NEW n \in Inst, Wake(n)
      PROVE  /\ UNCHANGED <<conf, file, tmp, lock, sync, task, save>>
             /\ \A m \in Inst : real'[m] \subseteq real[m] \cup Want(m)
             /\ \E f \in SUBSET {"woken"} : Flawed(f)
  <2>1. Started(n)
    BY <1>1 DEF Wake
  <2>2. \A m \in Inst : real'[m] \subseteq real[m] \cup Want(m)
    BY <2>1 DEF Started
  <2>3. conf' = conf
    BY <2>1 DEF Started
  <2>4. \E f \in SUBSET {"woken"} : Flawed(f)
    BY <1>1 DEF Wake
  <2> QED BY <1>1, <2>2, <2>3, <2>4 DEF Wake, disk
<1>2. ASSUME NEW n \in Inst, Sleep(n)
      PROVE  UNCHANGED <<conf, real, file, tmp, lock, sync, task, save, seen>>
  BY <1>2 DEF Sleep, disk
<1>3. CASE Age
  <2>1. lock'.by = lock.by
    BY <1>3 DEF Age, Typed
  <2> QED BY <1>3, <2>1 DEF Age, world
<1>4. CASE UNCHANGED vars
  BY <1>4 DEF vars
<1>5. ASSUME NEW f \in SUBSET {"woken"}, Flawed(f)
      PROVE  /\ seen'.ran = seen.ran /\ seen'.good = seen.good
             /\ seen.flaws \subseteq seen'.flaws /\ seen'.flaws \subseteq seen.flaws \cup {"woken"}
  BY <1>5, FlawedType
<1> QED BY <1>1, <1>2, <1>3, <1>4, <1>5 DEF Others

LEMMA CallType ==
  ASSUME Typed, NEW s \in Syncer, Call(s)
  PROVE  sync'[s].pc = "lock" /\ \A r \in Syncer \ {s} : sync'[r] = sync[r]
<1>1. PICK op \in {"apply", "destroy"}, todo \in {Inst} \cup {{n} : n \in Inst} :
        sync' = [sync EXCEPT ![s] = [NoSync EXCEPT !.pc = "lock", !.op = op, !.todo = todo]]
  BY DEF Call
<1>2. PICK v : v = [NoSync EXCEPT !.pc = "lock", !.op = op, !.todo = todo]
  OBVIOUS
<1>3. v.pc = "lock"
  BY <1>2 DEF NoSync
<1> QED BY <1>1, <1>2, <1>3 DEF Typed

LEMMA BreakMoves ==
  ASSUME Typed, NEW s \in Syncer, Break(s)
  PROVE  sync'[s].pc \in {"idle", "lock"} /\ \A r \in Syncer \ {s} : sync'[r] = sync[r]
<1>1. PICK v : v = IF sync[s].tried THEN NoSync
                   ELSE [sync[s] EXCEPT !.pc = "lock", !.tried = TRUE]
  OBVIOUS
<1>2. v.pc \in {"idle", "lock"}
  BY <1>1, NoSyncType DEF Typed, SyncT
<1>3. sync' = [sync EXCEPT ![s] = v]
  BY <1>1 DEF Break
<1> QED BY <1>2, <1>3 DEF Typed

LEMMA LocksFrame ==
  ASSUME Typed, NEW s \in Syncer, Locks(s)
  PROVE  /\ UNCHANGED <<conf, real, marker, up, boot, tainted, file, tmp, task>>
         /\ \A r \in Syncer \ {s} : sync'[r] = sync[r]
         /\ \A p \in Saver \ {s} : save'[p] = save[p]
         /\ seen'.ran = seen.ran /\ seen'.good = seen.good
         /\ seen.flaws \subseteq seen'.flaws
         /\ seen'.flaws \subseteq seen.flaws \cup {"lock taken"}
         /\ \/ /\ sync[s].pc = "load" /\ sync'[s].pc = "next" /\ sync'[s].todo = sync[s].todo
               /\ file.ok /\ save'[s].copy = file /\ save'[s].fd = None
            \/ /\ sync[s].pc = "load" /\ sync'[s].pc = "unlock" /\ save'[s] = save[s]
            \/ /\ sync[s].pc = "unlock" /\ sync'[s].pc = "idle" /\ save'[s] = NoSave
            \/ /\ sync[s].pc \in {"idle", "lock", "break"}
               /\ sync'[s].pc \in {"idle", "lock", "break", "load"} /\ save'[s] = save[s]
<1>0. s \in Saver
  BY DEF Saver
<1>1. CASE Call(s)
  BY <1>1, CallType DEF Call, world, disk
<1>2. CASE Create(s)
  <2>1. Goto(s, "load") \/ Goto(s, "break") \/ sync' = [sync EXCEPT ![s] = NoSync]
    BY <1>2 DEF Create
  <2>2. sync'[s].pc \in {"load", "break", "idle"} /\ \A r \in Syncer \ {s} : sync'[r] = sync[r]
    BY <2>1, GotoType, NoSyncType DEF Typed, SyncPcs
  <2> QED BY <1>2, <2>2 DEF Create, world
<1>3. CASE Break(s)
  <2>4. sync'[s].pc \in {"idle", "lock"} /\ \A r \in Syncer \ {s} : sync'[r] = sync[r]
    BY <1>3, BreakMoves
  <2>5. \E f \in SUBSET {"lock taken"} : Flawed(f)
    BY <1>3 DEF Break
  <2>6. /\ seen'.ran = seen.ran /\ seen'.good = seen.good
        /\ seen.flaws \subseteq seen'.flaws
        /\ seen'.flaws \subseteq seen.flaws \cup {"lock taken"}
    BY <2>5, FlawedType
  <2>7. UNCHANGED <<conf, real, marker, up, boot, tainted, file, tmp, task, save>> /\ sync[s].pc = "break"
    BY <1>3 DEF Break, world
  <2> QED BY <2>4, <2>6, <2>7
<1>4. CASE Return(s)
  <2>1. sync'[s].pc = "idle" /\ \A r \in Syncer \ {s} : sync'[r] = sync[r]
    BY <1>4, NoSyncType DEF Return, Typed
  <2>2. save'[s] = NoSave /\ \A p \in Saver \ {s} : save'[p] = save[p]
    BY <1>0, <1>4 DEF Return, Typed
  <2> QED BY <1>4, <2>1, <2>2 DEF Return, world
<1>5. CASE Load(s)
  <2>1. UNCHANGED <<conf, real, marker, up, boot, tainted, file, tmp, task, seen>> /\ sync[s].pc = "load"
    BY <1>5 DEF Load, world, disk
  <2>2. CASE file.ok
    <3>1. Loaded(s) /\ Goto(s, "next")
      BY <1>5, <2>2 DEF Load
    <3> QED BY <1>0, <2>1, <2>2, <3>1, LoadedType, GotoType DEF SyncPcs
  <2>3. CASE ~file.ok
    <3>1. save' = save /\ Goto(s, "unlock")
      BY <1>5, <2>3 DEF Load
    <3> QED BY <2>1, <3>1, GotoType DEF SyncPcs
  <2> QED BY <2>2, <2>3
<1> QED BY <1>1, <1>2, <1>3, <1>4, <1>5 DEF Locks

\* The copy of the state that a sync works on changes by what it records.
LEMMA AppliesFrame ==
  ASSUME Typed, Standing, NEW s \in Syncer, Applies(s)
  PROVE  /\ UNCHANGED <<conf, file, tmp, lock, task>>
         /\ \A r \in Syncer \ {s} : sync'[r] = sync[r]
         /\ \A p \in Saver \ {s} : save'[p] = save[p]
         /\ save'[s].fresh = save[s].fresh /\ save'[s].fd = save[s].fd
         /\ save'[s].copy.ok = save[s].copy.ok /\ save'[s].copy.tasks = save[s].copy.tasks
         /\ sync[s].pc \in Busy \cup {"next"} /\ sync'[s].pc \in Busy \cup {"next", "unlock"}
         /\ sync'[s].pc = "clear" => sync[s].pc = "stop"
         /\ sync'[s].todo \subseteq sync[s].todo
         /\ sync'[s].pc \in Busy => At(s)' \in sync'[s].todo
         /\ seen'.ran = seen.ran /\ seen'.good = seen.good
         /\ seen.flaws \subseteq seen'.flaws
         /\ seen'.flaws \subseteq seen.flaws \cup {"woken", "half pruned"}
<1>0. s \in Saver
  BY DEF Saver
<1>1. CASE Begin(s)
  <2>1. conf' = conf
    BY <1>1, BeginIs DEF world, Started
  <2>2. /\ sync[s].pc = "next" /\ sync'[s].pc \in {"next", "boot", "converge", "prune", "unlock"}
        /\ sync'[s].todo \subseteq sync[s].todo
        /\ sync'[s].pc \in Busy => At(s)' \in sync'[s].todo
    BY <1>1, BeginIs DEF Busy
  <2>3. /\ UNCHANGED <<file, tmp, lock, task, save, seen>>
        /\ \A r \in Syncer \ {s} : sync'[r] = sync[r]
    BY <1>1, BeginIs
  <2> QED BY <2>1, <2>2, <2>3 DEF Busy
<1>2. CASE ~Begin(s)
  <2> USE DEF Applies, Converge, Mark, PruneRemoved, PruneAll, StopPruned, Clear
  <2>1. sync[s].pc \in Busy /\ sync[s].pc # "boot"
    BY <1>2 DEF Busy
  <2>2. At(s) \in sync[s].todo /\ At(s) \in Inst
    BY <2>1 DEF Standing, Typed, SyncT, At
  <2>3. \/ \E to \in {"mark", "prune", "stop", "abort", "unlock"} : Goto(s, to)
        \/ sync[s].pc = "stop" /\ Goto(s, "clear")
        \/ Done(s)
    BY <1>2
  <2>4. /\ \A r \in Syncer \ {s} : sync'[r] = sync[r]
        /\ sync'[s].pc \in {"next", "mark", "prune", "stop", "abort", "clear", "unlock"}
        /\ sync'[s].pc = "clear" => sync[s].pc = "stop"
        /\ sync'[s].todo \subseteq sync[s].todo
        /\ sync'[s].pc # "next" => sync'[s].todo = sync[s].todo /\ sync'[s].at = sync[s].at
    <3>1. ASSUME NEW to \in {"mark", "prune", "stop", "abort", "clear", "unlock"}, Goto(s, to)
          PROVE  /\ \A r \in Syncer \ {s} : sync'[r] = sync[r]
                 /\ sync'[s].pc = to
                 /\ sync'[s].todo = sync[s].todo /\ sync'[s].at = sync[s].at
      BY <3>1, GotoType DEF SyncPcs
    <3> QED BY <2>3, <3>1, DoneType
  <2>5. \/ save' = save
        \/ \E objs \in SUBSET Obj : Record(s, At(s), objs)
    <3>1. Want(At(s)) \in SUBSET Obj /\ {} \in SUBSET Obj
      BY <2>2, WantType
    <3> QED BY <1>2, <3>1
  <2>6. /\ \A p \in Saver \ {s} : save'[p] = save[p]
        /\ save'[s].fresh = save[s].fresh /\ save'[s].fd = save[s].fd
        /\ save'[s].copy.ok = save[s].copy.ok /\ save'[s].copy.tasks = save[s].copy.tasks
    BY <2>2, <2>5, RecordType
  <2>7. seen' = seen \/ \E f \in SUBSET {"woken", "half pruned"} : Flawed(f)
    BY <1>2
  <2>8. /\ seen'.ran = seen.ran /\ seen'.good = seen.good
        /\ seen.flaws \subseteq seen'.flaws
        /\ seen'.flaws \subseteq seen.flaws \cup {"woken", "half pruned"}
    BY <2>7, FlawedType
  <2>9. UNCHANGED <<conf, file, tmp, lock, task>>
    BY <1>2 DEF disk
  <2> QED BY <2>1, <2>2, <2>4, <2>6, <2>8, <2>9 DEF At, Busy
<1> QED BY <1>1, <1>2

LEMMA TriesFrame ==
  ASSUME Typed, NEW t \in Task, Tries(t)
  PROVE  /\ UNCHANGED <<conf, real, marker, up, boot, tainted, file, tmp, lock, sync>>
         /\ \A u \in Task \ {t} : task'[u] = task[u]
         /\ \A p \in Saver \ {t} : save'[p] = save[p]
         /\ seen'.ran = seen.ran /\ seen'.flaws = seen.flaws
         /\ \A u \in Task : seen.good[u] \subseteq seen'.good[u]
         /\ \/ /\ task[t].pc = "load" /\ task'[t].pc = "open" /\ task'[t].rec = task[t].rec
               /\ file.ok /\ save'[t].copy = [file EXCEPT !.tasks[t] = task[t].rec]
               /\ save'[t].fd = None
            \/ /\ task[t].pc \in {"idle", "run", "load"} /\ task'[t].pc \in {"idle", "run", "load"}
               /\ save'[t] = save[t]
            \/ /\ task'[t].pc = task[t].pc /\ task'[t].rec = task[t].rec /\ save'[t] = save[t]
<1>0. t \in Saver
  BY DEF Saver
<1>1. UNCHANGED <<conf, real, marker, up, boot, tainted, file, tmp, lock, sync>>
  <2>1. lock' = lock
    BY SaveMoves DEF Tries, Edit, RunTask, TaskEnds, ForgetTask, disk, OpenTmp, WriteTmp, Renamed
  <2> QED BY <2>1 DEF Tries, Edit, RunTask, TaskEnds, ForgetTask, SaveTask, world, disk
<1>2. CASE Edit(t) \/ RunTask(t) \/ ForgetTask(t)
  <2>1. UNCHANGED <<save, seen>>
    BY <1>2 DEF Edit, RunTask, ForgetTask
  <2> QED BY <1>1, <1>2, <2>1, EditMoves, RunMoves, ForgetMoves
<1>3. CASE TaskEnds(t)
  <2>1. PICK result \in {"done", "failed"} :
          seen' = [seen EXCEPT !.good[t] = IF result = "done" THEN @ \cup {task[t].hash} ELSE @]
    BY <1>3, EndMoves
  <2>2. /\ seen'.ran = seen.ran /\ seen'.flaws = seen.flaws
        /\ \A u \in Task : seen.good[u] \subseteq seen'.good[u]
    BY <2>1 DEF Typed, SeenT
  <2>3. save' = save
    BY <1>3 DEF TaskEnds
  <2> QED BY <1>1, <1>3, <2>2, <2>3, EndMoves
<1>4. CASE SaveTask(t)
  <2>1. task[t].pc = "load"
    BY <1>4 DEF Tries
  <2>2. CASE /\ task'[t].pc = "open" /\ task'[t].rec = task[t].rec /\ file.ok
             /\ save' = [save EXCEPT ![t] = [copy |-> [file EXCEPT !.tasks[t] = task[t].rec],
                                             fresh |-> TRUE, fd |-> None]]
             /\ UNCHANGED <<file, tmp, lock, seen>>
    <3>1. /\ save'[t].copy = [file EXCEPT !.tasks[t] = task[t].rec] /\ save'[t].fd = None
          /\ \A p \in Saver \ {t} : save'[p] = save[p]
      BY <1>0, <2>2 DEF Typed
    <3> QED BY <1>1, <1>4, <2>1, <2>2, <3>1, SaveMoves
  <2>3. CASE task'[t].pc = "idle" /\ UNCHANGED <<file, tmp, lock, save, seen>>
    BY <1>1, <1>4, <2>1, <2>3, SaveMoves
  <2> QED BY <1>4, <2>1, <2>2, <2>3, SaveMoves
<1> QED BY <1>2, <1>3, <1>4 DEF Tries

LEMMA RestartFrame ==
  ASSUME Typed, Restart
  PROVE  /\ UNCHANGED <<real, marker, file, tmp>> /\ up' = {} /\ tainted' = {}
         /\ \A s \in Syncer : sync'[s] = NoSync /\ sync'[s].pc = "idle"
         /\ \A t \in Task : task'[t].pc = "idle" /\ task'[t].rec = None
         /\ \A p \in Saver : save'[p] = NoSave
         /\ seen'.ran = seen.ran /\ seen'.good = seen.good
         /\ seen.flaws \subseteq seen'.flaws
         /\ seen'.flaws \subseteq seen.flaws \cup {"half pruned"}
<1>1. \A t \in Task : task'[t].pc = "idle" /\ task'[t].rec = None
  BY DEF Restart, Typed, TaskT
<1>2. \E f \in SUBSET {"half pruned"} : Flawed(f)
  BY DEF Restart
<1>3. /\ seen'.ran = seen.ran /\ seen'.good = seen.good
      /\ seen.flaws \subseteq seen'.flaws
      /\ seen'.flaws \subseteq seen.flaws \cup {"half pruned"}
  BY <1>2, FlawedType
<1> QED BY <1>1, <1>3, NoSyncType DEF Restart

\* The three steps of a save: what they do to the files and to what all savers hold.
LEMMA OpenFrame ==
  ASSUME Typed, NEW p \in Saver, OpenTmp(p)
  PROVE  /\ file' = file /\ tmp' = Torn /\ lock' = lock
         /\ save'[p].copy = save[p].copy /\ save'[p].fresh = save[p].fresh /\ save'[p].fd = "tmp"
         /\ \A q \in Saver \ {p} : save'[q] = save[q]
         /\ seen'.ran = seen.ran /\ seen'.good = seen.good
         /\ seen.flaws \subseteq seen'.flaws /\ seen'.flaws \subseteq seen.flaws \cup {"overlap"}
         /\ (\E q \in Saver \ {p} : save[q].fd # None) => "overlap" \in seen'.flaws
<1>1. /\ seen'.ran = seen.ran /\ seen'.good = seen.good
      /\ seen'.flaws = seen.flaws \cup {f \in {"overlap"} : \E q \in Saver \ {p} : save[q].fd # None}
  BY FlawedType DEF OpenTmp
<1>2. /\ save'[p].copy = save[p].copy /\ save'[p].fresh = save[p].fresh /\ save'[p].fd = "tmp"
      /\ \A q \in Saver \ {p} : save'[q] = save[q]
  BY DEF OpenTmp, Typed, SaveT
<1> QED BY <1>1, <1>2 DEF OpenTmp

LEMMA WriteFrame ==
  ASSUME Typed, NEW p \in Saver, WriteTmp(p)
  PROVE  /\ UNCHANGED <<lock, save, seen>>
         /\ \/ save[p].fd = "tmp" /\ file' = file /\ tmp' \in {save[p].copy, Torn}
            \/ save[p].fd = "live" /\ tmp' = tmp /\ file' \in {save[p].copy, Torn}
         /\ ~Overlapped /\ save[p].fd = "tmp" => tmp' = save[p].copy
BY DEF WriteTmp, Bytes, Overlapped

LEMMA RenameFrame ==
  ASSUME Typed, NEW p \in Saver, Renamed(p)
  PROVE  /\ lock' = lock /\ save'[p] = NoSave
         /\ \/ tmp = None /\ UNCHANGED <<file, tmp>>
            \/ tmp # None /\ file' = tmp /\ tmp' = None
         /\ \A q \in Saver \ {p} :
              /\ save'[q].copy = save[q].copy /\ save'[q].fresh = FALSE
              /\ save'[q].fd # None <=> save[q].fd # None
         /\ seen'.ran = [t \in Task |-> IF t = p THEN task[t].rec ELSE seen.ran[t]]
         /\ seen'.good = seen.good
         /\ seen.flaws \subseteq seen'.flaws /\ seen'.flaws \subseteq seen.flaws \cup {"stale copy"}
         /\ ~save[p].fresh => "stale copy" \in seen'.flaws
<1>1. save'[p] = NoSave
  BY DEF Renamed
<1>2. ASSUME NEW q \in Saver \ {p}
      PROVE  /\ save'[q].copy = save[q].copy /\ save'[q].fresh = FALSE
             /\ save'[q].fd # None <=> save[q].fd # None
  <2>1. save'[q] = [save[q] EXCEPT !.fresh = FALSE, !.fd = IF @ = "tmp" THEN "live" ELSE @]
    BY DEF Renamed
  <2>2. save[q] \in SaveT
    BY DEF Typed
  <2> QED BY <2>1, <2>2, StructureConstants DEF SaveT
<1>3. /\ seen'.ran = [t \in Task |-> IF t = p THEN task[t].rec ELSE seen.ran[t]]
      /\ seen'.good = seen.good
      /\ seen'.flaws = seen.flaws \cup {f \in {"stale copy"} : ~save[p].fresh}
  BY DEF Renamed, Typed, SeenT
<1> QED BY <1>1, <1>2, <1>3 DEF Renamed

LEMMA FlawsGrow == Typed /\ Standing /\ [Next]_vars => seen.flaws \subseteq seen'.flaws
<1> SUFFICES ASSUME Typed, Standing, [Next]_vars
             PROVE  seen.flaws \subseteq seen'.flaws
  OBVIOUS
<1>1. ASSUME NEW p \in Saver, Saves(p)
      PROVE  seen.flaws \subseteq seen'.flaws
  BY <1>1, OpenFrame, WriteFrame, RenameFrame DEF Saves
<1> QED BY <1>1, NextIs, OthersFrame, LocksFrame, AppliesFrame, TriesFrame, BootsFrame,
           RestartFrame

-----------------------------------------------------------------------------
(* The files and the copies of them. *)

\* One saver's part of Standing.
Stands(p) ==
  /\ save[p].copy.ok
  /\ save[p].fd # None <=> Saving(p)
  /\ Where(p) \in {"idle", "lock", "break", "run", "load"} => ~save[p].fresh

LEMMA StandingStep == Typed /\ Standing /\ [Next]_vars => Standing'
<1> SUFFICES ASSUME Typed, Standing, [Next]_vars
             PROVE  Standing'
  OBVIOUS
<1>0. /\ \A p \in Saver : Stands(p)
      /\ \A s \in Syncer : sync[s].pc \in Busy => At(s) \in sync[s].todo
      /\ \A t \in Task : t \in Saver /\ t \notin Syncer
      /\ Syncer \subseteq Saver
  BY StructureConstants DEF Standing, Stands, Saver
<1>a. ASSUME \A p \in Saver : Stands(p)',
             \A s \in Syncer : sync'[s].pc \in Busy => At(s)' \in sync'[s].todo
      PROVE  Standing'
  BY <1>a DEF Standing, Stands
<1>b. ASSUME NEW p \in Saver, save'[p] = save[p], Where(p)' = Where(p)
      PROVE  Stands(p)'
  BY <1>0, <1>b DEF Stands, Saving
<1>1. ASSUME NEW p \in Saver, Saves(p)
      PROVE  Standing'
  <2>1. \A q \in Saver \ {p} : Where(q)' = Where(q)
    BY <1>1 DEF Saves, Where, Saver
  <2>2. \A s \in Syncer : sync'[s].pc \in Busy => sync'[s].pc = sync[s].pc
    BY <1>1 DEF Saves, Where, Busy
  <2>3. \A s \in Syncer : sync'[s].todo = sync[s].todo /\ At(s)' = At(s)
    BY <1>1 DEF Saves, At
  <2>4. CASE OpenTmp(p) /\ Where(p) \in {"next", "open"} /\ Where(p)' = "write"
    <3>1. Stands(p)'
      BY <1>0, <2>4, OpenFrame, StructureConstants DEF Stands, Saving
    <3>2. \A q \in Saver \ {p} : save'[q] = save[q]
      BY <2>4, OpenFrame
    <3> QED BY <1>0, <1>a, <1>b, <2>1, <2>2, <2>3, <3>1, <3>2
  <2>5. CASE WriteTmp(p) /\ Where(p) = "write" /\ Where(p)' = "rename"
    <3>1. Stands(p)'
      BY <1>0, <2>5, WriteFrame DEF Stands, Saving
    <3>2. \A q \in Saver \ {p} : save'[q] = save[q]
      BY <2>5, WriteFrame
    <3> QED BY <1>0, <1>a, <1>b, <2>1, <2>2, <2>3, <3>1, <3>2
  <2>6. CASE Renamed(p) /\ Where(p) = "rename" /\ Where(p)' \in {"unlock", "idle"}
    <3>1. Stands(p)'
      BY <2>6, RenameFrame, NoSaveType, EmptyType DEF Stands, Saving
    <3>2. ASSUME NEW q \in Saver \ {p}
          PROVE  Stands(q)'
      BY <1>0, <2>1, <2>6, RenameFrame DEF Stands, Saving
    <3> QED BY <1>0, <1>a, <2>2, <2>3, <3>1, <3>2
  <2> QED BY <1>1, <2>4, <2>5, <2>6 DEF Saves
<1>2. ASSUME NEW s \in Syncer, Locks(s)
      PROVE  Standing'
  <2>1. \A q \in Saver \ {s} : save'[q] = save[q] /\ Where(q)' = Where(q)
    BY <1>2, LocksFrame DEF Where, Saver
  <2>2. Where(s) = sync[s].pc /\ Where(s)' = sync'[s].pc
    BY DEF Where
  <2>3. Stands(s)'
    <3>1. \/ /\ sync[s].pc = "load" /\ sync'[s].pc = "next"
             /\ file.ok /\ save'[s].copy = file /\ save'[s].fd = None
          \/ sync'[s].pc = "idle" /\ save'[s] = NoSave
          \/ /\ sync[s].pc \in {"idle", "lock", "break", "load"}
             /\ sync'[s].pc \in {"idle", "lock", "break", "load", "unlock"} /\ save'[s] = save[s]
      BY <1>2, LocksFrame
    <3>2. CASE sync'[s].pc = "idle" /\ save'[s] = NoSave
      BY <2>2, <3>2, NoSaveType, EmptyType DEF Stands, Saving
    <3>3. Stands(s)
      BY <1>0
    <3> QED BY <2>2, <3>1, <3>2, <3>3 DEF Stands, Saving
  <2>4. \A r \in Syncer : sync'[r].pc \in Busy => sync'[r] = sync[r]
    BY <1>2, LocksFrame DEF Busy
  <2> QED BY <1>0, <1>a, <1>b, <2>1, <2>3, <2>4 DEF At
<1>3. ASSUME NEW s \in Syncer, Applies(s)
      PROVE  Standing'
  <2>0. /\ task' = task /\ \A r \in Syncer \ {s} : sync'[r] = sync[r]
        /\ \A q \in Saver \ {s} : save'[q] = save[q]
    BY <1>3, AppliesFrame
  <2>1. \A q \in Saver \ {s} : save'[q] = save[q] /\ Where(q)' = Where(q)
    BY <2>0 DEF Where, Saver
  <2>2. Where(s) = sync[s].pc /\ Where(s)' = sync'[s].pc
    BY DEF Where
  <2>3. Stands(s)'
    BY <1>0, <1>3, <2>2, AppliesFrame DEF Stands, Saving, Busy
  <2>4. \A r \in Syncer \ {s} : sync'[r] = sync[r]
    BY <1>3, AppliesFrame
  <2>5. sync'[s].pc \in Busy => At(s)' \in sync'[s].todo
    BY <1>3, AppliesFrame
  <2> QED BY <1>0, <1>a, <1>b, <2>1, <2>3, <2>4, <2>5 DEF At
<1>4. ASSUME NEW t \in Task, Tries(t)
      PROVE  Standing'
  <2>1. \A q \in Saver \ {t} : save'[q] = save[q] /\ Where(q)' = Where(q)
    BY <1>4, TriesFrame DEF Where, Saver
  <2>2. Where(t) = task[t].pc /\ Where(t)' = task'[t].pc
    BY <1>0 DEF Where
  <2>3. file.ok => [file EXCEPT !.tasks[t] = task[t].rec].ok
    BY DEF Typed, States
  <2>4. Stands(t)'
    <3>1. \/ /\ task'[t].pc = "open" /\ file.ok
             /\ save'[t].copy = [file EXCEPT !.tasks[t] = task[t].rec] /\ save'[t].fd = None
          \/ /\ task[t].pc \in {"idle", "run", "load"} /\ task'[t].pc \in {"idle", "run", "load"}
             /\ save'[t] = save[t]
          \/ task'[t].pc = task[t].pc /\ save'[t] = save[t]
      BY <1>4, TriesFrame
    <3>2. Stands(t)
      BY <1>0
    <3> QED BY <2>2, <2>3, <3>1, <3>2 DEF Stands, Saving
  <2>5. sync' = sync
    BY <1>4, TriesFrame
  <2> QED BY <1>0, <1>a, <1>b, <2>1, <2>4, <2>5 DEF At
<1>5. CASE Others
  <2>1. UNCHANGED <<sync, task, save>>
    BY <1>5, OthersFrame
  <2> QED BY <1>0, <1>a, <1>b, <2>1 DEF At, Where
<1>6. CASE Restart
  <2>1. \A p \in Saver : Where(p)' = "idle" /\ save'[p] = NoSave
    BY <1>6, RestartFrame DEF Where, Saver
  <2>2. \A p \in Saver : Stands(p)'
    BY <2>1, NoSaveType, EmptyType DEF Stands, Saving
  <2> QED BY <1>6, <1>a, <2>2, RestartFrame DEF Busy
<1>7. ASSUME NEW n \in Inst, Boots(n)
      PROVE  Standing'
  <2>1. UNCHANGED <<save, task>>
    BY <1>7, BootsFrame
  <2>2. \A s \in Syncer :
          \/ sync'[s] = sync[s]
          \/ /\ sync[s].pc = "boot" /\ sync'[s].pc \in {"converge", "prune", "unlock"}
             /\ sync'[s].todo = sync[s].todo /\ At(s)' = At(s)
    BY <1>7, BootsFrame
  <2>3. \A s \in Syncer : sync'[s].pc \in Busy => At(s)' \in sync'[s].todo
    BY <1>0, <2>2 DEF Busy, At
  <2>4. ASSUME NEW p \in Saver
        PROVE  Stands(p)'
    <3>1. CASE p \in Syncer
      BY <1>0, <2>1, <2>2, <3>1 DEF Stands, Saving, Where
    <3>2. CASE p \notin Syncer
      BY <1>0, <2>1, <3>2 DEF Stands, Saving, Where
    <3> QED BY <3>1, <3>2
  <2> QED BY <1>a, <2>3, <2>4
<1> QED BY <1>1, <1>2, <1>3, <1>4, <1>5, <1>6, <1>7, NextIs

\* A step that is not one of a save leaves the files alone, and who is in a save is
\* there with what it had.
LEMMA NotSaving ==
  ASSUME Typed, Standing, [Next]_vars
  PROVE  \/ \E p \in Saver : Saves(p)
         \/ /\ UNCHANGED <<file, tmp>> /\ (Overlapped' <=> Overlapped)
            /\ seen'.ran = seen.ran
            /\ \A p \in Saver : Saving(p)' => /\ Where(p)' = Where(p) /\ save'[p].fd = save[p].fd
                                              /\ save'[p].copy = save[p].copy
<1> SUFFICES ASSUME ~\E p \in Saver : Saves(p)
             PROVE  /\ UNCHANGED <<file, tmp>> /\ (Overlapped' <=> Overlapped)
                    /\ seen'.ran = seen.ran
                    /\ \A p \in Saver : Saving(p)' =>
                         /\ Where(p)' = Where(p) /\ save'[p].fd = save[p].fd
                         /\ save'[p].copy = save[p].copy
  OBVIOUS
<1> USE DEF Saving, Overlapped
<1>1. ASSUME NEW s \in Syncer, Locks(s)
      PROVE  /\ UNCHANGED <<file, tmp>> /\ (Overlapped' <=> Overlapped)
             /\ seen'.ran = seen.ran
             /\ \A p \in Saver : Saving(p)' =>
                  /\ Where(p)' = Where(p) /\ save'[p].fd = save[p].fd
                  /\ save'[p].copy = save[p].copy
  BY <1>1, LocksFrame DEF Where, Saver
<1>2. ASSUME NEW s \in Syncer, Applies(s)
      PROVE  /\ UNCHANGED <<file, tmp>> /\ (Overlapped' <=> Overlapped)
             /\ seen'.ran = seen.ran
             /\ \A p \in Saver : Saving(p)' =>
                  /\ Where(p)' = Where(p) /\ save'[p].fd = save[p].fd
                  /\ save'[p].copy = save[p].copy
  BY <1>2, AppliesFrame DEF Where, Saver, Busy
<1>3. ASSUME NEW t \in Task, Tries(t)
      PROVE  /\ UNCHANGED <<file, tmp>> /\ (Overlapped' <=> Overlapped)
             /\ seen'.ran = seen.ran
             /\ \A p \in Saver : Saving(p)' =>
                  /\ Where(p)' = Where(p) /\ save'[p].fd = save[p].fd
                  /\ save'[p].copy = save[p].copy
  <2>1. t \notin Syncer
    BY StructureConstants
  <2> QED BY <1>3, <2>1, TriesFrame DEF Where, Saver
<1>4. CASE Others
  BY <1>4, OthersFrame DEF Where
<1>5. CASE Restart
  BY <1>5, RestartFrame DEF Where, Saver
<1>6. ASSUME NEW n \in Inst, Boots(n)
      PROVE  /\ UNCHANGED <<file, tmp>> /\ (Overlapped' <=> Overlapped)
             /\ seen'.ran = seen.ran
             /\ \A p \in Saver : Saving(p)' =>
                  /\ Where(p)' = Where(p) /\ save'[p].fd = save[p].fd
                  /\ save'[p].copy = save[p].copy
  BY <1>6, BootsFrame DEF Where
<1> QED BY <1>1, <1>2, <1>3, <1>4, <1>5, <1>6, NextIs

LEMMA OneFileStep == Typed /\ Standing /\ OneFile /\ [Next]_vars => OneFile'
<1> SUFFICES ASSUME Typed, Standing, OneFile, [Next]_vars, ~Overlapped'
             PROVE  /\ file'.ok
                    /\ \A p, q \in Saver : save'[p].fd # None /\ save'[q].fd # None => p = q
                    /\ \A p \in Saver : /\ save'[p].fd # "live"
                                        /\ Where(p)' = "rename" => tmp' = save'[p].copy
  BY DEF OneFile
<1>0. ~Overlapped
  BY FlawsGrow DEF Overlapped
<1>1. /\ file.ok
      /\ \A p, q \in Saver : save[p].fd # None /\ save[q].fd # None => p = q
      /\ \A p \in Saver : /\ save[p].fd # "live"
                          /\ Where(p) = "rename" => tmp = save[p].copy
                          /\ save[p].copy.ok /\ save[p].copy \in States
                          /\ save[p].fd # None <=> Saving(p)
  BY <1>0 DEF OneFile, Standing, Typed, SaveT
<1>2. ASSUME NEW p \in Saver, Saves(p)
      PROVE  /\ file'.ok
             /\ \A q, r \in Saver : save'[q].fd # None /\ save'[r].fd # None => q = r
             /\ \A q \in Saver : /\ save'[q].fd # "live"
                                 /\ Where(q)' = "rename" => tmp' = save'[q].copy
  <2>1. \A q \in Saver \ {p} : Where(q)' = Where(q)
    BY <1>2 DEF Saves, Where, Saver
  <2>2. CASE OpenTmp(p) /\ Where(p)' = "write"
    <3>1. \A q \in Saver \ {p} : save[q].fd = None /\ save'[q] = save[q]
      BY <2>2, OpenFrame DEF Overlapped
    <3> QED BY <1>1, <2>1, <2>2, <3>1, OpenFrame DEF Saving
  <2>3. CASE WriteTmp(p) /\ Where(p) = "write" /\ Where(p)' = "rename"
    <3>1. save[p].fd # None
      BY <1>1, <2>3 DEF Saving
    <3>2. \A q \in Saver \ {p} : ~Saving(q)
      BY <1>1, <3>1
    <3> QED BY <1>0, <1>1, <2>1, <2>3, <3>2, WriteFrame DEF Saving
  <2>4. CASE Renamed(p) /\ Where(p) = "rename" /\ Where(p)' \in {"unlock", "idle"}
    <3>1. save[p].fd # None /\ tmp = save[p].copy
      BY <1>1, <2>4 DEF Saving
    <3>2. \A q \in Saver \ {p} : ~Saving(q) /\ save[q].fd = None
      BY <1>1, <3>1
    <3>3. file' = save[p].copy
      BY <1>1, <2>4, <3>1, RenameFrame, StructureConstants
    <3>4. \A q \in Saver : save'[q].fd = None
      BY <2>4, <3>2, RenameFrame, NoSaveType
    <3> QED BY <1>1, <2>1, <2>4, <3>2, <3>3, <3>4, StructureConstants DEF Saving
  <2> QED BY <1>2, <2>2, <2>3, <2>4 DEF Saves
<1>3. CASE ~\E p \in Saver : Saves(p)
  <2>1. Standing'
    BY StandingStep
  <2>2. \A p \in Saver : save'[p].fd # None <=> Saving(p)'
    BY <2>1 DEF Standing
  <2>3. /\ UNCHANGED <<file, tmp>>
        /\ \A p \in Saver : Saving(p)' => /\ Where(p)' = Where(p) /\ save'[p].fd = save[p].fd
                                          /\ save'[p].copy = save[p].copy
    BY <1>3, NotSaving
  <2> QED BY <1>1, <2>2, <2>3, StructureConstants DEF Saving
<1> QED BY <1>2, <1>3

\* What a sync does to the objects and to its copy of the record of them.
LEMMA AppliesEffect ==
  ASSUME Typed, Standing, NEW s \in Syncer, Applies(s)
  PROVE  /\ \A n \in Inst : real'[n] \subseteq real[n] \cup Want(n)
         /\ \/ save' = save /\ sync'[s].pc \notin {"stop", "clear"}
            \/ /\ Record(s, At(s), Want(At(s))) /\ Done(s) /\ sync[s].pc = "prune"
               /\ real'[At(s)] \cap (Recorded(s, At(s)) \ Want(At(s))) = {}
            \/ /\ save' = save /\ sync[s].pc = "prune" /\ sync'[s].pc = "stop" /\ At(s)' = At(s)
               /\ real'[At(s)] \cap Recorded(s, At(s)) = {}
            \/ /\ save' = save /\ real' = real
               /\ sync[s].pc = "stop" /\ sync'[s].pc = "clear" /\ At(s)' = At(s)
            \/ Record(s, At(s), {}) /\ Done(s) /\ real' = real /\ sync[s].pc = "clear"
<1>0. sync[s].pc \in Busy => At(s) \in Inst
  BY DEF Standing, Typed, SyncT, At
<1>1. CASE Begin(s)
  <2>1. real' = real
    BY <1>1, BeginIs DEF world, Started
  <2>2. save' = save /\ sync'[s].pc \in {"next", "boot", "converge", "prune", "unlock"}
    BY <1>1, BeginIs
  <2> QED BY <2>1, <2>2
<1>2. CASE Converge(s)
  <2>1. PICK n \in Inst : n = At(s)
    BY <1>0, <1>2 DEF Converge, Busy
  <2>2. \E some \in SUBSET Want(n) : real' = [real EXCEPT ![n] = real[n] \cup some]
    BY <1>2, <2>1 DEF Converge, Made, HalfMade
  <2>3. \A m \in Inst : real'[m] \subseteq real[m] \cup Want(m)
    BY <2>1, <2>2 DEF Typed
  <2>4. sync'[s].pc \in {"mark", "unlock"} /\ save' = save
    BY <1>2, GotoType DEF Converge, SyncPcs
  <2> QED BY <2>3, <2>4
<1>3. CASE Mark(s)
  BY <1>3, GotoType DEF Mark, SyncPcs
<1>4. CASE PruneRemoved(s)
  <2>1. At(s) \in Inst
    BY <1>0, <1>4 DEF PruneRemoved, Busy
  <2>2. CASE Done(s) /\ Record(s, At(s), Want(At(s)))
             /\ real' = [real EXCEPT ![At(s)] = @ \ (Recorded(s, At(s)) \ Want(At(s)))]
    BY <1>4, <2>1, <2>2 DEF PruneRemoved, Typed
  <2>3. CASE save' = save /\ Goto(s, "unlock")
             /\ \E some \in SUBSET Obj : real' = [real EXCEPT ![At(s)] = @ \ some]
    BY <2>1, <2>3, GotoType DEF Typed, SyncPcs
  <2>4. Recorded(s, At(s)) \subseteq Obj /\ sync[s].pc = "prune"
    BY <1>4, <2>1 DEF PruneRemoved, Recorded, Typed, SaveT, States, Saver
  <2> QED BY <1>4, <2>2, <2>3, <2>4 DEF PruneRemoved
<1>5. CASE PruneAll(s)
  <2>1. At(s) \in Inst
    BY <1>0, <1>5 DEF PruneAll, Busy
  <2>2. save' = save /\ \E gone : real' = [real EXCEPT ![At(s)] = @ \ gone]
    BY <1>5 DEF PruneAll
  <2>3. \A m \in Inst : real'[m] \subseteq real[m] \cup Want(m)
    BY <2>1, <2>2 DEF Typed
  <2>4. CASE Goto(s, "stop") /\ real' = [real EXCEPT ![At(s)] = @ \ Recorded(s, At(s))]
    <3>1. sync[s].pc = "prune" /\ sync'[s].pc = "stop" /\ At(s)' = At(s)
      BY <1>5, <2>4, GotoType DEF PruneAll, SyncPcs, At
    <3>2. real'[At(s)] \cap Recorded(s, At(s)) = {}
      BY <2>1, <2>4 DEF Typed
    <3> QED BY <2>2, <2>3, <3>1, <3>2
  <2>5. CASE Goto(s, "abort")
    BY <2>2, <2>3, <2>5, GotoType DEF SyncPcs
  <2> QED BY <1>5, <2>4, <2>5 DEF PruneAll
<1>6. CASE StopPruned(s)
  <2>1. UNCHANGED <<real, save>>
    BY <1>6 DEF StopPruned
  <2>2. CASE sync[s].pc = "stop" /\ Goto(s, "clear")
    BY <2>1, <2>2, GotoType DEF SyncPcs, At
  <2>3. CASE Goto(s, "unlock")
    BY <2>1, <2>3, GotoType DEF SyncPcs
  <2> QED BY <1>6, <2>2, <2>3 DEF StopPruned
<1>7. CASE Clear(s)
  BY <1>7 DEF Clear
<1> QED BY <1>1, <1>2, <1>3, <1>4, <1>5, <1>6, <1>7 DEF Applies

LEMMA FreshStep == Typed /\ Standing /\ OneFile /\ FreshCopies /\ [Next]_vars => FreshCopies'
<1> SUFFICES ASSUME Typed, Standing, OneFile, FreshCopies, [Next]_vars, ~Overlapped'
             PROVE  /\ \A t \in Task : save'[t].fresh => TaskIsFresh(t)'
                    /\ \A s \in Syncer : save'[s].fresh => SyncIsFresh(s)'
  BY DEF FreshCopies
<1>0. ~Overlapped
  BY FlawsGrow DEF Overlapped
<1>1. /\ \A t \in Task : save[t].fresh => TaskIsFresh(t)
      /\ \A s \in Syncer : save[s].fresh => SyncIsFresh(s)
      /\ \A t \in Task : t \in Saver /\ t \notin Syncer
      /\ Syncer \subseteq Saver
  BY <1>0, StructureConstants DEF FreshCopies, Saver
<1>2. ASSUME file' = file, conf' = conf, NEW s \in Syncer, save'[s] = save[s], save[s].fresh,
             sync'[s].todo = sync[s].todo, At(s)' = At(s),
             At(s) \in Inst \/ sync'[s].pc \notin {"stop", "clear"},
             sync'[s].pc \in {"stop", "clear"} => sync[s].pc \in {"stop", "clear"},
             \A n \in Inst : real'[n] \subseteq real[n] \cup Want(n)
      PROVE  SyncIsFresh(s)'
  <2>1. \A n \in Inst : Want(n)' = Want(n)
    BY <1>2 DEF Want
  <2>2. SyncIsFresh(s)
    BY <1>1, <1>2
  <2> QED BY <1>2, <2>1, <2>2 DEF SyncIsFresh
<1>3. \A s \in Syncer : sync[s].pc \in {"stop", "clear"} => At(s) \in Inst
  BY DEF Standing, Typed, SyncT, At, Busy
<1>4. ASSUME NEW p \in Saver, Saves(p)
      PROVE  /\ \A t \in Task : save'[t].fresh => TaskIsFresh(t)'
             /\ \A s \in Syncer : save'[s].fresh => SyncIsFresh(s)'
  <2>1. UNCHANGED <<conf, real>>
    BY <1>4 DEF Saves, world
  <2>2. CASE Renamed(p)
    <3>1. \A q \in Saver : ~save'[q].fresh
      BY <2>2, RenameFrame, NoSaveType
    <3> QED BY <1>1, <3>1
  <2>3. CASE (OpenTmp(p) \/ WriteTmp(p)) /\ Where(p)' \in {"write", "rename"}
             /\ \A t \in Task : task'[t].rec = task[t].rec
    <3>1. file' = file
      <4>1. WriteTmp(p) => save[p].fd # "live"
        BY <1>0 DEF OneFile
      <4> QED BY <2>3, <4>1, OpenFrame, WriteFrame
    <3>2. \A q \in Saver : save'[q].copy = save[q].copy /\ save'[q].fresh = save[q].fresh
      BY <2>3, OpenFrame, WriteFrame
    <3>3. ASSUME NEW t \in Task, save'[t].fresh
          PROVE  TaskIsFresh(t)'
      BY <1>1, <2>3, <3>1, <3>2, <3>3 DEF TaskIsFresh
    <3>4. ASSUME NEW s \in Syncer, save'[s].fresh
          PROVE  SyncIsFresh(s)'
      <4>1. /\ sync'[s].todo = sync[s].todo /\ At(s)' = At(s)
            /\ sync'[s].pc \in {"stop", "clear"} => sync[s].pc \in {"stop", "clear"}
        BY <1>4, <2>3 DEF Saves, At, Where
      <4>2. SyncIsFresh(s)
        BY <1>1, <3>2, <3>4
      <4>3. \A n \in Inst : Want(n)' = Want(n)
        BY <2>1 DEF Want
      <4>4. save'[s].copy = save[s].copy
        BY <1>1, <3>2
      <4> QED BY <1>3, <2>1, <3>1, <4>1, <4>2, <4>3, <4>4 DEF SyncIsFresh
    <3> QED BY <3>3, <3>4
  <2> QED BY <1>4, <2>2, <2>3 DEF Saves
<1>5. ASSUME NEW s \in Syncer, Locks(s)
      PROVE  /\ \A t \in Task : save'[t].fresh => TaskIsFresh(t)'
             /\ \A r \in Syncer : save'[r].fresh => SyncIsFresh(r)'
  <2>1. UNCHANGED <<conf, real, file, task>>
    BY <1>5, LocksFrame
  <2>2. ASSUME NEW t \in Task, save'[t].fresh
        PROVE  TaskIsFresh(t)'
    <3>1. save'[t] = save[t]
      BY <1>1, <1>5, LocksFrame
    <3> QED BY <1>1, <2>1, <2>2, <3>1 DEF TaskIsFresh
  <2>3. ASSUME NEW r \in Syncer, r # s, save'[r].fresh
        PROVE  SyncIsFresh(r)'
    <3>1. sync'[r] = sync[r] /\ save'[r] = save[r]
      BY <1>1, <1>5, <2>3, LocksFrame
    <3> QED BY <1>2, <1>3, <2>1, <2>3, <3>1 DEF At
  <2>4. ASSUME save'[s].fresh
        PROVE  SyncIsFresh(s)'
    <3>1. \/ sync'[s].pc = "next" /\ save'[s].copy = file
          \/ save'[s] = NoSave
          \/ sync[s].pc \in {"load", "idle", "lock", "break"} /\ save'[s] = save[s]
      BY <1>5, LocksFrame
    <3>2. sync[s].pc \in {"load", "idle", "lock", "break"} => ~save[s].fresh
      BY <1>1 DEF Standing, Where
    <3>3. sync'[s].pc = "next" /\ save'[s].copy = file
      BY <2>4, <3>1, <3>2, NoSaveType
    <3> QED BY <2>1, <3>3 DEF SyncIsFresh
  <2> QED BY <2>2, <2>3, <2>4
<1>6. ASSUME NEW s \in Syncer, Applies(s)
      PROVE  /\ \A t \in Task : save'[t].fresh => TaskIsFresh(t)'
             /\ \A r \in Syncer : save'[r].fresh => SyncIsFresh(r)'
  <2>0. \A p \in Saver \ {s} : save'[p] = save[p]
    BY <1>6, AppliesFrame
  <2>1. UNCHANGED <<conf, file, task>> /\ \A n \in Inst : Want(n)' = Want(n)
    BY <1>6, AppliesFrame DEF Want
  <2>2. ASSUME NEW t \in Task, save'[t].fresh
        PROVE  TaskIsFresh(t)'
    <3>1. save'[t] = save[t]
      BY <1>1, <2>0
    <3> QED BY <1>1, <2>1, <2>2, <3>1 DEF TaskIsFresh
  <2>3. \A n \in Inst : real'[n] \subseteq real[n] \cup Want(n)
    BY <1>6, AppliesEffect
  <2>4. ASSUME NEW r \in Syncer, r # s, save'[r].fresh
        PROVE  SyncIsFresh(r)'
    <3>1. sync'[r] = sync[r] /\ save'[r] = save[r]
      <4>1. sync'[r] = sync[r]
        BY <1>6, <2>4, AppliesFrame
      <4> QED BY <1>1, <2>0, <2>4, <4>1
    <3> QED BY <1>2, <1>3, <2>1, <2>3, <2>4, <3>1 DEF At
  <2>5. ASSUME save'[s].fresh
        PROVE  SyncIsFresh(s)'
    <3>1. SyncIsFresh(s) /\ save'[s].copy.tasks = file.tasks /\ sync'[s].todo \subseteq sync[s].todo
      BY <1>1, <1>6, <2>5, AppliesFrame DEF SyncIsFresh
    <3>2. sync[s].todo \subseteq Inst
      BY DEF Typed, SyncT
    <3>3. sync[s].pc \in {"prune", "stop", "clear"} =>
            At(s) \in sync[s].todo /\ At(s) \in Inst
      BY <3>2 DEF Standing, Busy
    <3>4. CASE save' = save /\ sync'[s].pc \notin {"stop", "clear"}
      BY <2>1, <2>3, <3>1, <3>4 DEF SyncIsFresh
    <3>5. ASSUME NEW objs \in SUBSET Obj, Record(s, At(s), objs), Done(s), At(s) \in Inst,
                 At(s) \in sync[s].todo,
                 (Recorded(s, At(s)) \ objs) \cap real'[At(s)] \subseteq Want(At(s))
          PROVE  SyncIsFresh(s)'
      <4>1. Recorded(s, At(s)) = file.objs[At(s)]
        BY <3>1, <3>5 DEF SyncIsFresh, Recorded
      <4>2. save'[s].copy.objs = [save[s].copy.objs EXCEPT ![At(s)] = objs]
        BY <3>5, RecordType
      <4>3. sync'[s].pc = "next" /\ sync'[s].todo = sync[s].todo \ {At(s)}
        BY <3>5, DoneType
      <4>4. save[s].copy.objs \in [Inst -> SUBSET Obj]
        BY <1>1 DEF Typed, SaveT, States
      <4>5. save'[s].copy.objs[At(s)] = objs
            /\ \A n \in Inst \ {At(s)} : save'[s].copy.objs[n] = save[s].copy.objs[n]
        BY <3>5, <4>2, <4>4
      <4>6. \A n \in sync'[s].todo : save'[s].copy.objs[n] = file'.objs[n]
        BY <2>1, <3>1, <3>2, <4>3, <4>5 DEF SyncIsFresh
      <4>7. \A n \in Inst :
              (file'.objs[n] \ save'[s].copy.objs[n]) \cap real'[n] \subseteq Want(n)'
        <5>1. ASSUME NEW n \in Inst, n # At(s)
              PROVE  (file'.objs[n] \ save'[s].copy.objs[n]) \cap real'[n] \subseteq Want(n)'
          BY <2>1, <2>3, <3>1, <4>5, <5>1 DEF SyncIsFresh
        <5>2. (file'.objs[At(s)] \ save'[s].copy.objs[At(s)]) \cap real'[At(s)]
                \subseteq Want(At(s))
          BY <2>1, <3>5, <4>1, <4>5
        <5> QED BY <2>1, <3>5, <5>1, <5>2
      <4> QED BY <2>1, <3>1, <4>3, <4>6, <4>7 DEF SyncIsFresh
    <3>6. CASE /\ Record(s, At(s), Want(At(s))) /\ Done(s) /\ sync[s].pc = "prune"
               /\ real'[At(s)] \cap (Recorded(s, At(s)) \ Want(At(s))) = {}
      <4>1. Want(At(s)) \in SUBSET Obj
        BY <3>3, <3>6, WantType
      <4> QED BY <3>3, <3>5, <3>6, <4>1
    <3>7. CASE /\ Record(s, At(s), {}) /\ Done(s) /\ real' = real /\ sync[s].pc = "clear"
      <4>1. Recorded(s, At(s)) = file.objs[At(s)]
        BY <3>1, <3>3, <3>7 DEF SyncIsFresh, Recorded
      <4>2. file.objs[At(s)] \cap real[At(s)] \subseteq Want(At(s))
        BY <3>1, <3>7 DEF SyncIsFresh
      <4>3. {} \in SUBSET Obj
        OBVIOUS
      <4> QED BY <3>3, <3>5, <3>7, <4>1, <4>2, <4>3
    <3>8. CASE /\ save' = save /\ sync[s].pc = "prune" /\ sync'[s].pc = "stop" /\ At(s)' = At(s)
               /\ real'[At(s)] \cap Recorded(s, At(s)) = {}
      <4>1. Recorded(s, At(s)) = file.objs[At(s)]
        BY <3>1, <3>3, <3>8 DEF SyncIsFresh, Recorded
      <4>2. (file.objs[At(s)] \cap real[At(s)])' \subseteq Want(At(s))'
        BY <2>1, <3>8, <4>1
      <4> QED BY <2>1, <2>3, <3>1, <3>8, <4>2 DEF SyncIsFresh
    <3>9. CASE /\ save' = save /\ real' = real
               /\ sync[s].pc = "stop" /\ sync'[s].pc = "clear" /\ At(s)' = At(s)
      BY <2>1, <3>1, <3>3, <3>9 DEF SyncIsFresh
    <3> QED BY <1>6, <3>4, <3>6, <3>7, <3>8, <3>9, AppliesEffect
  <2> QED BY <2>2, <2>4, <2>5
<1>7. ASSUME NEW t \in Task, Tries(t)
      PROVE  /\ \A u \in Task : save'[u].fresh => TaskIsFresh(u)'
             /\ \A s \in Syncer : save'[s].fresh => SyncIsFresh(s)'
  <2>1. UNCHANGED <<conf, real, file, sync>>
    BY <1>7, TriesFrame
  <2>2. ASSUME NEW s \in Syncer, save'[s].fresh
        PROVE  SyncIsFresh(s)'
    <3>1. save'[s] = save[s]
      BY <1>1, <1>7, TriesFrame
    <3> QED BY <1>2, <1>3, <2>1, <2>2, <3>1 DEF At
  <2>3. ASSUME NEW u \in Task, u # t, save'[u].fresh
        PROVE  TaskIsFresh(u)'
    <3>1. save'[u] = save[u] /\ task'[u] = task[u]
      BY <1>1, <1>7, <2>3, TriesFrame
    <3> QED BY <1>1, <2>1, <2>3, <3>1 DEF TaskIsFresh
  <2>4. ASSUME save'[t].fresh
        PROVE  TaskIsFresh(t)'
    <3>1. \/ /\ task'[t].rec = task[t].rec
             /\ save'[t].copy = [file EXCEPT !.tasks[t] = task[t].rec]
          \/ task[t].pc \in {"idle", "run", "load"} /\ save'[t] = save[t]
          \/ task'[t].rec = task[t].rec /\ save'[t] = save[t]
      BY <1>7, TriesFrame
    <3>2. task[t].pc \in {"idle", "run", "load"} => ~save[t].fresh
      BY <1>1 DEF Standing, Where
    <3> QED BY <1>1, <2>1, <2>4, <3>1, <3>2 DEF TaskIsFresh
  <2> QED BY <2>2, <2>3, <2>4
<1>8. CASE Others
  <2>1. UNCHANGED <<conf, file, sync, task, save>>
        /\ \A n \in Inst : real'[n] \subseteq real[n] \cup Want(n)
    BY <1>8, OthersFrame
  <2>2. \A t \in Task : save'[t].fresh => TaskIsFresh(t)'
    BY <1>1, <2>1 DEF TaskIsFresh
  <2> QED BY <1>2, <1>3, <2>1, <2>2 DEF At
<1>9. CASE Restart
  <2>1. \A p \in Saver : ~save'[p].fresh
    BY <1>9, RestartFrame, NoSaveType
  <2> QED BY <1>1, <2>1
<1>10. ASSUME NEW n \in Inst, Boots(n)
       PROVE  /\ \A t \in Task : save'[t].fresh => TaskIsFresh(t)'
              /\ \A s \in Syncer : save'[s].fresh => SyncIsFresh(s)'
  <2>1. UNCHANGED <<conf, file, task, save>>
        /\ \A m \in Inst : real'[m] \subseteq real[m] \cup Want(m)
    BY <1>10, BootsFrame
  <2>2. \A t \in Task : save'[t].fresh => TaskIsFresh(t)'
    BY <1>1, <2>1 DEF TaskIsFresh
  <2>3. ASSUME NEW s \in Syncer, save'[s].fresh
        PROVE  SyncIsFresh(s)'
    <3>1. /\ sync'[s].todo = sync[s].todo /\ At(s)' = At(s)
          /\ sync'[s].pc \in {"stop", "clear"} => sync[s].pc \in {"stop", "clear"}
      <4>1. \/ sync'[s] = sync[s]
            \/ /\ sync'[s].pc \in {"converge", "prune", "unlock"}
               /\ sync'[s].todo = sync[s].todo /\ At(s)' = At(s)
        BY <1>10, BootsFrame
      <4> QED BY <4>1 DEF At
    <3> QED BY <1>2, <1>3, <2>1, <2>3, <3>1
  <2> QED BY <2>2, <2>3
<1> QED BY <1>4, <1>5, <1>6, <1>7, <1>8, <1>9, <1>10, NextIs

\* What is saved from a fresh copy keeps the other records of the file.
LEMMA RenamedFresh ==
  ASSUME Typed, Standing, OneFile, FreshCopies, NEW p \in Saver, Saves(p), Renamed(p),
         Where(p) = "rename", ~Overlapped, save[p].fresh
  PROVE  /\ file' = save[p].copy /\ UNCHANGED <<real, conf>>
         /\ p \in Task => file' = [file EXCEPT !.tasks[p] = task[p].rec]
         /\ p \in Syncer => SyncIsFresh(p)
<1>1. tmp = save[p].copy /\ tmp # None
  BY StructureConstants DEF OneFile, Typed, SaveT
<1>2. file' = save[p].copy
  BY <1>1, RenameFrame
<1>3. UNCHANGED <<real, conf>>
  BY DEF Saves, world
<1> QED BY <1>2, <1>3 DEF FreshCopies, TaskIsFresh

LEMMA KeptStep ==
  /\ Typed /\ Standing /\ OneFile /\ FreshCopies /\ RecordsAreKept /\ [Next]_vars
  => RecordsAreKept'
<1> SUFFICES ASSUME Typed, Standing, OneFile, FreshCopies, RecordsAreKept, [Next]_vars,
                    "overlap" \notin seen'.flaws, "stale copy" \notin seen'.flaws,
                    NEW t \in Task
             PROVE  file'.tasks[t] = seen'.ran[t]
  BY DEF RecordsAreKept, Unless
<1>1. ~Overlapped /\ file.tasks[t] = seen.ran[t]
  BY FlawsGrow DEF Overlapped, RecordsAreKept, Unless
<1>2. CASE ~\E p \in Saver : Saves(p)
  BY <1>1, <1>2, NotSaving
<1>3. ASSUME NEW p \in Saver, Saves(p)
      PROVE  file'.tasks[t] = seen'.ran[t]
  <2>1. CASE Renamed(p) /\ Where(p) = "rename"
    <3>1. save[p].fresh
      BY <2>1, RenameFrame
    <3>2. seen'.ran[t] = IF t = p THEN task[t].rec ELSE seen.ran[t]
      <4>1. seen'.ran = [u \in Task |-> IF u = p THEN task[u].rec ELSE seen.ran[u]]
        BY <2>1, RenameFrame
      <4> QED BY <4>1
    <3>3. CASE p \in Task
      <4>1. file' = [file EXCEPT !.tasks[p] = task[p].rec]
        BY <1>1, <1>3, <2>1, <3>1, <3>3, RenamedFresh
      <4> QED BY <1>1, <3>2, <4>1 DEF Typed, States
    <3>4. CASE p \in Syncer
      <4>1. file'.tasks = file.tasks /\ t # p
        BY <1>1, <1>3, <2>1, <3>1, <3>4, RenamedFresh, StructureConstants DEF SyncIsFresh
      <4> QED BY <1>1, <3>2, <4>1
    <3> QED BY <3>3, <3>4 DEF Saver
  <2>2. CASE OpenTmp(p)
    BY <1>1, <2>2, OpenFrame
  <2>3. CASE WriteTmp(p)
    <3>1. save[p].fd # "live"
      BY <1>1 DEF OneFile
    <3> QED BY <1>1, <2>3, <3>1, WriteFrame
  <2> QED BY <1>3, <2>1, <2>2, <2>3 DEF Saves
<1> QED BY <1>2, <1>3

-----------------------------------------------------------------------------
(* The records of tasks. *)

\* Where a state file can come from.
LEMMA SaveSources ==
  ASSUME Typed, Standing, [Next]_vars
  PROVE  /\ \/ file' = file \/ (tmp # None /\ file' = tmp) \/ file' = Torn
            \/ \E p \in Saver : file' = save[p].copy
         /\ \/ tmp' = tmp \/ tmp' = None \/ tmp' = Torn
            \/ \E p \in Saver : tmp' = save[p].copy
<1>1. CASE ~\E p \in Saver : Saves(p)
  BY <1>1, NotSaving
<1>2. ASSUME NEW p \in Saver, Saves(p)
      PROVE  /\ \/ file' = file \/ (tmp # None /\ file' = tmp) \/ file' = Torn
                \/ \E q \in Saver : file' = save[q].copy
             /\ \/ tmp' = tmp \/ tmp' = None \/ tmp' = Torn
                \/ \E q \in Saver : tmp' = save[q].copy
  <2>1. CASE OpenTmp(p)
    BY <2>1, OpenFrame
  <2>2. CASE WriteTmp(p)
    BY <2>2, WriteFrame
  <2>3. CASE Renamed(p)
    BY <2>3, RenameFrame
  <2> QED BY <1>2, <2>1, <2>2, <2>3 DEF Saves
<1> QED BY <1>1, <1>2

\* And a saver's copy: it is what it was, of a file that was read, or what a sync
\* has made of it, which does not touch the tasks.
LEMMA CopySources ==
  ASSUME Typed, Standing, [Next]_vars, NEW p \in Saver
  PROVE  \/ save'[p].copy = Empty
         \/ save'[p].copy.ok = save[p].copy.ok /\ save'[p].copy.tasks = save[p].copy.tasks
         \/ save'[p].copy = file
         \/ p \in Task /\ save'[p].copy = [file EXCEPT !.tasks[p] = task[p].rec]
<1>1. ASSUME NEW q \in Saver, Saves(q)
      PROVE  save'[p].copy \in {save[p].copy, Empty}
  <2>1. CASE OpenTmp(q)
    BY <2>1, OpenFrame
  <2>2. CASE WriteTmp(q)
    BY <2>2, WriteFrame
  <2>3. CASE Renamed(q)
    BY <2>3, RenameFrame, NoSaveType
  <2> QED BY <1>1, <2>1, <2>2, <2>3 DEF Saves
<1>2. ASSUME NEW s \in Syncer, Locks(s)
      PROVE  save'[p].copy \in {save[p].copy, Empty, file}
  BY <1>2, LocksFrame, NoSaveType
<1>3. ASSUME NEW s \in Syncer, Applies(s)
      PROVE  save'[p].copy.ok = save[p].copy.ok /\ save'[p].copy.tasks = save[p].copy.tasks
  <2>1. CASE p = s
    BY <1>3, <2>1, AppliesFrame
  <2>2. CASE p # s
    BY <1>3, <2>2, AppliesFrame
  <2> QED BY <2>1, <2>2
<1>4. ASSUME NEW t \in Task, Tries(t)
      PROVE  \/ save'[p].copy = save[p].copy
             \/ p \in Task /\ save'[p].copy = [file EXCEPT !.tasks[p] = task[p].rec]
  BY <1>4, TriesFrame
<1>5. CASE Others
  BY <1>5, OthersFrame
<1>6. CASE Restart
  BY <1>6, RestartFrame, NoSaveType
<1>7. ASSUME NEW n \in Inst, Boots(n)
      PROVE  save' = save
  BY <1>7, BootsFrame
<1> QED BY <1>1, <1>2, <1>3, <1>4, <1>5, <1>6, <1>7, NextIs

\* A record of a task that is new says done only of the inputs of a run that ended now.
LEMMA RecordSources ==
  ASSUME Typed, Standing, [Next]_vars, NEW t \in Task
  PROVE  /\ seen.good[t] \subseteq seen'.good[t]
         /\ \/ task'[t].rec = task[t].rec \/ task'[t].rec = None
            \/ \E i \in 0..MaxEdit :
                 \/ task'[t].rec = [result |-> "failed", inputs |-> i]
                 \/ task'[t].rec = [result |-> "done", inputs |-> i] /\ i \in seen'.good[t]
<1>1. ASSUME NEW q \in Saver, Saves(q)
      PROVE  seen'.good = seen.good /\ task'[t].rec \in {task[t].rec, None}
  BY <1>1, OpenFrame, WriteFrame, RenameFrame DEF Saves
<1>2. ASSUME NEW s \in Syncer, Locks(s) \/ Applies(s)
      PROVE  seen'.good = seen.good /\ task'[t].rec = task[t].rec
  BY <1>2, LocksFrame, AppliesFrame
<1>3. ASSUME NEW u \in Task, Tries(u)
      PROVE  /\ seen.good[t] \subseteq seen'.good[t]
             /\ \/ task'[t].rec = task[t].rec \/ task'[t].rec = None
                \/ \E i \in 0..MaxEdit :
                     \/ task'[t].rec = [result |-> "failed", inputs |-> i]
                     \/ task'[t].rec = [result |-> "done", inputs |-> i] /\ i \in seen'.good[t]
  <2>1. seen.good[t] \subseteq seen'.good[t]
    BY <1>3, TriesFrame
  <2>2. CASE u # t
    BY <1>3, <2>1, <2>2, TriesFrame
  <2>3. CASE u = t /\ TaskEnds(t)
    <3>1. PICK result \in {"done", "failed"} :
            /\ task'[t].rec = [result |-> result, inputs |-> task[t].hash]
            /\ seen' = [seen EXCEPT !.good[t] =
                          IF result = "done" THEN @ \cup {task[t].hash} ELSE @]
      BY <2>3, EndMoves
    <3>2. task[t].hash \in 0..MaxEdit
      BY DEF Typed, TaskT
    <3>3. result = "done" => task[t].hash \in seen'.good[t]
      BY <3>1 DEF Typed, SeenT
    <3> QED BY <2>1, <3>1, <3>2, <3>3
  <2>4. CASE u = t /\ ~TaskEnds(t)
    BY <1>3, <2>1, <2>4, EditMoves, RunMoves, ForgetMoves, SaveMoves DEF Tries
  <2> QED BY <2>2, <2>3, <2>4
<1>4. CASE Others
  BY <1>4, OthersFrame
<1>5. CASE Restart
  BY <1>5, RestartFrame
<1>6. ASSUME NEW n \in Inst, Boots(n)
      PROVE  UNCHANGED <<task, seen>>
  BY <1>6, BootsFrame
<1> QED BY <1>1, <1>2, <1>3, <1>4, <1>5, <1>6, NextIs

LEMMA HonestStep == Typed /\ Standing /\ Honest /\ [Next]_vars => Honest'
<1> SUFFICES ASSUME Typed, Standing, Honest, [Next]_vars
             PROVE  Honest'
  OBVIOUS
<1>1. \A t \in Task : seen.good[t] \subseteq seen'.good[t]
  BY RecordSources
\* What was truthful is truthful, and so is a state with the same tasks.
<1>2. ASSUME NEW x, NEW y, Truthful(x), y.ok => x.ok, y.tasks = x.tasks
      PROVE  Truthful(y)'
  BY <1>1, <1>2 DEF Truthful
<1>3. \A i \in 0..MaxEdit : None # [result |-> "done", inputs |-> i]
  BY StructureConstants DEF Records
<1>4. Truthful(Empty)' /\ Truthful(Torn)'
  <2>1. Torn.ok = FALSE /\ \A t \in Task : Empty.tasks[t] = None
    BY DEF Torn, Empty
  <2> QED BY <1>3, <2>1 DEF Truthful
<1>5. Truthful(file)' /\ (tmp' # None => Truthful(tmp)')
  BY <1>2, <1>4, SaveSources DEF Honest
<1>6. ASSUME NEW t \in Task, NEW i \in 0..MaxEdit,
             task'[t].rec = [result |-> "done", inputs |-> i]
      PROVE  i \in seen'.good[t]
  <2>1. \/ task'[t].rec = task[t].rec
        \/ \E j \in 0..MaxEdit :
             \/ task'[t].rec = [result |-> "failed", inputs |-> j]
             \/ task'[t].rec = [result |-> "done", inputs |-> j] /\ j \in seen'.good[t]
    BY <1>3, <1>6, RecordSources
  <2>2. CASE task'[t].rec = task[t].rec
    BY <1>1, <1>6, <2>2 DEF Honest
  <2>3. ASSUME NEW j \in 0..MaxEdit,
               task'[t].rec = [result |-> "failed", inputs |-> j]
        PROVE  FALSE
    BY <1>6, <2>3
  <2>4. ASSUME NEW j \in 0..MaxEdit,
               task'[t].rec = [result |-> "done", inputs |-> j]
        PROVE  i = j
    BY <1>6, <2>4
  <2> QED BY <2>1, <2>2, <2>3, <2>4
<1>7. ASSUME NEW p \in Saver
      PROVE  Truthful(save[p].copy)'
  <2>1. CASE save'[p].copy = Empty
    BY <1>4, <2>1
  <2>2. CASE save'[p].copy.ok = save[p].copy.ok /\ save'[p].copy.tasks = save[p].copy.tasks
    BY <1>2, <2>2 DEF Honest
  <2>3. CASE save'[p].copy = file
    BY <1>2, <2>3 DEF Honest
  <2>4. CASE p \in Task /\ save'[p].copy = [file EXCEPT !.tasks[p] = task[p].rec]
    <3>1. PICK c : c = [file EXCEPT !.tasks[p] = task[p].rec]
      OBVIOUS
    <3>2. c.ok = file.ok /\ c.tasks = [file.tasks EXCEPT ![p] = task[p].rec]
      BY <3>1 DEF Typed, States
    <3>3. /\ c.tasks[p] = task[p].rec
          /\ \A t \in Task \ {p} : c.tasks[t] = file.tasks[t]
      BY <2>4, <3>2 DEF Typed, States
    <3>4. Truthful(c)'
      BY <1>1, <3>2, <3>3 DEF Truthful, Honest
    <3> QED BY <2>4, <3>1, <3>4
  <2> QED BY <2>1, <2>2, <2>3, <2>4, CopySources
<1> QED BY <1>5, <1>6, <1>7 DEF Honest

-----------------------------------------------------------------------------
(* The lock, and what a marker vouches for. *)

LEMMA LockedStep == Typed /\ Standing /\ Locked /\ [Next]_vars => Locked'
<1> SUFFICES ASSUME Typed, Standing, Locked, [Next]_vars, "lock taken" \notin seen'.flaws,
                    NEW r \in Syncer, r \in Holder'
             PROVE  lock'.by = r
  BY DEF Locked, Unless, Holder
<1>1. /\ r \in Holder => lock.by = r
      /\ sync'[r].pc \notin {"idle", "lock", "break"}
  BY FlawsGrow DEF Locked, Unless, Holder
<1>2. ASSUME sync'[r] = sync[r]
      PROVE  r \in Holder
  BY <1>1, <1>2 DEF Holder
<1>3. ASSUME NEW p \in Saver, Saves(p)
      PROVE  lock'.by = r
  <2>1. lock' = lock
    BY <1>3, OpenFrame, WriteFrame, RenameFrame DEF Saves
  <2>2. r \in Holder
    BY <1>2, <1>3 DEF Saves, Where, Holder
  <2> QED BY <1>1, <2>1, <2>2
<1>4. ASSUME NEW s \in Syncer, Locks(s)
      PROVE  lock'.by = r
  <2>0. /\ \A q \in Syncer \ {s} : sync'[q] = sync[q]
        /\ lock.by = None => r \notin Holder
    <3>1. None \notin Syncer
      BY StructureConstants
    <3>2. \A q \in Syncer \ {s} : sync'[q] = sync[q]
      BY <1>4, LocksFrame
    <3>3. lock.by = None => r \notin Holder
      BY <1>1, <3>1
    <3> QED BY <3>2, <3>3
  <2>1. CASE Call(s)
    <3>1. sync'[s].pc = "lock"
      BY <2>1, CallType
    <3> QED BY <1>1, <1>2, <2>0, <2>1, <3>1 DEF Call, disk
  <2>2. CASE Create(s)
    <3>1. CASE lock.by = None
      <4>1. r = s
        BY <1>2, <2>0, <3>1
      <4>2. lock' = [by |-> s, old |-> FALSE]
        BY <2>2, <3>1 DEF Create
      <4> QED BY <4>1, <4>2
    <3>2. CASE lock.by # None
      <4>1. sync'[s].pc \in {"break", "idle"}
        BY <2>2, <3>2, GotoType, NoSyncType DEF Create, Typed, SyncPcs
      <4> QED BY <1>1, <1>2, <2>0, <2>2, <3>2, <4>1 DEF Create
    <3> QED BY <3>1, <3>2
  <2>3. CASE Break(s)
    <3>1. sync'[s].pc \in {"idle", "lock"}
      BY <2>3, BreakMoves
    <3>2. lock.by \notin Syncer
      BY <2>3 DEF Break, Flawed, Typed, SeenT
    <3> QED BY <1>1, <1>2, <2>0, <3>1, <3>2
  <2>4. CASE Return(s)
    <3>1. sync'[s].pc = "idle" /\ s \in Holder
      BY <2>4, NoSyncType DEF Return, Typed, Holder
    <3>2. lock.by = s
      BY <3>1, FlawsGrow DEF Locked, Unless
    <3> QED BY <1>1, <1>2, <2>0, <3>1, <3>2
  <2>5. CASE Load(s)
    <3>1. s \in Holder /\ lock' = lock
      BY <2>5 DEF Load, disk, Holder
    <3> QED BY <1>1, <1>2, <2>0, <3>1
  <2> QED BY <1>4, <2>1, <2>2, <2>3, <2>4, <2>5 DEF Locks
<1>5. ASSUME NEW s \in Syncer, Applies(s)
      PROVE  lock'.by = r
  <2>1. r \in Holder
    BY <1>2, <1>5, AppliesFrame DEF Holder, Busy
  <2> QED BY <1>1, <1>5, <2>1, AppliesFrame
<1>6. ASSUME NEW t \in Task, Tries(t)
      PROVE  lock'.by = r
  BY <1>1, <1>2, <1>6, TriesFrame
<1>7. CASE Others
  BY <1>1, <1>2, <1>7, OthersFrame
<1>8. CASE Restart
  BY <1>1, <1>8, RestartFrame
<1>9. ASSUME NEW n \in Inst, Boots(n)
      PROVE  lock'.by = r
  <2>1. r \in Holder
    BY <1>2, <1>9, BootsFrame DEF Holder
  <2> QED BY <1>1, <1>9, <2>1, BootsFrame
<1> QED BY <1>3, <1>4, <1>5, <1>6, <1>7, <1>8, <1>9, NextIs

LEMMA OneHolder ==
  ASSUME Locked, Unless({"lock taken"}), NEW s \in Holder, NEW r \in Holder
  PROVE  s = r
BY DEF Locked

\* The parts of Vouched and of ServesWhatIsDeclared.
Soundly == Unless({"half pruned", "woken", "lock taken"})
Dropped(n) == \E s \in Syncer : sync[s].pc \in {"stop", "clear"} /\ At(s) = n
Marked(n) == marker[n] = None \/ marker[n] \subseteq real[n]
Founded(n) == /\ Marked(n) \/ Dropped(n)
              /\ boot[n] = "mark" => Want(n) \subseteq real[n]
Sure(s) ==
  /\ sync[s].pc = "mark" => Want(At(s)) \subseteq real[At(s)]
  /\ sync[s].pc = "prune" /\ sync[s].op = "apply" => marker[At(s)] = Want(At(s))
  /\ sync[s].pc = "clear" => At(s) \notin up
Serves(n) ==
  n \in up \ tainted /\ boot[n] = "none" /\ ~Stopping(n) => Want(n) \subseteq real[n]
AllVouched ==
  /\ \A n \in Inst : Founded(n) /\ Serves(n)
  /\ \A s \in Syncer : Sure(s)

LEMMA VouchedParts ==
  Typed => (Vouched /\ ServesWhatIsDeclared <=> (Soundly => AllVouched))
<1>1. Vouched <=> (Soundly => /\ \A n \in Inst : Founded(n)
                              /\ \A s \in Syncer : Sure(s))
  BY DEF Vouched, Soundly, Founded, Marked, Dropped, Sure
<1>2. Typed => (ServesWhatIsDeclared <=> (Soundly => \A n \in Inst : Serves(n)))
  BY DEF ServesWhatIsDeclared, Soundly, Serves, Typed
<1> QED BY <1>1, <1>2 DEF AllVouched

\* Where a sync is when it marks, drops, stops or forgets.
Handling == {"mark", "prune", "stop", "abort", "clear"}

LEMMA HandlesAnInstance ==
  ASSUME Typed, Standing, NEW s \in Syncer, sync[s].pc \in Handling
  PROVE  At(s) \in Inst
BY DEF Standing, Typed, SyncT, At, Busy, Handling

\* A step that leaves the world alone, and every sync that handles an instance.
Aside ==
  /\ UNCHANGED world
  /\ \A s \in Syncer : \/ sync'[s] = sync[s]
                       \/ sync[s].pc \notin Handling /\ sync'[s].pc \notin Handling

LEMMA AsideKeeps == AllVouched /\ Aside => AllVouched'
<1> SUFFICES ASSUME AllVouched, Aside
             PROVE  AllVouched'
  OBVIOUS
<1>1. UNCHANGED <<conf, real, marker, up, boot, tainted>>
  BY DEF Aside, world
<1>2. \A n \in Inst : Want(n)' = Want(n) /\ Marked(n)' = Marked(n)
  BY <1>1 DEF Want, Marked
<1>3. \A n \in Inst : (Dropped(n) => Dropped(n)') /\ (Stopping(n) => Stopping(n)')
  BY DEF Aside, Dropped, Stopping, At, Handling
<1>4. ASSUME NEW s \in Syncer
      PROVE  Sure(s)'
  <2>1. Sure(s)
    BY DEF AllVouched
  <2>2. CASE sync'[s] = sync[s]
    BY <1>1, <2>1, <2>2 DEF Sure, At, Want
  <2>3. CASE sync'[s].pc \notin Handling
    BY <2>3 DEF Sure, Handling
  <2> QED BY <2>2, <2>3 DEF Aside
<1>5. ASSUME NEW n \in Inst
      PROVE  Founded(n)' /\ Serves(n)'
  <2>1. Founded(n) /\ Serves(n)
    BY DEF AllVouched
  <2> QED BY <1>1, <1>2, <1>3, <2>1 DEF Founded, Serves
<1> QED BY <1>4, <1>5 DEF AllVouched

LEMMA AsideSteps ==
  ASSUME Typed
  PROVE  /\ \A p \in Saver : Saves(p) => Aside
         /\ \A s \in Syncer : Locks(s) => Aside
         /\ \A t \in Task : Tries(t) => Aside
         /\ (Age \/ UNCHANGED vars) => Aside
<1>1. ASSUME NEW p \in Saver, Saves(p)
      PROVE  Aside
  <2>1. \A s \in Syncer \ {p} : sync'[s] = sync[s]
    BY <1>1 DEF Saves
  <2>2. p \in Syncer => sync[p].pc \notin Handling /\ sync'[p].pc \notin Handling
    BY <1>1 DEF Saves, Where, Handling
  <2> QED BY <1>1, <2>1, <2>2 DEF Aside, Saves
<1>2. ASSUME NEW s \in Syncer, Locks(s)
      PROVE  Aside
  <2>1. UNCHANGED world
    BY <1>2, LocksFrame DEF world
  <2>2. \A r \in Syncer \ {s} : sync'[r] = sync[r]
    BY <1>2, LocksFrame
  <2>3. sync[s].pc \notin Handling /\ sync'[s].pc \notin Handling
    BY <1>2, LocksFrame DEF Handling
  <2> QED BY <2>1, <2>2, <2>3 DEF Aside
<1>3. ASSUME NEW t \in Task, Tries(t)
      PROVE  Aside
  <2>1. UNCHANGED <<world, sync>>
    BY <1>3, TriesFrame DEF world
  <2> QED BY <2>1 DEF Aside
<1>4. Age => Aside
  BY DEF Age, Aside
<1>5. UNCHANGED vars => Aside
  BY DEF vars, world, Aside
<1> QED BY <1>1, <1>2, <1>3, <1>4, <1>5

\* A step that drops nothing, and marks only what is there, keeps what is vouched for
\* as far as it leaves every instance serving what is declared for it.
LEMMA GrowthVouched ==
  ASSUME Typed, Standing, AllVouched, conf' = conf,
         \A n \in Inst :
           /\ real[n] \subseteq real'[n] /\ Serves(n)'
           /\ marker'[n] = marker[n] \/ (marker'[n] = Want(n) /\ Want(n) \subseteq real'[n])
           /\ boot'[n] = "mark" => boot[n] = "mark" \/ Want(n) \subseteq real'[n],
         \A s \in Syncer :
           /\ \/ sync'[s] = sync[s]
              \/ /\ sync[s].pc = "boot" /\ sync'[s].pc \in {"converge", "prune", "unlock"}
                 /\ sync'[s].pc = "prune" => sync'[s].op # "apply"
           /\ sync[s].pc = "clear" => At(s) \notin up'
  PROVE  AllVouched'
<1>1. \A n \in Inst : Want(n)' = Want(n)
  BY DEF Want
<1>2. \A n \in Inst : Dropped(n) => Dropped(n)'
  BY DEF Dropped, At
<1>3. ASSUME NEW n \in Inst
      PROVE  Founded(n)'
  <2>1. Founded(n)
    BY DEF AllVouched
  <2>2. Marked(n) => Marked(n)'
    BY DEF Marked
  <2> QED BY <1>1, <1>2, <2>1, <2>2 DEF Founded
<1>4. ASSUME NEW s \in Syncer
      PROVE  Sure(s)'
  <2>1. CASE sync'[s] = sync[s] /\ sync[s].pc \in Handling
    <3>1. PICK n \in Inst : n = At(s)
      BY <2>1, HandlesAnInstance
    <3>2. At(s)' = n /\ Want(n)' = Want(n)
      BY <1>1, <2>1, <3>1 DEF At
    <3>3. Sure(s)
      BY DEF AllVouched
    <3> QED BY <2>1, <3>1, <3>2, <3>3 DEF Sure
  <2>2. CASE sync'[s] = sync[s] /\ sync[s].pc \notin Handling
    BY <2>2 DEF Sure, Handling
  <2>3. CASE /\ sync'[s].pc \in {"converge", "prune", "unlock"}
             /\ sync'[s].pc = "prune" => sync'[s].op # "apply"
    BY <2>3 DEF Sure
  <2> QED BY <2>1, <2>2, <2>3
<1> QED BY <1>3, <1>4 DEF AllVouched

\* A boot that begins: what it starts without converging it is vouched for by its
\* marker, unless a Destroy has dropped it.
LEMMA StartedServes ==
  ASSUME Typed, NEW n \in Inst, Started(n), Marked(n) \/ Stopping(n)',
         \A m \in Inst : Serves(m) /\ (Stopping(m) => Stopping(m)')
  PROVE  \A m \in Inst : Serves(m)'
<1>1. /\ UNCHANGED <<conf, real, marker, tainted>> /\ up' = up \cup {n}
      /\ boot' = [boot EXCEPT ![n] = IF marker[n] = Want(n) THEN "none" ELSE "converge"]
  BY DEF Started
<1>2. \A m \in Inst : Want(m)' = Want(m)
  BY <1>1 DEF Want
<1>3. boot'[n] = "none" => marker[n] = Want(n)
  BY <1>1 DEF Typed
<1>4. Want(n) # None
  BY WantType, StructureConstants
<1>5. Serves(n)'
  BY <1>1, <1>2, <1>3, <1>4 DEF Serves, Marked
<1>6. ASSUME NEW m \in Inst, m # n
      PROVE  Serves(m)'
  BY <1>1, <1>2, <1>6 DEF Serves, Typed
<1> QED BY <1>5, <1>6

\* What follows the registration of a backend: it converges what it serves before
\* the boot is over, or takes it down.
LEMMA BootsVouched ==
  ASSUME Typed, Standing, AllVouched, NEW n \in Inst, Boots(n)
  PROVE  AllVouched'
<1>1. /\ conf' = conf /\ up' \subseteq up
      /\ \A s \in Syncer :
           \/ sync'[s] = sync[s]
           \/ /\ sync[s].pc = "boot" /\ sync'[s].pc \in {"converge", "prune", "unlock"}
              /\ sync'[s].pc = "prune" => sync'[s].op # "apply"
  BY BootsFrame
<1>2. /\ \A m \in Inst : Want(m)' = Want(m) /\ Serves(m) /\ Founded(m)
      /\ \A s \in Syncer : sync[s].pc = "clear" => At(s) \notin up
  BY <1>1 DEF Want, AllVouched, Sure
<1>3. \A m \in Inst : Stopping(m) => Stopping(m)'
  BY <1>1 DEF Stopping, At
<1>4. CASE BootConverges(n) /\ boot' = [boot EXCEPT ![n] = "mark"] /\ Made(n)
           /\ UNCHANGED <<marker, tainted>>
  <2>1. /\ real'[n] = real[n] \cup Want(n) /\ boot'[n] = "mark"
        /\ \A m \in Inst \ {n} : real'[m] = real[m] /\ boot'[m] = boot[m]
    BY <1>4 DEF Made, Typed
  <2>2. \A m \in Inst : Serves(m)'
    BY <1>1, <1>2, <1>3, <1>4, <2>1 DEF Serves
  <2> QED BY <1>1, <1>2, <1>4, <2>1, <2>2, GrowthVouched
<1>5. CASE BootConverges(n) /\ HalfMade(n) /\ up' = up \ {n} /\ Over(n, FALSE)
  <2>1. PICK some \in SUBSET Want(n) : real' = [real EXCEPT ![n] = real[n] \cup some]
    BY <1>5 DEF HalfMade
  <2>2. /\ tainted' = tainted \cup {n} /\ marker' = marker
        /\ \A m \in Inst : real[m] \subseteq real'[m]
    BY <1>5, <2>1 DEF HalfMade, BootConverges, Typed
  <2>3. boot'[n] = "none" /\ \A m \in Inst \ {n} : boot'[m] = boot[m]
    BY <1>5, OverMoves
  <2>4. \A m \in Inst : Serves(m)'
    BY <1>2, <1>3, <1>5, <2>2, <2>3 DEF Serves
  <2> QED BY <1>1, <1>2, <2>2, <2>3, <2>4, GrowthVouched
<1>6. CASE BootMarks(n)
  <2>1. Over(n, TRUE) /\ Marks(n) /\ UNCHANGED <<real, up>> /\ boot[n] = "mark"
    BY <1>6 DEF BootMarks
  <2>2. boot'[n] = "none" /\ \A m \in Inst \ {n} : boot'[m] = boot[m]
    BY <2>1, OverMoves
  <2>3. /\ marker'[n] = Want(n) /\ \A m \in Inst \ {n} : marker'[m] = marker[m]
        /\ tainted' = tainted \ {n}
    BY <2>1 DEF Marks, Typed
  <2>4. Want(n) \subseteq real[n]
    BY <1>2, <2>1 DEF Founded
  <2>5. \A m \in Inst : Serves(m)'
    BY <1>2, <1>3, <2>1, <2>2, <2>3, <2>4 DEF Serves
  <2> QED BY <1>1, <1>2, <2>1, <2>2, <2>3, <2>4, <2>5, GrowthVouched
<1> QED BY <1>4, <1>5, <1>6 DEF Boots, BootConverges

\* The syncs that are not at work handle nothing.
LEMMA AppliesVouched ==
  ASSUME Typed, Standing, AllVouched, NEW s \in Syncer, Applies(s),
         \A r \in Syncer \ {s} : sync[r].pc \notin Handling,
         "half pruned" \notin seen'.flaws, "woken" \notin seen'.flaws
  PROVE  AllVouched'
<1>1. /\ \A r \in Syncer \ {s} : sync'[r].pc \notin Handling
      /\ conf' = conf /\ sync[s].pc \in Busy \cup {"next"}
  <2>1. \A r \in Syncer \ {s} : sync'[r] = sync[r]
    BY AppliesFrame
  <2>2. conf' = conf /\ sync[s].pc \in Busy \cup {"next"}
    BY AppliesFrame
  <2> QED BY <2>1, <2>2
<1>2. \A n \in Inst : Want(n)' = Want(n)
  BY <1>1 DEF Want
<1>3. \A r \in Syncer \ {s} : Sure(r)'
  BY <1>1 DEF Sure, Handling
<1>4. \A n \in Inst : Founded(n) /\ Serves(n)
  BY DEF AllVouched
<1>5. Sure(s)
  BY DEF AllVouched
\* What is dropped or being stopped is so by this sync.
<1>6. \A n \in Inst : /\ Dropped(n) <=> sync[s].pc \in {"stop", "clear"} /\ At(s) = n
                      /\ Stopping(n) <=> sync[s].pc \in {"stop", "abort"} /\ At(s) = n
                      /\ Dropped(n)' <=> sync'[s].pc \in {"stop", "clear"} /\ At(s)' = n
                      /\ Stopping(n)' <=> sync'[s].pc \in {"stop", "abort"} /\ At(s)' = n
  BY <1>1 DEF Dropped, Stopping, Handling
<1>7. sync[s].pc \in Handling => At(s) \in Inst
  BY HandlesAnInstance
<1>8. CASE Begin(s)
  <2>1. PICK n \in Inst : UNCHANGED world \/ Started(n)
    BY <1>8, BeginIs
  <2>2. \A m \in Inst : Marked(m) /\ ~Stopping(m)
    BY <1>4, <1>6, <1>8, BeginIs DEF Founded
  <2>3. Sure(s)'
    <3>1. /\ sync'[s].pc \in {"next", "boot", "converge", "prune", "unlock"}
          /\ sync'[s].pc = "prune" => sync'[s].op # "apply"
      BY <1>8, BeginIs
    <3> QED BY <3>1 DEF Sure
  <2>4. UNCHANGED <<real, marker>>
    BY <2>1 DEF world, Started
  <2>5. \A m \in Inst : boot'[m] = "mark" => boot[m] = "mark"
    BY <2>1 DEF world, Started, Typed
  <2>6. \A m \in Inst : Serves(m)'
    <3>1. CASE UNCHANGED world
      BY <1>2, <1>4, <2>2, <3>1 DEF world, Serves
    <3> QED BY <1>4, <2>1, <2>2, <3>1, StartedServes
  <2>7. \A m \in Inst : Founded(m)'
    BY <1>2, <1>4, <2>2, <2>4, <2>5 DEF Founded, Marked
  <2> QED BY <1>3, <2>3, <2>6, <2>7 DEF AllVouched
<1>9. CASE Converge(s)
  <2>0. sync[s].pc = "converge" /\ UNCHANGED <<up, boot>>
    BY <1>9 DEF Converge
  <2>1. PICK n \in Inst : n = At(s)
    BY <2>0 DEF Standing, Typed, SyncT, At, Busy
  <2>2. \A m \in Inst : Marked(m) /\ ~Stopping(m)
    BY <1>4, <1>6, <2>0 DEF Founded
  <2>3. CASE Made(n) /\ Goto(s, "mark") /\ UNCHANGED <<marker, tainted>>
    <3>1. /\ real'[n] = real[n] \cup Want(n)
          /\ \A m \in Inst \ {n} : real'[m] = real[m]
      BY <2>3 DEF Made, Typed
    <3>2. sync'[s].pc = "mark" /\ At(s)' = n
      BY <2>1, <2>3, GotoType DEF SyncPcs, At
    <3>3. Sure(s)'
      BY <1>2, <3>1, <3>2 DEF Sure
    <3>4. \A m \in Inst : Founded(m)' /\ Serves(m)'
      BY <1>2, <1>4, <2>0, <2>2, <2>3, <3>1 DEF Founded, Marked, Serves
    <3> QED BY <1>3, <3>3, <3>4 DEF AllVouched
  <2>4. CASE HalfMade(n) /\ marker' = [marker EXCEPT ![n] = None] /\ Goto(s, "unlock")
    <3>1. PICK some \in SUBSET Want(n) : real' = [real EXCEPT ![n] = real[n] \cup some]
      BY <2>4 DEF HalfMade
    <3>2. \A m \in Inst : real[m] \subseteq real'[m] /\ (m # n => real'[m] = real[m])
      BY <3>1 DEF Typed
    <3>3. tainted' = tainted \cup {n}
      BY <2>4 DEF HalfMade
    <3>4. marker'[n] = None /\ \A m \in Inst \ {n} : marker'[m] = marker[m]
      BY <2>4 DEF Typed
    <3>5. \A m \in Inst : Founded(m)' /\ Serves(m)'
      BY <1>2, <1>4, <2>0, <2>2, <3>2, <3>3, <3>4 DEF Founded, Marked, Serves
    <3>6. sync'[s].pc = "unlock"
      BY <2>4, GotoType DEF SyncPcs
    <3> QED BY <1>3, <3>5, <3>6 DEF AllVouched, Sure
  <2> QED BY <1>9, <2>1, <2>3, <2>4 DEF Converge
<1>10. CASE Mark(s)
  <2>0. sync[s].pc = "mark" /\ UNCHANGED <<real, up, boot>>
    BY <1>10 DEF Mark
  <2>1. PICK n \in Inst : n = At(s)
    BY <1>7, <2>0 DEF Handling
  <2>2. \A m \in Inst : Marked(m) /\ ~Stopping(m)
    BY <1>4, <1>6, <2>0 DEF Founded
  <2>3. /\ marker'[n] = Want(n) /\ \A m \in Inst \ {n} : marker'[m] = marker[m]
        /\ tainted' = tainted \ {n}
    BY <1>10, <2>1 DEF Mark, Marks, Typed
  <2>4. Want(n) \subseteq real[n]
    BY <1>5, <2>0, <2>1 DEF Sure
  <2>5. sync'[s].pc = "prune" /\ At(s)' = n
    BY <1>10, <2>1, GotoType DEF Mark, SyncPcs, At
  <2>6. \A m \in Inst : Founded(m)' /\ Serves(m)'
    BY <1>2, <1>4, <2>0, <2>2, <2>3, <2>4 DEF Founded, Marked, Serves
  <2>7. Sure(s)'
    BY <1>2, <2>3, <2>5 DEF Sure
  <2> QED BY <1>3, <2>6, <2>7 DEF AllVouched
<1>11. CASE PruneRemoved(s)
  <2>1. sync[s].pc = "prune" /\ sync[s].op = "apply"
    BY <1>11 DEF PruneRemoved
  <2>2. PICK n \in Inst : n = At(s)
    BY <1>7, <2>1 DEF Handling
  <2>3. \A m \in Inst : Marked(m) /\ ~Stopping(m)
    BY <1>4, <1>6, <2>1 DEF Founded
  <2>4. UNCHANGED <<marker, up, boot, tainted>> /\ marker[n] = Want(n)
    BY <1>5, <1>11, <2>1, <2>2 DEF PruneRemoved, Sure
  <2>5. PICK gone : real' = [real EXCEPT ![n] = real[n] \ gone] /\ gone \cap Want(n) = {}
    BY <1>11, <2>2 DEF PruneRemoved
  <2>6. real'[n] = real[n] \ gone /\ \A m \in Inst \ {n} : real'[m] = real[m]
    BY <2>5 DEF Typed
  <2>7. ASSUME NEW m \in Inst
        PROVE  Founded(m)' /\ Serves(m)'
    <3>1. CASE m = n
      <4>1. Founded(n) /\ Serves(n) /\ Marked(n) /\ ~Stopping(n) /\ Want(n)' = Want(n)
        BY <1>2, <1>4, <2>3
      <4> QED BY <2>4, <2>5, <2>6, <3>1, <4>1 DEF Founded, Marked, Serves
    <3>2. CASE m # n
      BY <1>2, <1>4, <2>3, <2>4, <2>6, <3>2 DEF Founded, Marked, Serves
    <3> QED BY <3>1, <3>2
  <2>8. sync'[s].pc \in {"next", "unlock"}
    <3>1. Done(s) \/ Goto(s, "unlock")
      BY <1>11 DEF PruneRemoved
    <3>2. At(s) \in sync[s].todo
      BY <2>1 DEF Standing, Busy
    <3> QED BY <3>1, <3>2, DoneType, GotoType DEF SyncPcs
  <2> QED BY <1>3, <2>7, <2>8 DEF AllVouched, Sure
<1>12. CASE PruneAll(s)
  <2>1. sync[s].pc = "prune" /\ UNCHANGED <<marker, up, boot, tainted>>
    BY <1>12 DEF PruneAll
  <2>2. PICK n \in Inst : n = At(s)
    BY <1>7, <2>1 DEF Handling
  <2>3. \A m \in Inst : Marked(m) /\ ~Stopping(m)
    BY <1>4, <1>6, <2>1 DEF Founded
  <2>4. PICK woken : woken = {f \in {"woken"} : boot[n] # "none"}
    OBVIOUS
  <2>5. CASE /\ real' = [real EXCEPT ![n] = real[n] \ Recorded(s, n)]
             /\ Goto(s, "stop") /\ Flawed(woken)
    <3>1. sync'[s].pc = "stop" /\ At(s)' = n
      BY <2>2, <2>5, GotoType DEF SyncPcs, At
    <3>2. boot[n] = "none"
      <4>1. seen'.flaws = seen.flaws \cup woken
        BY <2>4, <2>5, FlawedType
      <4> QED BY <2>4, <4>1
    <3>3. \A m \in Inst \ {n} : real'[m] = real[m]
      BY <2>5 DEF Typed
    <3>4. Dropped(n)' /\ Stopping(n)'
      BY <1>6, <3>1
    <3>5. \A m \in Inst : Founded(m)' /\ Serves(m)'
      BY <1>2, <1>4, <2>1, <2>3, <3>2, <3>3, <3>4 DEF Founded, Marked, Serves
    <3> QED BY <1>3, <3>1, <3>5 DEF AllVouched, Sure
  <2>6. ASSUME NEW some, real' = [real EXCEPT ![n] = real[n] \ some],
               Flawed(woken \cup {f \in {"half pruned"} : some # {}}), Goto(s, "abort")
        PROVE  AllVouched'
    <3>1. some = {}
      <4>1. PICK f : f = woken \cup {g \in {"half pruned"} : some # {}}
        OBVIOUS
      <4>2. seen'.flaws = seen.flaws \cup f
        BY <2>4, <2>6, <4>1, FlawedType
      <4> QED BY <4>1, <4>2
    <3>2. real' = real
      BY <2>6, <3>1 DEF Typed
    <3>3. sync'[s].pc = "abort" /\ At(s)' = n
      BY <2>2, <2>6, GotoType DEF SyncPcs, At
    <3>4. \A m \in Inst : Founded(m)' /\ Serves(m)'
      BY <1>2, <1>4, <2>1, <2>3, <3>2 DEF Founded, Marked, Serves
    <3> QED BY <1>3, <3>3, <3>4 DEF AllVouched, Sure
  <2>7. \/ /\ real' = [real EXCEPT ![n] = real[n] \ Recorded(s, n)]
           /\ Goto(s, "stop") /\ Flawed(woken)
        \/ \E some : /\ real' = [real EXCEPT ![n] = real[n] \ some]
                      /\ Flawed(woken \cup {f \in {"half pruned"} : some # {}})
                      /\ Goto(s, "abort")
    <3>1. \/ /\ real' = [real EXCEPT ![At(s)] = real[At(s)] \ Recorded(s, At(s))]
             /\ Goto(s, "stop") /\ Flawed({f \in {"woken"} : boot[At(s)] # "none"})
          \/ \E some :
               /\ real' = [real EXCEPT ![At(s)] = real[At(s)] \ some]
               /\ Flawed({f \in {"woken"} : boot[At(s)] # "none"}
                           \cup {f \in {"half pruned"} : some # {}})
               /\ Goto(s, "abort")
      BY <1>12, Zenon DEF PruneAll
    <3>2. woken = {f \in {"woken"} : boot[At(s)] # "none"}
      BY <2>2, <2>4
    <3> QED BY <2>2, <3>1, <3>2, Zenon
  <2> QED BY <2>5, <2>6, <2>7
<1>13. CASE StopPruned(s)
  <2>1. sync[s].pc \in {"stop", "abort"} /\ UNCHANGED <<real, marker, boot, tainted>>
    BY <1>13 DEF StopPruned
  <2>2. PICK n \in Inst : n = At(s)
    BY <1>7, <2>1 DEF Handling
  <2>3. up' = up \ {n}
    BY <1>13, <2>2 DEF StopPruned
  <2>4. /\ sync'[s].pc = IF sync[s].pc = "stop" THEN "clear" ELSE "unlock"
        /\ At(s)' = n
    <3>1. PICK pc \in SyncPcs : pc = IF sync[s].pc = "stop" THEN "clear" ELSE "unlock"
      BY DEF SyncPcs
    <3>2. Goto(s, pc)
      BY <1>13, <3>1 DEF StopPruned
    <3> QED BY <2>2, <3>1, <3>2, GotoType DEF At
  <2>5. ASSUME NEW m \in Inst
        PROVE  Founded(m)' /\ Serves(m)'
    <3>1. Founded(m) /\ Serves(m) /\ Want(m)' = Want(m) /\ Marked(m)' = Marked(m)
      BY <1>2, <1>4, <2>1 DEF Marked
    <3>2. Dropped(m) => Dropped(m)'
      BY <1>6, <2>1, <2>2, <2>4
    <3>3. Stopping(m) => m = n
      BY <1>6, <2>2
    <3> QED BY <2>1, <2>3, <3>1, <3>2, <3>3 DEF Founded, Serves
  <2>6. Sure(s)'
    BY <2>3, <2>4 DEF Sure
  <2> QED BY <1>3, <2>5, <2>6 DEF AllVouched
<1>14. CASE Clear(s)
  <2>1. sync[s].pc = "clear" /\ UNCHANGED <<real, up, boot, tainted>>
    BY <1>14 DEF Clear
  <2>2. PICK n \in Inst : n = At(s)
    BY <1>7, <2>1 DEF Handling
  <2>3. marker'[n] = None /\ \A m \in Inst \ {n} : marker'[m] = marker[m]
    BY <1>14, <2>2 DEF Clear, Typed
  <2>4. \A m \in Inst : ~Stopping(m) /\ (m # n => Marked(m))
    BY <1>4, <1>6, <2>1, <2>2 DEF Founded
  <2>5. \A m \in Inst : Founded(m)' /\ Serves(m)'
    BY <1>2, <1>4, <2>1, <2>3, <2>4 DEF Founded, Marked, Serves
  <2>6. sync'[s].pc = "next"
    <3>1. At(s) \in sync[s].todo
      BY <2>1 DEF Standing, Busy
    <3> QED BY <1>14, <3>1, DoneType DEF Clear
  <2> QED BY <1>3, <2>5, <2>6 DEF AllVouched, Sure
<1> QED BY <1>8, <1>9, <1>10, <1>11, <1>12, <1>13, <1>14 DEF Applies

LEMMA VouchedStep ==
  /\ Typed /\ Standing /\ Locked /\ Vouched /\ ServesWhatIsDeclared /\ [Next]_vars
  => Vouched' /\ ServesWhatIsDeclared'
<1> SUFFICES ASSUME Typed, Standing, Locked, Vouched, ServesWhatIsDeclared, [Next]_vars,
                    Typed', Soundly'
             PROVE  AllVouched'
  <2>1. Typed /\ Standing /\ [Next]_vars => Typed'
    BY TypedStep
  <2>2. Typed' => (Vouched' /\ ServesWhatIsDeclared' <=> (Soundly' => AllVouched'))
    BY VouchedParts, PTL
  <2> QED BY <2>1, <2>2
<1>1. Soundly
  BY FlawsGrow DEF Soundly, Unless
<1>2. AllVouched
  BY <1>1, VouchedParts
<1>3. ASSUME NEW s \in Syncer, Applies(s)
      PROVE  AllVouched'
  <2>1. sync[s].pc \in Busy \cup {"next"}
    BY <1>3, AppliesFrame
  <2>2. s \in Holder /\ Unless({"lock taken"})
    BY <1>1, <2>1 DEF Holder, Soundly, Unless, Busy
  <2>3. ASSUME NEW r \in Syncer \ {s}
        PROVE  sync[r].pc \notin Handling
    <3>1. r \notin Holder
      BY <2>2, OneHolder
    <3> QED BY <3>1 DEF Holder, Handling
  <2>4. "half pruned" \notin seen'.flaws /\ "woken" \notin seen'.flaws
    BY DEF Soundly, Unless
  <2> QED BY <1>2, <1>3, <2>3, <2>4, AppliesVouched
<1>4. ASSUME NEW n \in Inst, Wake(n)
      PROVE  AllVouched'
  <2>1. sync' = sync /\ Started(n) /\ n \notin up
    BY <1>4 DEF Wake, Started
  <2>2. \A s \in Syncer : sync[s].pc = "clear" => At(s) # n
    <3>1. PICK f : f = {g \in {"woken"} : \E s \in Syncer : sync[s].pc = "clear" /\ At(s) = n}
      OBVIOUS
    <3>2. Flawed(f)
      BY <1>4, <3>1 DEF Wake
    <3>3. seen'.flaws = seen.flaws \cup f
      BY <3>1, <3>2, FlawedType
    <3> QED BY <3>1, <3>3 DEF Soundly, Unless
  <2>3. \A m \in Inst : /\ Founded(m) /\ Serves(m)
                        /\ Stopping(m) => Stopping(m)'
    BY <1>2, <2>1 DEF AllVouched, Stopping, At
  <2>4. Marked(n) \/ Stopping(n)'
    BY <2>1, <2>2, <2>3 DEF Founded, Dropped, Stopping, At
  <2>5. \A m \in Inst : Serves(m)'
    BY <2>1, <2>3, <2>4, StartedServes
  <2>6. /\ UNCHANGED <<conf, real, marker>> /\ up' = up \cup {n}
        /\ \A m \in Inst : boot'[m] = "mark" => boot[m] = "mark"
    BY <2>1 DEF Started, Typed
  <2>7. \A s \in Syncer : sync[s].pc = "clear" => At(s) \notin up'
    BY <1>2, <2>2, <2>6 DEF AllVouched, Sure
  <2> QED BY <1>2, <2>1, <2>5, <2>6, <2>7, GrowthVouched
<1>5. ASSUME NEW n \in Inst, Sleep(n)
      PROVE  AllVouched'
  <2>1. UNCHANGED <<conf, real, marker, boot, tainted, sync>> /\ up' \subseteq up
    BY <1>5 DEF Sleep
  <2>2. \A m \in Inst : Serves(m)'
    BY <1>2, <2>1 DEF AllVouched, Serves, Stopping, At, Want
  <2>3. \A s \in Syncer : sync[s].pc = "clear" => At(s) \notin up'
    BY <1>2, <2>1 DEF AllVouched, Sure
  <2> QED BY <1>2, <2>1, <2>2, <2>3, GrowthVouched
<1>6. CASE Restart
  <2>1. \A s \in Syncer : sync[s].pc \notin {"stop", "clear"}
    <3>1. PICK f : f = {g \in {"half pruned"} :
                          \E s \in Syncer : sync[s].pc \in {"stop", "clear"}}
      OBVIOUS
    <3>2. Flawed(f)
      BY <1>6, <3>1 DEF Restart
    <3>3. seen'.flaws = seen.flaws \cup f
      BY <3>1, <3>2, FlawedType
    <3> QED BY <3>1, <3>3 DEF Soundly, Unless
  <2>2. UNCHANGED <<real, marker>> /\ up' = {} /\ \A s \in Syncer : sync'[s].pc = "idle"
    BY <1>6, RestartFrame
  <2>3. \A m \in Inst : boot'[m] = "none"
    BY <1>6 DEF Restart
  <2>4. \A m \in Inst : Marked(m)' /\ Serves(m)'
    BY <1>2, <2>1, <2>2 DEF AllVouched, Founded, Dropped, Marked, Serves
  <2> QED BY <2>2, <2>3, <2>4 DEF AllVouched, Founded, Sure
<1>7. CASE Aside
  BY <1>2, <1>7, AsideKeeps
<1>8. ASSUME NEW n \in Inst, Boots(n)
      PROVE  AllVouched'
  BY <1>2, <1>8, BootsVouched
<1> QED BY <1>3, <1>4, <1>5, <1>6, <1>7, <1>8, AsideSteps, NextIs DEF Others

-----------------------------------------------------------------------------

\* The strengthening is an invariant.
THEOREM InvHolds == Spec => []Inv
<1>1. Init => Inv
  BY InitInv
<1>2. Inv /\ [Next]_vars => Inv'
  BY TypedStep, StandingStep, OneFileStep, FreshStep, KeptStep, HonestStep, LockedStep,
     VouchedStep DEF Inv
<1> QED BY <1>1, <1>2, PTL DEF Spec

\* state.json has its type and can be read back at every moment, unless two
\* saves used the temporary file at once (Save, state.go:87-96).
THEOREM FilesStaySound == Spec => []FilesAreSound
<1>1. Inv => FilesAreSound
  BY TypedIsTypeOK DEF Inv, OneFile, Overlapped, FilesAreSound, FileIsWhole, Unless
<1> QED BY <1>1, InvHolds, PTL

\* Two calls of Apply or Destroy are at work together only after a lock file
\* was removed whose owner was alive (acquireLock, state.go:104-105).
THEOREM SyncsAreApart == Spec => []OneSyncAtATime
<1>0. 0 <= 1 /\ 1 <= 1
  OBVIOUS
<1>1. Inv => OneSyncAtATime
  <2> SUFFICES ASSUME Inv, Unless({"lock taken"})
               PROVE  Cardinality(Holder) <= 1
    BY DEF OneSyncAtATime
  <2>1. CASE Holder = {}
    <3>1. Cardinality({}) = 0
      BY FS_EmptySet
    <3>2. Cardinality(Holder) = 0
      BY <2>1, <3>1
    <3> QED BY <1>0, <3>2
  <2>2. ASSUME NEW s \in Holder
        PROVE  Cardinality(Holder) = 1
    <3>1. Holder = {s}
      BY OneHolder DEF Inv
    <3>2. Cardinality({s}) = 1
      BY FS_Singleton
    <3> QED BY <3>1, <3>2
  <2>3. CASE Holder # {}
    <3>1. PICK s : s \in Holder
      BY <2>3
    <3>2. Cardinality(Holder) = 1
      BY <2>2, <3>1
    <3> QED BY <1>0, <3>2
  <2> QED BY <2>1, <2>3
<1> QED BY <1>1, InvHolds, PTL

\* What was recorded of a task stays recorded (setTaskRecord and Save), unless a
\* sync saved the copy it had loaded before.
THEOREM RecordsStay == Spec => []RecordsAreKept
<1>1. Inv => RecordsAreKept
  BY DEF Inv
<1> QED BY <1>1, InvHolds, PTL

\* A task is passed over only when a run that started with the inputs it has
\* now has succeeded (taskUpToDate and runTask, tasks.go).
THEOREM PassingOverIsRight == Spec => []PassedOverWhenDone
<1>1. Inv => PassedOverWhenDone
  <2> SUFFICES ASSUME Inv, NEW t \in Task, UpToDate(t)
               PROVE  task[t].inputs \in seen.good[t]
    BY DEF PassedOverWhenDone
  <2>1. task[t].inputs \in 0..MaxEdit
    BY DEF Inv, Typed, TaskT
  <2> QED BY <2>1 DEF Inv, UpToDate, Honest, Truthful
<1> QED BY <1>1, InvHolds, PTL

\* A backend that runs when its boot is over, untainted, has the structure declared
\* for it (Converge and ensureConverged), unless a Destroy failed half way or met
\* another sync, a boot or a waking (apply.go:123-125).
THEOREM ServesTheDeclared == Spec => []ServesWhatIsDeclared
<1>1. Inv => ServesWhatIsDeclared
  BY DEF Inv
<1> QED BY <1>1, InvHolds, PTL

\* No step lets an object leave the record that is neither gone from its
\* instance nor still declared (reconcileObjects and pruneAll, apply.go), unless
\* saves overlapped or a stale copy was saved.
THEOREM NothingIsForgotten == Spec => ForgetsOnlyWhatIsGone
<1>1. Inv /\ [Next]_vars =>
        [Unless({"overlap", "stale copy"})' =>
           \A n \in Inst : (file.objs[n] \ file'.objs[n]) \cap real'[n] \subseteq Want(n)']_vars
  <2> SUFFICES ASSUME Inv, [Next]_vars, "overlap" \notin seen'.flaws,
                      "stale copy" \notin seen'.flaws, NEW n \in Inst
               PROVE  (file.objs[n] \ file'.objs[n]) \cap real'[n] \subseteq Want(n)'
    BY DEF Unless
  <2>0. Typed /\ Standing /\ OneFile /\ FreshCopies
    BY DEF Inv
  <2>1. ~Overlapped
    BY <2>0, FlawsGrow DEF Overlapped
  <2>2. CASE ~\E p \in Saver : Saves(p)
    BY <2>0, <2>2, NotSaving
  <2>3. ASSUME NEW p \in Saver, Saves(p)
        PROVE  (file.objs[n] \ file'.objs[n]) \cap real'[n] \subseteq Want(n)'
    <3>1. CASE Renamed(p) /\ Where(p) = "rename"
      <4>1. save[p].fresh
        BY <2>0, <3>1, RenameFrame
      <4>2. CASE p \in Task
        <5>1. file' = [file EXCEPT !.tasks[p] = task[p].rec]
          BY <2>0, <2>1, <2>3, <3>1, <4>1, <4>2, RenamedFresh
        <5>2. file'.objs = file.objs
          BY <2>0, <5>1 DEF Typed, States
        <5> QED BY <5>2
      <4>3. CASE p \in Syncer
        <5>1. /\ file' = save[p].copy /\ UNCHANGED <<real, conf>>
              /\ SyncIsFresh(p)
          BY <2>0, <2>1, <2>3, <3>1, <4>1, <4>3, RenamedFresh
        <5> QED BY <5>1 DEF SyncIsFresh, Want
      <4> QED BY <4>2, <4>3 DEF Saver
    <3>2. CASE OpenTmp(p)
      BY <2>0, <3>2, OpenFrame
    <3>3. CASE WriteTmp(p)
      <4>1. save[p].fd # "live"
        BY <2>0, <2>1 DEF OneFile
      <4> QED BY <2>0, <3>3, <4>1, WriteFrame
    <3> QED BY <2>3, <3>1, <3>2, <3>3 DEF Saves
  <2> QED BY <2>2, <2>3
<1> QED BY <1>1, InvHolds, PTL DEF Spec, ForgetsOnlyWhatIsGone
================================================================================
