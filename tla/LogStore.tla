----------------------------- MODULE LogStore -------------------------------
(***************************************************************************)
(* What one instance prints, as internal/logstore keeps it on disk: runs   *)
(* of segment files, the writer that rotates and prunes them, and the      *)
(* followers that read the files meanwhile (internal/daemon/subscribe.go). *)
(*                                                                         *)
(* A line is its number.  Lines are taken to be of one length, so that     *)
(* sizes and offsets count lines, and a segment holds the lines from       *)
(* base + 1 to base + size.                                                *)
(***************************************************************************)
EXTENDS Integers, FiniteSets, Sequences

CONSTANTS Follower,   \* those who follow the instance
          MaxRuns,    \* Options.MaxRuns
          MaxBytes,   \* Options.MaxBytes
          RunNames,   \* the last run and the last segment whose number has as
          SegNames,   \* many digits as a listing reads: 999999 and 999
          Batch,      \* the lines of one Read (512)
          Backlog,    \* the lines of a backlog
          MaxLine,    \* bound: the lines printed
          MaxMove     \* bound: the runs, removals and deaths of the daemon

ASSUME LogStoreConstants ==
  /\ {MaxRuns, MaxBytes, Batch} \subseteq Nat \ {0}
  /\ {RunNames, SegNames, Backlog, MaxLine, MaxMove} \subseteq Nat

\* segmentBytes is a quarter of it, and a line is never cut.
SegLines == IF MaxBytes < 4 THEN 1 ELSE MaxBytes \div 4

VARIABLES
  segs,     \* the segment files that a listing finds
  run,      \* the Run being written; "stray": to a file that no listing finds
  partial,  \* the beginning of a line has been printed
  writer,   \* what is done to the run, and for whom
  removing, \* ClearLogs has closed the run and not yet removed the files
  rd,       \* how far each follower is
  top,      \* history: the number of the last line written
  at,       \* history: the last line each follower was given
  lost,     \* history: the followers that met a removal of the files
  used      \* what of MaxMove is used

vars == <<segs, run, partial, writer, removing, rd, top, at, lost, used>>
followers == <<rd, at, lost>>

NoRun == [id |-> 0, seg |-> 0, size |-> 0, file |-> "closed"]
Idle == [pc |-> "idle", for |-> "none", doomed |-> {}]
Away == [pc |-> "off", cur |-> [run |-> 0, seg |-> 0, off |-> 0], list |-> {},
         buf |-> <<>>, want |-> 0, after |-> "take", awake |-> FALSE]

Init ==
  /\ segs = {}
  /\ run = NoRun
  /\ partial = FALSE
  /\ writer = Idle
  /\ removing = FALSE
  /\ rd = [f \in Follower |-> Away]
  /\ top = 0
  /\ at = [f \in Follower |-> 0]
  /\ lost = {}
  /\ used = 0

Move == used < MaxMove /\ used' = used + 1

-----------------------------------------------------------------------------
(* Segment files.  A listing is in the order of the names, by run, then by     *)
(* segment.  It reads numbers of a fixed width: a file whose number has more   *)
(* digits is there, but is found neither by readers nor by prune, nor when     *)
(* the next run is numbered.                                                   *)

HasListedName(id, seg) == id <= RunNames /\ seg <= SegNames
FileOf(id, seg) == IF HasListedName(id, seg) THEN "open" ELSE "stray"

\* A mutant: the segment of the cursor has been read.
BeforeOrAt(sg, cur) == sg.run < cur.run \/ (sg.run = cur.run /\ sg.seg <= cur.seg)

Before(sg, cur) == sg.run < cur.run \/ (sg.run = cur.run /\ sg.seg < cur.seg)

Newest(list) == CHOOSE sg \in list : \A x \in list : x = sg \/ Before(x, sg)
Oldest(list) == CHOOSE sg \in list : \A x \in list : x = sg \/ Before(sg, x)

SameName(sg, x) == sg.run = x.run /\ sg.seg = x.seg
New(id, seg) == [run |-> id, seg |-> seg, base |-> top, size |-> 0]

From(list, sg) == {x \in list : x = sg \/ Before(sg, x)}
Held(sg) == sg.base + 1 .. sg.base + sg.size
HeldBy(list) == UNION {Held(sg) : sg \in list}
Size(list) == Cardinality(HeldBy(list))
Runs(list) == {sg.run : sg \in list}

\* A mutant: the runs are counted from the wrong end.
DoomedNewest(list, live) ==
  {sg \in list : Cardinality({id \in Runs(list) : id <= sg.run}) > MaxRuns}

\* prune: whole runs beyond MaxRuns, then the oldest segments.
Doomed(list, live) ==
  {sg \in list \ {live} : \/ Cardinality(Runs(From(list, sg))) > MaxRuns
                          \/ Size(From(list, sg)) > MaxBytes}

\* A segment file is created, and what is then too much of what is listed.
Created(sg, for) ==
  /\ segs' = IF HasListedName(sg.run, sg.seg) THEN segs \cup {sg} ELSE segs
  /\ writer' = [pc |-> "prune", for |-> for, doomed |-> Doomed(segs', sg)]

-----------------------------------------------------------------------------
(* The writer.  Its steps hold the mutex of the run, or follow in one call. *)

\* A process prints a line, or the beginning of one.
Output ==
  /\ writer.pc = "idle" /\ run.file # "closed" /\ top < MaxLine
  /\ \/ partial' = TRUE /\ UNCHANGED writer
     \/ /\ partial' = FALSE
        /\ writer' = IF run.file = "failed" THEN Idle ELSE [Idle EXCEPT !.pc = "line", !.for = "print"]
  /\ UNCHANGED <<segs, run, removing, followers, top, used>>

Written == writer' = [writer EXCEPT !.pc = IF writer.for = "print" THEN "idle" ELSE "shut"]

\* A line would make the segment too large.
Full == run.size >= SegLines

\* The run moves to a new segment.  When that cannot be created, as it cannot in
\* a folder that was removed, the run records nothing from there on.
Rotate ==
  /\ writer.pc = "line" /\ Full
  /\ \/ /\ run.file \in {"open", "stray"}
        /\ run' = [run EXCEPT !.seg = @ + 1, !.size = 0, !.file = FileOf(run.id, run.seg + 1)]
        /\ Created(New(run.id, run.seg + 1), writer.for)
     \/ /\ run' = [run EXCEPT !.file = "failed"]
        /\ Written
        /\ UNCHANGED segs
  /\ UNCHANGED <<partial, removing, followers, top, used>>

\* The files prune found to be too much are removed one by one.
Prune ==
  /\ writer.pc = "prune"
  /\ LET left == writer.doomed \cap segs IN
     IF left # {}
       THEN /\ segs' = segs \ {Oldest(left)}
            /\ UNCHANGED writer
       ELSE /\ writer' = [writer EXCEPT !.doomed = {},
                            !.pc = IF writer.for = "created" THEN "idle" ELSE "line"]
            /\ UNCHANGED segs
  /\ UNCHANGED <<run, partial, removing, followers, top, used>>

\* The line is written, to a file that may have no name any more or one that is
\* not listed, or the disk is full.
Write ==
  /\ writer.pc = "line" /\ ~Full
  /\ writer' = [writer EXCEPT !.pc = "wake"]
  /\ \/ /\ top' = top + 1
        /\ run' = [run EXCEPT !.size = @ + 1]
        /\ segs' = {IF run.file = "open" /\ sg.run = run.id /\ sg.seg = run.seg
                      THEN [sg EXCEPT !.size = @ + 1] ELSE sg : sg \in segs}
     \/ UNCHANGED <<top, run, segs>>
  /\ UNCHANGED <<partial, removing, followers, used>>

\* Closes the channel of those who have taken it.
WakeAll ==
  rd' = [f \in Follower |->
    [rd[f] EXCEPT !.awake = @ \/ rd[f].pc \in {"list", "read", "emit", "sleep"}]]

Wake ==
  /\ writer.pc = "wake"
  /\ WakeAll
  /\ Written
  /\ UNCHANGED <<segs, run, partial, removing, at, lost, top, used>>

\* Close: what has been printed of a line is recorded as it stands.
Closing(for) ==
  /\ partial' = FALSE
  /\ writer' = [Idle EXCEPT !.for = for,
                  !.pc = IF partial /\ run.file # "failed" THEN "line" ELSE "shut"]

\* Its processes have ended.
EndRun ==
  /\ writer.pc = "idle" /\ run.file # "closed"
  /\ Closing("end")
  /\ UNCHANGED <<segs, run, removing, followers, top, used>>

Shut ==
  /\ writer.pc = "shut"
  /\ run' = NoRun
  /\ writer' = IF writer.for = "begin" THEN [writer EXCEPT !.pc = "create"] ELSE Idle
  /\ removing' = (removing \/ writer.for = "remove")
  /\ WakeAll
  /\ UNCHANGED <<segs, partial, at, lost, top, used>>

\* The instance is started.  A run that is still open is closed first.
Begin ==
  /\ writer.pc = "idle"
  /\ IF run.file = "closed"
       THEN writer' = [Idle EXCEPT !.pc = "create", !.for = "begin"] /\ UNCHANGED partial
       ELSE Closing("begin")
  /\ Move
  /\ UNCHANGED <<segs, run, removing, followers, top>>

\* A run is numbered after the newest that is listed.
Create ==
  /\ writer.pc = "create"
  /\ LET id == IF segs = {} THEN 1 ELSE Newest(segs).run + 1 IN
       /\ run' = [id |-> id, seg |-> 0, size |-> 0, file |-> FileOf(id, 0)]
       /\ Created(New(id, 0), "created")
  /\ UNCHANGED <<partial, removing, followers, top, used>>

\* Remove: the run is closed, then the folder is deleted.
ClearLogs ==
  /\ writer.pc = "idle" /\ ~removing
  /\ IF run.file = "closed"
       THEN removing' = TRUE /\ UNCHANGED <<partial, writer>>
       ELSE Closing("remove") /\ UNCHANGED removing
  /\ Move
  /\ UNCHANGED <<segs, run, followers, top>>

Unlink ==
  /\ removing
  /\ removing' = FALSE
  /\ segs' = {}
  /\ run' = [run EXCEPT !.file = IF @ \in {"open", "stray"} THEN "unlinked" ELSE @]
  /\ lost' = lost \cup {f \in Follower : rd[f].pc # "off"}
  /\ UNCHANGED <<partial, writer, rd, at, top, used>>

-----------------------------------------------------------------------------
(* The followers. *)

Turn(f, r) == rd' = [rd EXCEPT ![f] = r]

\* What a follower does when it has read what there is.
\* A mutant: the channel it will wait for is taken only now.
RestLate(r, buf) ==
  [r EXCEPT !.buf = buf, !.after = "sleep", !.awake = FALSE,
            !.pc = IF buf = <<>> THEN "sleep" ELSE "emit"]

Rest(r, buf) ==
  [r EXCEPT !.buf = buf, !.after = "sleep", !.pc = IF buf = <<>> THEN "sleep" ELSE "emit"]

\* Tail: the segments of the newest run, the newest first.
Tail0(f, n) ==
  /\ rd[f].pc = "off"
  /\ at' = [at EXCEPT ![f] = top]
  /\ Turn(f, [Away EXCEPT
       !.pc = IF segs = {} THEN "take" ELSE "tail",
       !.want = n,
       !.list = {sg \in segs : \A x \in segs : x.run <= sg.run}])
  /\ UNCHANGED <<segs, run, partial, writer, removing, lost, top, used>>

\* A listed segment as it is when it is read; nothing is read of one that is
\* not there any more.
Now(sg) ==
  IF \E x \in segs : SameName(x, sg) THEN CHOOSE x \in segs : SameName(x, sg)
  ELSE [sg EXCEPT !.size = 0]

\* The lines of a segment from an offset on.
Lines(sg, off, end) == [i \in 1..(IF end > off THEN end - off ELSE 0) |-> sg.base + off + i]

\* One segment of the backlog.  The first one read is where the follower goes on.
TailRead(f) ==
  /\ rd[f].pc = "tail"
  /\ LET r == rd[f]
         sg == Newest(r.list)
         now == Now(sg)
         need == r.want - Len(r.buf)
         buf == Lines(now, IF now.size > need THEN now.size - need ELSE 0, now.size) \o r.buf
         first == r.cur.run = 0
         ends == Len(buf) >= r.want \/ r.list = {sg}
     IN /\ Turn(f, [r EXCEPT
             !.cur = IF first THEN [run |-> sg.run, seg |-> sg.seg, off |-> now.size] ELSE @,
             !.list = IF ends THEN {} ELSE @ \ {sg},
             !.buf = buf,
             !.want = IF ends THEN 0 ELSE @,
             !.pc = IF ~ends THEN "tail" ELSE IF buf = <<>> THEN "take" ELSE "emit"])
        /\ at' = [at EXCEPT ![f] = IF buf # <<>> THEN Head(buf) - 1
                                   ELSE IF first THEN now.base + now.size ELSE @]
  /\ UNCHANGED <<segs, run, partial, writer, removing, lost, top, used>>

Emit(f) ==
  /\ rd[f].pc = "emit"
  /\ at' = [at EXCEPT ![f] = Head(rd[f].buf)]
  /\ Turn(f, [rd[f] EXCEPT !.buf = Tail(@),
                           !.pc = IF Len(rd[f].buf) = 1 THEN rd[f].after ELSE @])
  /\ UNCHANGED <<segs, run, partial, writer, removing, lost, top, used>>

\* Follow: the channel is taken before the files are read.
Take(f) ==
  /\ rd[f].pc = "take"
  /\ Turn(f, [rd[f] EXCEPT !.awake = FALSE, !.pc = "list"])
  /\ UNCHANGED <<segs, run, partial, writer, removing, at, lost, top, used>>

List(f) ==
  /\ rd[f].pc = "list"
  /\ LET todo == {sg \in segs : ~Before(sg, rd[f].cur)} IN
       Turn(f, IF todo = {} THEN Rest(rd[f], <<>>)
               ELSE [rd[f] EXCEPT !.pc = "read", !.list = todo])
  /\ UNCHANGED <<segs, run, partial, writer, removing, at, lost, top, used>>

\* How many more lines Read may return.
Room(buf) == Batch - Len(buf)

\* Where in a segment Read continues.
Start(sg, cur) == IF cur.run = sg.run /\ cur.seg = sg.seg THEN cur.off ELSE 0

\* Read takes in the next segment, if it still exists.
ReadSeg(f) ==
  /\ rd[f].pc = "read"
  /\ LET r == rd[f]
         sg == Oldest(r.list)
         now == Now(sg)
         off == Start(sg, r.cur)
         end == IF now.size > off + Room(r.buf) THEN off + Room(r.buf) ELSE now.size
         lines == Lines(now, off, end)
         buf == r.buf \o lines
         read == [r EXCEPT !.cur = [run |-> sg.run, seg |-> sg.seg, off |-> off + Len(lines)],
                           !.list = @ \ {sg}, !.buf = buf]
     IN Turn(f, IF Len(buf) >= Batch THEN [read EXCEPT !.pc = "emit", !.after = "list", !.list = {}]
                ELSE IF r.list = {sg} THEN Rest(read, buf) ELSE read)
  /\ UNCHANGED <<segs, run, partial, writer, removing, at, lost, top, used>>

\* The channel it took has been closed.
Woken(f) ==
  /\ rd[f].pc = "sleep" /\ rd[f].awake
  /\ Turn(f, [rd[f] EXCEPT !.pc = "take"])
  /\ UNCHANGED <<segs, run, partial, writer, removing, at, lost, top, used>>

Leave(f) ==
  /\ rd[f].pc \in {"sleep", "emit"}
  /\ Turn(f, Away)
  /\ at' = [at EXCEPT ![f] = 0] /\ lost' = lost \ {f}
  /\ UNCHANGED <<segs, run, partial, writer, removing, top, used>>

-----------------------------------------------------------------------------
\* The daemon dies between any two steps; the files stay as they are.
Restart ==
  /\ run' = NoRun /\ partial' = FALSE
  /\ writer' = Idle /\ removing' = FALSE
  /\ rd' = [f \in Follower |-> Away]
  /\ at' = [f \in Follower |-> 0] /\ lost' = {}
  /\ Move
  /\ UNCHANGED <<segs, top>>

Works == Rotate \/ Prune \/ Write \/ Wake \/ Shut \/ Create \/ Unlink
Follows(f) == TailRead(f) \/ Emit(f) \/ Take(f) \/ List(f) \/ ReadSeg(f) \/ Woken(f)

Next ==
  \/ Output \/ EndRun \/ Begin \/ ClearLogs \/ Restart
  \/ Rotate \/ Prune \/ Write \/ Wake \/ Shut \/ Create \/ Unlink
  \/ \E f \in Follower :
       \/ \E n \in {0, Backlog} : Tail0(f, n)
       \/ TailRead(f) \/ Emit(f) \/ Take(f) \/ List(f) \/ ReadSeg(f) \/ Woken(f)
       \/ Leave(f)

Spec == Init /\ [][Next]_vars

\* What has been begun is gone on with.  Nobody has to print, start or follow.
FairSpec == Spec /\ WF_vars(Works) /\ \A f \in Follower : WF_vars(Follows(f))

-----------------------------------------------------------------------------
(* Properties. *)

Kept == HeldBy(segs)

Where(f) == IF rd[f].pc \in {"off", "tail"} THEN "off"
            ELSE IF f \in lost THEN "lost" ELSE "following"

TypeOK ==
  /\ \A sg \in segs : sg.size \in 0..SegLines /\ sg.base \in 0..top
  /\ run.file \in {"closed", "open", "stray", "unlinked", "failed"} /\ run.size \in 0..SegLines
  /\ partial \in BOOLEAN /\ removing \in BOOLEAN
  /\ writer.pc \in {"idle", "line", "prune", "wake", "shut", "create"}
  /\ \A f \in Follower :
       /\ rd[f].pc \in {"off", "tail", "emit", "take", "list", "read", "sleep"}
       /\ Len(rd[f].buf) <= (IF Batch > Backlog THEN Batch ELSE Backlog)
       /\ at[f] \in 0..top
  /\ top \in 0..MaxLine /\ lost \subseteq Follower

\* The names of the files put the lines in the order they were printed in, also
\* when the numbers were taken from what a crash and a prune had left.
InOrder(list) ==
  \A x, y \in list : x # y =>
    \/ Before(x, y) /\ x.base + x.size <= y.base
    \/ Before(y, x) /\ y.base + y.size <= x.base

FilesInOrder == InOrder(segs)

\* What is written goes to the newest file: no prune takes it away.
LiveIsNewest ==
  run.file = "open" =>
    \E sg \in segs : /\ sg.run = run.id /\ sg.seg = run.seg /\ sg.size = run.size
                     /\ \A x \in segs : x = sg \/ Before(x, sg)

\* While a run is written no more is listed than the options say, and one segment
\* (logstore.go:48-52): prune runs when the new segment is still empty.  What lies
\* in a file that is not listed comes on top: nothing bounds it.
WithinLimits ==
  run.file \in {"open", "stray"} /\ writer.pc = "idle" =>
    Cardinality(Runs(segs)) <= MaxRuns /\ Size(segs) <= MaxBytes + SegLines

\* What is listed is the log in its order and within its limits, and ends in the
\* file that is written if that one has a listed name, whatever crashes, failed
\* writes, prunes and removals came before.
LogIsInOrder == TypeOK /\ FilesInOrder /\ LiveIsNewest /\ WithinLimits

\* A follower is given the lines in order and passes over none that is kept in a
\* file with a listed name (logstore.go:12-14), until everything kept is removed
\* under it.
AsLineLog ==
  INSTANCE LineLog WITH
    kept <- Kept,
    where <- [f \in Follower |-> Where(f)],
    at <- [f \in Follower |-> IF Where(f) = "off" THEN 0 ELSE at[f]]

PassesOverNoLine == AsLineLog!Spec

\* Whoever follows catches up with what is kept: no wake-up is lost between the
\* reading of the files and the wait for the next line.
Behind(f) == Where(f) = "following" /\ \E x \in Kept : x > at[f]

CatchesUp == \A f \in Follower : Behind(f) ~> ~Behind(f)
=============================================================================
