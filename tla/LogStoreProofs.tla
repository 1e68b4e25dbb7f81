---------------------------- MODULE LogStoreProofs ----------------------------
(***************************************************************************)
(* The log of an instance is in order and within its limits, and a         *)
(* follower passes over no line that is kept: LogStore implements LineLog. *)
(* For any followers, limits, lengths of segments, batches and backlogs,   *)
(* and any number of lines, runs, removals and deaths of the daemon.       *)
(*                                                                         *)
(* What is known of a follower is said of its record r, the last line a it *)
(* was given, the files S and the number n of the last line, so that what  *)
(* a step does to the files is a lemma about S and n.                      *)
(***************************************************************************)
EXTENDS LogStore, FiniteSetTheorems, SequenceTheorems, TLAPS

-----------------------------------------------------------------------------
(* The files and the writer *)

SegRec == [run : Nat \ {0}, seg : Nat, base : Nat, size : 0..SegLines]
RunRec == [id : Nat, seg : Nat, size : 0..SegLines,
           file : {"closed", "open", "stray", "unlinked", "failed"}]
WriterRec == [pc : {"idle", "line", "prune", "wake", "shut", "create"},
              for : {"none", "print", "end", "begin", "remove", "created"},
              doomed : SUBSET SegRec]

\* A directory whose files hold lines up to n.
Disk(S, n) ==
  /\ S \subseteq SegRec /\ IsFiniteSet(S) /\ InOrder(S)
  /\ \A sg \in S : sg.base + sg.size <= n

\* The segment that an open run writes to, which ends with the last line.
Live == [run |-> run.id, seg |-> run.seg, base |-> top - run.size, size |-> run.size]

\* One whose name is not listed comes after all that are.
LiveSound ==
  /\ run.file = "open" =>
       /\ run.size <= top /\ Live \in segs
       /\ \A sg \in segs : sg = Live \/ Before(sg, Live)
  /\ run.file = "stray" =>
       /\ run.id # 0 /\ ~HasListedName(run.id, run.seg)
       /\ \A sg \in segs : Before(sg, Live)

WriterTyped ==
  /\ run \in RunRec /\ writer \in WriterRec
  /\ partial \in BOOLEAN /\ removing \in BOOLEAN /\ used \in Nat /\ top \in 0..MaxLine

\* A line that is about to be written was printed before the bound was reached.
Capped ==
  /\ writer.pc = "line" \/ (writer.pc = "prune" /\ writer.for # "created") => top < MaxLine
  /\ partial => writer.pc = "idle" /\ run.file # "closed" /\ top < MaxLine

\* The newest of the files is not among the doomed.
SparesNewest(S, doomed) ==
  S = {} \/ \E sg \in S \ doomed : \A x \in S : x = sg \/ Before(x, sg)

OldestFirst(S, doomed) ==
  \A d \in doomed, sg \in S : d \in S /\ Before(sg, d) => sg \in doomed

\* What a prune takes away are the oldest files, and never the newest.
PruneSound ==
  /\ writer.pc # "prune" => writer.doomed = {}
  /\ writer.pc = "prune" =>
       SparesNewest(segs, writer.doomed) /\ OldestFirst(segs, writer.doomed)

\* What a prune leaves is within the limits, but for the file being written.
LimitsSound ==
  LET left == segs \ writer.doomed
  IN  /\ run.file \in {"open", "stray"} => Cardinality(Runs(left)) <= MaxRuns
      /\ run.file = "open" => Size(left \ {Live}) <= MaxBytes
      /\ run.file = "stray" => Size(left) <= MaxBytes

FilesInv ==
  /\ Disk(segs, top) /\ WriterTyped /\ Capped
  /\ LiveSound /\ PruneSound /\ LimitsSound

-----------------------------------------------------------------------------
(* A follower *)

FollowerRec == [pc : {"off", "tail", "emit", "take", "list", "read", "sleep"},
                cur : [run : Nat, seg : Nat, off : Nat], list : SUBSET SegRec,
                buf : Seq(Nat), want : Nat, after : {"take", "list", "sleep"},
                awake : BOOLEAN]

Longest == IF Batch > Backlog THEN Batch ELSE Backlog

\* What holds of every follower, lost or not.
Shape(r, a, n) ==
  /\ r \in FollowerRec /\ a \in 0..n
  /\ Disk(r.list, n)
  /\ \A k \in 1..Len(r.buf) : r.buf[k] \in 1..n
  /\ Len(r.buf) <= Longest
  /\ r.pc = "tail" => r.want <= Backlog /\ Len(r.buf) <= r.want
  /\ r.pc = "read" => Len(r.buf) < Batch
  /\ r.pc \in {"tail", "read"} => r.list # {}
  /\ r.pc = "emit" => r.buf # <<>>
  /\ r.pc \in {"off", "take", "list", "sleep"} => r.buf = <<>>

\* The last line it was given or holds, and the lines it holds.
Reach(r, a) == IF r.buf = <<>> THEN a ELSE r.buf[Len(r.buf)]
Holds(r) == {r.buf[k] : k \in 1..Len(r.buf)}

\* Line y of segment sg is one that a cursor has not passed.
Ahead(sg, y, cur) ==
  Before(cur, sg) \/ (SameName(sg, cur) /\ sg.base + cur.off < y)

\* What it holds is the next there is, without a gap, and what its cursor has
\* not passed is what comes after it.
Steady(r, a, S) ==
  /\ \A k \in 1..Len(r.buf) : a < r.buf[k]
  /\ \A j, k \in 1..Len(r.buf) : j < k => r.buf[j] < r.buf[k]
  /\ \A sg \in S : \A y \in Held(sg) :
       /\ a < y /\ y <= Reach(r, a) => y \in Holds(r)
       /\ y > Reach(r, a) <=> Ahead(sg, y, r.cur)
  /\ r.cur.run # 0 => \E sg \in S : ~Before(sg, r.cur)
  /\ \A sg \in S : SameName(sg, r.cur) => r.cur.off <= sg.size

\* The files it has listed: the newest of them is no newer than what there is,
\* and those that are still there lie where they lay.
Listed(list, S) ==
  /\ \A l \in list : \E sg \in S : ~Before(sg, l)
  /\ \A l \in list, sg \in S :
       /\ Before(l, sg) => l.base + l.size <= sg.base
       /\ Before(sg, l) => sg.base + sg.size <= l.base
       /\ SameName(sg, l) =>
            /\ sg.base = l.base /\ l.size <= sg.size
            /\ sg # l => \A m \in list : m = l \/ Before(m, l)

IsListed(list, sg) == \E m \in list : SameName(m, sg)

\* Between its cursor and a file it has still to read there are only such files,
\* and what it has read to the end.
Reads(r, S) ==
  /\ \A l \in r.list : ~Before(l, r.cur)
  /\ \A sg \in S, l \in r.list :
       ~Before(sg, r.cur) /\ Before(sg, l) =>
         \/ IsListed(r.list, sg)
         \/ SameName(sg, r.cur) /\ sg.size <= r.cur.off

\* Before the first file of the backlog is read.
Starts(r, S) ==
  /\ r.buf = <<>>
  /\ \A sg \in S, l \in r.list :
       Before(l, sg) => IsListed(r.list, sg) \/ \A m \in r.list : Before(m, sg)

\* What is left of the backlog is older than what it holds, and what is newer
\* it holds, up to its cursor.
Tails(r, a, S) ==
  /\ r.buf # <<>> => r.buf[1] = a + 1
  /\ \A l \in r.list : Before(l, r.cur) /\ l.base + l.size <= a
  /\ \A l \in r.list, sg \in S : SameName(sg, l) => sg = l
  /\ \A sg \in S, l \in r.list :
       Before(l, sg) /\ ~IsListed(r.list, sg) =>
         \A y \in Held(sg) : Ahead(sg, y, r.cur) \/ y \in Holds(r)

\* What holds of a follower under which nothing was removed.
Sound(r, a, S) ==
  /\ r.pc \in {"tail", "read"} => Listed(r.list, S)
  /\ r.pc = "read" => Reads(r, S)
  /\ r.pc = "tail" => IF r.cur.run = 0 THEN Starts(r, S) ELSE Tails(r, a, S)
  /\ r.pc \notin {"off", "tail"} \/ (r.pc = "tail" /\ r.cur.run # 0) => Steady(r, a, S)

FollowersInv ==
  /\ rd \in [Follower -> FollowerRec] /\ at \in [Follower -> Nat] /\ lost \subseteq Follower
  /\ \A f \in Follower :
       /\ Shape(rd[f], at[f], top)
       /\ f \in lost => rd[f].pc # "off"
       /\ f \notin lost => Sound(rd[f], at[f], segs)

LogInv == FilesInv /\ FollowersInv

-----------------------------------------------------------------------------
(* Names and sizes *)

\* The first and the last of some files, in the order of their names.
LEMMA HasEnds ==
  ASSUME NEW L, L \subseteq SegRec, IsFiniteSet(L), InOrder(L), L # {}
  PROVE  /\ \E sg \in L : \A x \in L : x = sg \/ Before(x, sg)
         /\ \E sg \in L : \A x \in L : x = sg \/ Before(sg, x)
<1> DEFINE Top(X) == \E sg \in X : \A x \in X : x = sg \/ Before(x, sg)
           Bot(X) == \E sg \in X : \A x \in X : x = sg \/ Before(sg, x)
           Bad == {X \in SUBSET L : X # {} /\ ~(Top(X) /\ Bot(X))}
<1>1. SUFFICES ASSUME Bad # {} PROVE FALSE
  OBVIOUS
<1>2. IsWellFoundedOn(StrictSubsetOrdering(L), SUBSET L)
  BY FS_StrictSubsetOrderingWellFounded, FS_FiniteSubsetsOfFinite
<1>3. PICK X \in Bad : \A Y \in Bad : <<Y, X>> \notin StrictSubsetOrdering(L)
  <2> Bad \subseteq SUBSET L
    OBVIOUS
  <2> HIDE DEF Bad
  <2> QED BY <1>1, <1>2, WFMin
<1>4. X \in SUBSET L /\ X # {}
  OBVIOUS
<1>5. PICK x \in X : TRUE
  BY <1>4
<1>6. CASE X = {x}
  BY <1>6
<1>7. CASE X # {x}
  <2>1. X \ {x} \in SUBSET L /\ X \ {x} # {}
    BY <1>4, <1>5, <1>7
  <2>2. X \ {x} \notin Bad
    <3>1. <<X \ {x}, X>> \in StrictSubsetOrdering(L)
      BY <1>4, <1>5, <2>1 DEF StrictSubsetOrdering
    <3> QED BY <1>3, <3>1
  <2>3. Top(X \ {x}) /\ Bot(X \ {x})
    BY <2>1, <2>2
  <2>4. \A y \in X : /\ y.run \in Nat /\ y.seg \in Nat
                     /\ y # x => Before(x, y) \/ Before(y, x)
    BY <1>4, <1>5 DEF InOrder, SegRec
  <2>5. \A y, z \in X : Before(x, y) /\ Before(y, z) => Before(x, z)
    BY <1>5, <2>4 DEF Before
  <2>6. \A y, z \in X : Before(z, y) /\ Before(y, x) => Before(z, x)
    BY <1>5, <2>4 DEF Before
  <2>7. Top(X)
    <3>1. PICK t \in X \ {x} : \A y \in X \ {x} : y = t \/ Before(y, t)
      BY <2>3
    <3>2. CASE Before(x, t)
      BY <1>5, <3>1, <3>2
    <3>3. CASE Before(t, x)
      BY <1>5, <2>6, <3>1, <3>3
    <3> QED BY <2>4, <3>1, <3>2, <3>3
  <2>8. Bot(X)
    <3>1. PICK t \in X \ {x} : \A y \in X \ {x} : y = t \/ Before(t, y)
      BY <2>3
    <3>2. CASE Before(t, x)
      BY <1>5, <3>1, <3>2
    <3>3. CASE Before(x, t)
      BY <1>5, <2>5, <3>1, <3>3
    <3> QED BY <2>4, <3>1, <3>2, <3>3
  <2> QED BY <2>7, <2>8
<1> QED BY <1>6, <1>7

LEMMA EndsAre ==
  ASSUME NEW L, NEW n, Disk(L, n), L # {}
  PROVE  /\ Newest(L) \in L /\ \A x \in L : x = Newest(L) \/ Before(x, Newest(L))
         /\ Oldest(L) \in L /\ \A x \in L : x = Oldest(L) \/ Before(Oldest(L), x)
BY HasEnds DEF Disk, Newest, Oldest

\* Some of the files are files.
LEMMA FewerFiles ==
  ASSUME NEW S, NEW n, Disk(S, n), NEW T \in SUBSET S
  PROVE  Disk(T, n)
<1>1. IsFiniteSet(T)
  BY FS_Subset DEF Disk
<1> QED BY <1>1 DEF Disk, InOrder

\* The same name is the same file.
LEMMA NamesAre ==
  ASSUME NEW S, NEW n, Disk(S, n), NEW x \in S, NEW y \in S, SameName(x, y)
  PROVE  x = y
BY DEF Disk, InOrder, SameName, Before, SegRec

LEMMA LinesHeld ==
  ASSUME NEW S, NEW n \in Nat, Disk(S, n)
  PROVE  /\ HeldBy(S) \subseteq 1..n
         /\ IsFiniteSet(HeldBy(S)) /\ Size(S) \in Nat
<1>1. HeldBy(S) \subseteq 1..n
  BY DEF HeldBy, Held, Disk, SegRec
<1>2. IsFiniteSet(HeldBy(S))
  BY <1>1, FS_Interval, FS_Subset
<1> QED BY <1>1, <1>2, FS_CardinalityType DEF Size

\* Fewer files hold fewer lines of fewer runs.
LEMMA FewerLines ==
  ASSUME NEW S, NEW n \in Nat, Disk(S, n), NEW T \in SUBSET S
  PROVE  /\ Size(T) \in Nat /\ Size(T) <= Size(S)
         /\ Cardinality(Runs(T)) \in Nat /\ Cardinality(Runs(T)) <= Cardinality(Runs(S))
<1>1. HeldBy(T) \subseteq HeldBy(S)
  BY DEF HeldBy
<1>2. IsFiniteSet(HeldBy(S))
  BY LinesHeld
<1>3. IsFiniteSet(Runs(S))
  <2> DEFINE f == [sg \in S |-> sg.run]
  <2>1. f \in Surjection(S, Runs(S))
    BY DEF Surjection, Runs
  <2> QED BY <2>1, FS_Surjection DEF Disk
<1>4. Runs(T) \subseteq Runs(S)
  BY DEF Runs
<1> QED BY <1>1, <1>2, <1>3, <1>4, FS_Subset, FS_CardinalityType DEF Size

-----------------------------------------------------------------------------
(* What the writer does to the files *)

LEMMA MaxBytesIs ==
  /\ MaxBytes \in Nat \ {0} /\ SegLines \in Nat \ {0} /\ SegLines <= MaxBytes
  /\ MaxRuns \in Nat \ {0} /\ RunNames \in Nat /\ SegNames \in Nat
  /\ Batch \in Nat \ {0} /\ Backlog \in Nat /\ MaxLine \in Nat /\ MaxMove \in Nat
<1>1. MaxBytes \in Nat \ {0}
  BY LogStoreConstants
<1>2. SegLines \in Nat \ {0} /\ SegLines <= MaxBytes
  BY <1>1 DEF SegLines
<1> QED BY <1>1, <1>2, LogStoreConstants

LEMMA NothingIs ==
  /\ NoRun \in RunRec /\ NoRun.file = "closed"
  /\ Idle \in WriterRec /\ Idle.pc = "idle" /\ Idle.doomed = {}
<1>1. NoRun \in RunRec /\ NoRun.file = "closed"
  BY MaxBytesIs DEF NoRun, RunRec
<1>2. Idle \in WriterRec /\ Idle.pc = "idle" /\ Idle.doomed = {}
  BY DEF Idle, WriterRec
<1> QED BY <1>1, <1>2

\* What is older than what a prune takes away is taken away as well.
LEMMA DoomedAreOldest ==
  ASSUME NEW S, NEW n \in Nat, Disk(S, n), NEW new,
         \A sg \in S : sg = new \/ Before(sg, new)
  PROVE  OldestFirst(S, Doomed(S, new))
<1> SUFFICES ASSUME NEW d \in Doomed(S, new), NEW sg \in S, Before(sg, d)
             PROVE  sg \in Doomed(S, new)
  BY DEF OldestFirst
<1>1. d \in S \ {new} /\ From(S, sg) \in SUBSET S
  BY DEF Doomed, From
<1>2. /\ \A x \in S : x.run \in Nat /\ x.seg \in Nat
      /\ Before(d, new)
  BY <1>1 DEF Disk, SegRec
<1>3. sg # new
  BY <1>1, <1>2 DEF Before
<1>4. From(S, d) \in SUBSET From(S, sg)
  BY <1>1, <1>2 DEF From, Before
<1>5. Disk(From(S, sg), n) /\ From(S, sg) \in SUBSET From(S, sg)
  BY <1>1, FewerFiles
<1>6. /\ Size(From(S, d)) <= Size(From(S, sg))
      /\ Cardinality(Runs(From(S, d))) <= Cardinality(Runs(From(S, sg)))
      /\ Size(From(S, d)) \in Nat /\ Size(From(S, sg)) \in Nat
      /\ Cardinality(Runs(From(S, d))) \in Nat /\ Cardinality(Runs(From(S, sg))) \in Nat
  BY <1>4, <1>5, FewerLines
<1>7. Cardinality(Runs(From(S, d))) > MaxRuns \/ Size(From(S, d)) > MaxBytes
  BY DEF Doomed
<1>8. Cardinality(Runs(From(S, sg))) > MaxRuns \/ Size(From(S, sg)) > MaxBytes
  BY <1>6, <1>7, MaxBytesIs
<1> QED BY <1>3, <1>8 DEF Doomed

\* A file of the newest name is created: what prune spares is within the limits.
LEMMA PruneSpares ==
  ASSUME NEW S, NEW n \in Nat, Disk(S, n),
         NEW new \in S, new.size = 0, \A sg \in S : sg = new \/ Before(sg, new)
  PROVE  LET left == S \ Doomed(S, new)
         IN  /\ new \in left
             /\ Cardinality(Runs(left)) <= MaxRuns
             /\ Size(left \ {new}) <= MaxBytes
             /\ SparesNewest(S, Doomed(S, new)) /\ OldestFirst(S, Doomed(S, new))
<1> DEFINE left == S \ Doomed(S, new)
<1>1. new \in left /\ left \in SUBSET S /\ left # {}
  BY DEF Doomed
<1>2. Disk(left, n)
  BY <1>1, FewerFiles
<1>3. PICK o \in left : \A x \in left : x = o \/ Before(o, x)
  BY <1>1, <1>2, HasEnds DEF Disk
<1>4. left \in SUBSET From(S, o) /\ From(S, o) \in SUBSET S
  BY <1>1, <1>3 DEF From
<1>5. Disk(From(S, o), n)
  BY <1>4, FewerFiles
<1>6. ASSUME o # new
      PROVE  Cardinality(Runs(left)) <= MaxRuns /\ Size(left \ {new}) <= MaxBytes
  <2>1. o \in S \ {new} /\ o \notin Doomed(S, new)
    BY <1>3, <1>6
  <2>2. ~(Cardinality(Runs(From(S, o))) > MaxRuns) /\ ~(Size(From(S, o)) > MaxBytes)
    BY <2>1 DEF Doomed
  <2>3. left \ {new} \in SUBSET From(S, o)
    BY <1>4
  <2>4. /\ Size(left \ {new}) \in Nat /\ Size(left \ {new}) <= Size(From(S, o))
        /\ Size(From(S, o)) \in Nat
    BY <1>5, <2>3, FewerLines, LinesHeld
  <2>5. /\ Cardinality(Runs(left)) <= Cardinality(Runs(From(S, o)))
        /\ Cardinality(Runs(left)) \in Nat /\ Cardinality(Runs(From(S, o))) \in Nat
    <3>1. From(S, o) \in SUBSET From(S, o)
      OBVIOUS
    <3> QED BY <1>4, <1>5, <3>1, FewerLines
  <2> HIDE DEF left
  <2> QED BY <2>2, <2>4, <2>5, MaxBytesIs
<1>7. ASSUME o = new
      PROVE  Cardinality(Runs(left)) <= MaxRuns /\ Size(left \ {new}) <= MaxBytes
  <2>1. \A x \in left : x = new
    <3>1. \A x \in left : ~(Before(x, new) /\ Before(new, x))
      BY <1>1 DEF Before, Disk, SegRec
    <3> QED BY <1>1, <1>3, <1>7, <3>1
  <2>2. left = {new} /\ left \ {new} = {}
    BY <1>1, <2>1
  <2>3. Runs({new}) = {new.run}
    BY DEF Runs
  <2>4. Cardinality(Runs(left)) = 1
    BY <2>2, <2>3, FS_Singleton
  <2>5. HeldBy({}) = {}
    BY DEF HeldBy
  <2>6. Size(left \ {new}) = 0
    BY <2>2, <2>5, FS_EmptySet DEF Size
  <2> HIDE DEF left
  <2> QED BY <2>4, <2>6, MaxBytesIs
<1>8. OldestFirst(S, Doomed(S, new))
  BY DoomedAreOldest
<1>9. SparesNewest(S, Doomed(S, new))
  BY <1>1 DEF SparesNewest
<1> QED BY <1>1, <1>6, <1>7, <1>8, <1>9

\* The same when the file that is created is not listed: the newest file that is
\* listed is alone within the limits.
LEMMA PruneSparesListed ==
  ASSUME NEW S, NEW n \in Nat, Disk(S, n),
         NEW new, \A sg \in S : Before(sg, new)
  PROVE  LET left == S \ Doomed(S, new)
         IN  /\ Cardinality(Runs(left)) <= MaxRuns /\ Size(left) <= MaxBytes
             /\ SparesNewest(S, Doomed(S, new)) /\ OldestFirst(S, Doomed(S, new))
<1> DEFINE left == S \ Doomed(S, new)
<1>1. OldestFirst(S, Doomed(S, new))
  BY DoomedAreOldest
<1>2. CASE S = {}
  <2>1. left = {} /\ Runs({}) = {} /\ HeldBy({}) = {}
    BY <1>2 DEF Runs, HeldBy
  <2>2. Cardinality(Runs(left)) = 0 /\ Size(left) = 0
    BY <2>1, FS_EmptySet DEF Size
  <2>3. SparesNewest(S, Doomed(S, new))
    BY <1>2 DEF SparesNewest
  <2> HIDE DEF left
  <2>4. 0 <= MaxRuns /\ 0 <= MaxBytes
    BY MaxBytesIs
  <2> QED BY <1>1, <2>2, <2>3, <2>4 DEF left
<1>3. CASE S # {}
  <2>1. PICK nw \in S : \A x \in S : x = nw \/ Before(x, nw)
    BY <1>3, HasEnds DEF Disk
  <2>2. /\ \A sg \in S : sg.run \in Nat /\ sg.seg \in Nat
        /\ nw.base \in Nat /\ nw.size \in 0..SegLines
    BY <2>1 DEF Disk, SegRec
  <2>3. From(S, nw) = {nw}
    BY <2>1, <2>2 DEF From, Before
  <2>4. Cardinality(Runs({nw})) = 1
    <3>1. Runs({nw}) = {nw.run}
      BY DEF Runs
    <3> QED BY <3>1, FS_Singleton
  <2>5. Size({nw}) <= MaxBytes
    <3>1. HeldBy({nw}) = nw.base + 1 .. nw.base + nw.size
      BY DEF HeldBy, Held
    <3>2. Cardinality(nw.base + 1 .. nw.base + nw.size) = nw.size
      <4> DEFINE b == nw.base
                 z == nw.size
      <4>1. b \in Nat /\ z \in Nat
        BY <2>2, MaxBytesIs
      <4> HIDE DEF b, z
      <4>2. Cardinality(b + 1 .. b + z) = IF b + 1 > b + z THEN 0 ELSE (b + z) - (b + 1) + 1
        BY <4>1, FS_Interval
      <4>3. Cardinality(b + 1 .. b + z) = z
        BY <4>1, <4>2
      <4> QED BY <4>3 DEF b, z
    <3>3. Size({nw}) = nw.size
      BY <3>1, <3>2 DEF Size
    <3> QED BY <2>2, <3>3, MaxBytesIs
  <2>6. nw \in left
    <3>1. ~(Cardinality(Runs(From(S, nw))) > MaxRuns)
      BY <2>3, <2>4, MaxBytesIs
    <3>2. ~(Size(From(S, nw)) > MaxBytes)
      <4>1. Size({nw}) \in Nat
        BY <2>1, <2>3, FewerLines
      <4> QED BY <2>3, <2>5, <4>1, MaxBytesIs
    <3> QED BY <2>1, <3>1, <3>2 DEF Doomed
  <2>7. SparesNewest(S, Doomed(S, new))
    BY <2>1, <2>6 DEF SparesNewest
  <2>8. left \in SUBSET S /\ left # {} /\ Disk(left, n)
    <3>1. left \in SUBSET S
      OBVIOUS
    <3> QED BY <2>6, <3>1, FewerFiles
  <2>9. PICK o \in left : \A x \in left : x = o \/ Before(o, x)
    BY <2>8, HasEnds DEF Disk
  <2>10. o \in S /\ o # new /\ o \notin Doomed(S, new)
    <3>1. ~Before(o, o)
      BY <2>2, <2>9 DEF Before
    <3> QED BY <2>9, <3>1
  <2>11. ~(Cardinality(Runs(From(S, o))) > MaxRuns) /\ ~(Size(From(S, o)) > MaxBytes)
    BY <2>10 DEF Doomed
  <2>12. left \in SUBSET From(S, o) /\ From(S, o) \in SUBSET S
    BY <2>8, <2>9 DEF From
  <2>13. /\ Size(left) \in Nat /\ Size(left) <= Size(From(S, o))
         /\ Cardinality(Runs(left)) <= Cardinality(Runs(From(S, o)))
         /\ Cardinality(Runs(left)) \in Nat
    BY <2>12, FewerFiles, FewerLines
  <2>14. Size(From(S, o)) \in Nat /\ Cardinality(Runs(From(S, o))) \in Nat
    BY <2>12, FewerLines
  <2> HIDE DEF left
  <2>15. Cardinality(Runs(left)) <= MaxRuns /\ Size(left) <= MaxBytes
    BY <2>11, <2>13, <2>14, MaxBytesIs
  <2> QED BY <1>1, <2>7, <2>15 DEF left
<1> QED BY <1>2, <1>3

\* A segment of the newest name is added to the files.
LEMMA AddedFile ==
  ASSUME NEW S, NEW n \in Nat, Disk(S, n), NEW id \in Nat \ {0}, NEW seg \in Nat,
         NEW new, new = [run |-> id, seg |-> seg, base |-> n, size |-> 0],
         \A sg \in S : Before(sg, new)
  PROVE  Disk(S \cup {new}, n) /\ new \in SegRec
<1>1. new \in SegRec /\ new.base = n /\ new.size = 0
  BY MaxBytesIs DEF SegRec
<1>2. IsFiniteSet(S \cup {new})
  BY FS_AddElement DEF Disk
<1>3. \A sg \in S : sg.base + sg.size <= new.base /\ Before(sg, new)
  BY <1>1 DEF Disk
<1>4. InOrder(S \cup {new})
  BY <1>3 DEF InOrder, Disk
<1> QED BY <1>1, <1>2, <1>4 DEF Disk, SegRec

\* The same, as Rotate and Create do it, to a file that is listed.
LEMMA CreatedListed ==
  ASSUME FilesInv, NEW id \in Nat \ {0}, NEW seg \in Nat, NEW for,
         \A sg \in segs : Before(sg, New(id, seg)),
         Created(New(id, seg), for), HasListedName(id, seg),
         run' \in RunRec, run'.id = id, run'.seg = seg, run'.size = 0, run'.file = "open",
         top' = top
  PROVE  /\ Disk(segs, top)' /\ LiveSound' /\ PruneSound' /\ LimitsSound'
         /\ writer'.doomed \in SUBSET SegRec
<1> DEFINE new == New(id, seg)
<1>0. top \in Nat /\ Disk(segs, top) /\ segs' = segs \cup {new}
      /\ writer' = [pc |-> "prune", for |-> for, doomed |-> Doomed(segs', new)]
  BY DEF FilesInv, WriterTyped, Created, New
<1>1. new = [run |-> id, seg |-> seg, base |-> top, size |-> 0]
  BY DEF New
<1> HIDE DEF new
<1>2. \A sg \in segs : Before(sg, new)
  BY DEF new
<1>3. Disk(segs', top) /\ new \in SegRec /\ new \in segs' /\ new.size = 0
  BY <1>0, <1>1, <1>2, AddedFile
<1>4. Live' = new
  BY <1>0, <1>1 DEF Live
<1>5. \A sg \in segs' : sg = new \/ Before(sg, new)
  BY <1>0, <1>2
<1>6. /\ new \notin Doomed(segs', new)
      /\ Cardinality(Runs(segs' \ Doomed(segs', new))) <= MaxRuns
      /\ Size((segs' \ Doomed(segs', new)) \ {new}) <= MaxBytes
      /\ SparesNewest(segs', Doomed(segs', new)) /\ OldestFirst(segs', Doomed(segs', new))
  BY <1>0, <1>3, <1>5, PruneSpares
<1>7. run'.size <= top
  BY <1>0
<1>8. LiveSound'
  BY <1>3, <1>4, <1>5, <1>7 DEF LiveSound
<1>9. Doomed(segs', new) \in SUBSET SegRec
  BY <1>3 DEF Doomed, Disk
<1>10. PruneSound'
  BY <1>0, <1>4, <1>6 DEF PruneSound
<1>11. LimitsSound'
  BY <1>0, <1>4, <1>6 DEF LimitsSound
<1> QED BY <1>0, <1>3, <1>8, <1>9, <1>10, <1>11

\* To one that is not.
LEMMA CreatedStray ==
  ASSUME FilesInv, NEW id \in Nat \ {0}, NEW seg \in Nat, NEW for,
         \A sg \in segs : Before(sg, New(id, seg)),
         Created(New(id, seg), for), ~HasListedName(id, seg),
         run' \in RunRec, run'.id = id, run'.seg = seg, run'.size = 0, run'.file = "stray",
         top' = top
  PROVE  /\ Disk(segs, top)' /\ LiveSound' /\ PruneSound' /\ LimitsSound'
         /\ writer'.doomed \in SUBSET SegRec
<1> DEFINE new == New(id, seg)
<1>0. top \in Nat /\ Disk(segs, top) /\ segs' = segs
      /\ writer' = [pc |-> "prune", for |-> for, doomed |-> Doomed(segs, new)]
  BY DEF FilesInv, WriterTyped, Created, New
<1>1. new.run = id /\ new.seg = seg
  BY DEF New
<1> HIDE DEF new
<1>2. \A sg \in segs : Before(sg, new)
  BY DEF new
<1>3. /\ Cardinality(Runs(segs \ Doomed(segs, new))) <= MaxRuns
      /\ Size(segs \ Doomed(segs, new)) <= MaxBytes
      /\ SparesNewest(segs, Doomed(segs, new)) /\ OldestFirst(segs, Doomed(segs, new))
  BY <1>0, <1>2, PruneSparesListed
<1>4. LiveSound'
  <2>1. \A sg \in segs : Before(sg, Live')
    BY <1>0, <1>1, <1>2 DEF Live, Before
  <2> QED BY <1>0, <2>1 DEF LiveSound
<1>5. PruneSound' /\ LimitsSound'
  BY <1>0, <1>3 DEF PruneSound, LimitsSound
<1>6. Doomed(segs, new) \in SUBSET SegRec
  BY <1>0 DEF Doomed, Disk
<1> QED BY <1>0, <1>4, <1>5, <1>6

\* As Rotate and Create do it.
LEMMA CreatedFiles ==
  ASSUME FilesInv, NEW id \in Nat \ {0}, NEW seg \in Nat, NEW for,
         \A sg \in segs : Before(sg, New(id, seg)),
         Created(New(id, seg), for),
         run' \in RunRec, run'.id = id, run'.seg = seg, run'.size = 0,
         run'.file = FileOf(id, seg), top' = top
  PROVE  /\ Disk(segs, top)' /\ LiveSound' /\ PruneSound' /\ LimitsSound'
         /\ writer'.doomed \in SUBSET SegRec
<1>1. CASE HasListedName(id, seg)
  <2>1. run'.file = "open"
    BY <1>1 DEF FileOf
  <2> QED BY <1>1, <2>1, CreatedListed
<1>2. CASE ~HasListedName(id, seg)
  <2>1. run'.file = "stray"
    BY <1>2 DEF FileOf
  <2> QED BY <1>2, <2>1, CreatedStray
<1> QED BY <1>1, <1>2

\* A step that leaves the files and the run as they are, and prunes nothing.
LEMMA WriterTurns ==
  ASSUME FilesInv, UNCHANGED <<segs, run, top>>, writer.pc # "prune",
         writer'.pc # "prune", writer'.doomed = {}
  PROVE  Disk(segs, top)' /\ LiveSound' /\ PruneSound' /\ LimitsSound'
<1>1. Live' = Live /\ writer.doomed = {}
  BY DEF Live, FilesInv, PruneSound
<1> QED BY <1>1 DEF FilesInv, LiveSound, PruneSound, LimitsSound, Disk

\* A line is added to the file of an open run.
LEMMA GrownLive ==
  ASSUME FilesInv, run.file = "open", run.size < SegLines, top' = top + 1,
         run' = [run EXCEPT !.size = @ + 1],
         segs' = {IF run.file = "open" /\ sg.run = run.id /\ sg.seg = run.seg
                    THEN [sg EXCEPT !.size = @ + 1] ELSE sg : sg \in segs}
  PROVE  /\ Live \in segs /\ Live' = [Live EXCEPT !.size = @ + 1] /\ Live' \in SegRec
         /\ segs' = (segs \ {Live}) \cup {Live'}
         /\ \A sg \in segs : sg = Live \/ Before(sg, Live)
         /\ Live.base + Live.size = top /\ Live'.size = Live.size + 1
         /\ SameName(Live, Live') /\ Live.base = Live'.base
<1>0. /\ run \in RunRec /\ top \in Nat /\ Disk(segs, top) /\ run.size <= top
      /\ Live \in segs /\ \A sg \in segs : sg = Live \/ Before(sg, Live)
  BY DEF FilesInv, WriterTyped, LiveSound
<1>1. run.size \in 0..SegLines /\ run.size + 1 \in 0..SegLines /\ run.id \in Nat /\ run.seg \in Nat
  BY <1>0, MaxBytesIs DEF RunRec
<1>2. run'.id = run.id /\ run'.seg = run.seg /\ run'.size = run.size + 1
  BY <1>0 DEF RunRec
<1>3. top' - run'.size = top - run.size /\ top - run.size \in Nat
  BY <1>0, <1>1, <1>2
<1>4. Live' = [run |-> run.id, seg |-> run.seg, base |-> top - run.size, size |-> run.size + 1]
  BY <1>2, <1>3 DEF Live
<1>5. Live' = [Live EXCEPT !.size = @ + 1]
  BY <1>4 DEF Live
<1>6. Live.run \in Nat \ {0}
  BY <1>0 DEF Disk, SegRec
<1>7. Live' \in SegRec
  BY <1>1, <1>3, <1>4, <1>6 DEF SegRec, Live
<1>8. \A sg \in segs : sg.run = run.id /\ sg.seg = run.seg <=> sg = Live
  <2>1. \A sg \in segs : ~Before(sg, Live) => sg = Live
    BY <1>0
  <2> QED BY <1>1, <2>1 DEF Live, Before
<1>9. segs' = {IF sg = Live THEN [sg EXCEPT !.size = @ + 1] ELSE sg : sg \in segs}
  BY <1>8
<1>10. segs' = (segs \ {Live}) \cup {Live'}
  BY <1>0, <1>5, <1>9
<1>11. /\ Live.base + Live.size = top /\ Live'.size = Live.size + 1
       /\ SameName(Live, Live') /\ Live.base = Live'.base
  BY <1>0, <1>1, <1>3, <1>4 DEF Live, SameName
<1> QED BY <1>0, <1>5, <1>7, <1>10, <1>11

LEMMA GrownFiles ==
  ASSUME FilesInv, Write, run.file = "open", top' = top + 1,
         run' = [run EXCEPT !.size = @ + 1],
         segs' = {IF run.file = "open" /\ sg.run = run.id /\ sg.seg = run.seg
                    THEN [sg EXCEPT !.size = @ + 1] ELSE sg : sg \in segs}
  PROVE  Disk(segs, top)' /\ LiveSound' /\ PruneSound' /\ LimitsSound'
<1>0. /\ run \in RunRec /\ top \in Nat /\ Disk(segs, top) /\ writer \in WriterRec
      /\ writer.pc = "line" /\ writer' = [writer EXCEPT !.pc = "wake"]
      /\ writer.doomed = {} /\ run.size <= top
  BY DEF FilesInv, WriterTyped, Write, PruneSound, LiveSound
<1>1. run.size < SegLines
  BY <1>0, MaxBytesIs DEF Write, Full, RunRec
<1>2. /\ Live \in segs /\ Live' \in SegRec
      /\ segs' = (segs \ {Live}) \cup {Live'}
      /\ \A sg \in segs : sg = Live \/ Before(sg, Live)
      /\ Live.base + Live.size = top /\ Live'.size = Live.size + 1
      /\ SameName(Live, Live') /\ Live.base = Live'.base
  BY <1>1, GrownLive
<1>3. writer'.doomed = {} /\ writer'.pc = "wake" /\ run'.file = "open"
  BY <1>0 DEF WriterRec, RunRec
<1>4. Live \in SegRec /\ segs \subseteq SegRec
  BY <1>0, <1>2 DEF Disk
<1>5. \A sg \in segs \ {Live} : Before(sg, Live) /\ Before(sg, Live')
  BY <1>2, <1>4 DEF Before, SameName
<1>6. Disk(segs', top')
  <2>1. IsFiniteSet(segs')
    <3>1. IsFiniteSet(segs \ {Live})
      BY <1>0, FS_RemoveElement DEF Disk
    <3> QED BY <1>2, <3>1, FS_AddElement
  <2>2. \A sg \in segs \ {Live} : sg.base + sg.size <= Live'.base
    <3>1. \A sg \in segs \ {Live} : ~Before(Live, sg)
      BY <1>4, <1>5 DEF Before, SegRec
    <3> QED BY <1>0, <1>2, <3>1 DEF Disk, InOrder
  <2>3. InOrder(segs')
    BY <1>0, <1>2, <1>5, <2>2 DEF InOrder, Disk
  <2>4. \A sg \in segs' : sg.base + sg.size <= top'
    <3>1. Live'.base + Live'.size <= top'
      BY <1>2, <1>4 DEF SegRec
    <3>2. \A sg \in segs : sg.base \in Nat /\ sg.size \in Nat /\ sg.base + sg.size <= top
      BY <1>0, MaxBytesIs DEF Disk, SegRec
    <3> QED BY <1>0, <1>2, <3>1, <3>2
  <2> QED BY <1>2, <1>4, <2>1, <2>3, <2>4 DEF Disk
<1>7. LiveSound'
  <2>1. run'.size <= top'
    BY <1>0 DEF RunRec
  <2>2. Live' \in segs'
    BY <1>2
  <2>3. \A sg \in segs' : sg = Live' \/ Before(sg, Live')
    BY <1>2, <1>5
  <2> QED BY <2>1, <2>2, <2>3 DEF LiveSound
<1>8. PruneSound'
  BY <1>3 DEF PruneSound
<1>9. LimitsSound'
  <2>1. Cardinality(Runs(segs)) <= MaxRuns /\ Size(segs \ {Live}) <= MaxBytes
    <3>1. segs \ {} = segs
      OBVIOUS
    <3> QED BY <1>0, <3>1 DEF FilesInv, LimitsSound
  <2>2. Runs(segs') = Runs(segs)
    BY <1>2 DEF Runs, SameName
  <2>3. Live' \notin segs \ {Live}
    BY <1>4, <1>5 DEF Before, SegRec
  <2>4. segs' \ {Live'} = segs \ {Live} /\ segs' \ {} = segs'
    BY <1>2, <2>3
  <2>5. /\ Cardinality(Runs(segs' \ writer'.doomed)) <= MaxRuns
        /\ Size((segs' \ writer'.doomed) \ {Live'}) <= MaxBytes
    BY <1>3, <2>1, <2>2, <2>4
  <2> QED BY <2>5 DEF LimitsSound
<1> QED BY <1>6, <1>7, <1>8, <1>9

\* A prune takes away the oldest file there is, and not the one being written.
LEMMA PrunedOldest ==
  ASSUME FilesInv, writer.pc = "prune", writer.doomed \cap segs # {}
  PROVE  LET gone == Oldest(writer.doomed \cap segs)
         IN  /\ gone \in segs /\ gone \in writer.doomed
             /\ \E nw \in segs \ writer.doomed :
                  gone # nw /\ \A sg \in segs : sg = nw \/ Before(sg, nw)
             /\ \A sg \in segs : sg = gone \/ Before(gone, sg)
<1> DEFINE left == writer.doomed \cap segs
           gone == Oldest(left)
<1>1. Disk(segs, top) /\ left \in SUBSET segs
  BY DEF FilesInv
<1>2. Disk(left, top)
  BY <1>1, FewerFiles
<1>3. gone \in left /\ \A x \in left : x = gone \/ Before(gone, x)
  BY <1>2, EndsAre
<1> HIDE DEF gone
<1>4. \E nw \in segs \ writer.doomed :
        gone # nw /\ \A sg \in segs : sg = nw \/ Before(sg, nw)
  BY <1>3 DEF FilesInv, PruneSound, SparesNewest
<1>5. \A sg \in segs : sg = gone \/ Before(gone, sg)
  <2> SUFFICES ASSUME NEW sg \in segs, sg # gone PROVE Before(gone, sg)
    OBVIOUS
  <2>1. Before(sg, gone) => sg \in left
    BY <1>3 DEF FilesInv, PruneSound, OldestFirst
  <2>2. Before(sg, gone) => Before(gone, sg)
    BY <1>3, <2>1
  <2>3. Before(sg, gone) \/ Before(gone, sg)
    BY <1>1, <1>3 DEF Disk, InOrder
  <2> QED BY <2>2, <2>3
<1> QED BY <1>3, <1>4, <1>5 DEF gone

LEMMA PrunedFiles ==
  ASSUME FilesInv, Prune
  PROVE  Disk(segs, top)' /\ LiveSound' /\ PruneSound' /\ LimitsSound'
<1> DEFINE left == writer.doomed \cap segs
           gone == Oldest(left)
<1>0. /\ writer.pc = "prune" /\ writer \in WriterRec /\ UNCHANGED <<run, top>> /\ Live' = Live
      /\ Disk(segs, top)
  BY DEF FilesInv, WriterTyped, Prune, Live
<1>1. CASE left # {}
  <2>1. segs' = segs \ {gone} /\ writer' = writer
    BY <1>1 DEF Prune
  <2>2. gone \in writer.doomed
    BY <1>0, <1>1, PrunedOldest
  <2>2a. PICK nw \in segs \ writer.doomed :
           gone # nw /\ \A sg \in segs : sg = nw \/ Before(sg, nw)
    BY <1>0, <1>1, PrunedOldest
  <2> HIDE DEF gone
  <2>3. Disk(segs', top')
    BY <1>0, <2>1, FewerFiles
  <2>4. segs' \ writer'.doomed = segs \ writer.doomed
    BY <2>1, <2>2
  <2>5. LiveSound'
    <3>1. CASE run.file = "open"
      <4>1. Live \in segs /\ \A sg \in segs : sg = Live \/ Before(sg, Live)
        BY <3>1 DEF FilesInv, LiveSound
      <4>2. \A sg \in segs : sg.run \in Nat /\ sg.seg \in Nat
        BY <1>0 DEF Disk, SegRec
      <4>3. nw = Live
        BY <2>2a, <4>1, <4>2 DEF Before
      <4> QED BY <1>0, <2>1, <2>2a, <3>1, <4>1, <4>3 DEF FilesInv, LiveSound
    <3>2. CASE run.file # "open"
      BY <1>0, <2>1, <3>2 DEF FilesInv, LiveSound
    <3> QED BY <3>1, <3>2
  <2>6. PruneSound'
    <3>1. SparesNewest(segs', writer.doomed)
      BY <2>1, <2>2a DEF SparesNewest
    <3>2. OldestFirst(segs', writer.doomed)
      BY <1>0, <2>1 DEF FilesInv, PruneSound, OldestFirst
    <3> QED BY <1>0, <2>1, <3>1, <3>2 DEF PruneSound
  <2>7. LimitsSound'
    BY <1>0, <2>4 DEF FilesInv, LimitsSound
  <2> QED BY <2>3, <2>5, <2>6, <2>7
<1>2. CASE left = {}
  <2>1. segs' = segs /\ writer'.doomed = {} /\ writer'.pc # "prune"
    BY <1>0, <1>2 DEF Prune, WriterRec
  <2>2. segs' \ writer'.doomed = segs \ writer.doomed
    BY <1>2, <2>1
  <2>3. LiveSound' /\ Disk(segs', top')
    BY <1>0, <2>1 DEF FilesInv, LiveSound
  <2>4. PruneSound'
    BY <2>1 DEF PruneSound
  <2>5. LimitsSound'
    BY <1>0, <2>2 DEF FilesInv, LimitsSound
  <2> QED BY <2>3, <2>4, <2>5
<1> QED BY <1>1, <1>2

-----------------------------------------------------------------------------
(* The files under every step *)

LEMMA FilesInit == Init => FilesInv
<1> SUFFICES ASSUME Init PROVE FilesInv
  OBVIOUS
<1>1. Disk(segs, top)
  BY FS_EmptySet DEF Init, Disk, InOrder
<1>2. WriterTyped
  <2>1. run \in RunRec /\ writer \in WriterRec
    BY NothingIs DEF Init
  <2>2. partial \in BOOLEAN /\ removing \in BOOLEAN
    BY DEF Init
  <2>3. used \in Nat /\ top \in 0..MaxLine
    BY MaxBytesIs DEF Init
  <2> QED BY <2>1, <2>2, <2>3 DEF WriterTyped
<1>3. Capped /\ LiveSound /\ PruneSound /\ LimitsSound
  BY DEF Init, Capped, LiveSound, PruneSound, LimitsSound, NoRun, Idle
<1> QED BY <1>1, <1>2, <1>3 DEF FilesInv

\* What a process prints, and the calls that begin, end and remove.
CallerStep == Output \/ EndRun \/ Begin \/ ClearLogs

LEMMA CallerFiles ==
  ASSUME FilesInv, CallerStep
  PROVE  FilesInv'
<1>0. /\ writer.pc = "idle" /\ UNCHANGED <<segs, run, top>>
      /\ run \in RunRec /\ writer \in WriterRec /\ used \in Nat /\ top \in 0..MaxLine
      /\ partial \in BOOLEAN /\ removing \in BOOLEAN
  BY DEF CallerStep, Output, EndRun, Begin, ClearLogs, FilesInv, WriterTyped
<1>1. writer' \in WriterRec /\ writer'.pc # "prune" /\ writer'.doomed = {}
  <2>0. writer.doomed = {}
    BY <1>0 DEF FilesInv, PruneSound
  <2>1. CASE Output
    <3>1. CASE writer' = writer
      BY <1>0, <2>0, <3>1
    <3>2. CASE writer' = Idle
      BY <3>2, NothingIs
    <3>3. CASE writer' = [Idle EXCEPT !.pc = "line", !.for = "print"]
      BY <3>3 DEF Idle, WriterRec
    <3> QED BY <2>1, <3>1, <3>2, <3>3 DEF Output
  <2>2. CASE EndRun
    BY <2>2 DEF EndRun, Closing, Idle, WriterRec
  <2>3. CASE Begin
    BY <2>3 DEF Begin, Closing, Idle, WriterRec
  <2>4. CASE ClearLogs
    BY <1>0, <2>0, <2>4 DEF ClearLogs, Closing, Idle, WriterRec
  <2> QED BY <2>1, <2>2, <2>3, <2>4 DEF CallerStep
<1>2. WriterTyped'
  <2>1. used' \in Nat
    BY <1>0 DEF CallerStep, Output, EndRun, Begin, ClearLogs, Move
  <2>2. partial' \in BOOLEAN
    BY <1>0 DEF CallerStep, Output, EndRun, Begin, ClearLogs, Closing
  <2>3. removing' \in BOOLEAN
    BY <1>0 DEF CallerStep, Output, EndRun, Begin, ClearLogs
  <2> QED BY <1>0, <1>1, <2>1, <2>2, <2>3 DEF WriterTyped
<1>3. Capped'
  <2>1. CASE Output
    BY <1>0, <1>1, <2>1 DEF Output, Capped, WriterTyped, RunRec
  <2>2. CASE EndRun
    BY <1>0, <2>2 DEF EndRun, Closing, Idle, Capped, FilesInv
  <2>3. CASE Begin
    BY <1>0, <2>3 DEF Begin, Closing, Idle, Capped, FilesInv
  <2>4. CASE ClearLogs
    BY <1>0, <2>4 DEF ClearLogs, Closing, Idle, Capped, FilesInv
  <2> QED BY <2>1, <2>2, <2>3, <2>4 DEF CallerStep
<1>4. Disk(segs, top)' /\ LiveSound' /\ PruneSound' /\ LimitsSound'
  BY <1>0, <1>1, WriterTurns
<1> QED BY <1>2, <1>3, <1>4 DEF FilesInv

\* The next segment of the run comes after all the files.
LEMMA NextSegment ==
  ASSUME FilesInv, run.file \in {"open", "stray"}
  PROVE  /\ run.id \in Nat \ {0} /\ run.seg + 1 \in Nat
         /\ \A sg \in segs : Before(sg, New(run.id, run.seg + 1))
<1>1. run.id \in Nat /\ run.seg \in Nat /\ segs \subseteq SegRec
  BY DEF FilesInv, WriterTyped, RunRec, Disk
<1>2. run.id # 0 /\ \A sg \in segs : sg = Live \/ Before(sg, Live)
  BY <1>1 DEF FilesInv, LiveSound, SegRec, Live
<1>3. \A sg \in segs : Before(sg, New(run.id, run.seg + 1))
  BY <1>1, <1>2 DEF Live, Before, New, SegRec
<1> QED BY <1>1, <1>2, <1>3

LEMMA RotateFiles ==
  ASSUME FilesInv, Rotate
  PROVE  FilesInv'
<1>0. /\ writer.pc = "line" /\ UNCHANGED <<partial, removing, top, used>>
      /\ run \in RunRec /\ writer \in WriterRec /\ top \in 0..MaxLine /\ top < MaxLine
      /\ WriterTyped /\ ~partial
  BY DEF Rotate, FilesInv, WriterTyped, Capped, followers
<1>1. CASE /\ run.file \in {"open", "stray"}
           /\ run' = [run EXCEPT !.seg = @ + 1, !.size = 0, !.file = FileOf(run.id, run.seg + 1)]
           /\ Created(New(run.id, run.seg + 1), writer.for)
  <2>1. run'.id = run.id /\ run'.seg = run.seg + 1 /\ run'.size = 0
        /\ run'.file = FileOf(run.id, run.seg + 1) /\ run' \in RunRec
    <3>1. run.seg + 1 \in Nat /\ 0 \in 0..SegLines
      BY <1>0, MaxBytesIs DEF RunRec
    <3>2. FileOf(run.id, run.seg + 1) \in {"open", "stray"}
      BY DEF FileOf
    <3> QED BY <1>0, <1>1, <3>1, <3>2 DEF RunRec
  <2>2. /\ run.id \in Nat \ {0} /\ run.seg + 1 \in Nat
        /\ \A sg \in segs : Before(sg, New(run.id, run.seg + 1))
    BY <1>1, NextSegment
  <2>5. /\ Disk(segs, top)' /\ LiveSound' /\ PruneSound' /\ LimitsSound'
        /\ writer'.doomed \in SUBSET SegRec
    BY <1>0, <1>1, <2>1, <2>2, CreatedFiles
  <2>6. writer' \in WriterRec /\ writer'.pc = "prune"
    BY <1>0, <1>1, <2>5 DEF Created, WriterRec
  <2>7. WriterTyped' /\ Capped'
    BY <1>0, <2>1, <2>6 DEF WriterTyped, Capped
  <2> QED BY <2>5, <2>7 DEF FilesInv
<1>2. CASE run' = [run EXCEPT !.file = "failed"] /\ Written /\ UNCHANGED segs
  <2>1. run' \in RunRec /\ run'.file = "failed"
    BY <1>0, <1>2 DEF RunRec
  <2>2. writer' \in WriterRec /\ writer'.pc \in {"idle", "shut"} /\ writer'.doomed = {}
    BY <1>0, <1>2 DEF Written, WriterRec, FilesInv, PruneSound
  <2>3. WriterTyped' /\ Capped'
    BY <1>0, <2>1, <2>2 DEF WriterTyped, Capped
  <2>4. LiveSound' /\ PruneSound' /\ LimitsSound'
    BY <2>1, <2>2 DEF LiveSound, PruneSound, LimitsSound
  <2>5. Disk(segs, top)'
    BY <1>0, <1>2 DEF FilesInv, Disk
  <2> QED BY <2>3, <2>4, <2>5 DEF FilesInv
<1> QED BY <1>1, <1>2 DEF Rotate

LEMMA PruneFiles ==
  ASSUME FilesInv, Prune
  PROVE  FilesInv'
<1>0. /\ writer.pc = "prune" /\ UNCHANGED <<run, partial, removing, top, used>>
      /\ WriterTyped /\ Capped
  BY DEF Prune, FilesInv, followers
<1>1. writer' \in WriterRec /\ (writer' = writer \/ (writer'.pc = "line" /\ writer.for # "created")
                                \/ writer'.pc = "idle")
  BY <1>0 DEF Prune, WriterTyped, WriterRec
<1>2. WriterTyped' /\ Capped'
  BY <1>0, <1>1 DEF WriterTyped, Capped
<1> QED BY <1>2, PrunedFiles DEF FilesInv

LEMMA WriteFiles ==
  ASSUME FilesInv, Write
  PROVE  FilesInv'
<1>0. /\ writer.pc = "line" /\ UNCHANGED <<partial, removing, used>> /\ ~Full
      /\ writer' = [writer EXCEPT !.pc = "wake"] /\ WriterTyped /\ top < MaxLine /\ ~partial
      /\ writer.doomed = {}
  BY DEF Write, FilesInv, followers, Capped, PruneSound
<1>1. writer' \in WriterRec /\ writer'.pc = "wake" /\ writer'.doomed = {}
  BY <1>0 DEF WriterTyped, WriterRec
<1>2. Capped'
  BY <1>0, <1>1 DEF Capped
<1>3. CASE UNCHANGED <<top, run, segs>>
  <2>1. WriterTyped'
    BY <1>0, <1>1, <1>3 DEF WriterTyped
  <2> QED BY <1>0, <1>1, <1>2, <1>3, <2>1, WriterTurns DEF FilesInv
<1>4. CASE /\ top' = top + 1 /\ run' = [run EXCEPT !.size = @ + 1]
           /\ segs' = {IF run.file = "open" /\ sg.run = run.id /\ sg.seg = run.seg
                         THEN [sg EXCEPT !.size = @ + 1] ELSE sg : sg \in segs}
  <2>1. run.size < SegLines /\ run \in RunRec
    BY <1>0, MaxBytesIs DEF WriterTyped, RunRec, Full
  <2>2. run' \in RunRec /\ run'.file = run.file
    BY <1>4, <2>1, MaxBytesIs DEF RunRec
  <2>3. WriterTyped'
    <3>1. top' \in 0..MaxLine
      BY <1>0, <1>4, MaxBytesIs DEF WriterTyped
    <3> QED BY <1>0, <1>1, <2>2, <3>1 DEF WriterTyped
  <2>4. CASE run.file = "open"
    BY <1>2, <1>4, <2>3, <2>4, GrownFiles DEF FilesInv
  <2>5. CASE run.file # "open"
    <3>1. segs' = segs
      BY <1>4, <2>5
    <3>2. Disk(segs', top')
      <4>1. Disk(segs, top) /\ top \in Nat /\ top' = top + 1
        BY <1>0, <1>4 DEF FilesInv, WriterTyped
      <4>2. \A sg \in segs : sg.base + sg.size \in Nat
        BY <4>1, MaxBytesIs DEF Disk, SegRec
      <4>3. \A sg \in segs : sg.base + sg.size <= top'
        BY <4>1, <4>2 DEF Disk
      <4> QED BY <3>1, <4>1, <4>3 DEF Disk
    <3>3. PruneSound' /\ LimitsSound'
      BY <1>0, <1>1, <2>2, <2>5, <3>1 DEF PruneSound, FilesInv, LimitsSound
    <3>4. LiveSound'
      <4>1. run'.id = run.id /\ run'.seg = run.seg
        BY <1>4, <2>1 DEF RunRec
      <4>2. \A sg \in segs : Before(sg, Live) => Before(sg, Live')
        BY <4>1 DEF Live, Before
      <4> QED BY <2>2, <2>5, <3>1, <4>1, <4>2 DEF FilesInv, LiveSound
    <3> QED BY <1>2, <2>3, <3>2, <3>3, <3>4 DEF FilesInv
  <2> QED BY <2>4, <2>5
<1> QED BY <1>3, <1>4 DEF Write

LEMMA WakeFiles ==
  ASSUME FilesInv, Wake \/ Shut
  PROVE  FilesInv'
<1>0. WriterTyped /\ Capped /\ UNCHANGED <<segs, partial, top, used>> /\ writer.pc \in {"wake", "shut"}
      /\ writer.doomed = {} /\ ~partial
  BY DEF Wake, Shut, FilesInv, PruneSound, Capped, followers
<1>1. writer' \in WriterRec /\ writer'.pc \in {"idle", "shut", "create"} /\ writer'.doomed = {}
  BY <1>0 DEF Wake, Shut, Written, Idle, WriterTyped, WriterRec
<1>2. /\ run' \in RunRec /\ removing' \in BOOLEAN
      /\ run' = run \/ run'.file = "closed"
  <2>1. CASE Wake
    BY <1>0, <2>1 DEF Wake, WriterTyped
  <2>2. CASE Shut
    BY <1>0, <2>2, NothingIs DEF Shut, WriterTyped
  <2> QED BY <2>1, <2>2
<1>3. WriterTyped' /\ Capped'
  BY <1>0, <1>1, <1>2 DEF WriterTyped, Capped
<1>4. CASE run' = run
  BY <1>0, <1>1, <1>3, <1>4, WriterTurns DEF FilesInv
<1>5. CASE run'.file = "closed"
  <2>1. LiveSound' /\ PruneSound' /\ LimitsSound'
    BY <1>1, <1>5 DEF LiveSound, PruneSound, LimitsSound
  <2> QED BY <1>0, <1>3, <2>1 DEF FilesInv, Disk
<1> QED BY <1>2, <1>4, <1>5

\* The new run has a number above those of all the files.
LEMMA NextRun ==
  ASSUME FilesInv
  PROVE  LET id == IF segs = {} THEN 1 ELSE Newest(segs).run + 1
         IN  /\ id \in Nat \ {0}
             /\ \A sg \in segs : Before(sg, New(id, 0))
<1>1. Disk(segs, top)
  BY DEF FilesInv
<1>2. CASE segs = {}
  BY <1>2
<1>3. CASE segs # {}
  <2> DEFINE new == Newest(segs)
  <2>1. new \in segs /\ \A sg \in segs : sg = new \/ Before(sg, new)
    BY <1>1, <1>3, EndsAre
  <2> HIDE DEF new
  <2>2. new.run + 1 \in Nat \ {0}
    BY <1>1, <2>1 DEF Disk, SegRec
  <2>3. \A sg \in segs : sg.run < new.run + 1
    BY <1>1, <2>1 DEF Disk, SegRec, Before
  <2>4. \A sg \in segs : Before(sg, New(new.run + 1, 0))
    BY <2>3 DEF Before, New
  <2> QED BY <1>3, <2>2, <2>4 DEF new
<1> QED BY <1>2, <1>3

LEMMA CreateFiles ==
  ASSUME FilesInv, Create
  PROVE  FilesInv'
<1> DEFINE id == IF segs = {} THEN 1 ELSE Newest(segs).run + 1
<1>0. /\ run' = [id |-> id, seg |-> 0, size |-> 0, file |-> FileOf(id, 0)]
      /\ Created(New(id, 0), "created") /\ writer.pc = "create"
      /\ UNCHANGED <<partial, removing, top, used>> /\ WriterTyped /\ Capped
  BY DEF Create, FilesInv, followers
<1>1. id \in Nat \ {0} /\ \A sg \in segs : Before(sg, New(id, 0))
  BY NextRun
<1> HIDE DEF id
<1>2. run' \in RunRec /\ run'.id = id /\ run'.seg = 0 /\ run'.size = 0
      /\ run'.file = FileOf(id, 0)
  BY <1>0, <1>1, MaxBytesIs DEF RunRec, FileOf
<1>3. /\ Disk(segs, top)' /\ LiveSound' /\ PruneSound' /\ LimitsSound'
      /\ writer'.doomed \in SUBSET SegRec
  BY <1>0, <1>1, <1>2, CreatedFiles
<1>4. writer' \in WriterRec /\ writer'.pc = "prune" /\ writer'.for = "created"
  BY <1>0, <1>3 DEF Created, WriterRec
<1>5. WriterTyped' /\ Capped'
  BY <1>0, <1>2, <1>4 DEF WriterTyped, Capped
<1> QED BY <1>3, <1>5 DEF FilesInv

LEMMA UnlinkFiles ==
  ASSUME FilesInv, Unlink
  PROVE  FilesInv'
<1>0. /\ segs' = {} /\ removing' = FALSE /\ UNCHANGED <<partial, writer, top, used>>
      /\ run' = [run EXCEPT !.file = IF @ \in {"open", "stray"} THEN "unlinked" ELSE @]
      /\ WriterTyped /\ Capped
  BY DEF Unlink, FilesInv
<1>1. run' \in RunRec /\ run'.file \notin {"open", "stray"} /\ (run'.file = "closed" <=> run.file = "closed")
  BY <1>0 DEF WriterTyped, RunRec
<1>2. WriterTyped' /\ Capped'
  BY <1>0, <1>1 DEF WriterTyped, Capped
<1>3. Disk(segs', top')
  BY <1>0, FS_EmptySet DEF Disk, InOrder
<1>4. LiveSound' /\ LimitsSound'
  BY <1>1 DEF LiveSound, LimitsSound
<1>5. PruneSound'
  BY <1>0 DEF PruneSound, FilesInv, SparesNewest, OldestFirst
<1> QED BY <1>2, <1>3, <1>4, <1>5 DEF FilesInv

LEMMA RestartFiles ==
  ASSUME FilesInv, Restart
  PROVE  FilesInv'
<1>0. run' = NoRun /\ partial' = FALSE /\ writer' = Idle /\ removing' = FALSE
      /\ UNCHANGED <<segs, top>> /\ used' = used + 1 /\ WriterTyped
  BY DEF Restart, Move, FilesInv
<1>1. WriterTyped'
  <2>1. run' \in RunRec /\ writer' \in WriterRec
    BY <1>0, NothingIs
  <2>2. partial' \in BOOLEAN /\ removing' \in BOOLEAN
    BY <1>0
  <2>3. used' \in Nat /\ top' \in 0..MaxLine
    BY <1>0 DEF WriterTyped
  <2> QED BY <2>1, <2>2, <2>3 DEF WriterTyped
<1>2. Capped' /\ LiveSound' /\ PruneSound' /\ LimitsSound'
  BY <1>0 DEF Capped, LiveSound, PruneSound, LimitsSound, NoRun, Idle
<1> QED BY <1>0, <1>1, <1>2 DEF FilesInv, Disk

\* A step of a follower leaves the files alone.
FollowStep(f) ==
  \/ \E n \in {0, Backlog} : Tail0(f, n)
  \/ TailRead(f) \/ Emit(f) \/ Take(f) \/ List(f) \/ ReadSeg(f) \/ Woken(f)
  \/ Leave(f)

LEMMA FollowFiles ==
  ASSUME NEW f \in Follower, FollowStep(f)
  PROVE  UNCHANGED <<segs, run, partial, writer, removing, top, used>>
BY DEF FollowStep, Tail0, TailRead, Emit, Take, List, ReadSeg, Woken, Leave

LEMMA SameFiles ==
  ASSUME FilesInv, UNCHANGED <<segs, run, partial, writer, removing, top, used>>
  PROVE  FilesInv'
<1>1. Live' = Live
  BY DEF Live
<1> QED BY <1>1 DEF FilesInv, Disk, WriterTyped, Capped, LiveSound, PruneSound, LimitsSound

LEMMA FilesStep == FilesInv /\ [Next]_vars => FilesInv'
<1> SUFFICES ASSUME FilesInv, [Next]_vars PROVE FilesInv'
  OBVIOUS
<1>1. CASE CallerStep
  BY <1>1, CallerFiles
<1>2. CASE \E f \in Follower : FollowStep(f)
  BY <1>2, FollowFiles, SameFiles
<1>3. CASE UNCHANGED vars
  BY <1>3, SameFiles DEF vars
<1> QED BY <1>1, <1>2, <1>3, RotateFiles, PruneFiles, WriteFiles, WakeFiles, CreateFiles,
           UnlinkFiles, RestartFiles DEF Next, CallerStep, FollowStep

-----------------------------------------------------------------------------
(* A follower, whatever the writer does *)

\* Names are numbers.
LEMMA NamesTyped ==
  ASSUME NEW r \in FollowerRec, NEW S, NEW n, Disk(S, n)
  PROVE  /\ r.cur.run \in Nat /\ r.cur.seg \in Nat /\ r.cur.off \in Nat
         /\ \A l \in r.list : l.run \in Nat \ {0} /\ l.seg \in Nat /\ l.base \in Nat /\ l.size \in Nat
         /\ \A l \in S : l.run \in Nat \ {0} /\ l.seg \in Nat /\ l.base \in Nat /\ l.size \in Nat
<1>1. \A l \in SegRec : l.run \in Nat \ {0} /\ l.seg \in Nat /\ l.base \in Nat /\ l.size \in Nat
  BY MaxBytesIs DEF SegRec
<1>2. r.list \subseteq SegRec /\ r.cur \in [run : Nat, seg : Nat, off : Nat]
  BY DEF FollowerRec
<1> QED BY <1>1, <1>2 DEF Disk

LEMMA ShapeGrows ==
  ASSUME NEW r, NEW a, NEW n \in Nat, NEW m \in Nat, n <= m, Shape(r, a, n)
  PROVE  Shape(r, a, m)
<1>1. a \in 0..m /\ \A k \in 1..Len(r.buf) : r.buf[k] \in 1..m
  BY DEF Shape
<1>2. Disk(r.list, m)
  <2>1. r \in FollowerRec /\ Disk(r.list, n)
    BY DEF Shape
  <2>2. \A l \in r.list : l.base \in Nat /\ l.size \in Nat /\ l.base + l.size <= n
    <3>1. \A l \in r.list : l.base \in Nat /\ l.size \in Nat
      BY <2>1, NamesTyped
    <3> QED BY <2>1, <3>1 DEF Disk
  <2>3. \A l \in r.list : l.base + l.size <= m
    BY <2>2
  <2> QED BY <2>1, <2>3 DEF Disk
<1> QED BY <1>1, <1>2 DEF Shape

\* A file that is not the newest goes.
LEMMA SoundPruned ==
  ASSUME NEW S, NEW n \in Nat, Disk(S, n), NEW r, NEW a, Shape(r, a, n), Sound(r, a, S),
         NEW gone \in S, NEW live \in S, gone # live,
         \A sg \in S : sg = live \/ Before(sg, live)
  PROVE  Sound(r, a, S \ {gone})
<1> DEFINE T == S \ {gone}
<1>0. live \in T /\ \A sg \in T : sg \in S
  OBVIOUS
<1> HIDE DEF T
<1>1. r \in FollowerRec
  BY DEF Shape
<1>2. /\ r.cur.run \in Nat /\ r.cur.seg \in Nat
      /\ \A l \in r.list : l.run \in Nat /\ l.seg \in Nat
      /\ \A l \in S : l.run \in Nat /\ l.seg \in Nat
  BY <1>1, NamesTyped
<1>3. /\ \A l \in r.list : (\E sg \in S : ~Before(sg, l)) => ~Before(live, l)
      /\ (\E sg \in S : ~Before(sg, r.cur)) => ~Before(live, r.cur)
  BY <1>2 DEF Before
<1>4. Listed(r.list, S) => Listed(r.list, T)
  BY <1>0, <1>3 DEF Listed
<1>5. Reads(r, S) => Reads(r, T)
  BY <1>0 DEF Reads
<1>6. Starts(r, S) => Starts(r, T)
  BY <1>0 DEF Starts
<1>7. Tails(r, a, S) => Tails(r, a, T)
  BY <1>0 DEF Tails
<1>8. Steady(r, a, S) => Steady(r, a, T)
  BY <1>0, <1>3 DEF Steady
<1> QED BY <1>4, <1>5, <1>6, <1>7, <1>8 DEF Sound, T

\* A file of the newest name is created.
LEMMA SoundAdded ==
  ASSUME NEW S, NEW n \in Nat, Disk(S, n), NEW r, NEW a, Shape(r, a, n), Sound(r, a, S),
         NEW new \in SegRec, new.base = n, new.size = 0,
         \A sg \in S : Before(sg, new)
  PROVE  Sound(r, a, S \cup {new})
<1> DEFINE T == S \cup {new}
<1>0. new \in T /\ (\A sg \in S : sg \in T) /\ \A sg \in T : sg \in S \/ sg = new
  OBVIOUS
<1> HIDE DEF T
<1>1. r \in FollowerRec
  BY DEF Shape
<1>2. /\ r.cur.run \in Nat /\ r.cur.seg \in Nat
      /\ \A l \in r.list : l.run \in Nat /\ l.seg \in Nat
      /\ \A l \in S : l.run \in Nat /\ l.seg \in Nat
      /\ new.run \in Nat \ {0} /\ new.seg \in Nat
  BY <1>1, NamesTyped DEF SegRec
<1>3. Held(new) = {}
  BY DEF Held, SegRec
<1>4. \A l \in r.list : (\E sg \in S : ~Before(sg, l)) =>
        Before(l, new) /\ ~Before(new, l) /\ ~SameName(new, l)
  BY <1>2 DEF Before, SameName
<1>5. r.cur.run = 0 \/ (\E sg \in S : ~Before(sg, r.cur)) => ~SameName(new, r.cur)
  BY <1>2 DEF Before, SameName
<1>6. \A l \in r.list : l.base + l.size <= n
  BY DEF Shape, Disk
<1>7. Listed(r.list, S) => Listed(r.list, T)
  <2> SUFFICES ASSUME Listed(r.list, S) PROVE Listed(r.list, T)
    OBVIOUS
  <2>1. \A l \in r.list : \E sg \in T : ~Before(sg, l)
    BY <1>0 DEF Listed
  <2>2. \A l \in r.list : Before(l, new) /\ ~Before(new, l) /\ ~SameName(new, l)
    BY <1>4 DEF Listed
  <2> QED BY <1>0, <1>6, <2>1, <2>2 DEF Listed
<1>8. Listed(r.list, S) /\ Reads(r, S) => Reads(r, T)
  BY <1>0, <1>4 DEF Reads, Listed
<1>9. Listed(r.list, S) /\ Starts(r, S) => Starts(r, T)
  BY <1>0, <1>4 DEF Starts, Listed
<1>10. Listed(r.list, S) /\ Tails(r, a, S) => Tails(r, a, T)
  BY <1>0, <1>3, <1>4 DEF Tails, Listed
<1>11. Steady(r, a, S) => Steady(r, a, T)
  BY <1>0, <1>3, <1>5 DEF Steady
<1> QED BY <1>7, <1>8, <1>9, <1>10, <1>11 DEF Sound, T

\* A line is written to the newest file.
LEMMA SoundGrown ==
  ASSUME NEW S, NEW n \in Nat, Disk(S, n), NEW r, NEW a, Shape(r, a, n), Sound(r, a, S),
         NEW live \in S, NEW grown \in SegRec, SameName(live, grown),
         live.base = grown.base, grown.size = live.size + 1, live.base + live.size = n,
         \A sg \in S : sg = live \/ Before(sg, live)
  PROVE  Sound(r, a, (S \ {live}) \cup {grown})
<1> DEFINE T == (S \ {live}) \cup {grown}
<1>0. grown \in T /\ \A sg \in T : (sg \in S /\ sg # live) \/ sg = grown
  OBVIOUS
<1>0a. \A sg \in S : sg = live \/ sg \in T
  OBVIOUS
<1> HIDE DEF T
<1>1. r \in FollowerRec
  BY DEF Shape
<1>2. /\ r.cur.run \in Nat /\ r.cur.seg \in Nat /\ r.cur.off \in Nat
      /\ \A l \in r.list : l.run \in Nat /\ l.seg \in Nat /\ l.base \in Nat /\ l.size \in Nat
      /\ \A l \in S : l.run \in Nat \ {0} /\ l.seg \in Nat /\ l.base \in Nat /\ l.size \in Nat
      /\ grown.run = live.run /\ grown.seg = live.seg
  BY <1>1, NamesTyped DEF SameName
<1>3. /\ \A c : Before(c, live) <=> Before(c, grown)
      /\ \A c : Before(live, c) <=> Before(grown, c)
      /\ \A c : SameName(live, c) <=> SameName(grown, c)
      /\ \A c : SameName(c, live) <=> SameName(c, grown)
  BY <1>2 DEF Before, SameName
<1>4. \A l \in r.list : (\E sg \in S : ~Before(sg, l)) => ~Before(live, l)
  BY <1>2 DEF Before
<1>5. (\E sg \in S : ~Before(sg, r.cur)) => ~Before(live, r.cur)
  BY <1>2 DEF Before
<1>6. \A y \in Held(grown) : y \in Held(live) \/ y = n + 1
  BY <1>2 DEF Held
<1>7. Listed(r.list, S) => Listed(r.list, T)
  <2> SUFFICES ASSUME Listed(r.list, S) PROVE Listed(r.list, T)
    OBVIOUS
  <2>1. \A l \in r.list : ~Before(live, l) /\ ~Before(grown, l)
    BY <1>3, <1>4 DEF Listed
  <2>2. \A l \in r.list : \E sg \in T : ~Before(sg, l)
    BY <1>0, <2>1
  <2>3. ASSUME NEW l \in r.list, SameName(grown, l)
        PROVE  /\ grown.base = l.base /\ l.size <= grown.size
               /\ \A m \in r.list : m = l \/ Before(m, l)
    <3>1. live.base = l.base /\ l.size <= live.size
      BY <1>3, <2>3 DEF Listed
    <3>2. \A m \in r.list : ~Before(l, m)
      BY <1>2, <2>1, <2>3 DEF Before, SameName
    <3>3. \A m \in r.list : m = l \/ Before(m, l) \/ Before(l, m)
      BY DEF Shape, Disk, InOrder
    <3> QED BY <1>2, <3>1, <3>2, <3>3
  <2>4. \A l \in r.list : Before(l, grown) => l.base + l.size <= grown.base
    BY <1>3 DEF Listed
  <2> QED BY <1>0, <2>1, <2>2, <2>3, <2>4 DEF Listed
<1>8. Listed(r.list, S) /\ Reads(r, S) => Reads(r, T)
  <2> SUFFICES ASSUME Listed(r.list, S), Reads(r, S) PROVE Reads(r, T)
    OBVIOUS
  <2>1. \A l \in r.list : ~Before(grown, l)
    BY <1>3, <1>4 DEF Listed
  <2> QED BY <1>0, <2>1 DEF Reads
<1>9. Starts(r, S) => Starts(r, T)
  <2> SUFFICES ASSUME Starts(r, S) PROVE Starts(r, T)
    OBVIOUS
  <2>1. IsListed(r.list, live) <=> IsListed(r.list, grown)
    BY <1>3 DEF IsListed
  <2>2. \A l \in r.list : Before(l, grown) =>
           IsListed(r.list, grown) \/ \A m \in r.list : Before(m, grown)
    BY <1>3, <2>1 DEF Starts
  <2> QED BY <1>0, <2>2 DEF Starts
<1>10. ASSUME r.cur.run = 0 \/ ~Before(live, r.cur),
              \A sg \in S : SameName(sg, r.cur) => r.cur.off <= sg.size
       PROVE  Ahead(grown, n + 1, r.cur)
  <2>1. CASE SameName(live, r.cur)
    <3>1. SameName(grown, r.cur) /\ r.cur.off <= live.size
      BY <1>3, <1>10, <2>1
    <3> QED BY <1>2, <3>1 DEF Ahead
  <2>2. CASE ~SameName(live, r.cur)
    <3>1. Before(r.cur, live)
      <4>1. live.run \in Nat \ {0} /\ live.seg \in Nat
        BY <1>2
      <4>2. r.cur.run = 0 => Before(r.cur, live)
        BY <4>1 DEF Before
      <4>3. ~Before(live, r.cur) => Before(r.cur, live)
        BY <1>2, <2>2, <4>1 DEF Before, SameName
      <4> QED BY <1>10, <4>2, <4>3
    <3>2. Before(r.cur, grown)
      BY <1>3, <3>1
    <3> QED BY <3>2 DEF Ahead
  <2> QED BY <2>1, <2>2
<1>11. \A y : y \in Held(live) => (Ahead(live, y, r.cur) <=> Ahead(grown, y, r.cur))
  BY <1>3 DEF Ahead
<1>12. Steady(r, a, S) => Steady(r, a, T)
  <2> SUFFICES ASSUME Steady(r, a, S) PROVE Steady(r, a, T)
    OBVIOUS
  <2>1. Ahead(grown, n + 1, r.cur)
    <3>1. r.cur.run = 0 \/ ~Before(live, r.cur)
      BY <1>5 DEF Steady
    <3>2. \A sg \in S : SameName(sg, r.cur) => r.cur.off <= sg.size
      BY DEF Steady
    <3> QED BY <1>10, <3>1, <3>2
  <2>2. Reach(r, a) \in Nat /\ Reach(r, a) <= n
    BY <1>1 DEF Shape, Reach, FollowerRec
  <2>3. \A y \in Held(grown) : /\ a < y /\ y <= Reach(r, a) => y \in Holds(r)
                               /\ y > Reach(r, a) <=> Ahead(grown, y, r.cur)
    <3>1. \A y \in Held(live) : /\ a < y /\ y <= Reach(r, a) => y \in Holds(r)
                                /\ y > Reach(r, a) <=> Ahead(grown, y, r.cur)
      BY <1>11 DEF Steady
    <3> QED BY <1>6, <2>1, <2>2, <3>1
  <2>4. r.cur.run # 0 => ~Before(grown, r.cur)
    BY <1>3, <1>5 DEF Steady
  <2>5. SameName(grown, r.cur) => r.cur.off <= grown.size
    BY <1>2, <1>3 DEF Steady
  <2> QED BY <1>0, <2>3, <2>4, <2>5 DEF Steady
<1>13. Listed(r.list, S) /\ Tails(r, a, S) /\ Steady(r, a, S) /\ r.cur.run # 0 => Tails(r, a, T)
  <2> SUFFICES ASSUME Listed(r.list, S), Tails(r, a, S), Steady(r, a, S), r.cur.run # 0
               PROVE  Tails(r, a, T)
    OBVIOUS
  <2>2. ~Before(live, r.cur)
    BY <1>5 DEF Steady
  <2>1. Ahead(grown, n + 1, r.cur)
    <3>1. \A sg \in S : SameName(sg, r.cur) => r.cur.off <= sg.size
      BY DEF Steady
    <3> QED BY <1>10, <2>2, <3>1
  <2>3. \A l \in r.list : ~SameName(grown, l)
    BY <1>2, <2>2 DEF Tails, Before, SameName
  <2>4. IsListed(r.list, live) <=> IsListed(r.list, grown)
    BY <1>3 DEF IsListed
  <2>5. ASSUME NEW l \in r.list, Before(l, grown), ~IsListed(r.list, grown), NEW y \in Held(grown)
        PROVE  Ahead(grown, y, r.cur) \/ y \in Holds(r)
    <3>1. y \in Held(live) => Ahead(live, y, r.cur) \/ y \in Holds(r)
      BY <1>3, <2>4, <2>5 DEF Tails
    <3> QED BY <1>6, <1>11, <2>1, <3>1
  <2> QED BY <1>0, <2>3, <2>5 DEF Tails
<1> QED
  <2>1. r.pc = "tail" /\ r.cur.run # 0 => Steady(r, a, S) /\ Listed(r.list, S) /\ Tails(r, a, S)
    BY DEF Sound
  <2> QED BY <1>7, <1>8, <1>9, <1>12, <1>13, <2>1 DEF Sound, T


-----------------------------------------------------------------------------
(* The followers under the steps of the writer *)

\* A step that leaves the followers alone.
LEMMA FollowersLeft ==
  ASSUME FollowersInv, UNCHANGED followers, top \in Nat, top' \in Nat, top <= top',
         \A f \in Follower \ lost :
           Shape(rd[f], at[f], top) /\ Sound(rd[f], at[f], segs) => Sound(rd[f], at[f], segs')
  PROVE  FollowersInv'
<1>0. rd' = rd /\ at' = at /\ lost' = lost
  BY DEF followers
<1>1. ASSUME NEW f \in Follower
      PROVE  Shape(rd[f], at[f], top') /\ (f \in lost => rd[f].pc # "off")
             /\ (f \notin lost => Sound(rd[f], at[f], segs'))
  <2>1. Shape(rd[f], at[f], top) /\ (f \in lost => rd[f].pc # "off")
        /\ (f \notin lost => Sound(rd[f], at[f], segs))
    BY DEF FollowersInv
  <2>2. Shape(rd[f], at[f], top')
    BY <2>1, ShapeGrows
  <2> QED BY <2>1, <2>2
<1> QED BY <1>0, <1>1 DEF FollowersInv

LEMMA CallerFollowers ==
  ASSUME FilesInv, FollowersInv, CallerStep
  PROVE  FollowersInv'
<1>1. UNCHANGED <<segs, top, followers>> /\ top \in Nat
  BY DEF CallerStep, Output, EndRun, Begin, ClearLogs, FilesInv, WriterTyped
<1> QED BY <1>1, FollowersLeft

LEMMA CreatedFollowers ==
  ASSUME FilesInv, FollowersInv, NEW id \in Nat \ {0}, NEW seg \in Nat, NEW for,
         \A sg \in segs : Before(sg, New(id, seg)), Created(New(id, seg), for),
         UNCHANGED <<followers, top>>
  PROVE  FollowersInv'
<1> DEFINE new == New(id, seg)
<1>0. CASE segs' = segs
  <2>1. top \in Nat /\ Disk(segs, top)
    BY DEF FilesInv, WriterTyped
  <2> QED BY <1>0, <2>1, FollowersLeft
<1>1. CASE segs' # segs
  <2>1. top \in Nat /\ Disk(segs, top) /\ segs' = segs \cup {new} /\ \A sg \in segs : Before(sg, new)
    BY <1>1 DEF FilesInv, WriterTyped, Created
  <2>2. new = [run |-> id, seg |-> seg, base |-> top, size |-> 0]
    BY DEF New
  <2> HIDE DEF new
  <2>3. new \in SegRec /\ new.base = top /\ new.size = 0
    BY <2>1, <2>2, MaxBytesIs DEF SegRec
  <2>4. \A f \in Follower \ lost :
          Shape(rd[f], at[f], top) /\ Sound(rd[f], at[f], segs) => Sound(rd[f], at[f], segs')
    BY <2>1, <2>3, SoundAdded
  <2> QED BY <2>1, <2>4, FollowersLeft
<1> QED BY <1>0, <1>1

LEMMA RotateFollowers ==
  ASSUME FilesInv, FollowersInv, Rotate \/ Create
  PROVE  FollowersInv'
<1>0. top \in Nat /\ UNCHANGED <<followers, top>> /\ Disk(segs, top) /\ run \in RunRec
  BY DEF Rotate, Create, FilesInv, WriterTyped
<1>1. CASE Create
  <2> DEFINE id == IF segs = {} THEN 1 ELSE Newest(segs).run + 1
  <2>1. Created(New(id, 0), "created")
    BY <1>1 DEF Create
  <2>2. id \in Nat \ {0} /\ \A sg \in segs : Before(sg, New(id, 0))
    BY NextRun
  <2> HIDE DEF id
  <2> QED BY <1>0, <2>1, <2>2, CreatedFollowers
<1>2. ASSUME run.file \in {"open", "stray"}, Created(New(run.id, run.seg + 1), writer.for)
      PROVE  FollowersInv'
  BY <1>0, <1>2, NextSegment, CreatedFollowers
<1>3. CASE UNCHANGED segs
  BY <1>0, <1>3, FollowersLeft
<1> QED BY <1>1, <1>2, <1>3 DEF Rotate

LEMMA PruneFollowers ==
  ASSUME FilesInv, FollowersInv, Prune
  PROVE  FollowersInv'
<1> DEFINE left == writer.doomed \cap segs
           gone == Oldest(left)
<1>0. top \in Nat /\ UNCHANGED <<followers, top>> /\ Disk(segs, top) /\ writer.pc = "prune"
  BY DEF Prune, FilesInv, WriterTyped
<1>1. CASE left = {}
  <2>1. UNCHANGED segs
    BY <1>1 DEF Prune
  <2> QED BY <1>0, <2>1, FollowersLeft
<1>2. CASE left # {}
  <2>1. segs' = segs \ {gone}
    BY <1>2 DEF Prune
  <2>2. gone \in segs
    BY <1>0, <1>2, PrunedOldest
  <2>3. PICK nw \in segs : gone # nw /\ \A sg \in segs : sg = nw \/ Before(sg, nw)
    BY <1>0, <1>2, PrunedOldest
  <2> HIDE DEF gone
  <2>4. \A f \in Follower \ lost :
          Shape(rd[f], at[f], top) /\ Sound(rd[f], at[f], segs) => Sound(rd[f], at[f], segs')
    BY <1>0, <2>1, <2>2, <2>3, SoundPruned
  <2> QED BY <1>0, <2>4, FollowersLeft
<1> QED BY <1>1, <1>2

\* What a line that is written does to the files.
LEMMA WrittenLine ==
  ASSUME FilesInv, Write
  PROVE  \/ UNCHANGED <<segs, top, run>>
         \/ top' = top + 1 /\ segs' = segs
         \/ /\ top' = top + 1 /\ run.file = "open"
            /\ Live \in segs /\ Live' \in SegRec /\ segs' = (segs \ {Live}) \cup {Live'}
            /\ \A sg \in segs : sg = Live \/ Before(sg, Live)
            /\ Live.base + Live.size = top /\ Live'.size = Live.size + 1
            /\ SameName(Live, Live') /\ Live.base = Live'.base
<1>1. CASE UNCHANGED <<top, run, segs>>
  BY <1>1
<1>2. CASE /\ top' = top + 1 /\ run' = [run EXCEPT !.size = @ + 1]
           /\ segs' = {IF run.file = "open" /\ sg.run = run.id /\ sg.seg = run.seg
                         THEN [sg EXCEPT !.size = @ + 1] ELSE sg : sg \in segs}
  <2>1. run.size < SegLines
    BY MaxBytesIs DEF Write, Full, FilesInv, WriterTyped, RunRec
  <2>2. CASE run.file = "open"
    BY <1>2, <2>1, <2>2, GrownLive
  <2>3. CASE run.file # "open"
    BY <1>2, <2>3
  <2> QED BY <2>2, <2>3
<1> QED BY <1>1, <1>2 DEF Write

LEMMA WriteFollowers ==
  ASSUME FilesInv, FollowersInv, Write
  PROVE  FollowersInv'
<1>0. top \in Nat /\ UNCHANGED followers /\ Disk(segs, top)
  BY DEF Write, FilesInv, WriterTyped
<1>1. CASE UNCHANGED <<segs, top>> \/ (top' = top + 1 /\ segs' = segs)
  BY <1>0, <1>1, FollowersLeft
<1>2. ASSUME NEW live \in segs, NEW grown \in SegRec,
             top' = top + 1, segs' = (segs \ {live}) \cup {grown},
             \A sg \in segs : sg = live \/ Before(sg, live),
             live.base + live.size = top, grown.size = live.size + 1,
             SameName(live, grown), live.base = grown.base
      PROVE  FollowersInv'
  <2>1. \A f \in Follower \ lost :
          Shape(rd[f], at[f], top) /\ Sound(rd[f], at[f], segs) => Sound(rd[f], at[f], segs')
    BY <1>0, <1>2, SoundGrown
  <2> QED BY <1>0, <1>2, <2>1, FollowersLeft
<1> QED BY <1>1, <1>2, WrittenLine

\* Nothing but that it is woken changes of a follower.
LEMMA SoundAwake ==
  ASSUME NEW r, NEW a, NEW n, NEW S, NEW w \in BOOLEAN, NEW woken,
         woken = [r EXCEPT !.awake = w], Shape(r, a, n)
  PROVE  /\ Shape(woken, a, n) /\ woken.pc = r.pc
         /\ Sound(r, a, S) => Sound(woken, a, S)
<1>1. /\ woken \in FollowerRec
      /\ woken.pc = r.pc /\ woken.cur = r.cur /\ woken.list = r.list /\ woken.buf = r.buf
      /\ woken.want = r.want
  BY DEF Shape, FollowerRec
<1>2. Shape(woken, a, n)
  BY <1>1 DEF Shape
<1>3. Reach(woken, a) = Reach(r, a) /\ Holds(woken) = Holds(r)
  BY <1>1 DEF Reach, Holds
<1>4. Sound(r, a, S) => Sound(woken, a, S)
  BY <1>1, <1>3 DEF Sound, Reads, Starts, Tails, Steady
<1> QED BY <1>1, <1>2, <1>4

LEMMA WakeFollowers ==
  ASSUME FilesInv, FollowersInv, Wake \/ Shut
  PROVE  FollowersInv'
<1>0. UNCHANGED <<segs, top, at, lost>> /\ WakeAll
  BY DEF Wake, Shut
<1> DEFINE w(f) == rd[f].awake \/ rd[f].pc \in {"list", "read", "emit", "sleep"}
           new(f) == [rd[f] EXCEPT !.awake = w(f)]
<1>1. rd' = [f \in Follower |-> new(f)]
  BY <1>0 DEF WakeAll
<1>2. ASSUME NEW f \in Follower
      PROVE  /\ Shape(new(f), at[f], top) /\ new(f).pc = rd[f].pc
             /\ Sound(rd[f], at[f], segs) => Sound(new(f), at[f], segs)
  <2>1. w(f) \in BOOLEAN
    BY ZenonT(20)
  <2>2. Shape(rd[f], at[f], top)
    BY DEF FollowersInv
  <2> HIDE DEF w
  <2> QED BY <2>1, <2>2, SoundAwake
<1>3. \A f \in Follower : new(f) \in FollowerRec
  BY <1>2 DEF Shape
<1> HIDE DEF new
<1> QED BY <1>0, <1>1, <1>2, <1>3 DEF FollowersInv

LEMMA UnlinkFollowers ==
  ASSUME FollowersInv, Unlink
  PROVE  FollowersInv'
<1>1. /\ segs' = {} /\ lost' = lost \cup {f \in Follower : rd[f].pc # "off"}
      /\ UNCHANGED <<rd, at, top>>
  BY DEF Unlink
<1>2. \A f \in Follower : f \in lost' <=> rd[f].pc # "off"
  BY <1>1 DEF FollowersInv
<1>3. \A f \in Follower : rd[f].pc = "off" => Sound(rd[f], at[f], {})
  BY DEF Sound
<1> QED BY <1>1, <1>2, <1>3 DEF FollowersInv

LEMMA AwayIs ==
  ASSUME NEW n \in Nat, NEW S
  PROVE  Away \in FollowerRec /\ Shape(Away, 0, n) /\ Sound(Away, 0, S) /\ Away.pc = "off"
<1>1. Away \in FollowerRec
  <2>1. {} \in SUBSET SegRec /\ <<>> \in Seq(Nat)
    OBVIOUS
  <2> QED BY <2>1 DEF Away, FollowerRec
<1>2. /\ Away.pc = "off" /\ Away.list = {} /\ Away.buf = <<>> /\ Len(Away.buf) = 0
      /\ Longest \in Nat
  BY MaxBytesIs DEF Away, Longest
<1>3. Disk(Away.list, n)
  BY <1>2, FS_EmptySet DEF Disk, InOrder
<1>4. Shape(Away, 0, n)
  BY <1>1, <1>2, <1>3 DEF Shape
<1>5. Sound(Away, 0, S)
  BY <1>2 DEF Sound
<1> QED BY <1>1, <1>2, <1>4, <1>5

LEMMA RestartFollowers ==
  ASSUME FilesInv, FollowersInv, Restart
  PROVE  FollowersInv'
<1>1. /\ rd' = [f \in Follower |-> Away] /\ at' = [f \in Follower |-> 0] /\ lost' = {}
      /\ UNCHANGED <<segs, top>> /\ top \in Nat
  BY DEF Restart, FilesInv, WriterTyped
<1> QED BY <1>1, AwayIs DEF FollowersInv


-----------------------------------------------------------------------------
(* The followers under their own steps *)

\* The step of one follower.
LEMMA TurnFollowers ==
  ASSUME FollowersInv, NEW f \in Follower, NEW r, NEW a, Turn(f, r), at' = [at EXCEPT ![f] = a],
         UNCHANGED <<segs, top>>, lost' = lost \/ lost' = lost \ {f}, top \in Nat,
         Shape(r, a, top), f \in lost' => r.pc # "off",
         f \notin lost' => Sound(r, a, segs)
  PROVE  FollowersInv'
<1>0. /\ rd \in [Follower -> FollowerRec] /\ at \in [Follower -> Nat] /\ lost \subseteq Follower
      /\ \A g \in Follower :
           /\ Shape(rd[g], at[g], top)
           /\ g \in lost => rd[g].pc # "off"
           /\ g \notin lost => Sound(rd[g], at[g], segs)
  BY DEF FollowersInv
<1>1. r \in FollowerRec /\ a \in Nat
  BY DEF Shape
<1>2. rd' = [rd EXCEPT ![f] = r]
  BY DEF Turn
<1>3. /\ rd' \in [Follower -> FollowerRec] /\ at' \in [Follower -> Nat] /\ lost' \subseteq Follower
      /\ rd'[f] = r /\ at'[f] = a
      /\ \A g \in Follower \ {f} : rd'[g] = rd[g] /\ at'[g] = at[g] /\ (g \in lost' <=> g \in lost)
  BY <1>0, <1>1, <1>2
<1>4. \A g \in Follower :
        /\ Shape(rd'[g], at'[g], top)
        /\ g \in lost' => rd'[g].pc # "off"
        /\ g \notin lost' => Sound(rd'[g], at'[g], segs)
  <2> TAKE g \in Follower
  <2>1. CASE g = f
    BY <1>3, <2>1
  <2>2. CASE g # f
    BY <1>0, <1>3, <2>2
  <2> QED BY <2>1, <2>2
<1> QED BY <1>3, <1>4 DEF FollowersInv

\* What is known of a follower that makes a step.
LEMMA FollowerIs ==
  ASSUME FilesInv, FollowersInv, NEW f \in Follower
  PROVE  /\ rd[f] \in FollowerRec /\ at[f] \in Nat /\ top \in Nat /\ Disk(segs, top)
         /\ Shape(rd[f], at[f], top) /\ at = [at EXCEPT ![f] = at[f]]
         /\ f \notin lost => Sound(rd[f], at[f], segs)
         /\ f \in lost => rd[f].pc # "off"
BY DEF FilesInv, WriterTyped, FollowersInv

\* Some of the files are a listing.
LEMMA ListedIs ==
  ASSUME NEW S, NEW n \in Nat, Disk(S, n), NEW list \in SUBSET S
  PROVE  Listed(list, S)
<1>1. \A sg \in S : sg.run \in Nat /\ sg.seg \in Nat
  BY DEF Disk, SegRec
<1>2. \A l \in list : ~Before(l, l)
  BY <1>1 DEF Before
<1>3. \A l \in list, sg \in S :
         /\ Before(l, sg) => l.base + l.size <= sg.base
         /\ Before(sg, l) => sg.base + sg.size <= l.base
  <2> TAKE l \in list, sg \in S
  <2>1. l # sg => \/ Before(l, sg) /\ l.base + l.size <= sg.base
                  \/ Before(sg, l) /\ sg.base + sg.size <= l.base
    BY DEF Disk, InOrder
  <2>2. ~(Before(l, sg) /\ Before(sg, l))
    BY <1>1 DEF Before
  <2>3. l = sg => ~Before(l, sg) /\ ~Before(sg, l)
    BY <1>2
  <2> QED BY <2>1, <2>2, <2>3
<1>4. \A l \in list, sg \in S : SameName(sg, l) => sg = l
  BY NamesAre
<1>5. \A l \in S : l.size <= l.size
  BY DEF Disk, SegRec
<1> QED BY <1>2, <1>3, <1>4, <1>5 DEF Listed

\* The segments of the newest run.
NewestRun(S) == {sg \in S : \A x \in S : x.run <= sg.run}

\* The segments of the newest run are a listing.
LEMMA NewestListed ==
  ASSUME NEW S, NEW n \in Nat, Disk(S, n), S # {}
  PROVE  LET list == NewestRun(S) IN
         /\ list \in SUBSET S /\ list # {} /\ Listed(list, S)
         /\ \A sg \in S, l \in list :
              Before(l, sg) => IsListed(list, sg) \/ \A m \in list : Before(m, sg)
<1> DEFINE list == NewestRun(S)
<1>0. list = {sg \in S : \A x \in S : x.run <= sg.run}
  BY DEF NewestRun
<1> HIDE DEF list
<1>1. PICK new \in S : \A sg \in S : sg = new \/ Before(sg, new)
  BY HasEnds DEF Disk
<1>2. \A sg \in S : sg.run \in Nat /\ sg.seg \in Nat
  BY DEF Disk, SegRec
<1>3. new \in list
  BY <1>0, <1>1, <1>2 DEF Before
<1>4. list \in SUBSET S
  BY <1>0
<1>5. Listed(list, S)
  BY <1>4, ListedIs
<1>6. \A sg \in S, l \in list : Before(l, sg) => IsListed(list, sg)
  <2> SUFFICES ASSUME NEW sg \in S, NEW l \in list, Before(l, sg) PROVE IsListed(list, sg)
    OBVIOUS
  <2>1. sg \in list
    BY <1>0, <1>2 DEF Before
  <2> QED BY <2>1 DEF IsListed, SameName
<1> USE DEF list
<1> QED BY <1>3, <1>4, <1>5, <1>6

LEMMA Tail0Followers ==
  ASSUME FilesInv, FollowersInv, NEW f \in Follower, NEW n \in {0, Backlog}, Tail0(f, n)
  PROVE  FollowersInv'
<1> DEFINE list == {sg \in segs : \A x \in segs : x.run <= sg.run}
           r == [Away EXCEPT !.pc = IF segs = {} THEN "take" ELSE "tail", !.want = n,
                             !.list = list]
<1>0. /\ rd[f].pc = "off" /\ Turn(f, r) /\ at' = [at EXCEPT ![f] = top]
      /\ UNCHANGED <<segs, lost, top>> /\ top \in Nat /\ Disk(segs, top)
      /\ f \notin lost
  BY FollowerIs DEF Tail0
<1>1. list \in SUBSET segs /\ list \in SUBSET SegRec /\ n \in Nat /\ n <= Backlog
  BY <1>0, MaxBytesIs DEF Disk
<1>2. /\ r.pc = (IF segs = {} THEN "take" ELSE "tail") /\ r.want = n /\ r.list = list
      /\ r.buf = <<>> /\ Len(r.buf) = 0 /\ r.cur.run = 0 /\ r.cur.seg = 0 /\ r.cur.off = 0
  BY DEF Away
<1>3. r \in FollowerRec
  BY <1>1, AwayIs DEF FollowerRec
<1>4. Disk(list, top)
  BY <1>0, <1>1, FewerFiles
<1>5. segs # {} => list # {} /\ Listed(list, segs) /\
        \A sg \in segs, l \in list :
              Before(l, sg) => IsListed(list, sg) \/ \A m \in list : Before(m, sg)
  <2> SUFFICES ASSUME segs # {}
               PROVE  list # {} /\ Listed(list, segs) /\
                        \A sg \in segs, l \in list :
                          Before(l, sg) => IsListed(list, sg) \/ \A m \in list : Before(m, sg)
    OBVIOUS
  <2> HIDE DEF r
  <2>1. list = NewestRun(segs)
    BY DEF NewestRun
  <2> HIDE DEF list
  <2>2. top \in Nat /\ Disk(segs, top)
    BY <1>0
  <2> QED BY <2>1, <2>2, NewestListed
<1> HIDE DEF list, r
<1>6. Shape(r, top, top)
  <2>1. Longest \in Nat
    BY MaxBytesIs DEF Longest
  <2> QED BY <1>0, <1>1, <1>2, <1>3, <1>4, <1>5, <2>1 DEF Shape
<1>7. Sound(r, top, segs)
  <2>1. CASE segs = {}
    <3>1. Steady(r, top, segs)
      BY <1>2, <2>1 DEF Steady
    <3> QED BY <1>2, <2>1, <3>1 DEF Sound
  <2>2. CASE segs # {}
    <3>1. Starts(r, segs)
      BY <1>2, <1>5, <2>2 DEF Starts
    <3> QED BY <1>2, <1>5, <2>2, <3>1 DEF Sound
  <2> QED BY <2>1, <2>2
<1> QED BY <1>0, <1>2, <1>6, <1>7, TurnFollowers

\* A line is given.
LEMMA Emitted ==
  ASSUME NEW S, NEW n \in Nat, Disk(S, n), NEW r, NEW a, Shape(r, a, n), r.pc = "emit",
         NEW r1 \in FollowerRec, r1.buf = Tail(r.buf), r1.cur = r.cur, r1.list = r.list,
         r1.pc = (IF Len(r.buf) = 1 THEN r.after ELSE "emit")
  PROVE  /\ Shape(r1, Head(r.buf), n) /\ r1.pc # "off"
         /\ Sound(r, a, S) => Sound(r1, Head(r.buf), S)
<1> DEFINE b == r.buf
           c == Tail(r.buf)
           x == Head(r.buf)
<1>0. /\ r \in FollowerRec /\ b \in Seq(Nat) /\ b # <<>> /\ Disk(r.list, n)
      /\ \A k \in 1..Len(b) : b[k] \in 1..n
      /\ Len(b) <= Longest /\ Longest \in Nat
  BY MaxBytesIs DEF Shape, FollowerRec, Longest
<1>1. /\ c \in Seq(Nat) /\ Len(c) = Len(b) - 1 /\ Len(b) \in Nat \ {0}
      /\ \A k \in 1..Len(c) : c[k] = b[k + 1]
      /\ x = b[1]
  BY <1>0
<1>2. /\ r1 \in FollowerRec /\ r1.buf = c /\ r1.cur = r.cur /\ r1.list = r.list
      /\ r1.pc = (IF Len(b) = 1 THEN r.after ELSE "emit")
      /\ r.after \in {"take", "list", "sleep"}
  BY <1>0, <1>1 DEF FollowerRec
<1> HIDE DEF b, c, x
<1>3. x \in 1..n /\ \A k \in 1..Len(c) : k + 1 \in 1..Len(b) /\ c[k] \in 1..n
  <2>1. 1 \in 1..Len(b) /\ \A k \in 1..Len(c) : k + 1 \in 1..Len(b)
    BY <1>1
  <2> QED BY <1>0, <1>1, <2>1
<1>4. Len(b) = 1 <=> c = <<>>
  BY <1>1
<1>5. Shape(r1, x, n)
  <2>1. Len(c) <= Longest
    BY <1>0, <1>1
  <2>2. r1.pc \in {"emit", "take", "list", "sleep"} /\ (r1.pc = "emit" => c # <<>>)
        /\ (r1.pc # "emit" => c = <<>>)
    BY <1>2, <1>4
  <2>3. x \in 0..n
    BY <1>3
  <2> QED BY <1>0, <1>2, <1>3, <2>1, <2>2, <2>3 DEF Shape
<1>6. ASSUME Sound(r, a, S)
      PROVE  Sound(r1, x, S)
  <2>1. Steady(r, a, S)
    BY <1>6 DEF Sound
  <2>2. Reach(r1, x) = Reach(r, a)
    <3>1. CASE c = <<>>
      BY <1>0, <1>1, <1>2, <1>4, <3>1 DEF Reach, b
    <3>2. CASE c # <<>>
      <4>1. Len(c) \in 1..Len(c) /\ Len(c) + 1 = Len(b)
        BY <1>1, <1>4, <3>2
      <4> QED BY <1>0, <1>1, <1>2, <3>2, <4>1 DEF Reach, b
    <3> QED BY <3>1, <3>2
  <2>3. Holds(r) = {x} \cup Holds(r1) /\ a < x
    <3>1. \A k \in 1..Len(b) : k = 1 \/ (k - 1 \in 1..Len(c) /\ c[k - 1] = b[k])
      BY <1>1
    <3>2. 1 \in 1..Len(b)
      BY <1>1
    <3>3. Holds(r) = {b[k] : k \in 1..Len(b)} /\ Holds(r1) = {c[k] : k \in 1..Len(c)}
      BY <1>2 DEF Holds, b
    <3>4. Holds(r) \subseteq {x} \cup Holds(r1)
      <4> SUFFICES ASSUME NEW k \in 1..Len(b) PROVE b[k] = x \/ b[k] \in Holds(r1)
        BY <3>3
      <4> QED BY <1>1, <3>1, <3>3
    <3>6. {x} \cup Holds(r1) \subseteq Holds(r)
      <4>1. \A k \in 1..Len(c) : c[k] = b[k + 1] /\ k + 1 \in 1..Len(b)
        BY <1>1, <1>3
      <4> QED BY <1>1, <3>2, <3>3, <4>1
    <3>5. a < x
      BY <1>1, <2>1, <3>2 DEF Steady, b
    <3> QED BY <3>4, <3>5, <3>6
  <2>4. /\ \A k \in 1..Len(c) : x < c[k]
        /\ \A j, k \in 1..Len(c) : j < k => c[j] < c[k]
    <3>1. \A j, k \in 1..Len(b) : j < k => b[j] < b[k]
      BY <2>1 DEF Steady, b
    <3>2. 1 \in 1..Len(b)
      BY <1>1
    <3>5. \A k \in 1..Len(c) : k \in Nat \ {0} /\ k + 1 \in 1..Len(b) /\ c[k] = b[k + 1]
      BY <1>1, <1>3
    <3>3. \A k \in 1..Len(c) : x < c[k]
      <4> TAKE k \in 1..Len(c)
      <4>1. 1 < k + 1
        BY <3>5
      <4> QED BY <1>1, <3>1, <3>2, <3>5, <4>1
    <3>4. \A j, k \in 1..Len(c) : j < k => c[j] < c[k]
      <4> SUFFICES ASSUME NEW j \in 1..Len(c), NEW k \in 1..Len(c), j < k PROVE c[j] < c[k]
        OBVIOUS
      <4>1. j + 1 < k + 1
        BY <3>5
      <4> QED BY <3>1, <3>5, <4>1
    <3> QED BY <3>3, <3>4
  <2>5. \A sg \in S : \A y \in Held(sg) :
          /\ x < y /\ y <= Reach(r, a) => y \in Holds(r1)
          /\ y > Reach(r, a) <=> Ahead(sg, y, r.cur)
    <3> TAKE sg \in S
    <3> TAKE y \in Held(sg)
    <3>1. y \in Int /\ a \in Int /\ x \in Int
      BY <1>3, NamesTyped, <1>0 DEF Held, Shape
    <3> QED BY <2>1, <2>3, <3>1 DEF Steady
  <2>6. Steady(r1, x, S)
    BY <1>2, <2>1, <2>2, <2>4, <2>5 DEF Steady
  <2> QED BY <1>2, <2>6 DEF Sound
<1> QED BY <1>2, <1>5, <1>6 DEF x

LEMMA EmitFollowers ==
  ASSUME FilesInv, FollowersInv, NEW f \in Follower, Emit(f)
  PROVE  FollowersInv'
<1> DEFINE r == [rd[f] EXCEPT !.buf = Tail(@), !.pc = IF Len(rd[f].buf) = 1 THEN rd[f].after ELSE @]
           x == Head(rd[f].buf)
<1>0. /\ rd[f].pc = "emit" /\ Turn(f, r) /\ at' = [at EXCEPT ![f] = x]
      /\ UNCHANGED <<segs, lost, top>> /\ top \in Nat /\ Disk(segs, top)
      /\ Shape(rd[f], at[f], top) /\ (f \notin lost => Sound(rd[f], at[f], segs))
  BY FollowerIs DEF Emit
<1>1. /\ Shape(r, x, top) /\ r.pc # "off"
      /\ Sound(rd[f], at[f], segs) => Sound(r, x, segs)
  <2>1. rd[f] \in FollowerRec /\ rd[f].buf # <<>> /\ rd[f].buf \in Seq(Nat)
    BY <1>0 DEF Shape, FollowerRec
  <2>2. /\ r.buf = Tail(rd[f].buf) /\ r.cur = rd[f].cur /\ r.list = rd[f].list
        /\ r.pc = (IF Len(rd[f].buf) = 1 THEN rd[f].after ELSE "emit")
    BY <1>0, <2>1 DEF FollowerRec
  <2>3. r \in FollowerRec
    <3>1. Tail(rd[f].buf) \in Seq(Nat)
      BY <2>1
    <3> QED BY <2>1, <3>1 DEF FollowerRec
  <2> HIDE DEF r
  <2> QED BY <1>0, <2>2, <2>3, Emitted
<1> HIDE DEF r
<1> QED BY <1>0, <1>1, TurnFollowers

\* What is said of a follower that neither looks for its place nor reads.
LEMMA SteadyOnly ==
  ASSUME NEW S, NEW n, NEW r, NEW a, NEW r1, r1 \in FollowerRec, Shape(r, a, n),
         r1.cur = r.cur, r1.buf = r.buf, r1.buf = <<>>, Disk(r1.list, n),
         r1.pc \in {"take", "list", "sleep"}, r.pc \in {"take", "list", "sleep"}
  PROVE  Shape(r1, a, n) /\ (Sound(r, a, S) => Sound(r1, a, S))
<1>1. Shape(r1, a, n)
  BY DEF Shape
<1>2. Sound(r, a, S) => Sound(r1, a, S)
  <2>1. Reach(r1, a) = Reach(r, a) /\ Holds(r1) = Holds(r)
    BY DEF Reach, Holds
  <2> QED BY <2>1 DEF Sound, Steady
<1> QED BY <1>1, <1>2

LEMMA TakeFollowers ==
  ASSUME FilesInv, FollowersInv, NEW f \in Follower, Take(f) \/ Woken(f)
  PROVE  FollowersInv'
<1> DEFINE r == rd'[f]
<1>0. /\ rd[f] \in FollowerRec /\ rd[f].pc \in {"take", "sleep"}
      /\ UNCHANGED <<segs, at, lost, top>> /\ top \in Nat /\ Disk(segs, top)
      /\ at = [at EXCEPT ![f] = at[f]]
      /\ Shape(rd[f], at[f], top) /\ (f \notin lost => Sound(rd[f], at[f], segs))
      /\ rd \in [Follower -> FollowerRec]
  BY FollowerIs DEF Take, Woken, FollowersInv
<1>1. /\ r \in FollowerRec /\ Turn(f, r) /\ r.pc \in {"list", "take"}
      /\ r.cur = rd[f].cur /\ r.buf = rd[f].buf /\ r.list = rd[f].list
  <2>1. CASE Take(f)
    <3>1. rd' = [rd EXCEPT ![f] = [rd[f] EXCEPT !.awake = FALSE, !.pc = "list"]]
      BY <2>1 DEF Take, Turn
    <3>2. r = [rd[f] EXCEPT !.awake = FALSE, !.pc = "list"]
      BY <1>0, <3>1
    <3>3. FALSE \in BOOLEAN
      OBVIOUS
    <3> QED BY <1>0, <3>1, <3>2, <3>3 DEF FollowerRec, Turn
  <2>2. CASE Woken(f)
    <3>1. rd' = [rd EXCEPT ![f] = [rd[f] EXCEPT !.pc = "take"]]
      BY <2>2 DEF Woken, Turn
    <3>2. r = [rd[f] EXCEPT !.pc = "take"]
      BY <1>0, <3>1
    <3> QED BY <1>0, <3>1, <3>2 DEF FollowerRec, Turn
  <2> QED BY <2>1, <2>2
<1> HIDE DEF r
<1>2. rd[f].buf = <<>> /\ Disk(rd[f].list, top)
  BY <1>0 DEF Shape
<1>3. Shape(r, at[f], top) /\ (Sound(rd[f], at[f], segs) => Sound(r, at[f], segs))
  BY <1>0, <1>1, <1>2, SteadyOnly
<1>4. at' = [at EXCEPT ![f] = at[f]]
  BY <1>0
<1> QED BY <1>0, <1>1, <1>3, <1>4, TurnFollowers

\* The files from the cursor on are listed.
LEMMA CursorListed ==
  ASSUME NEW S, NEW n \in Nat, Disk(S, n), NEW r \in FollowerRec, NEW list,
         list = {sg \in S : ~Before(sg, r.cur)}, r.list = list
  PROVE  Listed(list, S) /\ Reads(r, S)
<1>1. \A sg \in S : sg.run \in Nat /\ sg.seg \in Nat
  BY DEF Disk, SegRec
<1>2. list \in SUBSET S
  OBVIOUS
<1>3. Listed(list, S)
  BY <1>2, ListedIs
<1>4. Reads(r, S)
  BY DEF Reads, IsListed, SameName
<1> QED BY <1>3, <1>4

LEMMA ListFollowers ==
  ASSUME FilesInv, FollowersInv, NEW f \in Follower, List(f)
  PROVE  FollowersInv'
<1> DEFINE todo == {sg \in segs : ~Before(sg, rd[f].cur)}
           r == rd'[f]
<1>0. /\ rd[f] \in FollowerRec /\ rd[f].pc = "list" /\ rd[f].buf = <<>>
      /\ UNCHANGED <<segs, at, lost, top>> /\ top \in Nat /\ Disk(segs, top)
      /\ at = [at EXCEPT ![f] = at[f]]
      /\ Shape(rd[f], at[f], top) /\ (f \notin lost => Sound(rd[f], at[f], segs))
      /\ rd \in [Follower -> FollowerRec]
  BY FollowerIs DEF List, FollowersInv, Shape
<1>1. todo \in SUBSET segs /\ todo \in SUBSET SegRec /\ Disk(todo, top)
  BY <1>0, FewerFiles DEF Disk
<1>2. CASE todo = {}
  <2>1. rd' = [rd EXCEPT ![f] = Rest(rd[f], <<>>)]
    BY <1>2 DEF List, Turn
  <2>2. r = [rd[f] EXCEPT !.buf = <<>>, !.after = "sleep", !.pc = "sleep"]
    BY <1>0, <2>1 DEF Rest
  <2>3. r \in FollowerRec /\ r.cur = rd[f].cur /\ r.buf = <<>> /\ r.list = rd[f].list
        /\ r.pc = "sleep"
    <3>1. <<>> \in Seq(Nat)
      OBVIOUS
    <3> QED BY <1>0, <2>2, <3>1 DEF FollowerRec
  <2>4. Turn(f, r)
    BY <1>0, <2>1, <2>2 DEF Turn, Rest
  <2> HIDE DEF r, todo
  <2>5. Disk(r.list, top)
    BY <1>0, <2>3 DEF Shape
  <2>6. Shape(r, at[f], top) /\ (Sound(rd[f], at[f], segs) => Sound(r, at[f], segs))
    BY <1>0, <2>3, <2>5, SteadyOnly
  <2>7. at' = [at EXCEPT ![f] = at[f]]
    BY <1>0
  <2> QED BY <1>0, <2>3, <2>4, <2>6, <2>7, TurnFollowers
<1>3. CASE todo # {}
  <2>1. rd' = [rd EXCEPT ![f] = [rd[f] EXCEPT !.pc = "read", !.list = todo]]
    BY <1>3 DEF List, Turn
  <2>2. r = [rd[f] EXCEPT !.pc = "read", !.list = todo]
    BY <1>0, <2>1
  <2>3. r \in FollowerRec /\ r.cur = rd[f].cur /\ r.buf = <<>> /\ r.list = todo
        /\ r.pc = "read" /\ Len(r.buf) = 0
    <3>1. r.cur = rd[f].cur /\ r.buf = <<>> /\ r.list = todo /\ r.pc = "read"
      BY <1>0, <2>2 DEF FollowerRec
    <3>2. r \in FollowerRec
      <4> HIDE DEF todo, r
      <4> QED BY <1>0, <1>1, <2>2 DEF FollowerRec
    <3> QED BY <3>1, <3>2
  <2>4. Turn(f, r)
    BY <1>0, <2>1, <2>2 DEF Turn
  <2>5. Listed(todo, segs) /\ Reads(r, segs)
    <3>1. todo = {sg \in segs : ~Before(sg, r.cur)}
      BY <2>3
    <3> HIDE DEF r
    <3> QED BY <1>0, <2>3, <3>1, CursorListed
  <2> HIDE DEF r, todo
  <2>6. Shape(r, at[f], top)
    <3>1. 0 < Batch /\ 0 <= Longest
      BY MaxBytesIs DEF Longest
    <3> QED BY <1>0, <1>1, <1>3, <2>3, <3>1 DEF Shape
  <2>7. Sound(rd[f], at[f], segs) => Sound(r, at[f], segs)
    <3>1. Reach(r, at[f]) = Reach(rd[f], at[f]) /\ Holds(r) = Holds(rd[f])
      BY <1>0, <2>3 DEF Reach, Holds
    <3>2. Steady(rd[f], at[f], segs) => Steady(r, at[f], segs)
      BY <1>0, <2>3, <3>1 DEF Steady
    <3> QED BY <1>0, <2>3, <2>5, <3>2 DEF Sound
  <2>8. at' = [at EXCEPT ![f] = at[f]]
    BY <1>0
  <2> QED BY <1>0, <2>3, <2>4, <2>6, <2>7, <2>8, TurnFollowers
<1> QED BY <1>2, <1>3

LEMMA LeaveFollowers ==
  ASSUME FilesInv, FollowersInv, NEW f \in Follower, Leave(f)
  PROVE  FollowersInv'
<1>1. /\ Turn(f, Away) /\ at' = [at EXCEPT ![f] = 0] /\ lost' = lost \ {f}
      /\ UNCHANGED <<segs, top>> /\ top \in Nat
  BY FollowerIs DEF Leave
<1> QED BY <1>1, AwayIs, TurnFollowers

-----------------------------------------------------------------------------
(* Reading *)

LEMMA LinesAre ==
  ASSUME NEW sg, sg.base \in Nat, NEW off \in Nat, NEW end \in Nat
  PROVE  LET l == Lines(sg, off, end)
         IN  /\ l \in Seq(Nat)
             /\ Len(l) = (IF end > off THEN end - off ELSE 0)
             /\ \A k \in 1..Len(l) : l[k] = sg.base + off + k
             /\ {l[k] : k \in 1..Len(l)} = sg.base + off + 1 .. sg.base + end
<1> DEFINE m == IF end > off THEN end - off ELSE 0
           l == Lines(sg, off, end)
<1>1. m \in Nat
  OBVIOUS
<1>2. l = [k \in 1..m |-> sg.base + off + k]
  BY DEF Lines
<1> HIDE DEF l
<1>3. /\ l \in Seq(Nat) /\ Len(l) = m
      /\ \A k \in 1..m : l[k] = sg.base + off + k
  <2>1. \A k \in 1..m : sg.base + off + k \in Nat
    BY <1>1
  <2> HIDE DEF m
  <2> QED BY <1>1, <1>2, <2>1
<1>4. {l[k] : k \in 1..m} = sg.base + off + 1 .. sg.base + end
  <2>1. \A k \in 1..m : l[k] \in sg.base + off + 1 .. sg.base + end
    <3>1. \A k \in 1..m : sg.base + off + k \in sg.base + off + 1 .. sg.base + end
      OBVIOUS
    <3> HIDE DEF m
    <3> QED BY <1>3, <3>1
  <2>2. ASSUME NEW y \in sg.base + off + 1 .. sg.base + end
        PROVE  \E k \in 1..m : l[k] = y
    <3>1. y - (sg.base + off) \in 1..m /\ sg.base + off + (y - (sg.base + off)) = y
      BY <2>2
    <3> HIDE DEF m
    <3> QED BY <1>3, <3>1
  <2> HIDE DEF m
  <2> QED BY <2>1, <2>2
<1> HIDE DEF m
<1> QED
  <2>1. Len(l) = (IF end > off THEN end - off ELSE 0)
    BY <1>3 DEF m
  <2> QED BY <1>3, <1>4, <2>1 DEF l

\* What lines put together are, and reach to.
LEMMA JoinedLines ==
  ASSUME NEW b \in Seq(Nat), NEW c \in Seq(Nat)
  PROVE  /\ b \o c \in Seq(Nat) /\ Len(b \o c) = Len(b) + Len(c)
         /\ {(b \o c)[k] : k \in 1..Len(b \o c)} =
              {b[k] : k \in 1..Len(b)} \cup {c[k] : k \in 1..Len(c)}
         /\ c # <<>> => (b \o c)[Len(b \o c)] = c[Len(c)]
         /\ c = <<>> => b \o c = b
         /\ b # <<>> => (b \o c)[1] = b[1]
         /\ b = <<>> => b \o c = c
<1> DEFINE d == b \o c
<1>1. /\ d \in Seq(Nat) /\ Len(d) = Len(b) + Len(c)
      /\ \A k \in 1..Len(b) : d[k] = b[k]
      /\ \A k \in 1..Len(c) : d[Len(b) + k] = c[k]
  OBVIOUS
<1>2. Len(b) \in Nat /\ Len(c) \in Nat
  OBVIOUS
<1>3. (c = <<>> => d = b) /\ (b = <<>> => d = c)
  BY ConcatEmptySeq
<1>4. (c # <<>> => Len(c) \in 1..Len(c)) /\ (b # <<>> => 1 \in 1..Len(b))
  OBVIOUS
<1> HIDE DEF d
<1>5. \A k \in 1..Len(d) : k \in 1..Len(b) \/ (k - Len(b) \in 1..Len(c) /\ d[k] = c[k - Len(b)])
  <2> TAKE k \in 1..Len(d)
  <2>1. k \in 1..Len(b) \/ (k - Len(b) \in 1..Len(c) /\ Len(b) + (k - Len(b)) = k)
    BY <1>1, <1>2
  <2> QED BY <1>1, <2>1
<1>6. \A k \in 1..Len(b) : k \in 1..Len(d)
  BY <1>1, <1>2
<1>7. \A k \in 1..Len(c) : Len(b) + k \in 1..Len(d)
  BY <1>1, <1>2
<1>8. {d[k] : k \in 1..Len(d)} = {b[k] : k \in 1..Len(b)} \cup {c[k] : k \in 1..Len(c)}
  <2>1. \A k \in 1..Len(d) : d[k] \in {b[i] : i \in 1..Len(b)} \cup {c[i] : i \in 1..Len(c)}
    BY <1>1, <1>5
  <2>2. \A k \in 1..Len(b) : b[k] \in {d[i] : i \in 1..Len(d)}
    BY <1>1, <1>6
  <2>3. \A k \in 1..Len(c) : c[k] \in {d[i] : i \in 1..Len(d)}
    BY <1>1, <1>7
  <2> QED BY <2>1, <2>2, <2>3
<1>9. c # <<>> => d[Len(d)] = c[Len(c)]
  BY <1>1, <1>4
<1>10. b # <<>> => d[1] = b[1]
  BY <1>1, <1>4
<1> QED BY <1>1, <1>3, <1>8, <1>9, <1>10 DEF d

\* They are in order when all of the second come after all of the first.
LEMMA JoinedOrder ==
  ASSUME NEW b \in Seq(Nat), NEW c \in Seq(Nat),
         \A j, k \in 1..Len(b) : j < k => b[j] < b[k],
         \A j, k \in 1..Len(c) : j < k => c[j] < c[k],
         \A j \in 1..Len(b), k \in 1..Len(c) : b[j] < c[k]
  PROVE  \A j, k \in 1..Len(b \o c) : j < k => (b \o c)[j] < (b \o c)[k]
<1> DEFINE d == b \o c
<1>1. /\ d \in Seq(Nat) /\ Len(d) = Len(b) + Len(c)
      /\ \A k \in 1..Len(b) : d[k] = b[k]
      /\ \A k \in 1..Len(c) : d[Len(b) + k] = c[k]
  OBVIOUS
<1>2. Len(b) \in Nat /\ Len(c) \in Nat
  OBVIOUS
<1> HIDE DEF d
<1> SUFFICES ASSUME NEW j \in 1..Len(d), NEW k \in 1..Len(d), j < k PROVE d[j] < d[k]
  BY DEF d
<1>3. \/ j \in 1..Len(b) /\ k \in 1..Len(b)
      \/ j \in 1..Len(b) /\ k - Len(b) \in 1..Len(c) /\ Len(b) + (k - Len(b)) = k
      \/ /\ j - Len(b) \in 1..Len(c) /\ Len(b) + (j - Len(b)) = j
         /\ k - Len(b) \in 1..Len(c) /\ Len(b) + (k - Len(b)) = k
         /\ j - Len(b) < k - Len(b)
  BY <1>1, <1>2
<1> QED BY <1>1, <1>3

LEMMA NowIs ==
  ASSUME NEW n \in Nat, Disk(segs, n), NEW sg \in SegRec
  PROVE  LET now == Now(sg)
         IN  /\ now \in SegRec /\ now.run = sg.run /\ now.seg = sg.seg
             /\ \/ now \in segs
                \/ now.size = 0 /\ now.base = sg.base /\ \A x \in segs : ~SameName(x, sg)
             /\ \A x \in segs : SameName(x, sg) => x = now
<1> DEFINE now == Now(sg)
<1>1. CASE \E x \in segs : SameName(x, sg)
  <2>1. now \in segs /\ SameName(now, sg)
    BY <1>1 DEF Now
  <2> HIDE DEF now
  <2>2. \A x \in segs : SameName(x, sg) => SameName(x, now)
    BY <2>1 DEF SameName
  <2>3. \A x \in segs : SameName(x, sg) => x = now
    BY <2>1, <2>2, NamesAre
  <2> QED BY <2>1, <2>3 DEF now, Disk, SameName
<1>2. CASE ~\E x \in segs : SameName(x, sg)
  <2>1. now = [sg EXCEPT !.size = 0]
    BY <1>2 DEF Now
  <2> QED BY <1>2, <2>1, MaxBytesIs DEF SegRec
<1> QED BY <1>1, <1>2

\* What a turn of ReadSeg reads.
ReadOff(r) == Start(Oldest(r.list), r.cur)
ReadEnd(r) ==
  LET now == Now(Oldest(r.list)) IN
    IF now.size > ReadOff(r) + Room(r.buf) THEN ReadOff(r) + Room(r.buf) ELSE now.size
ReadLines(r) == Lines(Now(Oldest(r.list)), ReadOff(r), ReadEnd(r))

\* The file that is read next, and what is read of it.
LEMMA ReadIs ==
  ASSUME NEW n \in Nat, Disk(segs, n), NEW r, NEW a, Shape(r, a, n), r.pc = "read"
  PROVE  LET sg == Oldest(r.list)
             now == Now(sg)
         IN  /\ sg \in r.list /\ sg \in SegRec /\ \A l \in r.list : l = sg \/ Before(sg, l)
             /\ now \in SegRec /\ now.base \in Nat /\ now.size \in Nat /\ now.base + now.size <= n
             /\ ReadOff(r) \in Nat /\ ReadEnd(r) \in Nat
             /\ ReadLines(r) \in Seq(Nat)
             /\ Len(ReadLines(r)) = (IF ReadEnd(r) > ReadOff(r) THEN ReadEnd(r) - ReadOff(r) ELSE 0)
             /\ \A k \in 1..Len(ReadLines(r)) : ReadLines(r)[k] = now.base + ReadOff(r) + k
             /\ {ReadLines(r)[k] : k \in 1..Len(ReadLines(r))} =
                  now.base + ReadOff(r) + 1 .. now.base + ReadEnd(r)
             /\ Len(r.buf) + Len(ReadLines(r)) <= Batch
             /\ ReadEnd(r) <= now.size
             /\ Len(r.buf) + Len(ReadLines(r)) < Batch /\ ReadOff(r) <= now.size
                  => ReadEnd(r) = now.size
<1> DEFINE sg == Oldest(r.list)
           now == Now(sg)
           off == ReadOff(r)
           end == ReadEnd(r)
<1>0. /\ r \in FollowerRec /\ r.buf \in Seq(Nat) /\ Disk(r.list, n) /\ r.list # {}
      /\ Len(r.buf) < Batch /\ Batch \in Nat /\ Len(r.buf) \in Nat
      /\ r.cur.off \in Nat
  BY MaxBytesIs DEF Shape, FollowerRec
<1>1. sg \in r.list /\ \A l \in r.list : l = sg \/ Before(sg, l)
  BY <1>0, EndsAre
<1>2. sg \in SegRec
  BY <1>0, <1>1 DEF Disk
<1> HIDE DEF sg
<1>3. now \in SegRec /\ (now \in segs \/ (now.size = 0 /\ now.base = sg.base))
  BY <1>2, NowIs
<1>4. off \in Nat
  BY <1>0 DEF ReadOff, Start
<1> HIDE DEF now
<1>5. now.base \in Nat /\ now.size \in Nat
  BY <1>3, MaxBytesIs DEF SegRec
<1>6. now.base + now.size <= n
  <2>1. CASE now \in segs
    BY <2>1 DEF Disk
  <2>2. CASE now.size = 0 /\ now.base = sg.base
    <3>1. sg.base \in Nat /\ sg.size \in Nat /\ sg.base + sg.size <= n
      BY <1>0, <1>1, <1>2, MaxBytesIs DEF Disk, SegRec
    <3> QED BY <2>2, <3>1
  <2> QED BY <1>3, <2>1, <2>2
<1>7. end = IF now.size > off + Room(r.buf) THEN off + Room(r.buf) ELSE now.size
  BY DEF ReadEnd, now, sg
<1>8. Room(r.buf) = Batch - Len(r.buf) /\ Room(r.buf) \in Nat \ {0}
  BY <1>0 DEF Room
<1>9. ReadLines(r) = Lines(now, off, end)
  BY DEF ReadLines, now, sg
<1> HIDE DEF off, end
<1>10. end \in Nat /\ end <= now.size
  BY <1>4, <1>5, <1>7, <1>8
<1>11. /\ ReadLines(r) \in Seq(Nat)
       /\ Len(ReadLines(r)) = (IF end > off THEN end - off ELSE 0)
       /\ \A k \in 1..Len(ReadLines(r)) : ReadLines(r)[k] = now.base + off + k
       /\ {ReadLines(r)[k] : k \in 1..Len(ReadLines(r))} = now.base + off + 1 .. now.base + end
  <2> DEFINE l == Lines(now, off, end)
  <2>1. /\ l \in Seq(Nat)
        /\ Len(l) = (IF end > off THEN end - off ELSE 0)
        /\ \A k \in 1..Len(l) : l[k] = now.base + off + k
        /\ {l[k] : k \in 1..Len(l)} = now.base + off + 1 .. now.base + end
    BY <1>4, <1>5, <1>10, LinesAre
  <2> HIDE DEF l
  <2>2. ReadLines(r) = l
    BY <1>9 DEF l
  <2> QED BY <2>1, <2>2, Zenon
<1>12. /\ Len(r.buf) + Len(ReadLines(r)) <= Batch
       /\ Len(r.buf) + Len(ReadLines(r)) < Batch /\ off <= now.size => end = now.size
  <2> DEFINE size == now.size
             had == Len(r.buf)
             read == Len(ReadLines(r))
  <2>1. \A s, h, l, m, o, e \in Nat :
          /\ h < m
          /\ e = IF s > o + (m - h) THEN o + (m - h) ELSE s
          /\ l = IF e > o THEN e - o ELSE 0
          => h + l <= m /\ (h + l < m /\ o <= s => e = s)
    OBVIOUS
  <2>2. size \in Nat /\ had \in Nat /\ read \in Nat /\ off \in Nat /\ end \in Nat
        /\ had < Batch /\ Batch \in Nat
    BY <1>0, <1>4, <1>5, <1>10, <1>11
  <2>3. end = IF size > off + (Batch - had) THEN off + (Batch - had) ELSE size
    BY <1>7, <1>8
  <2>4. read = IF end > off THEN end - off ELSE 0
    BY <1>11
  <2> HIDE DEF size, had, read
  <2>5. had + read <= Batch /\ (had + read < Batch /\ off <= size => end = size)
    BY <2>1, <2>2, <2>3, <2>4
  <2> QED BY <2>5 DEF size, had, read
<1> QED BY <1>1, <1>2, <1>3, <1>4, <1>5, <1>6, <1>10, <1>11, <1>12 DEF sg, now, off, end

\* Where the cursor and the listed files are a line is ahead of the cursor when it
\* is ahead of the place where the next file is read.
LEMMA NextFile ==
  ASSUME NEW n \in Nat, Disk(segs, n), NEW r, NEW a, Shape(r, a, n), r.pc = "read",
         Listed(r.list, segs), Reads(r, segs), Steady(r, a, segs),
         NEW sg \in r.list, \A l \in r.list : l = sg \/ Before(sg, l)
  PROVE  /\ \A x \in segs : \A y \in Held(x) :
              y > Reach(r, a) <=>
                Before(sg, x) \/ (SameName(x, sg) /\ x.base + Start(sg, r.cur) < y)
         /\ \A x \in segs : SameName(x, sg) => Start(sg, r.cur) <= x.size
<1>1. /\ r.cur.run \in Nat /\ r.cur.seg \in Nat /\ r.cur.off \in Nat
      /\ \A l \in r.list : l.run \in Nat \ {0} /\ l.seg \in Nat /\ l.base \in Nat /\ l.size \in Nat
      /\ \A x \in segs : x.run \in Nat \ {0} /\ x.seg \in Nat /\ x.base \in Nat /\ x.size \in Nat
  <2>1. r \in FollowerRec
    BY DEF Shape
  <2> QED BY <2>1, NamesTyped
<1>2. ~Before(sg, r.cur)
  BY DEF Reads
<1>3. Start(sg, r.cur) = (IF SameName(sg, r.cur) THEN r.cur.off ELSE 0)
  BY DEF Start, SameName
<1>4. ASSUME NEW x \in segs, NEW y \in Held(x)
      PROVE  Ahead(x, y, r.cur) <=>
               Before(sg, x) \/ (SameName(x, sg) /\ x.base + Start(sg, r.cur) < y)
  <2>0. y \in Nat /\ x.base < y /\ y <= x.base + x.size
    BY <1>1 DEF Held
  <2>1. CASE Before(sg, x)
    <3>1. Before(r.cur, x)
      BY <1>1, <1>2, <2>1 DEF Before
    <3> QED BY <2>1, <3>1 DEF Ahead
  <2>2. CASE SameName(x, sg)
    <3>1. ~Before(sg, x)
      BY <1>1, <2>2 DEF Before, SameName
    <3>2. CASE SameName(sg, r.cur)
      <4>1. SameName(x, r.cur) /\ ~Before(r.cur, x)
        BY <1>1, <2>2, <3>2 DEF Before, SameName
      <4> QED BY <1>3, <2>2, <3>1, <3>2, <4>1 DEF Ahead
    <3>3. CASE ~SameName(sg, r.cur)
      <4>1. Before(r.cur, x)
        BY <1>1, <1>2, <2>2, <3>3 DEF Before, SameName
      <4>2. x.base + Start(sg, r.cur) < y
        BY <1>1, <1>3, <2>0, <3>3
      <4> QED BY <2>2, <4>1, <4>2 DEF Ahead
    <3> QED BY <3>2, <3>3
  <2>3. CASE Before(x, sg)
    <3>1. ~Before(sg, x) /\ ~SameName(x, sg)
      BY <1>1, <2>3 DEF Before, SameName
    <3>2. CASE Before(x, r.cur)
      <4>1. ~Before(r.cur, x) /\ ~SameName(x, r.cur)
        BY <1>1, <3>2 DEF Before, SameName
      <4> QED BY <3>1, <4>1 DEF Ahead
    <3>3. CASE ~Before(x, r.cur)
      <4>1. ~IsListed(r.list, x)
        BY <1>1, <2>3 DEF IsListed, Before, SameName
      <4>2. SameName(x, r.cur) /\ x.size <= r.cur.off
        BY <2>3, <3>3, <4>1 DEF Reads
      <4>3. ~Before(r.cur, x)
        BY <1>1, <4>2 DEF Before, SameName
      <4>4. ~(x.base + r.cur.off < y)
        BY <1>1, <2>0, <4>2
      <4> QED BY <3>1, <4>3, <4>4 DEF Ahead
    <3> QED BY <3>2, <3>3
  <2>4. Before(sg, x) \/ SameName(x, sg) \/ Before(x, sg)
    BY <1>1 DEF Before, SameName
  <2> QED BY <2>1, <2>2, <2>3, <2>4
<1>5. \A x \in segs : \A y \in Held(x) : y > Reach(r, a) <=> Ahead(x, y, r.cur)
  BY DEF Steady
<1>6. \A x \in segs : SameName(x, sg) => Start(sg, r.cur) <= x.size
  <2> SUFFICES ASSUME NEW x \in segs, SameName(x, sg) PROVE Start(sg, r.cur) <= x.size
    OBVIOUS
  <2>1. SameName(sg, r.cur) => SameName(x, r.cur)
    BY DEF SameName
  <2> QED BY <1>1, <1>3, <2>1 DEF Steady
<1> QED BY <1>4, <1>5, <1>6

LEMMA ReachIs ==
  ASSUME NEW r, NEW a \in Nat, r.buf \in Seq(Nat),
         \A k \in 1..Len(r.buf) : a < r.buf[k],
         \A j, k \in 1..Len(r.buf) : j < k => r.buf[j] < r.buf[k]
  PROVE  /\ Reach(r, a) \in Nat /\ a <= Reach(r, a)
         /\ \A k \in 1..Len(r.buf) : r.buf[k] <= Reach(r, a)
         /\ \A y \in Holds(r) : a < y /\ y <= Reach(r, a)
<1> DEFINE b == r.buf
<1>1. Len(b) \in Nat /\ \A k \in 1..Len(b) : b[k] \in Nat
  OBVIOUS
<1>2. CASE b = <<>>
  BY <1>2 DEF Reach, Holds
<1>3. CASE b # <<>>
  <2>1. Len(b) \in 1..Len(b)
    BY <1>3
  <2>2. Reach(r, a) = b[Len(b)]
    BY <1>3 DEF Reach
  <2>3. \A k \in 1..Len(b) : k = Len(b) \/ k < Len(b)
    BY <1>1
  <2> HIDE DEF b
  <2>4. \A k \in 1..Len(b) : b[k] <= b[Len(b)]
    BY <1>1, <2>1, <2>3 DEF b
  <2>5. a < b[Len(b)] /\ b[Len(b)] \in Nat
    BY <1>1, <2>1 DEF b
  <2> QED BY <1>1, <2>2, <2>4, <2>5 DEF b, Holds
<1> QED BY <1>2, <1>3

LEMMA ReadSteady ==
  ASSUME NEW n \in Nat, Disk(segs, n), NEW r, NEW a, Shape(r, a, n), r.pc = "read",
         Listed(r.list, segs), Reads(r, segs), Steady(r, a, segs),
         NEW sg, sg = Oldest(r.list), NEW r1,
         r1.cur = [run |-> sg.run, seg |-> sg.seg, off |-> ReadOff(r) + Len(ReadLines(r))],
         r1.buf = r.buf \o ReadLines(r)
  PROVE  Steady(r1, a, segs)
<1> DEFINE now == Now(sg)
           off == ReadOff(r)
           end == ReadEnd(r)
           b == r.buf
           c == ReadLines(r)
<1>0. /\ r \in FollowerRec /\ b \in Seq(Nat) /\ a \in Nat /\ Disk(r.list, n)
  BY DEF Shape, FollowerRec
<1>1. /\ sg \in r.list /\ sg \in SegRec /\ \A l \in r.list : l = sg \/ Before(sg, l)
      /\ now.base \in Nat /\ now.size \in Nat
      /\ off \in Nat /\ end \in Nat /\ end <= now.size
      /\ c \in Seq(Nat) /\ Len(c) = (IF end > off THEN end - off ELSE 0)
      /\ \A k \in 1..Len(c) : c[k] = now.base + off + k
      /\ {c[k] : k \in 1..Len(c)} = now.base + off + 1 .. now.base + end
  BY ReadIs
<1>2. off = Start(sg, r.cur)
  BY DEF ReadOff
<1>3. /\ \A x \in segs : \A y \in Held(x) :
           y > Reach(r, a) <=> Before(sg, x) \/ (SameName(x, sg) /\ x.base + off < y)
      /\ \A x \in segs : SameName(x, sg) => off <= x.size
  <2>1. sg \in r.list /\ \A l \in r.list : l = sg \/ Before(sg, l)
    BY <1>1
  <2>2. /\ \A x \in segs : \A y \in Held(x) :
             y > Reach(r, a) <=>
               Before(sg, x) \/ (SameName(x, sg) /\ x.base + Start(sg, r.cur) < y)
        /\ \A x \in segs : SameName(x, sg) => Start(sg, r.cur) <= x.size
    <3> HIDE DEF now, off, end, b, c
    <3> QED BY <2>1, NextFile
  <2> HIDE DEF off
  <2> QED BY <1>2, <2>2
<1>4. /\ now \in segs \/ (now.size = 0 /\ \A x \in segs : ~SameName(x, sg))
      /\ \A x \in segs : SameName(x, sg) => x = now
      /\ now.run = sg.run /\ now.seg = sg.seg
  BY <1>1, NowIs
<1>5. /\ \A k \in 1..Len(b) : a < b[k]
      /\ \A j, k \in 1..Len(b) : j < k => b[j] < b[k]
      /\ \A x \in segs : \A y \in Held(x) : a < y /\ y <= Reach(r, a) => y \in Holds(r)
  BY DEF Steady
<1>6. /\ Reach(r, a) \in Nat /\ a <= Reach(r, a)
      /\ \A k \in 1..Len(b) : b[k] <= Reach(r, a)
  BY <1>0, <1>5, ReachIs
<1>7. /\ \A x : Before(r1.cur, x) <=> Before(sg, x)
      /\ \A x : Before(x, r1.cur) <=> Before(x, sg)
      /\ \A x : SameName(x, r1.cur) <=> SameName(x, sg)
      /\ r1.cur.off = off + Len(c)
  BY DEF Before, SameName
<1>8. \E x \in segs : ~Before(x, r1.cur)
  BY <1>1, <1>7 DEF Listed
<1>9. \A x \in segs : x.base \in Nat /\ x.size \in Nat /\ x.run \in Nat /\ x.seg \in Nat
  BY MaxBytesIs DEF Disk, SegRec
<1>10. sg.run \in Nat /\ sg.seg \in Nat
  BY <1>1 DEF SegRec
<1> HIDE DEF now, off, end, b, c
<1>1a. /\ now.base \in Nat /\ now.size \in Nat
       /\ off \in Nat /\ end \in Nat /\ end <= now.size
       /\ Len(c) = (IF end > off THEN end - off ELSE 0) /\ Len(c) \in Nat
       /\ c \in Seq(Nat) /\ \A k \in 1..Len(c) : c[k] = now.base + off + k
  BY <1>1
<1>11. CASE c = <<>>
  <2>1. r1.buf = b /\ Len(c) = 0
    BY <1>0, <1>11, ConcatEmptySeq DEF b, c
  <2>2. r1.cur.off = off
    BY <1>1, <1>7, <2>1
  <2>3. Reach(r1, a) = Reach(r, a) /\ Holds(r1) = Holds(r)
    BY <2>1 DEF Reach, Holds, b
  <2> QED BY <1>3, <1>5, <1>7, <1>8, <2>1, <2>2, <2>3 DEF Steady, Ahead
<1>12. CASE c # <<>>
  <2>0. Len(c) # 0
    BY <1>1a, <1>12
  <2>1. end > off /\ Len(c) = end - off /\ Len(c) \in 1..Len(c) /\ off + Len(c) = end
    BY <1>1a, <2>0
  <2>2. now \in segs /\ SameName(now, sg) /\ ~Before(sg, now)
    BY <1>1, <1>4, <1>10, <2>1 DEF SameName, Before
  <2>3. c[Len(c)] = now.base + end
    BY <1>1a, <2>1
  <2>4. Reach(r1, a) = now.base + end
    <3>0. r1.buf = b \o c /\ b \in Seq(Nat)
      BY <1>0 DEF b, c
    <3>0a. Len(b \o c) = Len(b) + Len(c) /\ (b \o c)[Len(b \o c)] = c[Len(c)]
      BY <1>1a, <1>12, <3>0, JoinedLines
    <3>1. Len(r1.buf) = Len(b) + Len(c) /\ r1.buf[Len(r1.buf)] = c[Len(c)]
      BY <3>0, <3>0a
    <3>2. r1.buf # <<>>
      BY <1>1a, <2>0, <3>0, <3>1
    <3> QED BY <2>3, <3>1, <3>2 DEF Reach
  <2>5. Holds(r1) = Holds(r) \cup (now.base + off + 1 .. now.base + end)
    <3>1. {(b \o c)[k] : k \in 1..Len(b \o c)} = {b[k] : k \in 1..Len(b)} \cup {c[k] : k \in 1..Len(c)}
      BY <1>0, <1>1, JoinedLines
    <3>2. Holds(r1) = {(b \o c)[k] : k \in 1..Len(b \o c)} /\ Holds(r) = {b[k] : k \in 1..Len(b)}
      BY DEF Holds, b, c
    <3> QED BY <1>1, <3>1, <3>2
  <2>6. \A k \in 1..Len(c) : c[k] > Reach(r, a)
    <3> TAKE k \in 1..Len(c)
    <3>1. c[k] = now.base + off + k /\ k <= Len(c)
      BY <1>1a
    <3>1a. k \in Nat /\ 1 <= k /\ k <= end - off
      BY <1>1a, <2>1
    <3>1b. /\ now.base + off < now.base + off + k
           /\ now.base + off + k \in now.base + 1 .. now.base + now.size
      <4>1. \A p, s, o, e, i \in Nat :
              1 <= i /\ i <= e - o /\ e <= s => p + o < p + o + i /\ p + o + i \in p + 1 .. p + s
        OBVIOUS
      <4> QED BY <1>1a, <3>1a, <4>1
    <3>2. c[k] \in Held(now) /\ now.base + off < c[k]
      BY <3>1, <3>1b DEF Held
    <3> QED BY <1>3, <2>2, <3>2
  <2>7. /\ \A k \in 1..Len(r1.buf) : a < r1.buf[k]
        /\ \A j, k \in 1..Len(r1.buf) : j < k => r1.buf[j] < r1.buf[k]
    <3>0. \A k \in 1..Len(c) : c[k] \in Nat /\ k \in Nat
      <4>1. \A k \in 1..Len(c) : k \in Nat
        OBVIOUS
      <4>2. \A p, o, k \in Nat : p + o + k \in Nat
        OBVIOUS
      <4> QED BY <1>1a, <4>1, <4>2
    <3>0a. \A k \in 1..Len(b) : b[k] \in Nat
      BY <1>0
    <3>1. \A j, k \in 1..Len(c) : j < k => c[j] < c[k]
      BY <1>1a, <3>0
    <3>2. \A j \in 1..Len(b), k \in 1..Len(c) : b[j] < c[k]
      BY <1>6, <2>6, <3>0, <3>0a
    <3>3. \A j, k \in 1..Len(b \o c) : j < k => (b \o c)[j] < (b \o c)[k]
      BY <1>0, <1>1, <1>5, <3>1, <3>2, JoinedOrder
    <3>4. \A y \in Holds(r1) : a < y
      <4>1. \A y \in Holds(r) : a < y
        BY <1>5 DEF Holds, b
      <4>2. \A k \in 1..Len(c) : a < c[k]
        BY <1>0, <1>6, <2>6, <3>0
      <4>3. \A y \in now.base + off + 1 .. now.base + end : a < y
        BY <1>1, <4>2
      <4> QED BY <2>5, <4>1, <4>3
    <3>5. r1.buf = b \o c
      BY DEF b, c
    <3> QED BY <3>3, <3>4, <3>5 DEF Holds
  <2>8. ASSUME NEW x \in segs, NEW y \in Held(x)
        PROVE  /\ a < y /\ y <= now.base + end => y \in Holds(r1)
               /\ y > now.base + end <=> Ahead(x, y, r1.cur)
    <3>0. y \in Nat /\ x.base < y /\ y <= x.base + x.size
      BY <1>9 DEF Held
    <3>1. y > Reach(r, a) <=> Before(sg, x) \/ (SameName(x, sg) /\ x.base + off < y)
      BY <1>3
    <3>2. a < y /\ ~(y > Reach(r, a)) => y \in Holds(r)
      BY <1>0, <1>5, <1>6, <3>0
    <3>3. Ahead(x, y, r1.cur) <=> Before(sg, x) \/ (SameName(x, sg) /\ x.base + end < y)
      BY <1>7, <2>1 DEF Ahead
    <3>4. Before(sg, x) => now.base + now.size <= x.base
      <4> SUFFICES ASSUME Before(sg, x) PROVE now.base + now.size <= x.base
        OBVIOUS
      <4>1. Before(now, x) /\ ~Before(x, now) /\ x # now
        BY <1>4, <1>9, <1>10, <2>2 DEF Before, SameName
      <4> QED BY <2>2, <4>1 DEF Disk, InOrder
    <3>5. CASE Before(sg, x)
      <4>1. y > now.base + end
        BY <1>1, <1>9, <3>0, <3>4, <3>5
      <4> QED BY <1>1, <3>0, <3>3, <3>5, <4>1
    <3>6. CASE SameName(x, sg)
      <4>1. x = now
        BY <1>4, <3>6
      <4>2. ~Before(sg, x)
        BY <2>2, <4>1
      <4> HIDE DEF Holds
      <4>3. y > now.base + off /\ y <= now.base + end => y \in Holds(r1)
        BY <1>1, <2>5, <3>0
      <4>4. a < y /\ ~(y > now.base + off) => y \in Holds(r)
        BY <3>1, <3>2, <3>6, <4>1, <4>2
      <4>5. y > now.base + end <=> Ahead(x, y, r1.cur)
        BY <1>1, <3>0, <3>3, <3>6, <4>1, <4>2
      <4> QED BY <2>5, <4>3, <4>4, <4>5
    <3>7. CASE ~Before(sg, x) /\ ~SameName(x, sg)
      <4>1. ~(y > Reach(r, a)) /\ ~Ahead(x, y, r1.cur)
        BY <3>1, <3>3, <3>7
      <4>2. Reach(r, a) < now.base + end
        <5>1. Len(c) \in 1..Len(c)
          BY <2>1
        <5> QED BY <1>1, <1>6, <2>3, <2>6, <5>1
      <4>3. ~(y > now.base + end)
        BY <1>1, <1>6, <3>0, <4>1, <4>2
      <4> QED BY <2>5, <3>2, <4>1, <4>3
    <3> QED BY <3>5, <3>6, <3>7
  <2>9. \A x \in segs : SameName(x, r1.cur) => r1.cur.off <= x.size
    BY <1>1, <1>4, <1>7, <2>1
  <2> QED BY <1>8, <2>4, <2>7, <2>8, <2>9 DEF Steady
<1> QED BY <1>11, <1>12

\* What is left to be read after a file was.
LEMMA ReadsOn ==
  ASSUME NEW n \in Nat, Disk(segs, n), NEW r, NEW a, Shape(r, a, n), r.pc = "read",
         Listed(r.list, segs), Reads(r, segs), Steady(r, a, segs),
         NEW sg, sg = Oldest(r.list), NEW r1,
         r1.cur = [run |-> sg.run, seg |-> sg.seg, off |-> ReadOff(r) + Len(ReadLines(r))],
         r1.list = r.list \ {sg}, Len(r.buf) + Len(ReadLines(r)) < Batch
  PROVE  Listed(r1.list, segs) /\ Reads(r1, segs)
<1> DEFINE now == Now(sg)
           off == ReadOff(r)
           end == ReadEnd(r)
           c == ReadLines(r)
<1>1. /\ sg \in r.list /\ sg \in SegRec /\ \A l \in r.list : l = sg \/ Before(sg, l)
      /\ now.size \in Nat /\ off \in Nat /\ end \in Nat
      /\ Len(c) = (IF end > off THEN end - off ELSE 0)
      /\ off <= now.size => end = now.size
  BY ReadIs
<1>2. \A x \in segs : SameName(x, sg) => off <= x.size
  <2>1. off = Start(sg, r.cur)
    BY DEF ReadOff
  <2>2. sg \in r.list /\ \A l \in r.list : l = sg \/ Before(sg, l)
    BY <1>1
  <2>3. \A x \in segs : SameName(x, sg) => Start(sg, r.cur) <= x.size
    <3> HIDE DEF now, off, end, c
    <3> QED BY <2>2, NextFile
  <2> HIDE DEF off
  <2> QED BY <2>1, <2>3
<1>3. \A x \in segs : SameName(x, sg) => x = now
  BY <1>1, NowIs
<1>4. r1.cur.run = sg.run /\ r1.cur.seg = sg.seg /\ r1.cur.off = off + Len(c)
  OBVIOUS
<1>5. /\ r.cur.run \in Nat /\ r.cur.seg \in Nat /\ r.cur.off \in Nat
      /\ \A l \in r.list : l.run \in Nat /\ l.seg \in Nat
      /\ \A x \in segs : x.run \in Nat /\ x.seg \in Nat
  <2>1. r \in FollowerRec
    BY DEF Shape
  <2> QED BY <2>1, NamesTyped
<1> HIDE DEF now, off, end, c
<1>6. Listed(r1.list, segs)
  BY DEF Listed
<1>7. \A l \in r1.list : l \in r.list /\ Before(sg, l) /\ ~Before(l, r1.cur)
  BY <1>1, <1>4, <1>5 DEF Before
<1>8. ASSUME NEW x \in segs, NEW l \in r1.list, ~Before(x, r1.cur), Before(x, l)
      PROVE  IsListed(r1.list, x) \/ (SameName(x, r1.cur) /\ x.size <= r1.cur.off)
  <2>1. CASE SameName(x, sg)
    <3>1. x = now /\ off <= now.size
      BY <1>2, <1>3, <2>1
    <3>2. off + Len(c) = now.size
      BY <1>1, <3>1
    <3> QED BY <1>1, <1>4, <2>1, <3>1, <3>2 DEF SameName
  <2>2. CASE ~SameName(x, sg)
    <3>1. Before(sg, x)
      <4>1. /\ sg.run \in Nat /\ sg.seg \in Nat /\ x.run \in Nat /\ x.seg \in Nat
        BY <1>1, <1>5
      <4>2. ~Before(x, sg)
        BY <1>4, <1>8 DEF Before
      <4> HIDE DEF now, off, end, c
      <4> QED BY <2>2, <4>1, <4>2 DEF Before, SameName
    <3>2. ~Before(sg, r.cur)
      BY <1>1 DEF Reads
    <3>3. ~Before(x, r.cur) /\ ~SameName(x, r.cur)
      <4>1. /\ sg.run \in Nat /\ sg.seg \in Nat /\ x.run \in Nat /\ x.seg \in Nat
            /\ r.cur.run \in Nat /\ r.cur.seg \in Nat
        BY <1>1, <1>5
      <4> QED BY <3>1, <3>2, <4>1 DEF Before, SameName
    <3>4. IsListed(r.list, x)
      BY <1>7, <1>8, <3>3 DEF Reads
    <3> QED BY <2>2, <3>4 DEF IsListed, SameName
  <2> QED BY <2>1, <2>2
<1>9. Reads(r1, segs)
  BY <1>7, <1>8 DEF Reads
<1> QED BY <1>6, <1>9

\* The three ways a turn of ReadSeg may go.
LEMMA ReadTurns ==
  ASSUME FilesInv, FollowersInv, NEW f \in Follower, ReadSeg(f)
  PROVE  LET r == rd[f]
             r1 == rd'[f]
             sg == Oldest(r.list)
         IN  /\ r1 \in FollowerRec /\ Turn(f, r1) /\ r.pc = "read"
             /\ r1.cur = [run |-> sg.run, seg |-> sg.seg, off |-> ReadOff(r) + Len(ReadLines(r))]
             /\ r1.buf = r.buf \o ReadLines(r)
             /\ \/ /\ r1.pc = "read" /\ r1.list = r.list \ {sg} /\ r1.list # {}
                   /\ Len(r.buf) + Len(ReadLines(r)) < Batch
                \/ /\ r1.pc \in {"emit", "sleep"} /\ r1.list \in SUBSET r.list
                   /\ r1.pc = "emit" <=> r1.buf # <<>>
<1> DEFINE r == rd[f]
           sg == Oldest(r.list)
           off == ReadOff(r)
           lines == ReadLines(r)
           buf == r.buf \o lines
           cur == [run |-> sg.run, seg |-> sg.seg, off |-> off + Len(lines)]
           read == [r EXCEPT !.cur = cur, !.list = @ \ {sg}, !.buf = buf]
           next == IF Len(buf) >= Batch THEN [read EXCEPT !.pc = "emit", !.after = "list", !.list = {}]
                   ELSE IF r.list = {sg} THEN Rest(read, buf) ELSE read
<1>0. /\ r \in FollowerRec /\ r.pc = "read" /\ r.list # {} /\ Shape(r, at[f], top)
      /\ top \in Nat /\ Disk(segs, top) /\ rd \in [Follower -> FollowerRec]
  BY FollowerIs DEF ReadSeg, Shape, FollowersInv
<1>1. Turn(f, next)
  BY DEF ReadSeg, ReadLines, ReadEnd, ReadOff
<1>2. sg \in r.list /\ sg \in SegRec /\ off \in Nat /\ lines \in Seq(Nat) /\ r.buf \in Seq(Nat)
  <2>1. r.buf \in Seq(Nat)
    BY <1>0 DEF FollowerRec
  <2> QED BY <1>0, <2>1, ReadIs
<1> HIDE DEF sg, off, lines
<1>3. buf \in Seq(Nat) /\ Len(buf) = Len(r.buf) + Len(lines) /\ Len(buf) \in Nat
      /\ (Len(buf) >= Batch => buf # <<>>)
  BY <1>2, MaxBytesIs
<1> HIDE DEF buf
<1>4. cur \in [run : Nat, seg : Nat, off : Nat]
  BY <1>2 DEF SegRec
<1> HIDE DEF cur
<1>5. read \in FollowerRec /\ read.cur = cur /\ read.list = r.list \ {sg} /\ read.buf = buf
      /\ read.pc = "read"
  BY <1>0, <1>3, <1>4 DEF FollowerRec
<1> HIDE DEF read, r
<1>6. /\ next \in FollowerRec /\ next.cur = cur /\ next.buf = buf
      /\ \/ /\ next.pc = "read" /\ next.list = r.list \ {sg} /\ next.list # {}
            /\ Len(buf) < Batch
         \/ /\ next.pc \in {"emit", "sleep"} /\ next.list \in SUBSET r.list
            /\ next.pc = "emit" <=> buf # <<>>
  <2>1. CASE Len(buf) >= Batch
    <3>1. next = [read EXCEPT !.pc = "emit", !.after = "list", !.list = {}]
      BY <2>1
    <3> HIDE DEF next
    <3> QED BY <1>3, <1>5, <2>1, <3>1 DEF FollowerRec
  <2>2. CASE ~(Len(buf) >= Batch) /\ r.list = {sg}
    <3>1. next = [read EXCEPT !.buf = buf, !.after = "sleep",
                              !.pc = IF buf = <<>> THEN "sleep" ELSE "emit"]
      BY <2>2 DEF Rest
    <3> HIDE DEF next
    <3> QED BY <1>3, <1>5, <3>1 DEF FollowerRec
  <2>3. CASE ~(Len(buf) >= Batch) /\ r.list # {sg}
    <3>1. next = read
      BY <2>3
    <3>2. r.list \ {sg} # {} /\ Len(buf) < Batch
      BY <1>0, <1>2, <1>3, <2>3, MaxBytesIs
    <3> HIDE DEF next
    <3> QED BY <1>5, <3>1, <3>2
  <2> QED BY <2>1, <2>2, <2>3
<1> HIDE DEF next
<1>7. rd'[f] = next
  BY <1>0, <1>1 DEF Turn
<1> QED BY <1>0, <1>1, <1>3, <1>6, <1>7 DEF buf, cur, r, lines, off, sg

LEMMA ReadFollowers ==
  ASSUME FilesInv, FollowersInv, NEW f \in Follower, ReadSeg(f)
  PROVE  FollowersInv'
<1> DEFINE r == rd[f]
           r1 == rd'[f]
           a == at[f]
           sg == Oldest(r.list)
<1>0. /\ Shape(r, a, top) /\ (f \notin lost => Sound(r, a, segs)) /\ top \in Nat /\ Disk(segs, top)
      /\ UNCHANGED <<segs, at, lost, top>> /\ at' = [at EXCEPT ![f] = a] /\ r.pc = "read"
  BY FollowerIs DEF ReadSeg
<1>1. /\ r1 \in FollowerRec /\ Turn(f, r1)
      /\ r1.cur = [run |-> sg.run, seg |-> sg.seg, off |-> ReadOff(r) + Len(ReadLines(r))]
      /\ r1.buf = r.buf \o ReadLines(r)
      /\ \/ /\ r1.pc = "read" /\ r1.list = r.list \ {sg} /\ r1.list # {}
            /\ Len(r.buf) + Len(ReadLines(r)) < Batch
         \/ /\ r1.pc \in {"emit", "sleep"} /\ r1.list \in SUBSET r.list
            /\ r1.pc = "emit" <=> r1.buf # <<>>
  BY ReadTurns
<1> HIDE DEF r, r1, a, sg
<1>2. Shape(r1, a, top)
  <2> DEFINE now == Now(sg)
             c == ReadLines(r)
  <2>1. /\ now.base \in Nat /\ now.size \in Nat /\ now.base + now.size <= top
        /\ ReadOff(r) \in Nat /\ ReadEnd(r) \in Nat /\ ReadEnd(r) <= now.size
        /\ c \in Seq(Nat)
        /\ {c[k] : k \in 1..Len(c)} = now.base + ReadOff(r) + 1 .. now.base + ReadEnd(r)
        /\ Len(r.buf) + Len(c) <= Batch
    BY <1>0, ReadIs DEF sg
  <2>2. /\ r.buf \in Seq(Nat) /\ a \in 0..top /\ Disk(r.list, top)
        /\ \A k \in 1..Len(r.buf) : r.buf[k] \in 1..top
    BY <1>0 DEF Shape, FollowerRec
  <2> HIDE DEF now, c
  <2>3. /\ Len(r1.buf) = Len(r.buf) + Len(c)
        /\ {r1.buf[k] : k \in 1..Len(r1.buf)} =
             {r.buf[k] : k \in 1..Len(r.buf)} \cup {c[k] : k \in 1..Len(c)}
    <3>1. r1.buf = r.buf \o c
      BY <1>1 DEF c
    <3>2. /\ Len(r.buf \o c) = Len(r.buf) + Len(c)
          /\ {(r.buf \o c)[k] : k \in 1..Len(r.buf \o c)} =
               {r.buf[k] : k \in 1..Len(r.buf)} \cup {c[k] : k \in 1..Len(c)}
      BY <2>1, <2>2, JoinedLines
    <3> QED BY <3>1, <3>2, Zenon
  <2>4. \A k \in 1..Len(r1.buf) : r1.buf[k] \in 1..top
    <3>1. \A y \in now.base + ReadOff(r) + 1 .. now.base + ReadEnd(r) : y \in 1..top
      BY <1>0, <2>1
    <3>2. \A y \in {r1.buf[k] : k \in 1..Len(r1.buf)} : y \in 1..top
      BY <2>1, <2>2, <2>3, <3>1
    <3> QED BY <3>2
  <2>5. Disk(r1.list, top)
    <3>1. r1.list \in SUBSET r.list
      BY <1>1
    <3> QED BY <2>2, <3>1, FewerFiles
  <2>6. Len(r1.buf) <= Batch /\ Len(r1.buf) <= Longest
        /\ (r1.pc = "read" => Len(r1.buf) < Batch)
    <3>1. Len(r1.buf) <= Batch /\ Len(r1.buf) \in Nat
      BY <2>1, <2>2, <2>3
    <3>2. r1.pc = "read" => Len(r1.buf) < Batch
      BY <1>1, <2>3 DEF c
    <3> QED BY <3>1, <3>2, MaxBytesIs DEF Longest
  <2>7. r1.pc \in {"read", "emit", "sleep"} /\ (r1.pc = "read" => r1.list # {})
        /\ (r1.pc = "emit" => r1.buf # <<>>) /\ (r1.pc = "sleep" => r1.buf = <<>>)
    BY <1>1
  <2> QED BY <1>1, <2>2, <2>4, <2>5, <2>6, <2>7 DEF Shape
<1>3. ASSUME f \notin lost PROVE Sound(r1, a, segs)
  <2>1. Listed(r.list, segs) /\ Reads(r, segs) /\ Steady(r, a, segs)
    BY <1>0, <1>3 DEF Sound
  <2>2. Steady(r1, a, segs)
    BY <1>0, <1>1, <2>1, ReadSteady DEF sg
  <2>3. r1.pc = "read" => Listed(r1.list, segs) /\ Reads(r1, segs)
    <3> SUFFICES ASSUME r1.pc = "read" PROVE Listed(r1.list, segs) /\ Reads(r1, segs)
      OBVIOUS
    <3>1. r1.list = r.list \ {sg} /\ Len(r.buf) + Len(ReadLines(r)) < Batch
      BY <1>1
    <3> QED BY <1>0, <1>1, <2>1, <3>1, ReadsOn DEF sg
  <2>4. r1.pc \in {"read", "emit", "sleep"}
    BY <1>1
  <2> QED BY <2>2, <2>3, <2>4 DEF Sound
<1>4. r1.pc # "off"
  BY <1>1
<1> QED BY <1>0, <1>1, <1>2, <1>3, <1>4, TurnFollowers

-----------------------------------------------------------------------------
(* The backlog *)

\* What a turn of TailRead reads.
TailOff(r) ==
  LET now == Now(Newest(r.list))
      need == r.want - Len(r.buf)
  IN  IF now.size > need THEN now.size - need ELSE 0
TailLines(r) == LET now == Now(Newest(r.list)) IN Lines(now, TailOff(r), now.size)

LEMMA TailIs ==
  ASSUME NEW n \in Nat, Disk(segs, n), NEW r, NEW a, Shape(r, a, n), r.pc = "tail"
  PROVE  LET sg == Newest(r.list)
             now == Now(sg)
         IN  /\ sg \in r.list /\ sg \in SegRec /\ \A l \in r.list : l = sg \/ Before(l, sg)
             /\ now \in SegRec /\ now.base \in Nat /\ now.size \in Nat /\ now.base + now.size <= n
             /\ TailOff(r) \in Nat /\ TailOff(r) <= now.size
             /\ TailLines(r) \in Seq(Nat)
             /\ Len(TailLines(r)) = now.size - TailOff(r)
             /\ \A k \in 1..Len(TailLines(r)) : TailLines(r)[k] = now.base + TailOff(r) + k
             /\ {TailLines(r)[k] : k \in 1..Len(TailLines(r))} =
                  now.base + TailOff(r) + 1 .. now.base + now.size
             /\ Len(TailLines(r)) + Len(r.buf) <= r.want
             /\ Len(TailLines(r)) + Len(r.buf) < r.want => TailOff(r) = 0
<1> DEFINE sg == Newest(r.list)
           now == Now(sg)
           off == TailOff(r)
<1>0. /\ r \in FollowerRec /\ r.buf \in Seq(Nat) /\ Disk(r.list, n) /\ r.list # {}
      /\ Len(r.buf) <= r.want /\ r.want \in Nat /\ Len(r.buf) \in Nat
  BY DEF Shape, FollowerRec
<1>1. sg \in r.list /\ \A l \in r.list : l = sg \/ Before(l, sg)
  BY <1>0, EndsAre
<1>2. sg \in SegRec
  BY <1>0, <1>1 DEF Disk
<1> HIDE DEF sg
<1>3. now \in SegRec /\ (now \in segs \/ (now.size = 0 /\ now.base = sg.base))
  BY <1>2, NowIs
<1> HIDE DEF now
<1>5. now.base \in Nat /\ now.size \in Nat
  BY <1>3, MaxBytesIs DEF SegRec
<1>6. now.base + now.size <= n
  <2>1. CASE now \in segs
    BY <2>1 DEF Disk
  <2>2. CASE now.size = 0 /\ now.base = sg.base
    <3>1. sg.base \in Nat /\ sg.size \in Nat /\ sg.base + sg.size <= n
      BY <1>0, <1>1, <1>2, MaxBytesIs DEF Disk, SegRec
    <3> QED BY <2>2, <3>1
  <2> QED BY <1>3, <2>1, <2>2
<1>7. off = IF now.size > r.want - Len(r.buf) THEN now.size - (r.want - Len(r.buf)) ELSE 0
  BY DEF TailOff, now, sg
<1>9. TailLines(r) = Lines(now, off, now.size)
  BY DEF TailLines, now, sg
<1> HIDE DEF off
<1>10. off \in Nat /\ off <= now.size
  BY <1>0, <1>5, <1>7
<1>11. /\ TailLines(r) \in Seq(Nat)
       /\ Len(TailLines(r)) = (IF now.size > off THEN now.size - off ELSE 0)
       /\ \A k \in 1..Len(TailLines(r)) : TailLines(r)[k] = now.base + off + k
       /\ {TailLines(r)[k] : k \in 1..Len(TailLines(r))} = now.base + off + 1 .. now.base + now.size
  <2> DEFINE l == Lines(now, off, now.size)
  <2>1. /\ l \in Seq(Nat)
        /\ Len(l) = (IF now.size > off THEN now.size - off ELSE 0)
        /\ \A k \in 1..Len(l) : l[k] = now.base + off + k
        /\ {l[k] : k \in 1..Len(l)} = now.base + off + 1 .. now.base + now.size
    <3> DEFINE end == now.size
    <3>1. end \in Nat /\ now.base \in Nat /\ off \in Nat /\ l = Lines(now, off, end)
      BY <1>5, <1>10
    <3> HIDE DEF end
    <3>2. LET m == Lines(now, off, end)
          IN  /\ m \in Seq(Nat)
              /\ Len(m) = (IF end > off THEN end - off ELSE 0)
              /\ \A k \in 1..Len(m) : m[k] = now.base + off + k
              /\ {m[k] : k \in 1..Len(m)} = now.base + off + 1 .. now.base + end
      BY <3>1, LinesAre
    <3> QED BY <3>2 DEF end
  <2> HIDE DEF l
  <2>2. TailLines(r) = l
    BY <1>9 DEF l
  <2> QED BY <2>1, <2>2, Zenon
<1>12. /\ Len(TailLines(r)) = now.size - off
       /\ Len(TailLines(r)) + Len(r.buf) <= r.want
       /\ Len(TailLines(r)) + Len(r.buf) < r.want => off = 0
  <2>1. Len(TailLines(r)) = (IF now.size > off THEN now.size - off ELSE 0)
    BY <1>11
  <2>2. \A s, w, b, o, c \in Nat :
          b <= w /\ o = (IF s > w - b THEN s - (w - b) ELSE 0) /\ c = (IF s > o THEN s - o ELSE 0)
            => c = s - o /\ c + b <= w /\ (c + b < w => o = 0)
    OBVIOUS
  <2> DEFINE size == now.size
             had == Len(r.buf)
             read == Len(TailLines(r))
             want == r.want
  <2>3. /\ size \in Nat /\ had \in Nat /\ read \in Nat /\ want \in Nat /\ off \in Nat
        /\ had <= want
    BY <1>0, <1>5, <1>10, <1>11
  <2>4. off = IF size > want - had THEN size - (want - had) ELSE 0
    BY <1>7
  <2>5. read = IF size > off THEN size - off ELSE 0
    BY <2>1
  <2> HIDE DEF size, had, read, want
  <2>6. read = size - off /\ read + had <= want /\ (read + had < want => off = 0)
    BY <2>2, <2>3, <2>4, <2>5
  <2> QED BY <2>6 DEF size, had, read, want
<1> QED BY <1>1, <1>2, <1>3, <1>5, <1>6, <1>10, <1>11, <1>12 DEF sg, now, off

\* Where it goes on when a turn has read the lines from off on.
TailCur(r) ==
  IF r.cur.run = 0 THEN [run |-> Newest(r.list).run, seg |-> Newest(r.list).seg,
                         off |-> Now(Newest(r.list)).size] ELSE r.cur
TailAt(r, a) ==
  LET buf == TailLines(r) \o r.buf
      now == Now(Newest(r.list))
  IN  IF buf # <<>> THEN Head(buf) - 1 ELSE IF r.cur.run = 0 THEN now.base + now.size ELSE a

LEMMA TailAtIs ==
  ASSUME NEW n \in Nat, Disk(segs, n), NEW r, NEW a, Shape(r, a, n), r.pc = "tail"
  PROVE  LET now == Now(Newest(r.list))
         IN  /\ TailAt(r, a) \in 0..n
             /\ TailLines(r) # <<>> => TailAt(r, a) = now.base + TailOff(r)
             /\ TailLines(r) = <<>> /\ r.buf # <<>> => TailAt(r, a) = r.buf[1] - 1
             /\ TailLines(r) = <<>> /\ r.buf = <<>> =>
                  TailAt(r, a) = IF r.cur.run = 0 THEN now.base + now.size ELSE a
<1> DEFINE now == Now(Newest(r.list))
           c == TailLines(r)
           b == r.buf
<1>1. /\ now.base \in Nat /\ now.size \in Nat /\ now.base + now.size <= n
      /\ TailOff(r) \in Nat /\ TailOff(r) <= now.size
      /\ c \in Seq(Nat)
      /\ \A k \in 1..Len(c) : c[k] = now.base + TailOff(r) + k
  BY TailIs
<1>2. b \in Seq(Nat) /\ a \in 0..n /\ \A k \in 1..Len(b) : b[k] \in 1..n
  BY DEF Shape, FollowerRec
<1>3. TailAt(r, a) = IF c \o b # <<>> THEN Head(c \o b) - 1
                     ELSE IF r.cur.run = 0 THEN now.base + now.size ELSE a
  BY DEF TailAt
<1> HIDE DEF now, c, b
<1>4. CASE c # <<>>
  <2>1. 1 \in 1..Len(c) /\ c \o b # <<>> /\ Head(c \o b) = (c \o b)[1]
    BY <1>1, <1>2, <1>4
  <2>2. (c \o b)[1] = c[1]
    BY <1>1, <1>2, <1>4, JoinedLines
  <2>3. c[1] = now.base + TailOff(r) + 1
    BY <1>1, <2>1
  <2>4. TailAt(r, a) = now.base + TailOff(r)
    BY <1>1, <1>3, <2>1, <2>2, <2>3
  <2> QED BY <1>1, <1>4, <2>4 DEF c, now
<1>5. CASE c = <<>> /\ b # <<>>
  <2>1. c \o b = b
    BY <1>2, <1>5, ConcatEmptySeq
  <2>2. 1 \in 1..Len(b) /\ Head(b) = b[1]
    BY <1>2, <1>5
  <2>3. TailAt(r, a) = b[1] - 1
    BY <1>3, <1>5, <2>1, <2>2
  <2> QED BY <1>2, <1>5, <2>2, <2>3 DEF b, c
<1>6. CASE c = <<>> /\ b = <<>>
  <2>1. c \o b = <<>>
    BY <1>2, <1>6, ConcatEmptySeq
  <2> QED BY <1>1, <1>2, <1>3, <1>6, <2>1 DEF b, c, now
<1> QED BY <1>4, <1>5, <1>6

\* The first file of the backlog is read: the follower starts there.
LEMMA TailStarts ==
  ASSUME NEW n \in Nat, Disk(segs, n), NEW r, NEW a, Shape(r, a, n), r.pc = "tail",
         Listed(r.list, segs), Starts(r, segs), r.cur.run = 0,
         NEW r1, r1.cur = TailCur(r), r1.buf = TailLines(r) \o r.buf
  PROVE  /\ Steady(r1, TailAt(r, a), segs)
         /\ r1.list = r.list \ {Newest(r.list)} /\ Len(r1.buf) < r.want
              => Listed(r1.list, segs) /\ Tails(r1, TailAt(r, a), segs)
<1> DEFINE sg == Newest(r.list)
           now == Now(sg)
           off == TailOff(r)
           c == TailLines(r)
           a1 == TailAt(r, a)
<1>1. /\ sg \in r.list /\ sg \in SegRec /\ \A l \in r.list : l = sg \/ Before(l, sg)
      /\ now.base \in Nat /\ now.size \in Nat
      /\ off \in Nat /\ off <= now.size
      /\ c \in Seq(Nat) /\ Len(c) = now.size - off
      /\ \A k \in 1..Len(c) : c[k] = now.base + off + k
      /\ {c[k] : k \in 1..Len(c)} = now.base + off + 1 .. now.base + now.size
      /\ Len(c) + Len(r.buf) < r.want => off = 0
  BY TailIs
<1>2. /\ now \in segs \/ (now.size = 0 /\ now.base = sg.base /\ \A x \in segs : ~SameName(x, sg))
      /\ \A x \in segs : SameName(x, sg) => x = now
      /\ now.run = sg.run /\ now.seg = sg.seg
  BY <1>1, NowIs
<1>3. r.buf = <<>> /\ r1.buf = c /\ Disk(r.list, n)
  <2>1. r.buf = <<>> /\ Disk(r.list, n)
    BY DEF Starts, Shape
  <2>2. c \in Seq(Nat)
    BY <1>1
  <2> HIDE DEF c
  <2> QED BY <2>1, <2>2, ConcatEmptySeq DEF c
<1>4. /\ r1.cur = [run |-> sg.run, seg |-> sg.seg, off |-> now.size]
  BY DEF TailCur
<1>5. /\ a1 \in Nat
      /\ c # <<>> => a1 = now.base + off
      /\ c = <<>> => a1 = now.base + now.size
  <2>1. /\ a1 \in 0..n
        /\ c # <<>> => a1 = now.base + off
        /\ c = <<>> /\ r.buf = <<>> => a1 = IF r.cur.run = 0 THEN now.base + now.size ELSE a
    BY TailAtIs
  <2> HIDE DEF a1, now, off, c
  <2> QED BY <1>3, <2>1
<1>6. /\ \A x \in segs : x.base \in Nat /\ x.size \in Nat /\ x.run \in Nat /\ x.seg \in Nat
      /\ \A x \in r.list : x.base \in Nat /\ x.size \in Nat /\ x.run \in Nat /\ x.seg \in Nat
      /\ sg.run \in Nat /\ sg.seg \in Nat /\ sg.base \in Nat /\ sg.size \in Nat
  BY <1>1, <1>3, MaxBytesIs DEF Disk, SegRec
<1>7. now.base = sg.base
  <2>1. CASE now \in segs
    BY <1>1, <1>2, <2>1 DEF Listed, SameName
  <2> QED BY <1>2, <2>1
<1> HIDE DEF sg, now, off, c, a1
<1>1a. /\ now.base \in Nat /\ now.size \in Nat /\ off \in Nat /\ off <= now.size
       /\ c \in Seq(Nat) /\ Len(c) = now.size - off /\ Len(c) \in Nat
       /\ \A k \in 1..Len(c) : c[k] = now.base + off + k
  BY <1>1
<1>8. /\ \A x : Before(r1.cur, x) <=> Before(sg, x)
      /\ \A x : Before(x, r1.cur) <=> Before(x, sg)
      /\ \A x : SameName(x, r1.cur) <=> SameName(x, sg)
      /\ r1.cur.off = now.size
  BY <1>4 DEF Before, SameName
<1>9. a1 = now.base + off /\ (c = <<>> => off = now.size)
  <2>1. c = <<>> => Len(c) = 0
    OBVIOUS
  <2> QED BY <1>1, <1>5, <2>1
<1>10. Holds(r1) = now.base + off + 1 .. now.base + now.size
  BY <1>1, <1>3 DEF Holds
<1>11. Reach(r1, a1) = now.base + now.size
  <2>1. CASE c = <<>>
    BY <1>1, <1>3, <1>9, <2>1 DEF Reach
  <2>2. CASE c # <<>>
    <3>1. Len(c) \in 1..Len(c)
      BY <1>1a, <2>2
    <3>2. c[Len(c)] = now.base + now.size
      <4>1. now.base + off + (now.size - off) = now.base + now.size
        BY <1>1a
      <4> QED BY <1>1a, <3>1, <4>1
    <3> QED BY <1>3, <2>2, <3>2 DEF Reach
  <2> QED BY <2>1, <2>2
<1>12. /\ \A k \in 1..Len(c) : a1 < c[k]
       /\ \A j, k \in 1..Len(c) : j < k => c[j] < c[k]
  <2>1. \A k \in 1..Len(c) : k \in Nat /\ 1 <= k /\ c[k] = now.base + off + k
    BY <1>1a
  <2>2. /\ \A k \in 1..Len(c) : now.base + off < now.base + off + k
        /\ \A j, k \in 1..Len(c) : j < k => now.base + off + j < now.base + off + k
    BY <1>1a
  <2> QED BY <1>9, <2>1, <2>2
<1>13. \A x \in segs : \/ SameName(x, sg) /\ x = now
                       \/ Before(x, sg) /\ x.base + x.size <= now.base
                       \/ Before(sg, x) /\ now.base + now.size <= x.base
  <2> TAKE x \in segs
  <2>1. SameName(x, sg) \/ Before(x, sg) \/ Before(sg, x)
    BY <1>6 DEF SameName, Before
  <2>2. CASE Before(x, sg)
    BY <1>1, <1>7, <2>2 DEF Listed
  <2>3. CASE Before(sg, x)
    <3>1. now.size = 0 \/ now \in segs
      BY <1>2
    <3>2. sg.base + sg.size <= x.base
      BY <1>1, <2>3 DEF Listed
    <3>3. CASE now.size = 0
      BY <1>6, <1>7, <2>3, <3>2, <3>3
    <3>4. CASE now \in segs
      <4>1. Before(now, x) /\ ~Before(x, now) /\ x # now
        BY <1>2, <1>6, <2>3 DEF Before
      <4> QED BY <2>3, <3>4, <4>1 DEF Disk, InOrder
    <3> QED BY <3>1, <3>3, <3>4
  <2> QED BY <1>2, <2>1, <2>2, <2>3
<1>14. ASSUME NEW x \in segs, NEW y \in Held(x)
       PROVE  /\ a1 < y /\ y <= now.base + now.size => y \in Holds(r1)
              /\ y > now.base + now.size <=> Ahead(x, y, r1.cur)
  <2>0. y \in Nat /\ x.base < y /\ y <= x.base + x.size
    BY <1>6 DEF Held
  <2>1. Ahead(x, y, r1.cur) <=> Before(sg, x) \/ (SameName(x, sg) /\ x.base + now.size < y)
    BY <1>8 DEF Ahead
  <2>2. CASE SameName(x, sg) /\ x = now
    <3>1. ~Before(sg, x)
      BY <1>6, <2>2 DEF Before, SameName
    <3>2. a1 < y /\ y <= now.base + now.size => y \in Holds(r1)
      BY <1>1, <1>9, <1>10, <2>0
    <3>3. ~(y > now.base + now.size) /\ ~(x.base + now.size < y)
      BY <1>1, <2>0, <2>2
    <3> QED BY <2>1, <3>1, <3>2, <3>3
  <2>3. CASE Before(x, sg) /\ x.base + x.size <= now.base
    <3>1. ~Before(sg, x) /\ ~SameName(x, sg)
      BY <1>6, <2>3 DEF Before, SameName
    <3>2. ~(a1 < y) /\ ~(y > now.base + now.size)
      <4>1. y <= now.base
        BY <1>1a, <1>6, <2>0, <2>3
      <4> QED BY <1>1a, <1>9, <2>0, <4>1
    <3> QED BY <2>1, <3>1, <3>2
  <2>4. CASE Before(sg, x) /\ now.base + now.size <= x.base
    <3>1. y > now.base + now.size /\ ~(y <= now.base + now.size)
      <4>1. x.base \in Nat /\ now.base + now.size \in Nat
        BY <1>1a, <1>6
      <4> HIDE DEF now
      <4> QED BY <2>0, <2>4, <4>1
    <3> QED BY <2>1, <2>4, <3>1
  <2> QED BY <1>13, <2>2, <2>3, <2>4
<1>15. Steady(r1, a1, segs)
  <2>1. \E x \in segs : ~Before(x, r1.cur)
    BY <1>1, <1>8 DEF Listed
  <2>2. \A x \in segs : SameName(x, r1.cur) => r1.cur.off <= x.size
    BY <1>1, <1>2, <1>8
  <2> QED BY <1>3, <1>11, <1>12, <1>14, <2>1, <2>2 DEF Steady
<1>16. ASSUME r1.list = r.list \ {sg}, Len(r1.buf) < r.want
       PROVE  Listed(r1.list, segs) /\ Tails(r1, a1, segs)
  <2>1. off = 0 /\ a1 = now.base
    <3>1. Len(c) + Len(r.buf) < r.want
      BY <1>1, <1>3, <1>16
    <3> QED BY <1>1, <1>9, <3>1
  <2>2. Listed(r1.list, segs)
    BY <1>16 DEF Listed
  <2>3. r1.buf # <<>> => r1.buf[1] = a1 + 1
    <3> SUFFICES ASSUME c # <<>> PROVE c[1] = a1 + 1
      BY <1>3
    <3>1. 1 \in 1..Len(c)
      BY <1>1
    <3> QED BY <1>1, <1>9, <3>1
  <2>4. ASSUME NEW l \in r1.list
        PROVE  Before(l, r1.cur) /\ l.base + l.size <= a1
    <3>1. l \in r.list /\ l # sg /\ Before(l, sg) /\ ~Before(sg, l)
      BY <1>1, <1>6, <1>16 DEF Before
    <3>2. l.base + l.size <= sg.base
      BY <1>1, <1>3, <3>1 DEF Disk, InOrder
    <3> QED BY <1>7, <1>8, <2>1, <3>1, <3>2
  <2>5. ASSUME NEW l \in r1.list, NEW x \in segs, SameName(x, l)
        PROVE  x = l
    <3>1. l \in r.list /\ l # sg /\ ~Before(sg, l)
      <4>1. l \in r.list /\ l # sg /\ Before(l, sg)
        BY <1>1, <1>16
      <4> QED BY <1>6, <4>1 DEF Before
    <3> QED BY <1>1, <2>5, <3>1 DEF Listed
  <2>6. ASSUME NEW x \in segs, NEW l \in r1.list, Before(l, x), ~IsListed(r1.list, x),
               NEW y \in Held(x)
        PROVE  Ahead(x, y, r1.cur) \/ y \in Holds(r1)
    <3>1. CASE SameName(x, sg) /\ x = now
      <4>1. y \in now.base + 1 .. now.base + now.size
        BY <3>1 DEF Held
      <4>2. now.base + off + 1 = now.base + 1
        BY <1>1a, <2>1
      <4> QED BY <1>10, <4>1, <4>2
    <3>2. CASE ~SameName(x, sg)
      <4>1. ~IsListed(r.list, x)
        BY <1>16, <2>6, <3>2 DEF IsListed, SameName
      <4>2. Before(sg, x)
        BY <1>1, <1>16, <2>6, <4>1 DEF Starts
      <4> QED BY <1>8, <4>2 DEF Ahead
    <3> QED BY <1>2, <3>1, <3>2
  <2> QED BY <2>2, <2>3, <2>4, <2>5, <2>6 DEF Tails
<1> QED BY <1>15, <1>16 DEF sg, a1

\* A file before those that were read is read, and put before what is held.
LEMMA TailGoesOn ==
  ASSUME NEW n \in Nat, Disk(segs, n), NEW r, NEW a, Shape(r, a, n), r.pc = "tail",
         Listed(r.list, segs), Tails(r, a, segs), Steady(r, a, segs), r.cur.run # 0,
         NEW r1, r1.cur = TailCur(r), r1.buf = TailLines(r) \o r.buf
  PROVE  /\ Steady(r1, TailAt(r, a), segs)
         /\ r1.list = r.list \ {Newest(r.list)} /\ Len(r1.buf) < r.want
              => Listed(r1.list, segs) /\ Tails(r1, TailAt(r, a), segs)
<1> DEFINE sg == Newest(r.list)
           now == Now(sg)
           off == TailOff(r)
           c == TailLines(r)
           b == r.buf
           a1 == TailAt(r, a)
<1>1. /\ sg \in r.list /\ sg \in SegRec /\ \A l \in r.list : l = sg \/ Before(l, sg)
      /\ now.base \in Nat /\ now.size \in Nat
      /\ off \in Nat /\ off <= now.size
      /\ c \in Seq(Nat) /\ Len(c) = now.size - off
      /\ \A k \in 1..Len(c) : c[k] = now.base + off + k
      /\ {c[k] : k \in 1..Len(c)} = now.base + off + 1 .. now.base + now.size
      /\ Len(c) + Len(b) < r.want => off = 0
  BY TailIs
<1>2. /\ now \in segs \/ (now.size = 0 /\ now.base = sg.base /\ \A x \in segs : ~SameName(x, sg))
      /\ \A x \in segs : SameName(x, sg) => x = now
      /\ now.run = sg.run /\ now.seg = sg.seg
  BY <1>1, NowIs
<1>3. b \in Seq(Nat) /\ Disk(r.list, n) /\ a \in Nat /\ r \in FollowerRec
  BY DEF Shape, FollowerRec
<1>4. r1.cur = r.cur /\ r1.buf = c \o b
  BY DEF TailCur
<1>5. /\ \A x \in segs : x.base \in Nat /\ x.size \in Nat /\ x.run \in Nat /\ x.seg \in Nat
      /\ \A x \in r.list : x.base \in Nat /\ x.size \in Nat /\ x.run \in Nat /\ x.seg \in Nat
      /\ sg.run \in Nat /\ sg.seg \in Nat /\ sg.base \in Nat /\ sg.size \in Nat
  <2>1. /\ \A x \in segs : x.base \in Nat /\ x.size \in Nat /\ x.run \in Nat /\ x.seg \in Nat
        /\ \A x \in r.list : x.base \in Nat /\ x.size \in Nat /\ x.run \in Nat /\ x.seg \in Nat
    BY <1>3, NamesTyped
  <2>2. sg \in r.list
    BY <1>1
  <2> HIDE DEF sg, now, off, c, a1, b
  <2> QED BY <2>1, <2>2
<1>6. now.base = sg.base /\ (now \in segs => now = sg)
  <2>1. now \in segs => SameName(now, sg)
    BY <1>2 DEF SameName
  <2> HIDE DEF now, off, c, a1, b
  <2>2. now \in segs => now = sg
    BY <1>1, <2>1 DEF Tails
  <2> QED BY <1>2, <2>2
<1>7. /\ a1 \in 0..n
      /\ c # <<>> => a1 = now.base + off
      /\ c = <<>> /\ b # <<>> => a1 = b[1] - 1
      /\ c = <<>> /\ b = <<>> => a1 = a
  <2>1. /\ a1 \in 0..n
        /\ c # <<>> => a1 = now.base + off
        /\ c = <<>> /\ b # <<>> => a1 = b[1] - 1
        /\ c = <<>> /\ b = <<>> => a1 = IF r.cur.run = 0 THEN now.base + now.size ELSE a
    BY TailAtIs
  <2> HIDE DEF a1, now, off, c, b
  <2> QED BY <2>1
<1> HIDE DEF sg, now, off, c, a1, b
<1>1a. /\ now.base \in Nat /\ now.size \in Nat /\ off \in Nat /\ off <= now.size
       /\ c \in Seq(Nat) /\ Len(c) = now.size - off /\ Len(c) \in Nat
       /\ \A k \in 1..Len(c) : c[k] = now.base + off + k
  BY <1>1
<1>8. now.base + now.size <= a
  <2>1. sg.base + sg.size <= a
    BY <1>1 DEF Tails
  <2> QED BY <1>1a, <1>2, <1>3, <1>5, <1>6, <2>1
<1>9. /\ \A k \in 1..Len(b) : a < b[k]
      /\ \A j, k \in 1..Len(b) : j < k => b[j] < b[k]
      /\ \A x \in segs : \A y \in Held(x) :
           /\ a < y /\ y <= Reach(r, a) => y \in Holds(r)
           /\ y > Reach(r, a) <=> Ahead(x, y, r.cur)
      /\ \E x \in segs : ~Before(x, r.cur)
      /\ \A x \in segs : SameName(x, r.cur) => r.cur.off <= x.size
  BY DEF Steady, b
<1>10. /\ Reach(r, a) \in Nat /\ a <= Reach(r, a)
       /\ \A y \in Holds(r) : a < y /\ y <= Reach(r, a)
  BY <1>3, <1>9, ReachIs DEF b
\* What is newer than it was held, or is ahead.
<1>11. \A x \in segs : \/ SameName(x, sg) /\ x = now
                       \/ Before(x, sg) /\ x.base + x.size <= now.base
                       \/ Before(sg, x) /\ \A y \in Held(x) : y > a
  <2> TAKE x \in segs
  <2>1. SameName(x, sg) \/ Before(x, sg) \/ Before(sg, x)
    BY <1>5 DEF SameName, Before
  <2>2. CASE Before(x, sg)
    BY <1>1, <1>6, <2>2 DEF Listed
  <2>3. CASE Before(sg, x)
    <3> SUFFICES ASSUME NEW y \in Held(x) PROVE y > a
      BY <2>3
    <3>1. ~IsListed(r.list, x)
      <4> SUFFICES ASSUME NEW m \in r.list, SameName(m, x) PROVE FALSE
        BY DEF IsListed
      <4>1. m = sg \/ Before(m, sg)
        BY <1>1
      <4> QED BY <1>5, <2>3, <4>1 DEF SameName, Before
    <3>2. Ahead(x, y, r.cur) \/ y \in Holds(r)
      BY <1>1, <2>3, <3>1 DEF Tails
    <3>3. y \in Nat
      BY <1>5 DEF Held
    <3> QED BY <1>3, <1>9, <1>10, <3>2, <3>3
  <2> QED BY <1>2, <2>1, <2>2, <2>3
<1>12. Holds(r1) = Holds(r) \cup (now.base + off + 1 .. now.base + now.size)
  <2>1. {(c \o b)[k] : k \in 1..Len(c \o b)} = {c[k] : k \in 1..Len(c)} \cup {b[k] : k \in 1..Len(b)}
    BY <1>1a, <1>3, JoinedLines
  <2>2. Holds(r1) = {(c \o b)[k] : k \in 1..Len(c \o b)} /\ Holds(r) = {b[k] : k \in 1..Len(b)}
    BY <1>4 DEF Holds, b
  <2> QED BY <1>1, <2>1, <2>2
<1>13. ASSUME c = <<>> PROVE Steady(r1, a1, segs)
  <2>1. r1.buf = b /\ off = now.size
    <3>1. Len(c) = 0
      BY <1>13
    <3> QED BY <1>1a, <1>3, <1>4, <1>13, <3>1, ConcatEmptySeq
  <2>2. a1 = a
    <3>1. b # <<>> => b[1] = a + 1
      BY DEF Tails, b
    <3> QED BY <1>3, <1>7, <1>13, <3>1
  <2>3. Reach(r1, a1) = Reach(r, a) /\ Holds(r1) = Holds(r)
    BY <2>1, <2>2 DEF Reach, Holds, b
  <2> QED BY <1>4, <1>9, <2>1, <2>2, <2>3 DEF Steady
<1>14. ASSUME c # <<>> PROVE Steady(r1, a1, segs)
  <2>0. off < now.size /\ a1 = now.base + off
    <3>1. Len(c) # 0
      BY <1>1a, <1>14
    <3> QED BY <1>1a, <1>7, <1>14, <3>1
  <2>1. now \in segs
    BY <1>1a, <1>2, <2>0
  <2>2. Len(c) \in 1..Len(c) /\ 1 \in 1..Len(c)
    BY <1>1a, <2>0
  <2>3. /\ \A k \in 1..Len(c) : c[k] \in Nat /\ a1 < c[k] /\ c[k] <= a
        /\ \A j, k \in 1..Len(c) : j < k => c[j] < c[k]
    <3>1. \A k \in 1..Len(c) : k \in Nat /\ 1 <= k /\ k <= now.size - off /\ c[k] = now.base + off + k
      BY <1>1a
    <3>2. \A k \in 1..Len(c) : now.base + off < now.base + off + k /\ now.base + off + k <= a
                               /\ now.base + off + k \in Nat
      <4>1. \A p, s, o, i, z \in Nat :
              1 <= i /\ i <= s - o /\ o <= s /\ p + s <= z
                => p + o < p + o + i /\ p + o + i <= z /\ p + o + i \in Nat
        OBVIOUS
      <4> QED BY <1>1a, <1>3, <1>8, <3>1, <4>1
    <3>3. \A j, k \in 1..Len(c) : j < k => now.base + off + j < now.base + off + k
      BY <1>1a, <3>1
    <3> QED BY <2>0, <3>1, <3>2, <3>3
  <2>4. /\ \A k \in 1..Len(c \o b) : a1 < (c \o b)[k]
        /\ \A j, k \in 1..Len(c \o b) : j < k => (c \o b)[j] < (c \o b)[k]
    <3>0. \A k \in 1..Len(b) : b[k] \in Nat
      BY <1>3
    <3>1. \A j \in 1..Len(c), k \in 1..Len(b) : c[j] < b[k]
      BY <1>3, <1>9, <2>3, <3>0
    <3>2. \A j, k \in 1..Len(c \o b) : j < k => (c \o b)[j] < (c \o b)[k]
      BY <1>1a, <1>3, <1>9, <2>3, <3>1, JoinedOrder
    <3>3. a1 <= a
      BY <1>1a, <1>3, <1>8, <2>0
    <3>4. \A y \in Holds(r1) : a1 < y
      <4>1. \A y \in Holds(r) : y \in Nat
        BY <3>0 DEF Holds, b
      <4>2. \A y \in Holds(r) : a1 < y
        BY <1>3, <1>7, <1>10, <3>3, <4>1
      <4>3. \A y \in now.base + off + 1 .. now.base + now.size : a1 < y
        BY <1>1a, <2>0
      <4> QED BY <1>12, <4>2, <4>3
    <3> QED BY <1>4, <3>2, <3>4 DEF Holds
  <2>5. \/ b = <<>> /\ Reach(r, a) = a /\ Reach(r1, a1) = now.base + now.size
        \/ b # <<>> /\ Reach(r1, a1) = Reach(r, a)
    <3>0. /\ Len(c \o b) = Len(c) + Len(b) /\ Len(b) \in Nat
          /\ b # <<>> => (c \o b)[Len(c \o b)] = b[Len(b)]
          /\ b = <<>> => c \o b = c
      <4>1. Len(b) \in Nat
        BY <1>3
      <4> QED BY <1>1a, <1>3, <4>1, JoinedLines
    <3>0a. c \o b # <<>>
      BY <1>1a, <1>3, <1>14
    <3>1. CASE b = <<>>
      <4>1. Reach(r1, a1) = c[Len(c)]
        BY <1>4, <1>14, <3>0, <3>1 DEF Reach
      <4>2. c[Len(c)] = now.base + off + Len(c)
        BY <1>1a, <2>2
      <4>3. now.base + off + Len(c) = now.base + now.size
        BY <1>1a
      <4> QED BY <3>1, <4>1, <4>2, <4>3 DEF Reach, b
    <3>2. CASE b # <<>>
      BY <1>4, <3>0, <3>0a, <3>2 DEF Reach, b
    <3> QED BY <3>1, <3>2
  <2>6. ASSUME NEW x \in segs, NEW y \in Held(x)
        PROVE  /\ a1 < y /\ y <= Reach(r1, a1) => y \in Holds(r1)
               /\ y > Reach(r1, a1) <=> Ahead(x, y, r.cur)
    <3>0. y \in Nat /\ x.base < y /\ y <= x.base + x.size
      BY <1>5 DEF Held
    <3>1. /\ a < y /\ y <= Reach(r, a) => y \in Holds(r)
          /\ y > Reach(r, a) <=> Ahead(x, y, r.cur)
      BY <1>9
    <3>2. now.base + off < y /\ y <= now.base + now.size => y \in Holds(r1)
      BY <1>1a, <1>12, <3>0
    <3>3. now.base + off < y /\ ~(y <= now.base + now.size) => y > a
      <4>1. CASE SameName(x, sg) /\ x = now
        BY <1>1a, <3>0, <4>1
      <4>2. CASE Before(x, sg) /\ x.base + x.size <= now.base
        <5>1. x.base + x.size \in Nat /\ now.base \in Nat /\ off \in Nat
          BY <1>1a, <1>5
        <5>2. y <= now.base
          BY <3>0, <4>2, <5>1
        <5>3. ~(now.base + off < y)
          BY <3>0, <5>1, <5>2
        <5> QED BY <5>3
      <4>3. CASE Before(sg, x) /\ \A z \in Held(x) : z > a
        BY <4>3
      <4> QED BY <1>11, <4>1, <4>2, <4>3
    <3>4. Holds(r) \subseteq Holds(r1)
      BY <1>12
    <3>5. a \in Nat /\ Reach(r, a) \in Nat /\ a <= Reach(r, a) /\ a1 = now.base + off
      BY <1>3, <1>10, <2>0
    <3>6. CASE b = <<>> /\ Reach(r, a) = a /\ Reach(r1, a1) = now.base + now.size
      <4>1. y > now.base + now.size <=> y > a
        BY <1>1a, <1>8, <3>0, <3>3, <3>5
      <4> QED BY <2>0, <3>1, <3>2, <3>6, <4>1
    <3>7. CASE b # <<>> /\ Reach(r1, a1) = Reach(r, a)
      <4>1. a1 < y /\ y <= Reach(r, a) => y \in Holds(r1)
        <5>1. a1 < y => (y <= now.base + now.size /\ y \in Holds(r1)) \/ a < y
          BY <2>0, <3>2, <3>3
        <5> QED BY <3>1, <3>4, <5>1
      <4> QED BY <3>1, <3>7, <4>1
    <3> QED BY <2>5, <3>6, <3>7
  <2> QED BY <1>4, <1>9, <2>4, <2>6 DEF Steady
<1>15. Steady(r1, a1, segs)
  BY <1>13, <1>14
<1>16. ASSUME r1.list = r.list \ {sg}, Len(r1.buf) < r.want
       PROVE  Listed(r1.list, segs) /\ Tails(r1, a1, segs)
  <2>1. off = 0
    <3>1. Len(c \o b) = Len(c) + Len(b)
      BY <1>1a, <1>3, JoinedLines
    <3> QED BY <1>1, <1>4, <1>16, <3>1
  <2>2. Listed(r1.list, segs)
    BY <1>16 DEF Listed
  <2>3. r1.buf # <<>> => r1.buf[1] = a1 + 1
    <3>1. CASE c = <<>>
      <4>1. r1.buf = b
        BY <1>3, <1>4, <3>1, ConcatEmptySeq
      <4>2. b # <<>> => b[1] \in Nat
        BY <1>3
      <4> QED BY <1>7, <3>1, <4>1, <4>2
    <3>2. CASE c # <<>>
      <4>1. (c \o b)[1] = c[1] /\ 1 \in 1..Len(c)
        BY <1>1a, <1>3, <3>2, JoinedLines
      <4>2. c[1] = now.base + off + 1
        BY <1>1a, <4>1
      <4> QED BY <1>4, <1>7, <3>2, <4>1, <4>2
    <3> QED BY <3>1, <3>2
  <2>4. a1 = a \/ a1 = now.base
    <3>1. c = <<>> /\ b # <<>> => a1 = a
      <4>1. b # <<>> => b[1] = a + 1
        BY DEF Tails, b
      <4> QED BY <1>3, <1>7, <4>1
    <3>2. now.base + off = now.base
      BY <1>1a, <2>1
    <3> QED BY <1>7, <3>1, <3>2
  <2>5. ASSUME NEW l \in r1.list
        PROVE  Before(l, r1.cur) /\ l.base + l.size <= a1
    <3>0. l \in r.list /\ l # sg
      BY <1>16
    <3>1. Before(l, sg)
      BY <1>1, <3>0
    <3>2. ~Before(sg, l)
      BY <1>5, <3>0, <3>1 DEF Before
    <3>3. l.base + l.size <= sg.base
      BY <1>1, <1>3, <3>0, <3>2 DEF Disk, InOrder
    <3>4. Before(l, r.cur) /\ l.base + l.size <= a
      BY <3>0 DEF Tails
    <3> QED BY <1>4, <1>6, <2>4, <3>3, <3>4
  <2>6. \A l \in r1.list, x \in segs : SameName(x, l) => x = l
    BY <1>16 DEF Tails
  <2>7. ASSUME NEW x \in segs, NEW l \in r1.list, Before(l, x), ~IsListed(r1.list, x),
               NEW y \in Held(x)
        PROVE  Ahead(x, y, r1.cur) \/ y \in Holds(r1)
    <3>1. CASE SameName(x, sg) /\ x = now
      <4>1. y \in now.base + 1 .. now.base + now.size
        BY <3>1 DEF Held
      <4>2. now.base + off + 1 = now.base + 1
        BY <1>1a, <2>1
      <4> QED BY <1>12, <4>1, <4>2
    <3>2. CASE ~SameName(x, sg)
      <4>1. ~IsListed(r.list, x)
        BY <1>16, <2>7, <3>2 DEF IsListed, SameName
      <4>2. Ahead(x, y, r.cur) \/ y \in Holds(r)
        BY <1>16, <2>7, <4>1 DEF Tails
      <4> QED BY <1>4, <1>12, <4>2
    <3> QED BY <1>2, <3>1, <3>2
  <2> QED BY <2>2, <2>3, <2>5, <2>6, <2>7 DEF Tails
<1> QED BY <1>15, <1>16 DEF sg, a1

\* The two ways a turn of TailRead may go.
LEMMA TailTurns ==
  ASSUME FilesInv, FollowersInv, NEW f \in Follower, TailRead(f)
  PROVE  LET r == rd[f]
             r1 == rd'[f]
         IN  /\ r1 \in FollowerRec /\ Turn(f, r1) /\ r.pc = "tail"
             /\ at' = [at EXCEPT ![f] = TailAt(r, at[f])]
             /\ r1.cur = TailCur(r) /\ r1.buf = TailLines(r) \o r.buf
             /\ \/ /\ r1.pc = "tail" /\ r1.list = r.list \ {Newest(r.list)} /\ r1.list # {}
                   /\ r1.want = r.want /\ Len(r1.buf) < r.want
                \/ /\ r1.pc \in {"take", "emit"} /\ r1.list = {}
                   /\ r1.pc = "emit" <=> r1.buf # <<>>
<1> DEFINE r == rd[f]
           sg == Newest(r.list)
           lines == TailLines(r)
           buf == lines \o r.buf
           cur == TailCur(r)
           ends == Len(buf) >= r.want \/ r.list = {sg}
           next == [r EXCEPT !.cur = cur,
                             !.list = IF ends THEN {} ELSE @ \ {sg},
                             !.buf = buf,
                             !.want = IF ends THEN 0 ELSE @,
                             !.pc = IF ~ends THEN "tail" ELSE IF buf = <<>> THEN "take" ELSE "emit"]
<1>0. /\ r \in FollowerRec /\ r.pc = "tail" /\ r.list # {} /\ Shape(r, at[f], top)
      /\ top \in Nat /\ Disk(segs, top) /\ rd \in [Follower -> FollowerRec]
  BY FollowerIs DEF TailRead, Shape, FollowersInv
<1>1. Turn(f, next)
  BY DEF TailRead, TailLines, TailOff, TailCur
<1>2. at' = [at EXCEPT ![f] = TailAt(r, at[f])]
  BY DEF TailRead, TailLines, TailOff, TailAt
<1>3. sg \in r.list /\ sg \in SegRec /\ lines \in Seq(Nat) /\ Now(sg).size \in Nat
      /\ r.buf \in Seq(Nat) /\ r.want \in Nat
  <2>1. r.buf \in Seq(Nat) /\ r.want \in Nat
    BY <1>0 DEF FollowerRec
  <2> QED BY <1>0, <2>1, TailIs
<1>4. cur \in [run : Nat, seg : Nat, off : Nat]
  <2>1. r.cur \in [run : Nat, seg : Nat, off : Nat]
    BY <1>0 DEF FollowerRec
  <2>2. sg.run \in Nat /\ sg.seg \in Nat
    BY <1>3 DEF SegRec
  <2> QED BY <1>3, <2>1, <2>2 DEF TailCur
<1> HIDE DEF sg, lines, cur
<1>5. buf \in Seq(Nat) /\ Len(buf) \in Nat
  BY <1>3
<1> HIDE DEF buf, r
<1>6. /\ next \in FollowerRec /\ next.cur = cur /\ next.buf = buf
      /\ \/ /\ next.pc = "tail" /\ next.list = r.list \ {sg} /\ next.list # {}
            /\ next.want = r.want /\ Len(buf) < r.want
         \/ /\ next.pc \in {"take", "emit"} /\ next.list = {}
            /\ next.pc = "emit" <=> buf # <<>>
  <2>1. CASE ends
    <3>1. next = [r EXCEPT !.cur = cur, !.list = {}, !.buf = buf, !.want = 0,
                           !.pc = IF buf = <<>> THEN "take" ELSE "emit"]
      BY <2>1
    <3> HIDE DEF next
    <3> QED BY <1>0, <1>4, <1>5, <3>1 DEF FollowerRec
  <2>2. CASE ~ends
    <3>1. next = [r EXCEPT !.cur = cur, !.list = r.list \ {sg}, !.buf = buf, !.want = r.want,
                           !.pc = "tail"]
      BY <2>2
    <3>2. r.list \ {sg} # {} /\ Len(buf) < r.want
      BY <1>0, <1>3, <1>5, <2>2
    <3> HIDE DEF next, ends
    <3>3. next \in FollowerRec /\ next.cur = cur /\ next.buf = buf
          /\ next.pc = "tail" /\ next.list = r.list \ {sg} /\ next.want = r.want
      BY <1>0, <1>3, <1>4, <1>5, <3>1 DEF FollowerRec
    <3> QED BY <3>2, <3>3
  <2> QED BY <2>1, <2>2
<1> HIDE DEF next
<1>7. rd'[f] = next
  BY <1>0, <1>1 DEF Turn, r
<1> QED BY <1>0, <1>1, <1>2, <1>6, <1>7 DEF buf, cur, r, lines, sg

LEMMA TailFollowers ==
  ASSUME FilesInv, FollowersInv, NEW f \in Follower, TailRead(f)
  PROVE  FollowersInv'
<1> DEFINE r == rd[f]
           r1 == rd'[f]
           a == at[f]
           a1 == TailAt(r, a)
           sg == Newest(r.list)
           c == TailLines(r)
<1>0. /\ Shape(r, a, top) /\ (f \notin lost => Sound(r, a, segs)) /\ top \in Nat /\ Disk(segs, top)
      /\ UNCHANGED <<segs, lost, top>> /\ r.pc = "tail"
  BY FollowerIs DEF TailRead
<1>1. /\ r1 \in FollowerRec /\ Turn(f, r1) /\ at' = [at EXCEPT ![f] = a1]
      /\ r1.cur = TailCur(r) /\ r1.buf = c \o r.buf
      /\ \/ /\ r1.pc = "tail" /\ r1.list = r.list \ {sg} /\ r1.list # {}
            /\ r1.want = r.want /\ Len(r1.buf) < r.want
         \/ /\ r1.pc \in {"take", "emit"} /\ r1.list = {}
            /\ r1.pc = "emit" <=> r1.buf # <<>>
  BY TailTurns
<1> HIDE DEF r, r1, a, a1, sg, c
<1>2. Shape(r1, a1, top)
  <2> DEFINE now == Now(sg)
             off == TailOff(r)
  <2>1. /\ now.base \in Nat /\ now.size \in Nat /\ now.base + now.size <= top
        /\ off \in Nat /\ off <= now.size
        /\ c \in Seq(Nat)
        /\ {c[k] : k \in 1..Len(c)} = now.base + off + 1 .. now.base + now.size
        /\ Len(c) + Len(r.buf) <= r.want
    BY <1>0, TailIs DEF sg, c
  <2>2. /\ r.buf \in Seq(Nat) /\ Disk(r.list, top) /\ r.want \in Nat /\ r.want <= Backlog
        /\ \A k \in 1..Len(r.buf) : r.buf[k] \in 1..top
    BY <1>0 DEF Shape, FollowerRec
  <2> HIDE DEF now, off
  <2>3. /\ Len(r1.buf) = Len(c) + Len(r.buf)
        /\ {r1.buf[k] : k \in 1..Len(r1.buf)} =
             {c[k] : k \in 1..Len(c)} \cup {r.buf[k] : k \in 1..Len(r.buf)}
    <3>1. r1.buf = c \o r.buf
      BY <1>1
    <3>2. /\ Len(c \o r.buf) = Len(c) + Len(r.buf)
          /\ {(c \o r.buf)[k] : k \in 1..Len(c \o r.buf)} =
               {c[k] : k \in 1..Len(c)} \cup {r.buf[k] : k \in 1..Len(r.buf)}
      BY <2>1, <2>2, JoinedLines
    <3> QED BY <3>1, <3>2, Zenon
  <2>4. \A k \in 1..Len(r1.buf) : r1.buf[k] \in 1..top
    <3>1. \A y \in now.base + off + 1 .. now.base + now.size : y \in 1..top
      BY <1>0, <2>1
    <3>2. \A y \in {r1.buf[k] : k \in 1..Len(r1.buf)} : y \in 1..top
      BY <2>1, <2>2, <2>3, <3>1
    <3> QED BY <3>2
  <2>5. Disk(r1.list, top)
    <3>1. r1.list \in SUBSET r.list
      BY <1>1
    <3> QED BY <2>2, <3>1, FewerFiles
  <2>6. Len(r1.buf) <= r.want /\ Len(r1.buf) <= Longest
    <3>1. Len(r1.buf) <= r.want /\ Len(r1.buf) \in Nat
      BY <2>1, <2>2, <2>3
    <3> QED BY <2>2, <3>1, MaxBytesIs DEF Longest
  <2>7. a1 \in 0..top
    BY <1>0, TailAtIs DEF a1
  <2>8. /\ r1.pc \in {"tail", "take", "emit"} /\ (r1.pc = "tail" => r1.list # {} /\ r1.want = r.want)
        /\ (r1.pc = "emit" => r1.buf # <<>>) /\ (r1.pc = "take" => r1.buf = <<>>)
    BY <1>1
  <2>9. r1.pc = "tail" => r1.want <= Backlog /\ Len(r1.buf) <= r1.want
    BY <2>2, <2>6, <2>8
  <2> QED BY <1>1, <2>4, <2>5, <2>6, <2>7, <2>8, <2>9 DEF Shape
<1>3. ASSUME f \notin lost PROVE Sound(r1, a1, segs)
  <2>1. Listed(r.list, segs) /\ IF r.cur.run = 0 THEN Starts(r, segs)
                                ELSE Tails(r, a, segs) /\ Steady(r, a, segs)
    BY <1>0, <1>3 DEF Sound
  <2>2. /\ Steady(r1, a1, segs)
        /\ r1.list = r.list \ {sg} /\ Len(r1.buf) < r.want
             => Listed(r1.list, segs) /\ Tails(r1, a1, segs)
    <3>1. CASE r.cur.run = 0
      BY <1>0, <1>1, <2>1, <3>1, TailStarts DEF a1, sg, c
    <3>2. CASE r.cur.run # 0
      BY <1>0, <1>1, <2>1, <3>2, TailGoesOn DEF a1, sg, c
    <3> QED BY <3>1, <3>2
  <2>3. r1.cur.run # 0
    <3>1. CASE r.cur.run = 0
      <4>1. sg \in SegRec
        BY <1>0, TailIs DEF sg
      <4> QED BY <1>1, <3>1, <4>1 DEF TailCur, SegRec, sg
    <3>2. CASE r.cur.run # 0
      BY <1>1, <3>2 DEF TailCur
    <3> QED BY <3>1, <3>2
  <2>4. r1.pc = "tail" => Listed(r1.list, segs) /\ Tails(r1, a1, segs)
    BY <1>1, <2>2
  <2>5. r1.pc \in {"tail", "take", "emit"}
    BY <1>1
  <2> QED BY <2>2, <2>3, <2>4, <2>5 DEF Sound
<1>4. r1.pc # "off"
  BY <1>1
<1> QED BY <1>0, <1>1, <1>2, <1>3, <1>4, TurnFollowers

-----------------------------------------------------------------------------
(* The invariant *)

LEMMA LogInit == Init => LogInv
<1> SUFFICES ASSUME Init PROVE LogInv
  OBVIOUS
<1>1. FilesInv
  BY FilesInit
<1>2. FollowersInv
  <2>1. /\ rd = [f \in Follower |-> Away] /\ at = [f \in Follower |-> 0] /\ lost = {}
        /\ top \in Nat
    BY DEF Init
  <2> QED BY <2>1, AwayIs DEF FollowersInv
<1> QED BY <1>1, <1>2 DEF LogInv

LEMMA FollowFollowers ==
  ASSUME FilesInv, FollowersInv, NEW f \in Follower, FollowStep(f)
  PROVE  FollowersInv'
BY Tail0Followers, TailFollowers, EmitFollowers, TakeFollowers, ListFollowers, ReadFollowers,
   LeaveFollowers DEF FollowStep

LEMMA LogStep == LogInv /\ [Next]_vars => LogInv'
<1> SUFFICES ASSUME FilesInv, FollowersInv, [Next]_vars PROVE LogInv'
  BY DEF LogInv
<1>1. FilesInv'
  BY FilesStep
<1>2. FollowersInv'
  <2>1. CASE UNCHANGED vars
    <3>1. UNCHANGED <<segs, top, followers>> /\ top \in Nat
      BY <2>1 DEF vars, followers, FilesInv, WriterTyped
    <3> QED BY <3>1, FollowersLeft
  <2>2. CASE \E f \in Follower : FollowStep(f)
    BY <2>2, FollowFollowers
  <2>3. CASE CallerStep
    BY <2>3, CallerFollowers
  <2> QED BY <2>1, <2>2, <2>3, RotateFollowers, PruneFollowers, WriteFollowers, WakeFollowers,
             UnlinkFollowers, RestartFollowers DEF Next, CallerStep, FollowStep
<1> QED BY <1>1, <1>2 DEF LogInv

LEMMA LogHolds == Spec => []LogInv
<1> QED BY LogInit, LogStep, PTL DEF Spec

-----------------------------------------------------------------------------
(* What the invariant says of the disk *)

LEMMA InvIsInOrder == LogInv => LogIsInOrder
<1> SUFFICES ASSUME FilesInv, FollowersInv PROVE LogIsInOrder
  BY DEF LogInv
<1>0. /\ Disk(segs, top) /\ top \in 0..MaxLine /\ top \in Nat
      /\ \A sg \in segs : sg.base \in Nat /\ sg.size \in 0..SegLines /\ sg.size \in Nat
                          /\ sg.base + sg.size <= top
  BY MaxBytesIs DEF FilesInv, WriterTyped, Disk, SegRec
<1>1. TypeOK
  <2>1. \A sg \in segs : sg.size \in 0..SegLines /\ sg.base \in 0..top
    BY <1>0
  <2>2. /\ run.file \in {"closed", "open", "stray", "unlinked", "failed"} /\ run.size \in 0..SegLines
        /\ partial \in BOOLEAN /\ removing \in BOOLEAN
        /\ writer.pc \in {"idle", "line", "prune", "wake", "shut", "create"}
    BY DEF FilesInv, WriterTyped, RunRec, WriterRec
  <2>3. ASSUME NEW f \in Follower
        PROVE  /\ rd[f].pc \in {"off", "tail", "emit", "take", "list", "read", "sleep"}
               /\ Len(rd[f].buf) <= (IF Batch > Backlog THEN Batch ELSE Backlog)
               /\ at[f] \in 0..top
    <3>1. Shape(rd[f], at[f], top)
      BY DEF FollowersInv
    <3> QED BY <3>1 DEF Shape, FollowerRec, Longest
  <2>4. lost \subseteq Follower
    BY DEF FollowersInv
  <2> QED BY <1>0, <2>1, <2>2, <2>3, <2>4 DEF TypeOK
<1>2. FilesInOrder
  BY <1>0 DEF FilesInOrder, Disk
<1>3. LiveIsNewest
  BY DEF LiveIsNewest, FilesInv, LiveSound, Live
<1>4. ASSUME run.file = "open", writer.pc = "idle"
      PROVE  Cardinality(Runs(segs)) <= MaxRuns /\ Size(segs) <= MaxBytes + SegLines
  <2>1. Cardinality(Runs(segs)) <= MaxRuns /\ Size(segs \ {Live}) <= MaxBytes
    <3>1. segs \ writer.doomed = segs
      BY <1>4 DEF FilesInv, PruneSound
    <3> QED BY <1>4, <3>1 DEF FilesInv, LimitsSound
  <2>2. Live \in segs /\ Disk(segs \ {Live}, top)
    BY <1>0, <1>4, FewerFiles DEF FilesInv, LiveSound
  <2>3. HeldBy(segs) = HeldBy(segs \ {Live}) \cup Held(Live)
    BY <2>2 DEF HeldBy
  <2>4. IsFiniteSet(HeldBy(segs \ {Live})) /\ Size(segs \ {Live}) \in Nat
    BY <1>0, <2>2, LinesHeld
  <2>5. IsFiniteSet(Held(Live)) /\ Cardinality(Held(Live)) \in Nat
        /\ Cardinality(Held(Live)) <= SegLines
    <3> DEFINE p == Live.base
               s == Live.size
    <3>1. p \in Nat /\ s \in Nat /\ s <= SegLines
      BY <1>0, <2>2, MaxBytesIs
    <3> HIDE DEF p, s
    <3>2. IsFiniteSet(p + 1 .. p + s)
          /\ Cardinality(p + 1 .. p + s) = IF p + 1 > p + s THEN 0 ELSE (p + s) - (p + 1) + 1
      <4>1. p + 1 \in Int /\ p + s \in Int
        BY <3>1
      <4> QED BY <4>1, FS_Interval
    <3>3. Cardinality(p + 1 .. p + s) = s
      BY <3>1, <3>2
    <3> QED BY <3>1, <3>2, <3>3 DEF Held, p, s
  <2> DEFINE both == HeldBy(segs \ {Live}) \cap Held(Live)
  <2>6. Cardinality(both) \in Nat
    BY <2>5, FS_Intersection, FS_CardinalityType, FS_Subset
  <2>7. Size(segs) = Size(segs \ {Live}) + Cardinality(Held(Live)) - Cardinality(both)
    BY <2>3, <2>4, <2>5, FS_Union DEF Size
  <2> HIDE DEF both
  <2> QED BY <2>1, <2>4, <2>5, <2>6, <2>7, MaxBytesIs
<1>5. ASSUME run.file = "stray", writer.pc = "idle"
      PROVE  Cardinality(Runs(segs)) <= MaxRuns /\ Size(segs) <= MaxBytes + SegLines
  <2>1. segs \ writer.doomed = segs
    BY <1>5 DEF FilesInv, PruneSound
  <2>2. Cardinality(Runs(segs)) <= MaxRuns /\ Size(segs) <= MaxBytes
    BY <1>5, <2>1 DEF FilesInv, LimitsSound
  <2>3. Size(segs) \in Nat
    BY <1>0, LinesHeld
  <2> QED BY <2>2, <2>3, MaxBytesIs
<1>6. WithinLimits
  BY <1>4, <1>5 DEF WithinLimits
<1> QED BY <1>1, <1>2, <1>3, <1>6 DEF LogIsInOrder

\* What a listing finds is the log in the order it was printed in and within its
\* limits, and ends in the file that is written if that one is listed, whatever
\* crashes, failed writes, prunes and removals came before (logstore.go:115-370).
THEOREM LogStaysInOrder == Spec => []LogIsInOrder
<1> QED BY LogHolds, InvIsInOrder, PTL

-----------------------------------------------------------------------------
(* LogStore implements LineLog *)

Wheres == [f \in Follower |-> Where(f)]
Given == [f \in Follower |-> IF Where(f) = "off" THEN 0 ELSE at[f]]

LEMMA InitMaps == Init => AsLineLog!Init
<1> SUFFICES ASSUME Init PROVE AsLineLog!Init
  OBVIOUS
<1>1. top = 0 /\ Kept = {}
  BY DEF Init, Kept, HeldBy
<1>2. \A f \in Follower : Where(f) = "off"
  BY DEF Init, Where, Away
<1> QED BY <1>1, <1>2 DEF AsLineLog!Init

\* What is mapped does not change.
LEMMA MapsToNothing ==
  ASSUME FollowersInv, top' = top, Kept' = Kept, at' = at, lost' = lost,
         \A f \in Follower : rd'[f].pc = rd[f].pc \/
           {rd'[f].pc, rd[f].pc} \cap {"off", "tail"} = {}
  PROVE  UNCHANGED AsLineLog!vars
<1>1. \A f \in Follower : Where(f)' = Where(f)
  BY DEF Where
<1>2. Wheres' = Wheres /\ Given' = Given
  BY <1>1 DEF Wheres, Given
<1> QED BY <1>2 DEF AsLineLog!vars, Wheres, Given

\* The files change, and no follower.
LEMMA SameFollowersMap ==
  ASSUME UNCHANGED followers
  PROVE  Wheres' = Wheres /\ Given' = Given
BY DEF Wheres, Given, Where, followers

LEMMA CreatedMaps ==
  ASSUME FilesInv, FollowersInv, Rotate \/ Create
  PROVE  UNCHANGED AsLineLog!vars
<1>1. UNCHANGED <<followers, top>>
  BY DEF Rotate, Create
<1>2. segs' = segs \/ \E sg : sg.size = 0 /\ sg.base = top /\ segs' = segs \cup {sg}
  <2>1. \A id, seg : New(id, seg).size = 0 /\ New(id, seg).base = top
    BY DEF New
  <2> QED BY <2>1 DEF Rotate, Create, Created
<1>3. top \in Nat
  BY DEF FilesInv, WriterTyped
<1>4. Kept' = Kept
  <2>1. CASE segs' = segs
    BY <2>1 DEF Kept
  <2>2. ASSUME NEW sg, sg.size = 0, sg.base = top, segs' = segs \cup {sg}
        PROVE  Kept' = Kept
    <3>1. Held(sg) = {}
      BY <1>3, <2>2 DEF Held
    <3> QED BY <2>2, <3>1 DEF Kept, HeldBy
  <2> QED BY <1>2, <2>1, <2>2
<1> QED BY <1>1, <1>4, MapsToNothing DEF followers

LEMMA PruneMaps ==
  ASSUME FilesInv, FollowersInv, Prune
  PROVE  AsLineLog!Next \/ UNCHANGED AsLineLog!vars
<1> DEFINE left == writer.doomed \cap segs
           gone == Oldest(left)
<1>0. top \in Nat /\ UNCHANGED <<followers, top>> /\ Disk(segs, top) /\ writer.pc = "prune"
  BY DEF Prune, FilesInv, WriterTyped
<1>1. CASE left = {}
  <2>1. Kept' = Kept
    BY <1>1 DEF Prune, Kept
  <2> QED BY <1>0, <2>1, MapsToNothing DEF followers
<1>2. CASE left # {}
  <2>1. segs' = segs \ {gone}
    BY <1>2 DEF Prune
  <2>2. gone \in segs /\ \A sg \in segs : sg = gone \/ Before(gone, sg)
    BY <1>0, <1>2, PrunedOldest
  <2> HIDE DEF gone
  <2>3. /\ \A sg \in segs : sg.base \in Nat /\ sg.size \in Nat /\ sg.base + sg.size <= top
        /\ \A sg \in segs : sg.run \in Nat /\ sg.seg \in Nat
    BY <1>0, MaxBytesIs DEF Disk, SegRec
  <2>4. \A sg \in segs \ {gone} : gone.base + gone.size <= sg.base
    <3> TAKE sg \in segs \ {gone}
    <3>1. Before(gone, sg) /\ ~Before(sg, gone)
      BY <2>2, <2>3 DEF Before
    <3> QED BY <1>0, <2>2, <3>1 DEF Disk, InOrder
  <2> DEFINE old == gone.base + gone.size
  <2>5. Kept' = {x \in Kept : x > old}
    <3>1. \A y \in Held(gone) : ~(y > old)
      BY <2>2, <2>3 DEF Held
    <3>2. \A sg \in segs \ {gone} : \A y \in Held(sg) : y > old
      BY <2>2, <2>3, <2>4 DEF Held
    <3> HIDE DEF old
    <3>3. Kept = UNION {Held(sg) : sg \in segs} /\ Kept' = UNION {Held(sg) : sg \in segs \ {gone}}
      BY <2>1 DEF Kept, HeldBy, Held
    <3>4. \A y \in Kept' : y \in Kept /\ y > old
      BY <3>2, <3>3
    <3>5. \A y \in Kept : y > old => y \in Kept'
      BY <3>1, <3>3
    <3> QED BY <3>4, <3>5
  <2>6. old \in 0..top
    BY <2>2, <2>3
  <2>7. Wheres' = Wheres /\ Given' = Given
    BY <1>0, SameFollowersMap
  <2> HIDE DEF old
  <2>8. AsLineLog!Forget
    BY <1>0, <2>5, <2>6, <2>7 DEF AsLineLog!Forget, Wheres, Given
  <2> QED BY <2>8 DEF AsLineLog!Next
<1> QED BY <1>1, <1>2

LEMMA WriteMaps ==
  ASSUME FilesInv, FollowersInv, Write
  PROVE  AsLineLog!Next \/ UNCHANGED AsLineLog!vars
<1>0. top \in Nat /\ UNCHANGED followers /\ Disk(segs, top)
  BY DEF Write, FilesInv, WriterTyped
<1>1. CASE UNCHANGED <<segs, top, run>>
  <2>1. Kept' = Kept
    BY <1>1 DEF Kept
  <2> QED BY <1>0, <1>1, <2>1, MapsToNothing DEF followers
<1>2. ASSUME top' = top + 1, Kept' \in {Kept, Kept \cup {top + 1}}
      PROVE  AsLineLog!Next
  <2>1. Wheres' = Wheres /\ Given' = Given
    BY <1>0, SameFollowersMap
  <2>2. AsLineLog!Record
    BY <1>2, <2>1 DEF AsLineLog!Record, Wheres, Given
  <2> QED BY <2>2 DEF AsLineLog!Next
<1>3. CASE top' = top + 1 /\ segs' = segs
  <2>1. Kept' = Kept
    BY <1>3 DEF Kept
  <2> QED BY <1>2, <1>3, <2>1
<1>4. ASSUME NEW live \in segs, NEW grown \in SegRec,
             top' = top + 1, segs' = (segs \ {live}) \cup {grown},
             live.base + live.size = top, grown.size = live.size + 1,
             live.base = grown.base
      PROVE  AsLineLog!Next
  <2>1. live.base \in Nat /\ live.size \in Nat
    BY <1>0, MaxBytesIs DEF Disk, SegRec
  <2>2. Held(grown) = Held(live) \cup {top + 1}
    BY <1>0, <1>4, <2>1 DEF Held
  <2>3. Kept = UNION {Held(sg) : sg \in segs}
        /\ Kept' = UNION {Held(sg) : sg \in (segs \ {live}) \cup {grown}}
    BY <1>4 DEF Kept, HeldBy, Held
  <2>4. Kept' = Kept \cup {top + 1}
    BY <2>2, <2>3
  <2> QED BY <1>2, <1>4, <2>4
<1> QED BY <1>1, <1>3, <1>4, WrittenLine

LEMMA UnlinkMaps ==
  ASSUME FollowersInv, Unlink
  PROVE  AsLineLog!Next
<1>1. /\ segs' = {} /\ lost' = lost \cup {f \in Follower : rd[f].pc # "off"}
      /\ UNCHANGED <<rd, at, top>>
  BY DEF Unlink
<1>2. Kept' = {}
  BY <1>1 DEF Kept, HeldBy
<1>3. \A f \in Follower : Where(f)' = IF Where(f) = "off" THEN "off" ELSE "lost"
  BY <1>1 DEF Where
<1>4. Given' = Given
  BY <1>1, <1>3 DEF Given
<1>5. Wheres' = [f \in Follower |-> IF Wheres[f] = "off" THEN "off" ELSE "lost"]
  BY <1>3 DEF Wheres
<1>6. AsLineLog!Remove
  BY <1>1, <1>2, <1>4, <1>5 DEF AsLineLog!Remove, Wheres, Given
<1> QED BY <1>6 DEF AsLineLog!Next

LEMMA RestartMaps ==
  ASSUME Restart
  PROVE  AsLineLog!Next
<1>1. rd' = [f \in Follower |-> Away] /\ UNCHANGED <<segs, top>>
  BY DEF Restart
<1>2. \A f \in Follower : Where(f)' = "off"
  BY <1>1 DEF Where, Away
<1>3. Kept' = Kept
  BY <1>1 DEF Kept
<1>4. Wheres' = [f \in Follower |-> "off"] /\ Given' = [f \in Follower |-> 0]
  BY <1>2 DEF Wheres, Given
<1>5. AsLineLog!Restart
  BY <1>1, <1>3, <1>4 DEF AsLineLog!Restart, Wheres, Given
<1> QED BY <1>5 DEF AsLineLog!Next

LEMMA WakeMaps ==
  ASSUME FollowersInv, Wake \/ Shut
  PROVE  UNCHANGED AsLineLog!vars
<1>1. UNCHANGED <<segs, top, at, lost>> /\ WakeAll
  BY DEF Wake, Shut
<1>2. Kept' = Kept
  BY <1>1 DEF Kept
<1>3. \A f \in Follower : rd'[f].pc = rd[f].pc
  <2> SUFFICES ASSUME NEW f \in Follower PROVE rd'[f].pc = rd[f].pc
    OBVIOUS
  <2>1. rd[f] \in FollowerRec
    BY DEF FollowersInv
  <2>2. \E w : rd'[f] = [rd[f] EXCEPT !.awake = w]
    BY <1>1 DEF WakeAll
  <2> QED BY <2>1, <2>2 DEF FollowerRec
<1> QED BY <1>1, <1>2, <1>3, MapsToNothing

\* The step of one follower.
LEMMA TurnMaps ==
  ASSUME FollowersInv, NEW f \in Follower, NEW r, NEW a, Turn(f, r), at' = [at EXCEPT ![f] = a],
         lost' = lost \/ lost' = lost \ {f}, UNCHANGED segs
  PROVE  /\ rd'[f] = r /\ at'[f] = a /\ Kept' = Kept
         /\ Wheres' = [Wheres EXCEPT ![f] = Where(f)']
         /\ Given' = [Given EXCEPT ![f] = IF Where(f)' = "off" THEN 0 ELSE a]
         /\ \A g \in Follower \ {f} : Where(g)' = Where(g)
<1>1. /\ rd \in [Follower -> FollowerRec] /\ at \in [Follower -> Nat] /\ rd' = [rd EXCEPT ![f] = r]
  BY DEF FollowersInv, Turn
<1>2. /\ rd'[f] = r /\ at'[f] = a
      /\ \A g \in Follower \ {f} : rd'[g] = rd[g] /\ at'[g] = at[g] /\ (g \in lost' <=> g \in lost)
  BY <1>1
<1>3. \A g \in Follower \ {f} : Where(g)' = Where(g)
  BY <1>2 DEF Where
<1>4. Kept' = Kept
  BY DEF Kept
<1>5. Wheres' = [Wheres EXCEPT ![f] = Where(f)']
  BY <1>3 DEF Wheres
<1>6. Given' = [Given EXCEPT ![f] = IF Where(f)' = "off" THEN 0 ELSE a]
  BY <1>2, <1>3 DEF Given
<1> QED BY <1>2, <1>3, <1>4, <1>5, <1>6

\* Somebody begins to follow.
LEMMA JoinMaps ==
  ASSUME FollowersInv, NEW f \in Follower, NEW r, NEW a \in 0..top, Turn(f, r),
         at' = [at EXCEPT ![f] = a], lost' = lost, UNCHANGED <<segs, top>>,
         rd[f].pc \in {"off", "tail"}, r.pc \notin {"off", "tail"}
  PROVE  AsLineLog!Next
<1>1. /\ rd'[f] = r /\ at'[f] = a /\ Kept' = Kept
      /\ Wheres' = [Wheres EXCEPT ![f] = Where(f)']
      /\ Given' = [Given EXCEPT ![f] = IF Where(f)' = "off" THEN 0 ELSE a]
  BY TurnMaps
<1>2. Where(f) = "off" /\ Where(f)' \in {"following", "lost"}
  BY <1>1 DEF Where
<1>3. Given' = [Given EXCEPT ![f] = a]
  BY <1>1, <1>2
<1>4. Wheres[f] = "off"
  BY <1>2 DEF Wheres
<1>5. AsLineLog!Join(f)
  BY <1>1, <1>2, <1>3, <1>4 DEF AsLineLog!Join, Wheres, Given
<1> QED BY <1>5 DEF AsLineLog!Next

LEMMA EmitMaps ==
  ASSUME FilesInv, FollowersInv, NEW f \in Follower, Emit(f)
  PROVE  AsLineLog!Next
<1> DEFINE r == rd[f]
           r1 == [r EXCEPT !.buf = Tail(@), !.pc = IF Len(r.buf) = 1 THEN r.after ELSE @]
           x == Head(r.buf)
<1>0. /\ r.pc = "emit" /\ Turn(f, r1) /\ at' = [at EXCEPT ![f] = x]
      /\ UNCHANGED <<segs, lost, top>> /\ top \in Nat /\ Disk(segs, top)
      /\ Shape(r, at[f], top) /\ (f \notin lost => Sound(r, at[f], segs))
      /\ r \in FollowerRec
  BY FollowerIs DEF Emit
<1>1. r1.pc \in {"emit", "take", "list", "sleep"}
  BY <1>0 DEF FollowerRec
<1> HIDE DEF r1
<1>2. /\ rd'[f] = r1 /\ Kept' = Kept
      /\ Wheres' = [Wheres EXCEPT ![f] = Where(f)']
      /\ Given' = [Given EXCEPT ![f] = IF Where(f)' = "off" THEN 0 ELSE x]
  BY <1>0, TurnMaps
<1>3. Where(f)' = Where(f) /\ Where(f) # "off" /\ (Where(f) = "following" <=> f \notin lost)
  BY <1>0, <1>1, <1>2 DEF Where
<1>4. Given[f] = at[f] /\ Wheres[f] = Where(f)
  BY <1>3 DEF Given, Wheres
<1>5. Wheres' = Wheres
  BY <1>2, <1>3 DEF Wheres
<1>6. Given' = [Given EXCEPT ![f] = x]
  BY <1>2, <1>3
<1>7. r.buf \in Seq(Nat) /\ 1 \in 1..Len(r.buf) /\ x = r.buf[1] /\ x \in 1..top /\ at[f] \in Nat
  <2>1. r.buf \in Seq(Nat) /\ r.buf # <<>>
    BY <1>0 DEF Shape, FollowerRec
  <2>2. 1 \in 1..Len(r.buf) /\ x = r.buf[1]
    BY <2>1
  <2> QED BY <1>0, <2>1, <2>2 DEF Shape
<1> HIDE DEF x, r
<1>8. ASSUME f \notin lost
      PROVE  x > at[f] /\ ~\E y \in Kept : at[f] < y /\ y < x
  <2>1. Steady(r, at[f], segs)
    BY <1>0, <1>8 DEF Sound
  <2>2. at[f] < x
    BY <1>7, <2>1 DEF Steady
  <2>3. ASSUME NEW sg \in segs, NEW y \in Held(sg), at[f] < y, y < x
        PROVE  FALSE
    <3>1. x <= Reach(r, at[f]) /\ Reach(r, at[f]) \in Nat
      BY <1>7, <2>1, ReachIs DEF Steady
    <3>2. y \in Nat
      BY <1>0, MaxBytesIs DEF Held, Disk, SegRec
    <3>3. y \in Holds(r)
      BY <1>7, <2>1, <2>3, <3>1, <3>2 DEF Steady
    <3>4. PICK k \in 1..Len(r.buf) : y = r.buf[k]
      BY <3>3 DEF Holds
    <3>5. k = 1 \/ 1 < k
      BY <1>7
    <3>6. x <= y
      BY <1>7, <2>1, <3>2, <3>4, <3>5 DEF Steady
    <3> QED BY <1>7, <2>3, <3>2, <3>6
  <2> QED BY <1>7, <2>2, <2>3 DEF Kept, HeldBy
<1>9. AsLineLog!Deliver(f)
  <2>1. Wheres[f] # "off" /\ (Wheres[f] = "following" =>
                                x > Given[f] /\ ~\E y \in Kept : Given[f] < y /\ y < x)
    BY <1>3, <1>4, <1>8
  <2> QED BY <1>0, <1>2, <1>5, <1>6, <1>7, <2>1 DEF AsLineLog!Deliver, Wheres, Given
<1> QED BY <1>9 DEF AsLineLog!Next

LEMMA LeaveMaps ==
  ASSUME FilesInv, FollowersInv, NEW f \in Follower, Leave(f)
  PROVE  AsLineLog!Next
<1>1. /\ Turn(f, Away) /\ at' = [at EXCEPT ![f] = 0] /\ lost' = lost \ {f}
      /\ UNCHANGED <<segs, top>>
  BY DEF Leave
<1>2. /\ rd'[f] = Away /\ Kept' = Kept
      /\ Wheres' = [Wheres EXCEPT ![f] = Where(f)']
      /\ Given' = [Given EXCEPT ![f] = IF Where(f)' = "off" THEN 0 ELSE 0]
  BY <1>1, TurnMaps
<1>3. Where(f)' = "off"
  BY <1>2 DEF Where, Away
<1>4. AsLineLog!Leave(f)
  BY <1>1, <1>2, <1>3 DEF AsLineLog!Leave, Wheres, Given
<1> QED BY <1>4 DEF AsLineLog!Next

LEMMA JoinsMap ==
  ASSUME FilesInv, FollowersInv, NEW f \in Follower,
         TailRead(f) \/ \E n \in {0, Backlog} : Tail0(f, n)
  PROVE  AsLineLog!Next \/ UNCHANGED AsLineLog!vars
<1>1. PICK q, b : /\ Turn(f, q) /\ at' = [at EXCEPT ![f] = b] /\ b \in 0..top
                  /\ rd[f].pc \in {"off", "tail"} /\ UNCHANGED <<segs, lost, top>>
  <2>1. CASE TailRead(f)
    <3>1. TailAt(rd[f], at[f]) \in 0..top
      BY <2>1, FollowerIs, TailAtIs DEF TailRead
    <3>2. Turn(f, rd'[f]) /\ at' = [at EXCEPT ![f] = TailAt(rd[f], at[f])] /\ rd[f].pc = "tail"
      BY <2>1, TailTurns
    <3>3. UNCHANGED <<segs, lost, top>>
      BY <2>1 DEF TailRead
    <3> QED BY <3>1, <3>2, <3>3
  <2>2. ASSUME NEW n \in {0, Backlog}, Tail0(f, n)
        PROVE  \E q, b : /\ Turn(f, q) /\ at' = [at EXCEPT ![f] = b] /\ b \in 0..top
                         /\ rd[f].pc \in {"off", "tail"} /\ UNCHANGED <<segs, lost, top>>
    <3>1. top \in 0..top
      BY DEF FilesInv, WriterTyped
    <3>2. /\ at' = [at EXCEPT ![f] = top] /\ rd[f].pc = "off" /\ UNCHANGED <<segs, lost, top>>
      BY <2>2 DEF Tail0
    <3>3. \E q : Turn(f, q)
      BY <2>2 DEF Tail0
    <3> QED BY <3>1, <3>2, <3>3
  <2> QED BY <2>1, <2>2
<1>2. rd'[f] = q /\ Kept' = Kept
      /\ Wheres' = [Wheres EXCEPT ![f] = Where(f)']
      /\ Given' = [Given EXCEPT ![f] = IF Where(f)' = "off" THEN 0 ELSE b]
  BY <1>1, TurnMaps
<1>3. CASE q.pc \in {"off", "tail"}
  <2>1. Where(f) = "off" /\ Where(f)' = "off"
    BY <1>1, <1>2, <1>3 DEF Where
  <2>2. Wheres' = Wheres /\ Given' = Given
    BY <1>2, <2>1 DEF Wheres, Given
  <2> QED BY <1>1, <1>2, <2>2 DEF AsLineLog!vars, Wheres, Given
<1>4. CASE q.pc \notin {"off", "tail"}
  BY <1>1, <1>4, JoinMaps
<1> QED BY <1>3, <1>4

\* A follower looks for what there is and is given nothing yet.
LEMMA LooksMap ==
  ASSUME FilesInv, FollowersInv, NEW f \in Follower,
         Take(f) \/ Woken(f) \/ List(f) \/ ReadSeg(f)
  PROVE  UNCHANGED AsLineLog!vars
<1>1. /\ UNCHANGED <<segs, at, lost, top>> /\ rd[f].pc \notin {"off", "tail"}
  BY DEF Take, Woken, List, ReadSeg
<1>2. rd \in [Follower -> FollowerRec]
  BY DEF FollowersInv
<1>3. Kept' = Kept
  BY <1>1 DEF Kept
<1>4. \E q : Turn(f, q) /\ q.pc \notin {"off", "tail"}
  <2>1. rd[f] \in FollowerRec
    BY <1>2
  <2>2. CASE Take(f)
    <3>1. [rd[f] EXCEPT !.awake = FALSE, !.pc = "list"].pc = "list"
      BY <2>1 DEF FollowerRec
    <3> QED BY <2>2, <3>1 DEF Take
  <2>3. CASE Woken(f)
    <3>1. [rd[f] EXCEPT !.pc = "take"].pc = "take"
      BY <2>1 DEF FollowerRec
    <3> QED BY <2>3, <3>1 DEF Woken
  <2>4. CASE List(f)
    <3>1. Rest(rd[f], <<>>).pc = "sleep"
      BY <2>1 DEF FollowerRec, Rest
    <3>2. \A todo : [rd[f] EXCEPT !.pc = "read", !.list = todo].pc = "read"
      BY <2>1 DEF FollowerRec
    <3> QED BY <2>4, <3>1, <3>2 DEF List
  <2>5. CASE ReadSeg(f)
    <3>1. Turn(f, rd'[f]) /\ rd'[f].pc \in {"read", "emit", "sleep"}
      BY <2>5, ReadTurns
    <3> QED BY <3>1
  <2> QED BY <2>2, <2>3, <2>4, <2>5
<1>5. \A g \in Follower : rd'[g].pc = rd[g].pc \/
           {rd'[g].pc, rd[g].pc} \cap {"off", "tail"} = {}
  BY <1>1, <1>2, <1>4 DEF Turn
<1> QED BY <1>1, <1>3, <1>5, MapsToNothing

LEMMA StepMaps == LogInv /\ [Next]_vars => [AsLineLog!Next]_(AsLineLog!vars)
<1> SUFFICES ASSUME FilesInv, FollowersInv, [Next]_vars
             PROVE  AsLineLog!Next \/ UNCHANGED AsLineLog!vars
  BY DEF LogInv
<1>1. CASE UNCHANGED vars \/ CallerStep
  <2>1. UNCHANGED <<segs, top, followers>>
    BY <1>1 DEF vars, followers, CallerStep, Output, EndRun, Begin, ClearLogs
  <2>2. Kept' = Kept
    BY <2>1 DEF Kept
  <2> QED BY <2>1, <2>2, MapsToNothing DEF followers
<1>2. ASSUME NEW f \in Follower, FollowStep(f)
      PROVE  AsLineLog!Next \/ UNCHANGED AsLineLog!vars
  BY <1>2, JoinsMap, LooksMap, EmitMaps, LeaveMaps DEF FollowStep
<1> QED BY <1>1, <1>2, CreatedMaps, PruneMaps, WriteMaps, WakeMaps, UnlinkMaps, RestartMaps
        DEF Next, CallerStep, FollowStep

\* A follower is given the lines in order and passes over none that is kept in a
\* file whose name is listed, through rotations, prunes, new runs and however slow
\* it is, until everything that is kept is removed under it (logstore.go:12-14,
\* 387-585).  What is written past the last listed name is promised to nobody.
THEOREM LogStoreImplementsLineLog == Spec => PassesOverNoLine
<1>1. Init => AsLineLog!Init
  BY InitMaps
<1>2. LogInv /\ [Next]_vars => [AsLineLog!Next]_(AsLineLog!vars)
  BY StepMaps
<1> QED BY <1>1, <1>2, LogHolds, PTL DEF Spec, PassesOverNoLine, AsLineLog!Spec
=============================================================================
