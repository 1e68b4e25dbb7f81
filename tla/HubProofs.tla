------------------------------- MODULE HubProofs -------------------------------
(***************************************************************************)
(* The two safety properties of the desktop's view of a stack, for any     *)
(* instances and pages and any number of moves, frames, daemons and        *)
(* subscriptions: what a feed has told is what there is, and the topic     *)
(* that the pages want is the topic that is streamed.                      *)
(*                                                                         *)
(* The feed and the pages meet only in the loop of the stack object, so    *)
(* each invariant is followed through the steps of its own side.           *)
(***************************************************************************)
EXTENDS Hub, FiniteSetTheorems, TLAPS

-----------------------------------------------------------------------------
(* The invariants *)

FrameRec == [snapshot : BOOLEAN, changed : Partial(Views), removed : SUBSET Inst]

\* A command that is still going to touch the registry's entry of i.
Owed(i) == IF going \in {<<"off", i>>, <<"remove", i>>} THEN 1 ELSE 0

\* Every change of an entry is paid for by a move.
StackTyped ==
  /\ reg \in [Inst -> Nat] /\ decl \subseteq Inst /\ off \subseteq Inst
  /\ going \in {Nothing} \cup ({"off", "remove", "drop", "add"} \X Inst)
  /\ moves \in 0..MaxMove
  /\ \A i \in Inst : reg[i] + Owed(i) <= moves

FeedTyped ==
  /\ wake \in BOOLEAN /\ fresh \in BOOLEAN
  /\ feed \in {"none", "read", "look", "wait"}
  /\ feed = "look" => got \in [Inst -> 0..MaxMove]
  /\ last \in Partial(Views)
  /\ wire \in Seq(FrameRec) /\ Len(wire) <= WireSize + 1
  /\ feed \in {"read", "look"} => Len(wire) <= WireSize

\* A closed feed has forgotten everything; what a snapshot was made from is
\* the registry as it is, or there is a signal.
FeedSound ==
  /\ feed = "none" => fresh /\ ~wake
  /\ feed = "look" /\ ~wake => got = reg

\* Without a signal the feed has sent what every instance is.
Sent ==
  feed = "wait" /\ ~wake =>
    \A i \in Inst \ silent : Of(Snapshot(reg), i) = Of(last, i)

\* The daemon, the object the hub has for it and its subscription.
LoopSound ==
  /\ up \in BOOLEAN /\ lives \in Nat /\ stack \in Nat
  /\ keep \in {"off", "ask", "arm", "dial", "stream"}
  /\ conn \in {"connecting", "live", "down"} /\ shown \in Partial(Views)
  /\ armed \in BOOLEAN /\ ended \in BOOLEAN /\ topic \in BOOLEAN
  /\ stack = 0 <=> keep = "off"
  /\ armed <=> keep \in {"dial", "stream"}
  /\ feed # "none" => up /\ keep = "stream"
  /\ keep # "stream" => wire = <<>>

\* The pages whose visit the hub counts, and those whose visit the object does.
Visiting == {p \in Page : \/ page[p] \in {"joining", "watching"}
                          \/ page[p] = "ending" /\ bound[p] # 0}
Joined == {p \in Page : Bound(p)}

PageTyped ==
  /\ page \in [Page -> {"away", "joining", "watching", "ending", "leaving"}]
  /\ bound \in [Page -> Nat]
  /\ want \in Nat /\ wants \in Nat /\ taken \in Nat /\ enders \subseteq Page
  /\ \A p \in Page : page[p] \in {"joining", "leaving"} => bound[p] # 0

\* Objects are numbered: what a page was bound to is not yet to come.
BoundSound ==
  LET newest == IF stack # 0 THEN stack ELSE IF up THEN lives ELSE lives + 1
  IN  /\ stack <= lives + 1
      /\ \A p \in Page : bound[p] <= newest

\* Both counts are counts of pages; the object took over those it is not told of.
CountsSound ==
  /\ wants = Cardinality(Visiting)
  /\ stack # 0 =>
       /\ want = taken + Cardinality(Joined)
       /\ taken <= Cardinality(Page)
       /\ \A p \in Visiting : bound[p] # stack => taken > 0
  /\ stack = 0 => want = 0

EndersSound == enders # {} => armed

-----------------------------------------------------------------------------
(* Views and frames *)

LEMMA PartialIs ==
  ASSUME NEW S, NEW v \in Partial(S)
  PROVE  DOMAIN v \in SUBSET Inst /\ v \in [DOMAIN v -> S]
BY DEF Partial

LEMMA IsPartial ==
  ASSUME NEW S, NEW D \in SUBSET Inst, NEW v \in [D -> S]
  PROVE  v \in Partial(S)
BY DEF Partial

LEMMA EmptyView == <<>> \in Partial(Views) /\ DOMAIN <<>> = {}
<1>1. <<>> \in [{} -> Views] /\ DOMAIN <<>> = {}
  OBVIOUS
<1>2. {} \in SUBSET Inst
  OBVIOUS
<1> HIDE DEF Views
<1> QED BY <1>1, <1>2, IsPartial

LEMMA SnapshotView ==
  ASSUME NEW e \in [Inst -> 0..MaxMove]
  PROVE  Snapshot(e) \in Partial(Views)
<1> DEFINE D == {j \in Inst : e[j] > 0 \/ j \in decl}
           v == [i \in D |-> [entry |-> e[i], declared |-> i \in decl,
                              disabled |-> i \in off]]
<1>1. ASSUME NEW i \in D
      PROVE  [entry |-> e[i], declared |-> i \in decl, disabled |-> i \in off]
               \in Views
  <2>1. e[i] \in 0..MaxMove /\ (i \in decl) \in BOOLEAN /\ (i \in off) \in BOOLEAN
    OBVIOUS
  <2> QED BY <2>1 DEF Views
<1>2. v \in [D -> Views]
  BY <1>1
<1>3. D \in SUBSET Inst
  OBVIOUS
<1>4. v = Snapshot(e)
  BY DEF Snapshot
<1> HIDE DEF v, D, Views
<1> QED BY <1>2, <1>3, <1>4, IsPartial

\* A snapshot says of an instance what the registry, the configuration and the
\* mark say of it.
LEMMA SnapshotOf ==
  ASSUME NEW e, NEW i \in Inst
  PROVE  Of(Snapshot(e), i) =
           IF e[i] > 0 \/ i \in decl
           THEN {[entry |-> e[i], declared |-> i \in decl, disabled |-> i \in off]}
           ELSE {}
BY DEF Of, Snapshot

LEMMA FrameTyped ==
  ASSUME NEW now \in Partial(Views), last \in Partial(Views), fresh \in BOOLEAN
  PROVE  Frame(now) \in FrameRec
<1> DEFINE S == {j \in DOMAIN now : fresh \/ j \notin DOMAIN last \/ last[j] # now[j]}
           c == [i \in S |-> now[i]]
<1>1. /\ DOMAIN now \in SUBSET Inst /\ now \in [DOMAIN now -> Views]
      /\ DOMAIN last \in SUBSET Inst
  BY PartialIs
<1>2. c \in [S -> Views] /\ S \in SUBSET Inst
  BY <1>1
<1>3. c \in Partial(Views)
  <2> HIDE DEF c, S
  <2> QED BY <1>2, IsPartial
<1>4. (DOMAIN last \ DOMAIN now) \in SUBSET Inst
  BY <1>1
<1>5. Frame(now) = [snapshot |-> fresh, changed |-> c, removed |-> DOMAIN last \ DOMAIN now]
  BY DEF Frame
<1> HIDE DEF c
<1> QED BY <1>3, <1>4, <1>5 DEF FrameRec

\* A frame is about an instance; what it says of it.
About(f, i) == f.snapshot \/ i \in DOMAIN f.changed \cup f.removed
Says(f, i) == IF i \in f.removed THEN {} ELSE Of(f.changed, i)

LEMMA FrameSays ==
  ASSUME NEW now \in Partial(Views), last \in Partial(Views), fresh \in BOOLEAN,
         NEW i \in Inst
  PROVE  /\ About(Frame(now), i) => Says(Frame(now), i) = Of(now, i)
         /\ ~About(Frame(now), i) => Of(last, i) = Of(now, i)
<1> DEFINE S == {j \in DOMAIN now : fresh \/ j \notin DOMAIN last \/ last[j] # now[j]}
           c == [k \in S |-> now[k]]
<1>1. /\ Frame(now).snapshot = fresh /\ Frame(now).changed = c
      /\ Frame(now).removed = DOMAIN last \ DOMAIN now
  BY DEF Frame
<1>2. DOMAIN c = S /\ \A k \in S : c[k] = now[k]
  OBVIOUS
<1>3. About(Frame(now), i) <=> fresh \/ i \in S \/ i \in DOMAIN last \ DOMAIN now
  <2> HIDE DEF c, S
  <2> QED BY <1>1, <1>2 DEF About
<1>4. Says(Frame(now), i) =
        IF i \in DOMAIN last \ DOMAIN now THEN {} ELSE {now[k] : k \in S \cap {i}}
  <2>1. Of(c, i) = {now[k] : k \in S \cap {i}}
    BY <1>2 DEF Of
  <2> HIDE DEF c, S
  <2> QED BY <1>1, <2>1 DEF Says
<1>5. ASSUME About(Frame(now), i)
      PROVE  Says(Frame(now), i) = Of(now, i)
  <2>1. CASE i \notin DOMAIN now
    BY <1>4, <2>1 DEF Of
  <2>2. CASE i \in DOMAIN now
    <3>1. i \in S
      BY <1>3, <1>5, <2>2
    <3> QED BY <1>4, <2>2, <3>1 DEF Of
  <2> QED BY <2>1, <2>2
<1>6. ASSUME ~About(Frame(now), i)
      PROVE  Of(last, i) = Of(now, i)
  BY <1>3, <1>6 DEF Of
<1> QED BY <1>5, <1>6

\* EndsWith, with its two parts named.
LEMMA EndsWithIs ==
  ASSUME NEW v, NEW w, NEW e, NEW i
  PROVE  EndsWith(v, w, e, i) <=>
           /\ (\A k \in DOMAIN w : ~About(w[k], i)) => Of(v, i) = Of(e, i)
           /\ \A k \in DOMAIN w :
                About(w[k], i) /\ (\A j \in DOMAIN w : About(w[j], i) => j <= k)
                  => Says(w[k], i) = Of(e, i)
<1> DEFINE about == {k \in DOMAIN w : About(w[k], i)}
<1>1. EndsWith(v, w, e, i) <=>
        /\ about = {} => Of(v, i) = Of(e, i)
        /\ \A k \in about : (\A j \in about : j <= k) => Says(w[k], i) = Of(e, i)
  BY DEF EndsWith, About, Says
<1> QED BY <1>1

\* One frame more, which says what there is to say.
LEMMA AppendEnds ==
  ASSUME NEW v, NEW w \in Seq(FrameRec), NEW e, NEW d, NEW f \in FrameRec, NEW i,
         About(f, i) => Says(f, i) = Of(d, i),
         ~About(f, i) => Of(e, i) = Of(d, i) /\ EndsWith(v, w, e, i)
  PROVE  EndsWith(v, Append(w, f), d, i)
<1> DEFINE a == Append(w, f)
           n == Len(w)
<1>1. /\ DOMAIN a = 1..(n + 1) /\ DOMAIN w = 1..n /\ n \in Nat
      /\ a[n + 1] = f /\ \A k \in 1..n : a[k] = w[k]
  OBVIOUS
<1> HIDE DEF a, n
<1>2. CASE About(f, i)
  <2>1. ASSUME NEW k \in DOMAIN a, \A j \in DOMAIN a : About(a[j], i) => j <= k
        PROVE  k = n + 1
    BY <1>1, <1>2, <2>1
  <2>2. Says(a[n + 1], i) = Of(d, i) /\ About(a[n + 1], i) /\ n + 1 \in DOMAIN a
    BY <1>1, <1>2
  <2> QED BY <2>1, <2>2, EndsWithIs DEF a
<1>3. CASE ~About(f, i)
  <2>1. \A k \in DOMAIN a : About(a[k], i) => k \in 1..n /\ About(w[k], i)
    BY <1>1, <1>3
  <2>2. \A k \in DOMAIN w : k \in DOMAIN a /\ a[k] = w[k]
    BY <1>1
  <2>3. /\ (\A k \in DOMAIN w : ~About(w[k], i)) => Of(v, i) = Of(d, i)
        /\ \A k \in DOMAIN w :
             About(w[k], i) /\ (\A j \in DOMAIN w : About(w[j], i) => j <= k)
               => Says(w[k], i) = Of(d, i)
    BY <1>3, EndsWithIs
  <2>4. (\A k \in DOMAIN a : ~About(a[k], i)) => Of(v, i) = Of(d, i)
    BY <2>2, <2>3
  <2>5. ASSUME NEW k \in DOMAIN a, About(a[k], i),
               \A j \in DOMAIN a : About(a[j], i) => j <= k
        PROVE  Says(a[k], i) = Of(d, i)
    <3>1. k \in DOMAIN w /\ About(w[k], i) /\ a[k] = w[k]
      BY <1>1, <2>1, <2>5
    <3>2. \A j \in DOMAIN w : About(w[j], i) => j <= k
      BY <2>2, <2>5
    <3> QED BY <2>3, <3>1, <3>2
  <2> QED BY <2>4, <2>5, EndsWithIs DEF a
<1> QED BY <1>2, <1>3

\* What stack.apply makes of a view.
LEMMA ApplyOf ==
  ASSUME NEW v, NEW f, NEW i
  PROVE  Of(Apply(v, f), i) = IF About(f, i) THEN Says(f, i) ELSE Of(v, i)
<1> DEFINE N == ((IF f.snapshot THEN {} ELSE DOMAIN v) \cup DOMAIN f.changed) \ f.removed
           a == [k \in N |-> IF k \in DOMAIN f.changed THEN f.changed[k] ELSE v[k]]
<1>1. Apply(v, f) = a
  BY DEF Apply
<1>2. DOMAIN a = N
  OBVIOUS
<1>3. Of(a, i) = IF i \in N THEN {IF i \in DOMAIN f.changed THEN f.changed[i] ELSE v[i]} ELSE {}
  BY DEF Of
<1>4. CASE About(f, i)
  BY <1>1, <1>3, <1>4 DEF About, Says, Of
<1>5. CASE ~About(f, i)
  BY <1>1, <1>3, <1>5 DEF About, Of
<1> QED BY <1>4, <1>5

LEMMA ApplyTyped ==
  ASSUME NEW v \in Partial(Views), NEW f \in FrameRec
  PROVE  Apply(v, f) \in Partial(Views)
<1> DEFINE N == ((IF f.snapshot THEN {} ELSE DOMAIN v) \cup DOMAIN f.changed) \ f.removed
           a == [k \in N |-> IF k \in DOMAIN f.changed THEN f.changed[k] ELSE v[k]]
<1>1. f.changed \in Partial(Views)
  BY DEF FrameRec
<1>2. /\ DOMAIN v \in SUBSET Inst /\ v \in [DOMAIN v -> Views]
      /\ DOMAIN f.changed \in SUBSET Inst
      /\ f.changed \in [DOMAIN f.changed -> Views]
  BY <1>1, PartialIs
<1>3. N \in SUBSET Inst
  BY <1>2
<1>4. a \in [N -> Views]
  BY <1>2
<1>5. Apply(v, f) = a
  BY DEF Apply
<1> HIDE DEF a, N
<1> QED BY <1>3, <1>4, <1>5, IsPartial

\* The first frame received.
LEMMA TailEnds ==
  ASSUME NEW v, NEW w \in Seq(FrameRec), w # <<>>, NEW e, NEW i,
         EndsWith(v, w, e, i)
  PROVE  EndsWith(Apply(v, Head(w)), Tail(w), e, i)
<1> DEFINE t == Tail(w)
           f == Head(w)
           n == Len(w)
           u == Apply(v, f)
<1>1. /\ n \in Nat /\ n > 0 /\ DOMAIN w = 1..n /\ DOMAIN t = 1..(n - 1)
      /\ f = w[1] /\ \A k \in 1..(n - 1) : t[k] = w[k + 1]
  OBVIOUS
<1>2. Of(u, i) = IF About(f, i) THEN Says(f, i) ELSE Of(v, i)
  BY ApplyOf
<1>3. /\ (\A k \in DOMAIN w : ~About(w[k], i)) => Of(v, i) = Of(e, i)
      /\ \A k \in DOMAIN w :
           About(w[k], i) /\ (\A j \in DOMAIN w : About(w[j], i) => j <= k)
             => Says(w[k], i) = Of(e, i)
  BY EndsWithIs
<1> HIDE DEF t, f, n, u
<1>4. ASSUME \A k \in DOMAIN t : ~About(t[k], i)
      PROVE  Of(u, i) = Of(e, i)
  <2>1. \A k \in 2..n : ~About(w[k], i)
    <3>1. \A k \in 2..n : k - 1 \in 1..(n - 1) /\ (k - 1) + 1 = k
      BY <1>1
    <3> QED BY <1>1, <1>4, <3>1
  <2>2. CASE About(f, i)
    <3>1. \A j \in DOMAIN w : About(w[j], i) => j <= 1
      BY <1>1, <2>1
    <3>2. 1 \in DOMAIN w
      BY <1>1
    <3> QED BY <1>1, <1>2, <1>3, <2>2, <3>1, <3>2
  <2>3. CASE ~About(f, i)
    <3>1. \A j \in DOMAIN w : ~About(w[j], i)
      BY <1>1, <2>1, <2>3
    <3> QED BY <1>2, <1>3, <2>3, <3>1
  <2> QED BY <2>2, <2>3
<1>5. ASSUME NEW k \in DOMAIN t, About(t[k], i),
             \A j \in DOMAIN t : About(t[j], i) => j <= k
      PROVE  Says(t[k], i) = Of(e, i)
  <2>1. k + 1 \in DOMAIN w /\ t[k] = w[k + 1] /\ k \in 1..(n - 1)
    BY <1>1
  <2>2. ASSUME NEW j \in DOMAIN w, About(w[j], i)
        PROVE  j <= k + 1
    <3>1. CASE j = 1
      BY <1>1, <2>1, <3>1
    <3>2. CASE j # 1
      <4>1. j - 1 \in DOMAIN t /\ t[j - 1] = w[j]
        <5>1. j - 1 \in 1..(n - 1) /\ (j - 1) + 1 = j
          BY <1>1, <3>2
        <5> QED BY <1>1, <5>1
      <4>2. j - 1 <= k
        BY <1>5, <2>2, <4>1
      <4> QED BY <1>1, <2>1, <4>2
    <3> QED BY <3>1, <3>2
  <2> QED BY <1>3, <1>5, <2>1, <2>2
<1> QED BY <1>4, <1>5, EndsWithIs DEF t, f, u

-----------------------------------------------------------------------------
(* What a step does to the stack and its feed *)

FeedInv == StackTyped /\ FeedTyped /\ FeedSound /\ Sent

\* What a command or a change of an instance does: a signal with the touch of an
\* entry, or something of one instance that the feed is not told of.
LEMMA ChangeIs ==
  ASSUME Changes
  PROVE  /\ UNCHANGED <<feed, got, last, fresh, wire>>
         /\ \E i \in Inst :
              \/ Touch(i) /\ UNCHANGED <<decl, off>>
              \/ /\ UNCHANGED <<reg, wake>> /\ silent' = silent \cup {i}
                 /\ \A j \in Inst : j # i => (j \in decl' <=> j \in decl)
                                             /\ (j \in off' <=> j \in off)
              \/ UNCHANGED <<reg, decl, off, wake, silent>>
BY DEF Changes, CommandStep, Change, TakeOff, PutBack, RemoveInstance,
   AddInstance, Stop, Drop, AddInstanceEnds, Unseen, feedVars

LEMMA ChangesTyped ==
  ASSUME StackTyped, Changes
  PROVE  StackTyped'
<1>0. /\ reg \in [Inst -> Nat] /\ moves \in Nat /\ MaxMove \in Nat
      /\ \A i \in Inst : reg[i] \in Nat /\ Owed(i) \in {0, 1} /\ reg[i] + Owed(i) <= moves
  <2>1. moves \in Nat /\ MaxMove \in Nat /\ reg \in [Inst -> Nat]
    BY FeedConstants DEF StackTyped, FeedConstants
  <2>2. \A i \in Inst : Owed(i) \in {0, 1}
    BY DEF Owed
  <2> QED BY <2>1, <2>2 DEF StackTyped
<1>a. \A i, j : /\ Nothing # <<"off", j>> /\ Nothing # <<"remove", j>>
                /\ <<"drop", i>> # <<"off", j>> /\ <<"drop", i>> # <<"remove", j>>
                /\ <<"add", i>> # <<"off", j>> /\ <<"add", i>> # <<"remove", j>>
  BY DEF Nothing
<1>1. Move => moves' \in 0..MaxMove /\ moves' = moves + 1
  BY <1>0 DEF Move, StackTyped
<1>2. ASSUME NEW i \in Inst, Change(i)
      PROVE  StackTyped'
  <2>1. /\ reg' = [reg EXCEPT ![i] = @ + 1] /\ UNCHANGED <<decl, off, going>> /\ Move
    BY <1>2 DEF Change, Touch
  <2>2. \A j \in Inst : Owed(j)' = Owed(j)
    BY <2>1 DEF Owed
  <2>3. reg' \in [Inst -> Nat] /\ \A j \in Inst : reg'[j] <= reg[j] + 1
    BY <1>0, <2>1
  <2>4. \A j \in Inst : reg'[j] + Owed(j)' <= moves'
    BY <1>0, <1>1, <2>1, <2>2, <2>3
  <2> QED BY <1>1, <2>1, <2>3, <2>4 DEF StackTyped
<1>3. ASSUME NEW i \in Inst, Stop(i)
      PROVE  StackTyped'
  <2>1. /\ reg' = [reg EXCEPT ![i] = @ + 1] /\ UNCHANGED <<decl, off, moves>>
        /\ going' = Nothing \/ going' = <<"drop", i>>
        /\ going \in {<<"off", i>>, <<"remove", i>>}
    BY <1>3 DEF Stop, Touch
  <2>2. \A j \in Inst : Owed(j)' = 0
    BY <1>a, <2>1 DEF Owed
  <2>3. Owed(i) = 1
    BY <2>1 DEF Owed
  <2>4. reg' \in [Inst -> Nat]
    BY <1>0, <2>1
  <2>5. \A j \in Inst : reg'[j] + Owed(j)' <= moves'
    BY <1>0, <2>1, <2>2, <2>3
  <2>6. going' \in {Nothing} \cup ({"off", "remove", "drop", "add"} \X Inst)
    BY <2>1
  <2> QED BY <2>1, <2>4, <2>5, <2>6 DEF StackTyped
<1>4. ASSUME Begin, UNCHANGED reg, going' \in {Nothing} \cup ({"off", "remove", "drop", "add"} \X Inst),
             decl' \in SUBSET Inst, off' \in SUBSET Inst
      PROVE  StackTyped'
  <2>1. \A j \in Inst : Owed(j)' \in {0, 1}
    BY DEF Owed
  <2>2. \A j \in Inst : reg'[j] + Owed(j)' <= moves'
    BY <1>0, <1>1, <1>4, <2>1 DEF Begin
  <2> QED BY <1>0, <1>1, <1>4, <2>2 DEF StackTyped, Begin
<1>5. ASSUME UNCHANGED <<reg, moves, off>>, decl' \in SUBSET Inst, going' = Nothing
      PROVE  StackTyped'
  <2>1. \A j \in Inst : Owed(j)' = 0
    BY <1>5, <1>a DEF Owed
  <2> QED BY <1>0, <1>5, <2>1 DEF StackTyped
<1>6. decl \in SUBSET Inst /\ off \in SUBSET Inst
  BY DEF StackTyped
<1>7. ASSUME NEW i \in Inst,
             TakeOff(i) \/ PutBack(i) \/ RemoveInstance(i) \/ AddInstance(i)
      PROVE  StackTyped'
  <2>1. /\ Begin /\ UNCHANGED reg
        /\ going' \in {going, <<"off", i>>, <<"remove", i>>, <<"add", i>>}
        /\ decl' \in {decl, decl \cup {i}} /\ off' \in {off, off \cup {i}, off \ {i}}
    BY <1>7 DEF TakeOff, PutBack, RemoveInstance, AddInstance
  <2>2. going = Nothing
    BY <2>1 DEF Begin
  <2> QED BY <1>4, <1>6, <2>1, <2>2
<1>8. ASSUME NEW i \in Inst, Drop(i) \/ AddInstanceEnds(i)
      PROVE  StackTyped'
  <2>1. UNCHANGED <<reg, moves, off>> /\ going' = Nothing /\ decl' \in {decl, decl \ {i}}
    BY <1>8 DEF Drop, AddInstanceEnds
  <2> QED BY <1>5, <1>6, <2>1
<1> QED BY <1>2, <1>3, <1>7, <1>8 DEF Changes, CommandStep

LEMMA ChangesSent ==
  ASSUME FeedInv, Changes
  PROVE  FeedInv'
<1>0. StackTyped'
  BY ChangesTyped DEF FeedInv
<1>1. /\ UNCHANGED <<feed, got, last, fresh, wire>> /\ FeedTyped /\ FeedSound /\ Sent
  BY ChangeIs DEF FeedInv
<1>2. PICK i \in Inst :
        \/ Touch(i) /\ UNCHANGED <<decl, off>>
        \/ /\ UNCHANGED <<reg, wake>> /\ silent' = silent \cup {i}
           /\ \A j \in Inst : j # i => (j \in decl' <=> j \in decl)
                                       /\ (j \in off' <=> j \in off)
        \/ UNCHANGED <<reg, decl, off, wake, silent>>
  BY ChangeIs
<1>3. CASE Touch(i)
  <2>1. wake' = (feed # "none")
    BY <1>3 DEF Touch, Signal
  <2> QED BY <1>0, <1>1, <2>1 DEF FeedInv, FeedTyped, FeedSound, Sent
<1>4. CASE /\ UNCHANGED <<reg, wake>> /\ silent' = silent \cup {i}
           /\ \A j \in Inst : j # i => (j \in decl' <=> j \in decl)
                                       /\ (j \in off' <=> j \in off)
  <2>1. ASSUME NEW j \in Inst, j # i
        PROVE  Of(Snapshot(reg), j)' = Of(Snapshot(reg), j)
    <3>1. Of(Snapshot(reg), j) =
            IF reg[j] > 0 \/ j \in decl
            THEN {[entry |-> reg[j], declared |-> j \in decl, disabled |-> j \in off]}
            ELSE {}
      BY SnapshotOf
    <3>2. Of(Snapshot(reg), j)' =
            IF reg'[j] > 0 \/ j \in decl'
            THEN {[entry |-> reg'[j], declared |-> j \in decl', disabled |-> j \in off']}
            ELSE {}
      BY DEF Of, Snapshot
    <3>3. (j \in decl') = (j \in decl) /\ (j \in off') = (j \in off) /\ reg'[j] = reg[j]
      BY <1>4, <2>1
    <3> QED BY <3>1, <3>2, <3>3
  <2>2. Sent'
    <3> SUFFICES ASSUME feed' = "wait", ~wake', NEW j \in Inst \ silent'
                 PROVE  Of(Snapshot(reg), j)' = Of(last', j)
      BY DEF Sent, Of
    <3>1. j \in Inst \ silent /\ j # i
      BY <1>4
    <3>2. Of(Snapshot(reg), j) = Of(last, j)
      BY <1>1, <1>4, <3>1 DEF Sent
    <3> QED BY <1>1, <2>1, <3>1, <3>2
  <2> QED BY <1>0, <1>1, <1>4, <2>2 DEF FeedInv, FeedTyped, FeedSound
<1>5. CASE UNCHANGED <<reg, decl, off, wake, silent>>
  BY <1>0, <1>1, <1>5 DEF FeedInv, FeedTyped, FeedSound, Sent, Snapshot
<1> QED BY <1>2, <1>3, <1>4, <1>5

\* A step that leaves the stack and the feed alone, but for the moves it takes.
LEMMA FeedKept ==
  ASSUME FeedInv, UNCHANGED <<reg, decl, off, going, feedVars, silent>>,
         UNCHANGED moves \/ Move
  PROVE  FeedInv'
<1>1. moves' \in 0..MaxMove /\ moves <= moves' /\ moves \in Nat /\ moves' \in Nat
  BY FeedConstants DEF FeedInv, StackTyped, Move, FeedConstants
<1>2. \A i \in Inst : reg[i] \in Nat /\ Owed(i) \in {0, 1} /\ Owed(i)' = Owed(i)
  BY DEF FeedInv, StackTyped, Owed
<1>3. StackTyped'
  BY <1>1, <1>2 DEF FeedInv, StackTyped
<1>4. FeedTyped' /\ FeedSound'
  BY DEF FeedInv, FeedTyped, FeedSound, feedVars
<1>5. Sent'
  BY DEF FeedInv, Sent, Snapshot, feedVars
<1> QED BY <1>3, <1>4, <1>5 DEF FeedInv

\* A feed that ends.
LEMMA FeedClosed ==
  ASSUME FeedInv, Close, UNCHANGED <<reg, decl, off, going>>,
         UNCHANGED moves \/ Move, UNCHANGED wire \/ wire' = <<>>
  PROVE  FeedInv'
<1>1. moves' \in 0..MaxMove /\ moves <= moves' /\ moves \in Nat /\ moves' \in Nat
  BY FeedConstants DEF FeedInv, StackTyped, Move, FeedConstants
<1>2. \A i \in Inst : reg[i] \in Nat /\ Owed(i) \in {0, 1} /\ Owed(i)' = Owed(i)
  BY DEF FeedInv, StackTyped, Owed
<1>3. StackTyped'
  BY <1>1, <1>2 DEF FeedInv, StackTyped
<1>4. wire' \in Seq(FrameRec) /\ Len(wire') <= WireSize + 1
  <2>1. WireSize \in Nat /\ wire \in Seq(FrameRec) /\ Len(wire) <= WireSize + 1
    BY FeedConstants DEF FeedConstants, FeedInv, FeedTyped
  <2>2. CASE wire' = <<>>
    BY <2>1, <2>2
  <2> QED BY <2>1, <2>2
<1>5. FeedTyped'
  BY <1>4, EmptyView DEF Close, FeedTyped
<1> QED BY <1>3, <1>5 DEF FeedInv, Close, FeedSound, Sent

\* The steps of the feed.
LEMMA FeedStepSent ==
  ASSUME FeedInv, FeedStep
  PROVE  FeedInv'
<1>0. /\ UNCHANGED stackVars /\ UNCHANGED silent
      /\ StackTyped /\ FeedTyped /\ FeedSound /\ Sent
      /\ WireSize \in Nat
  BY FeedConstants DEF FeedInv, FeedStep, Read, Look, Woken, FeedConstants
<1>1. StackTyped'
  BY <1>0 DEF StackTyped, stackVars, Owed
<1>2. CASE Read
  <2>1. reg \in [Inst -> 0..MaxMove]
    <3>1. \A i \in Inst : reg[i] \in Nat /\ Owed(i) \in {0, 1}
                          /\ reg[i] + Owed(i) <= moves
      BY <1>0 DEF StackTyped, Owed
    <3>2. moves \in Nat /\ MaxMove \in Nat /\ moves <= MaxMove
      BY <1>0, FeedConstants DEF StackTyped, FeedConstants
    <3>3. \A i \in Inst : reg[i] \in 0..MaxMove
      BY <3>1, <3>2
    <3> QED BY <1>0, <3>3 DEF StackTyped
  <2>2. FeedTyped'
    BY <1>0, <1>2, <2>1 DEF Read, FeedTyped
  <2> QED BY <1>0, <1>1, <1>2, <2>2 DEF Read, FeedInv, FeedSound, Sent, stackVars
<1>3. CASE Look
  <2> DEFINE now == Snapshot(got)
  <2>1. got \in [Inst -> 0..MaxMove]
    BY <1>0, <1>3 DEF Look, FeedTyped
  <2>2. now \in Partial(Views)
    BY <2>1, SnapshotView
  <2>3. Frame(now) \in FrameRec
    <3> HIDE DEF now
    <3> QED BY <1>0, <2>2, FrameTyped DEF FeedTyped
  <2>4. /\ last' = now /\ feed' = "wait" /\ fresh' = FALSE /\ UNCHANGED wake
        /\ wire' = wire \/ wire' = Append(wire, Frame(now))
        /\ feed = "look"
    BY <1>3 DEF Look
  <2>5. wire' \in Seq(FrameRec) /\ Len(wire') <= WireSize + 1
    <3>1. wire \in Seq(FrameRec) /\ Len(wire) <= WireSize
      BY <1>0, <2>4 DEF FeedTyped
    <3> HIDE DEF now
    <3> QED BY <1>0, <2>3, <2>4, <3>1
  <2>6. FeedTyped'
    <3> HIDE DEF now
    <3> QED BY <1>0, <2>2, <2>4, <2>5 DEF FeedTyped
  <2>7. Sent'
    <3> SUFFICES ASSUME ~wake
                 PROVE  Snapshot(reg)' = last'
      BY <2>4 DEF Sent
    <3>1. got = reg
      BY <1>0, <2>4 DEF FeedSound
    <3> QED BY <1>0, <2>4, <3>1 DEF Snapshot, stackVars
  <2> QED BY <1>1, <2>4, <2>6, <2>7 DEF FeedInv, FeedSound
<1>4. CASE Woken
  BY <1>0, <1>1, <1>4 DEF Woken, FeedInv, FeedTyped, FeedSound, Sent
<1> QED BY <1>2, <1>3, <1>4 DEF FeedStep

-----------------------------------------------------------------------------
(* The subscription: what the page holds against what the feed has sent *)

DeskInv == FeedInv /\ LoopSound /\ FramesAddUp

LEMMA FeedStepAddsUp ==
  ASSUME FeedInv, FramesAddUp, FeedStep, UNCHANGED <<keep, shown>>
  PROVE  FramesAddUp'
<1>0. /\ last \in Partial(Views) /\ fresh \in BOOLEAN /\ wire \in Seq(FrameRec)
  BY DEF FeedInv, FeedTyped
<1>1. CASE Read \/ Woken
  <2>1. UNCHANGED <<wire, last, fresh, keep, shown>> /\ feed # "none"
    BY <1>1 DEF Read, Woken
  <2> QED BY <2>1 DEF FramesAddUp
<1>2. CASE Look
  <2> DEFINE now == Snapshot(got)
             f   == Frame(now)
  <2>1. now \in Partial(Views)
    BY <1>2, SnapshotView DEF FeedInv, FeedTyped, Look
  <2>2. /\ last' = now /\ feed = "look"
        /\ wire' = IF fresh \/ DOMAIN f.changed # {} \/ f.removed # {}
                     THEN Append(wire, f) ELSE wire
    BY <1>2 DEF Look
  <2>3. f.snapshot = fresh
    BY DEF Frame
  <2>4. f \in FrameRec
    <3> HIDE DEF now
    <3> QED BY <1>0, <2>1, FrameTyped
  <2>5. \A i \in Inst : /\ About(f, i) => Says(f, i) = Of(now, i)
                        /\ ~About(f, i) => Of(last, i) = Of(now, i)
    <3> HIDE DEF now
    <3> QED BY <1>0, <2>1, FrameSays
  <2> HIDE DEF f, now
  <2> SUFFICES ASSUME keep = "stream", NEW i \in Inst
               PROVE  EndsWith(shown, wire', now, i)
    BY <2>2 DEF FramesAddUp
  <2>6. ~fresh => EndsWith(shown, wire, last, i)
    BY <2>2 DEF FramesAddUp
  <2>7. ~About(f, i) => ~fresh
    BY <2>3 DEF About
  <2>8. CASE wire' = Append(wire, f)
    <3>1. EndsWith(shown, Append(wire, f), now, i)
      BY <1>0, <2>4, <2>5, <2>6, <2>7, AppendEnds
    <3> QED BY <2>8, <3>1
  <2>9. CASE wire' = wire /\ ~fresh /\ DOMAIN f.changed = {} /\ f.removed = {}
    <3>1. Of(last, i) = Of(now, i)
      BY <2>3, <2>5, <2>9 DEF About
    <3> QED BY <2>6, <2>9, <3>1, EndsWithIs
  <2> QED BY <2>2, <2>8, <2>9
<1> QED BY <1>1, <1>2 DEF FeedStep

\* The daemon's own steps.
LEMMA DaemonDesk ==
  ASSUME DeskInv, Daemon
  PROVE  DeskInv'
<1>0. /\ UNCHANGED <<up, lives, stack, keep, conn, shown, armed, ended, topic>>
      /\ up /\ FeedInv /\ LoopSound /\ FramesAddUp
  BY DEF Daemon, DeskInv, loopVars
<1>1. CASE Changes
  <2>1. FeedInv'
    BY <1>0, <1>1, ChangesSent
  <2>2. UNCHANGED <<feed, got, last, fresh, wire>>
    BY <1>1, ChangeIs
  <2>3. LoopSound' /\ FramesAddUp'
    BY <1>0, <2>2 DEF LoopSound, FramesAddUp, EndsWith, Of
  <2> QED BY <2>1, <2>3 DEF DeskInv
<1>2. CASE FeedStep
  <2>1. FeedInv' /\ FramesAddUp'
    BY <1>0, <1>2, FeedStepSent, FeedStepAddsUp
  <2>2. feed # "none"
    BY <1>2 DEF FeedStep, Read, Look, Woken
  <2>3. LoopSound'
    BY <1>0, <2>2 DEF LoopSound
  <2> QED BY <2>1, <2>3 DEF DeskInv
<1> QED BY <1>1, <1>2 DEF Daemon

LEMMA LivesDesk ==
  ASSUME DeskInv, DaemonEnds \/ DaemonStarts
  PROVE  DeskInv'
<1>0. FeedInv /\ LoopSound /\ FramesAddUp
  BY DEF DeskInv
<1>1. CASE DaemonEnds
  <2>1. /\ Close /\ UNCHANGED <<reg, decl, off, going, wire>> /\ Move /\ up' = FALSE
        /\ UNCHANGED <<lives, stack, keep, conn, shown, armed, ended, topic>>
    BY <1>1 DEF DaemonEnds, loopVars
  <2>2. FeedInv'
    BY <1>0, <2>1, FeedClosed
  <2>3. feed' = "none"
    BY <2>1 DEF Close
  <2>4. LoopSound' /\ FramesAddUp'
    BY <1>0, <2>1, <2>3 DEF LoopSound, FramesAddUp
  <2> QED BY <2>2, <2>4 DEF DeskInv
<1>2. CASE DaemonStarts
  <2>1. /\ reg' = [i \in Inst |-> 0] /\ decl' = Declared /\ off' = {}
        /\ going' = Nothing /\ ~up /\ up' = TRUE /\ lives' = lives + 1
        /\ UNCHANGED <<moves, feedVars, stack, keep, conn, shown, armed, ended, topic>>
    BY <1>2 DEF DaemonStarts, loopVars
  <2>2. feed = "none"
    BY <1>0, <2>1 DEF LoopSound
  <2>3. StackTyped'
    <3>1. \A i \in Inst : Owed(i)' = 0 /\ reg'[i] = 0
      BY <2>1 DEF Owed, Nothing
    <3>2. moves' \in 0..MaxMove /\ moves' \in Nat /\ MaxMove \in Nat
      BY <1>0, <2>1, FeedConstants DEF FeedInv, StackTyped, FeedConstants
    <3>3. \A i \in Inst : reg'[i] + Owed(i)' <= moves'
      BY <3>1, <3>2
    <3> QED BY <2>1, <3>2, <3>3, FeedConstants DEF StackTyped, FeedConstants
  <2>4. FeedTyped' /\ FeedSound' /\ Sent'
    BY <1>0, <2>1, <2>2 DEF FeedInv, FeedTyped, FeedSound, Sent, feedVars
  <2>5. LoopSound' /\ FramesAddUp'
    BY <1>0, <2>1, <2>2 DEF LoopSound, FramesAddUp, feedVars
  <2> QED BY <2>3, <2>4, <2>5 DEF DeskInv, FeedInv
<1> QED BY <1>1, <1>2

LEMMA LoopDesk ==
  ASSUME DeskInv, Loop
  PROVE  DeskInv'
<1>0. /\ FeedInv /\ LoopSound /\ FramesAddUp
      /\ LoopStep /\ UNCHANGED <<reg, decl, off, going, moves, silent, up, lives, stack>>
  <2>1. LoopStep
    BY DEF Loop, Ask, Arm, Dial, DialFails, Receive, Resubscribe, Dropped, GiveUp
  <2> QED BY <2>1 DEF DeskInv, LoopStep, stackVars
<1>1. reg \in [Inst -> 0..MaxMove] /\ wire \in Seq(FrameRec)
  <2>1. \A i \in Inst : reg[i] \in Nat /\ Owed(i) \in {0, 1}
                        /\ reg[i] + Owed(i) <= moves
    BY <1>0 DEF FeedInv, StackTyped, Owed
  <2>2. moves \in Nat /\ MaxMove \in Nat /\ moves <= MaxMove
    BY <1>0, FeedConstants DEF FeedInv, StackTyped, FeedConstants
  <2>3. \A i \in Inst : reg[i] \in 0..MaxMove
    BY <2>1, <2>2
  <2> QED BY <1>0, <2>3 DEF FeedInv, StackTyped, FeedTyped
<1>2. ASSUME UNCHANGED feedVars
      PROVE  FeedInv'
  BY <1>0, <1>2, FeedKept
<1>3. CASE Ask
  <2>1. /\ keep = "ask" /\ keep' = "arm" /\ UNCHANGED <<feedVars, armed, ended, topic>>
        /\ \/ shown' = Snapshot(reg) /\ conn' = "live"
           \/ UNCHANGED <<shown, conn>>
    BY <1>3 DEF Ask, Quiet
  <2>2. shown' \in Partial(Views)
    BY <1>0, <1>1, <2>1, SnapshotView DEF LoopSound
  <2>3. LoopSound' /\ FramesAddUp'
    BY <1>0, <2>1, <2>2 DEF LoopSound, FramesAddUp, feedVars
  <2> QED BY <1>2, <2>1, <2>3 DEF DeskInv
<1>4. CASE Arm
  <2>1. /\ keep = "arm" /\ keep' = "dial" /\ UNCHANGED <<feedVars, conn, shown>>
        /\ armed' = TRUE /\ ended' = FALSE /\ topic' \in BOOLEAN
    BY <1>4 DEF Arm, Quiet
  <2>2. LoopSound' /\ FramesAddUp'
    BY <1>0, <2>1 DEF LoopSound, FramesAddUp, feedVars
  <2> QED BY <1>2, <2>1, <2>2 DEF DeskInv
<1>5. CASE Dial
  <2>1. /\ keep = "dial" /\ keep' = "stream" /\ up /\ feed = "none" /\ feed' = "read"
        /\ UNCHANGED <<wake, got, last, fresh, wire, conn, shown, armed, ended, topic>>
    BY <1>5 DEF Dial, Open
  <2>2. wire = <<>> /\ fresh
    BY <1>0, <2>1 DEF LoopSound, FeedInv, FeedSound
  <2>3. FeedInv'
    <3>1. StackTyped'
      BY <1>0 DEF FeedInv, StackTyped, Owed
    <3>2. Len(wire) <= WireSize
      BY <2>2, FeedConstants DEF FeedConstants
    <3> QED BY <1>0, <2>1, <3>1, <3>2 DEF FeedInv, FeedTyped, FeedSound, Sent
  <2>4. LoopSound' /\ FramesAddUp'
    BY <1>0, <2>1, <2>2 DEF LoopSound, FramesAddUp
  <2> QED BY <2>3, <2>4 DEF DeskInv
<1>6. CASE DialFails
  <2>1. /\ keep = "dial" /\ keep' = "ask" /\ conn' = "down" /\ UNCHANGED <<feedVars, shown>>
        /\ armed' = FALSE /\ ended' = FALSE /\ topic' = FALSE
    BY <1>6 DEF DialFails, GiveUp, Disarm
  <2>2. LoopSound' /\ FramesAddUp'
    BY <1>0, <2>1 DEF LoopSound, FramesAddUp, feedVars
  <2> QED BY <1>2, <2>1, <2>2 DEF DeskInv
<1>7. CASE Receive
  <2>1. /\ keep = "stream" /\ wire # <<>> /\ shown' = Apply(shown, Head(wire))
        /\ wire' = Tail(wire) /\ conn' = "live"
        /\ UNCHANGED <<wake, feed, got, last, fresh, keep, armed, ended, topic>>
    BY <1>7 DEF Receive
  <2>2. /\ Head(wire) \in FrameRec /\ Tail(wire) \in Seq(FrameRec)
        /\ Len(Tail(wire)) = Len(wire) - 1 /\ Len(wire) \in Nat
    BY <1>1, <2>1
  <2>3. shown' \in Partial(Views)
    BY <1>0, <2>1, <2>2, ApplyTyped DEF LoopSound
  <2>4. FeedInv'
    <3>1. StackTyped'
      BY <1>0 DEF FeedInv, StackTyped, Owed
    <3>2. /\ wire' \in Seq(FrameRec)
          /\ \A n \in Nat : Len(wire) <= n => Len(wire') <= n
      BY <2>1, <2>2
    <3>3. WireSize \in Nat /\ WireSize + 1 \in Nat
      BY FeedConstants DEF FeedConstants
    <3>4. FeedTyped'
      BY <1>0, <2>1, <3>2, <3>3 DEF FeedInv, FeedTyped
    <3> QED BY <1>0, <2>1, <3>1, <3>4 DEF FeedInv, FeedSound, Sent, Snapshot
  <2>5. FramesAddUp'
    <3> SUFFICES ASSUME feed # "none", ~fresh, NEW i \in Inst
                 PROVE  EndsWith(shown', wire', last, i)
      BY <2>1 DEF FramesAddUp
    <3>1. EndsWith(shown, wire, last, i)
      BY <1>0, <2>1 DEF FramesAddUp
    <3>2. EndsWith(Apply(shown, Head(wire)), Tail(wire), last, i)
      BY <1>1, <2>1, <3>1, TailEnds
    <3> QED BY <2>1, <3>2
  <2>6. LoopSound'
    BY <1>0, <2>1, <2>3 DEF LoopSound
  <2> QED BY <2>4, <2>5, <2>6 DEF DeskInv
<1>8. CASE Resubscribe \/ Dropped
  <2>1. /\ keep' = "ask" /\ conn' \in {conn, "down"} /\ UNCHANGED shown
        /\ armed' = FALSE /\ ended' = FALSE /\ topic' = FALSE
        /\ keep = "stream" /\ Close /\ wire' = <<>>
    BY <1>8 DEF Resubscribe, Dropped, HangUp, GiveUp, Disarm
  <2>2. FeedInv'
    BY <1>0, <2>1, FeedClosed
  <2>3. feed' = "none"
    BY <2>1 DEF Close
  <2>4. LoopSound' /\ FramesAddUp'
    BY <1>0, <2>1, <2>3 DEF LoopSound, FramesAddUp
  <2> QED BY <2>2, <2>4 DEF DeskInv
<1> QED BY <1>3, <1>4, <1>5, <1>6, <1>7, <1>8 DEF Loop

LEMMA RefreshDesk ==
  ASSUME DeskInv, Refresh
  PROVE  DeskInv'
<1>0. /\ FeedInv /\ LoopSound /\ FramesAddUp
      /\ UNCHANGED <<reg, decl, off, going, moves, silent, up, lives>>
  BY DEF DeskInv, Refresh, stackVars
<1>1. CASE Found
  <2>1. /\ up /\ stack = 0 /\ stack' = lives + 1 /\ keep' = "ask" /\ conn' = "connecting"
        /\ shown' = <<>> /\ UNCHANGED <<armed, ended, topic, feedVars>>
    BY <1>1 DEF Found
  <2>2. FeedInv'
    BY <1>0, <2>1, FeedKept
  <2>3. keep = "off" /\ feed = "none" /\ wire = <<>>
    BY <1>0, <2>1 DEF LoopSound
  <2>4. LoopSound' /\ FramesAddUp'
    BY <1>0, <2>1, <2>3, EmptyView DEF LoopSound, FramesAddUp, feedVars
  <2> QED BY <2>2, <2>4 DEF DeskInv
<1>2. CASE Lost
  <2>1. /\ stack' = 0 /\ keep' = "off" /\ conn' = "connecting" /\ shown' = <<>>
        /\ armed' = FALSE /\ ended' = FALSE /\ topic' = FALSE /\ Close /\ wire' = <<>>
    BY <1>2 DEF Lost, Disarm, HangUp
  <2>2. FeedInv'
    BY <1>0, <2>1, FeedClosed
  <2>3. feed' = "none"
    BY <2>1 DEF Close
  <2>4. LoopSound' /\ FramesAddUp'
    BY <1>0, <2>1, <2>3, EmptyView DEF LoopSound, FramesAddUp
  <2> QED BY <2>2, <2>4 DEF DeskInv
<1> QED BY <1>1, <1>2 DEF Refresh

\* What a page does to the subscription is to end it.
LEMMA PagesDesk ==
  ASSUME DeskInv, Pages
  PROVE  DeskInv'
<1>0. /\ FeedInv /\ LoopSound /\ FramesAddUp
      /\ UNCHANGED <<reg, decl, off, going, feedVars, silent, up, lives, stack,
                     keep, conn, shown, armed, topic>>
      /\ UNCHANGED moves \/ Move
      /\ ended' \in BOOLEAN
  <2>1. PICK p \in Page : Watch(p) \/ Release(p) \/ Join(p) \/ Leave(p) \/ EndSub(p)
    BY DEF Pages, Settle
  <2>2. PageStep /\ (UNCHANGED moves \/ Move) =>
          /\ UNCHANGED <<reg, decl, off, going, feedVars, silent, up, lives, stack,
                         keep, conn, shown, armed, topic>>
          /\ UNCHANGED moves \/ Move
          /\ ended' \in BOOLEAN
    BY DEF PageStep, loopVars, DeskInv, LoopSound
  <2>3. CASE EndSub(p)
    BY <2>3 DEF EndSub, stackVars, DeskInv, LoopSound
  <2>4. Watch(p) \/ Release(p) => PageStep /\ (UNCHANGED moves \/ Move)
    BY DEF Watch, Release
  <2>5. Join(p) \/ Leave(p) => PageStep /\ (UNCHANGED moves \/ Move)
    BY DEF Join, Leave, Counted
  <2> QED BY <2>1, <2>2, <2>3, <2>4, <2>5 DEF DeskInv
<1>1. FeedInv'
  BY <1>0, FeedKept
<1>2. LoopSound' /\ FramesAddUp'
  BY <1>0 DEF LoopSound, FramesAddUp, EndsWith, Of, feedVars
<1> QED BY <1>1, <1>2 DEF DeskInv

-----------------------------------------------------------------------------
(* The counts of the pages *)

PageInv == PageTyped /\ BoundSound /\ CountsSound /\ EndersSound /\ TopicIsCurrent

LEMMA PageSets ==
  ASSUME NEW S \in SUBSET Page
  PROVE  /\ IsFiniteSet(S) /\ Cardinality(S) \in Nat
         /\ Cardinality(S) <= Cardinality(Page) /\ Cardinality(Page) \in Nat
BY HubConstants, FS_Subset, FS_CardinalityType DEF HubConstants

LEMMA OneMore ==
  ASSUME NEW S \in SUBSET Page, NEW p \in Page, p \notin S
  PROVE  Cardinality(S \cup {p}) = Cardinality(S) + 1
BY PageSets, FS_AddElement

LEMMA OneLess ==
  ASSUME NEW S \in SUBSET Page, NEW p \in S
  PROVE  Cardinality(S \ {p}) = Cardinality(S) - 1 /\ Cardinality(S) > 0
<1>1. (S \ {p}) \in SUBSET Page /\ p \in Page /\ p \notin S \ {p}
  OBVIOUS
<1>2. S = (S \ {p}) \cup {p}
  OBVIOUS
<1>3. Cardinality(S) = Cardinality(S \ {p}) + 1
  BY <1>1, <1>2, OneMore
<1>4. Cardinality(S \ {p}) \in Nat
  BY <1>1, PageSets
<1> QED BY <1>3, <1>4

\* The steps of the daemon and of the subscription leave the counts alone.
LEMMA OthersCount ==
  ASSUME PageInv, LoopSound, Daemon \/ DaemonEnds \/ DaemonStarts \/ Loop
  PROVE  PageInv'
<1>0. PageTyped /\ BoundSound /\ CountsSound /\ EndersSound /\ TopicIsCurrent
  BY DEF PageInv
<1>1. UNCHANGED <<stack, want, page, bound, wants, taken>>
  BY DEF Daemon, DaemonEnds, DaemonStarts, Loop, Ask, Arm, Dial, DialFails,
     Receive, Resubscribe, Dropped, GiveUp, LoopStep, pageVars
<1>2. CountsSound' /\ lives \in Nat /\ stack \in Nat
  BY <1>0, <1>1 DEF CountsSound, Visiting, Joined, Bound, LoopSound
<1>3. BoundSound'
  <2>1. \/ UNCHANGED <<up, lives>>
        \/ up /\ ~up' /\ UNCHANGED lives
        \/ ~up /\ up' /\ lives' = lives + 1
    BY DEF Daemon, DaemonEnds, DaemonStarts, Loop, Ask, Arm, Dial, DialFails,
       Receive, Resubscribe, Dropped, GiveUp, LoopStep
  <2>2. \A p \in Page : bound[p] \in Nat
    BY <1>0 DEF PageTyped
  <2> QED BY <1>0, <1>1, <1>2, <2>1, <2>2 DEF BoundSound
<1>4. \/ enders' = enders /\ UNCHANGED <<armed, ended, topic>>
      \/ enders' = {} /\ armed' = FALSE
      \/ enders' = enders /\ armed' = TRUE /\ topic' = (want > 0)
  BY DEF Daemon, DaemonEnds, DaemonStarts, Loop, Ask, Arm, Dial, DialFails,
     Receive, Resubscribe, Dropped, GiveUp, Disarm, Quiet, loopVars
<1>5. PageTyped'
  BY <1>0, <1>1, <1>4 DEF PageTyped
<1>6. EndersSound' /\ TopicIsCurrent'
  <2>1. CASE enders' = enders /\ UNCHANGED <<armed, ended, topic>>
    BY <1>0, <1>1, <2>1 DEF EndersSound, TopicIsCurrent
  <2>2. CASE enders' = {} /\ armed' = FALSE
    BY <2>2 DEF EndersSound, TopicIsCurrent
  <2>3. CASE enders' = enders /\ armed' = TRUE /\ topic' = (want > 0)
    <3>1. want' = want
      BY <1>1
    <3> QED BY <2>3, <3>1 DEF EndersSound, TopicIsCurrent
  <2> QED BY <1>4, <2>1, <2>2, <2>3
<1> QED BY <1>2, <1>3, <1>5, <1>6 DEF PageInv

LEMMA RefreshCount ==
  ASSUME PageInv, LoopSound, Refresh
  PROVE  PageInv'
<1>0. /\ PageTyped /\ BoundSound /\ CountsSound /\ EndersSound /\ TopicIsCurrent
      /\ UNCHANGED <<up, lives, page, bound, wants>>
      /\ lives \in Nat /\ \A p \in Page : bound[p] \in Nat
      /\ Visiting \in SUBSET Page /\ Joined \in SUBSET Page
  BY DEF PageInv, Refresh, pageVars, PageTyped, LoopSound, Visiting, Joined
<1>1. CASE Found
  <2>1. /\ up /\ stack = 0 /\ stack' = lives + 1 /\ want' = wants /\ taken' = wants
        /\ UNCHANGED <<armed, ended, topic, enders>>
    BY <1>1 DEF Found
  <2>2. ~armed
    BY <2>1 DEF LoopSound
  <2>3. \A p \in Page : bound'[p] <= lives /\ bound'[p] # stack'
    BY <1>0, <2>1 DEF BoundSound
  <2>4. Joined' = {} /\ Visiting' = Visiting
    BY <1>0, <2>3 DEF Joined, Bound, Visiting
  <2>5. Cardinality(Joined') = 0 /\ wants \in Nat /\ wants <= Cardinality(Page)
    BY <1>0, <2>4, FS_EmptySet, PageSets DEF CountsSound
  <2>6. ASSUME NEW p \in Visiting
        PROVE  wants > 0
    BY <1>0, OneLess DEF CountsSound
  <2>7. CountsSound'
    BY <1>0, <2>1, <2>4, <2>5, <2>6 DEF CountsSound
  <2>8. BoundSound'
    BY <1>0, <2>1, <2>3 DEF BoundSound
  <2>9. PageTyped' /\ EndersSound' /\ TopicIsCurrent'
    BY <1>0, <2>1, <2>2, <2>5 DEF PageTyped, EndersSound, TopicIsCurrent
  <2> QED BY <2>7, <2>8, <2>9 DEF PageInv
<1>2. CASE Lost
  <2>1. /\ ~up /\ stack # 0 /\ stack' = 0 /\ want' = 0 /\ taken' = 0
        /\ armed' = FALSE /\ enders' = {}
    BY <1>2 DEF Lost, Disarm
  <2>2. BoundSound'
    <3>1. stack \in Nat /\ stack <= lives + 1 /\ \A p \in Page : bound[p] <= stack
      BY <1>0, <2>1 DEF BoundSound, LoopSound
    <3> QED BY <1>0, <2>1, <3>1 DEF BoundSound
  <2>3. CountsSound'
    <3>1. Visiting' = Visiting
      BY <1>0 DEF Visiting
    <3> QED BY <1>0, <2>1, <3>1 DEF CountsSound
  <2>4. PageTyped' /\ EndersSound' /\ TopicIsCurrent'
    BY <1>0, <2>1 DEF PageTyped, EndersSound, TopicIsCurrent
  <2> QED BY <2>2, <2>3, <2>4 DEF PageInv
<1> QED BY <1>1, <1>2 DEF Refresh

\* What a page leaves alone.
LEMMA PageLeaves ==
  ASSUME NEW p \in Page, Watch(p) \/ Release(p) \/ Join(p) \/ Leave(p) \/ EndSub(p)
  PROVE  UNCHANGED <<up, lives, stack, armed, topic, taken>>
BY DEF Watch, Release, Join, Leave, EndSub, Counted, PageStep, loopVars

LEMMA WatchCount ==
  ASSUME PageInv, LoopSound, NEW p \in Page, Watch(p)
  PROVE  PageInv'
<1>0. /\ PageTyped /\ BoundSound /\ CountsSound /\ EndersSound /\ TopicIsCurrent
      /\ lives \in Nat /\ stack \in Nat /\ page[p] = "away"
      /\ Visiting \in SUBSET Page /\ Joined \in SUBSET Page
      /\ UNCHANGED <<up, lives, stack, armed, topic, taken, ended, want, enders>>
      /\ wants' = wants + 1 /\ bound' = [bound EXCEPT ![p] = stack]
      /\ page' = [page EXCEPT ![p] = IF stack = 0 THEN "watching" ELSE "joining"]
  BY PageLeaves DEF PageInv, Watch, Visiting, Joined, LoopSound, PageStep, loopVars
<1>1. PageTyped'
  BY <1>0 DEF PageTyped
<1>2. BoundSound'
  BY <1>0 DEF BoundSound, PageTyped
<1>3. Visiting' = Visiting \cup {p} /\ p \notin Visiting
  BY <1>0 DEF Visiting, PageTyped
<1>4. stack # 0 => Joined' = Joined
  BY <1>0 DEF Joined, Bound, PageTyped
<1>5. Cardinality(Visiting') = Cardinality(Visiting) + 1
  BY <1>0, <1>3, OneMore
<1>6. \A q \in Visiting' : stack # 0 /\ bound'[q] # stack => taken > 0
  BY <1>0, <1>3 DEF CountsSound, PageTyped
<1>7. CountsSound'
  BY <1>0, <1>4, <1>5, <1>6 DEF CountsSound
<1>8. EndersSound' /\ TopicIsCurrent'
  BY <1>0 DEF EndersSound, TopicIsCurrent
<1> QED BY <1>1, <1>2, <1>7, <1>8 DEF PageInv

LEMMA ReleaseCount ==
  ASSUME PageInv, LoopSound, NEW p \in Page, Release(p)
  PROVE  PageInv'
<1>0. /\ PageTyped /\ BoundSound /\ CountsSound /\ EndersSound /\ TopicIsCurrent
      /\ lives \in Nat /\ stack \in Nat /\ page[p] = "watching"
      /\ Visiting \in SUBSET Page /\ Joined \in SUBSET Page
      /\ UNCHANGED <<up, lives, stack, armed, topic, taken, ended, want, enders, bound>>
      /\ wants' = wants - 1
      /\ page' = [page EXCEPT ![p] = IF bound[p] = 0 THEN "away" ELSE "leaving"]
  BY PageLeaves DEF PageInv, Release, Visiting, Joined, LoopSound, PageStep, loopVars
<1>1. p \in Visiting /\ Visiting' = Visiting \ {p}
  BY <1>0 DEF Visiting, PageTyped
<1>2. Cardinality(Visiting') = Cardinality(Visiting) - 1 /\ Cardinality(Visiting) > 0
  BY <1>0, <1>1, OneLess
<1>3. PageTyped'
  BY <1>0, <1>2 DEF PageTyped, CountsSound
<1>4. BoundSound'
  BY <1>0 DEF BoundSound
<1>5. stack # 0 => Joined' = Joined
  BY <1>0 DEF Joined, Bound, PageTyped
<1>6. CountsSound'
  BY <1>0, <1>1, <1>2, <1>5 DEF CountsSound
<1>7. EndersSound' /\ TopicIsCurrent'
  BY <1>0 DEF EndersSound, TopicIsCurrent
<1> QED BY <1>3, <1>4, <1>6, <1>7 DEF PageInv

LEMMA JoinCount ==
  ASSUME PageInv, LoopSound, NEW p \in Page, Join(p)
  PROVE  PageInv'
<1> DEFINE present == bound[p] = stack
           ends    == present /\ want = 0 /\ armed
<1>0. /\ PageTyped /\ BoundSound /\ CountsSound /\ EndersSound /\ TopicIsCurrent
      /\ lives \in Nat /\ stack \in Nat /\ page[p] = "joining" /\ bound[p] # 0
      /\ Visiting \in SUBSET Page /\ Joined \in SUBSET Page
      /\ UNCHANGED <<up, lives, stack, armed, topic, taken, ended, wants, bound>>
      /\ want' = IF present THEN want + 1 ELSE want
      /\ enders' = IF ends THEN enders \cup {p} ELSE enders
      /\ page' = [page EXCEPT ![p] = IF ends THEN "ending" ELSE "watching"]
  <2>1. page[p] = "joining" /\ UNCHANGED bound /\ Counted(p, want + 1, want = 0, "watching")
    BY DEF Join
  <2>2. bound[p] # 0
    BY <2>1 DEF PageInv, PageTyped
  <2> QED BY <2>1, <2>2, PageLeaves DEF PageInv, Counted, Visiting, Joined,
        LoopSound, PageStep, loopVars
<1>1. Visiting' = Visiting
  BY <1>0 DEF Visiting, PageTyped
<1>2. PageTyped'
  <2>1. page' \in [Page -> {"away", "joining", "watching", "ending", "leaving"}]
    BY <1>0 DEF PageTyped
  <2>2. \A q \in Page : page'[q] \in {"joining", "leaving"} => bound[q] # 0
    BY <1>0 DEF PageTyped
  <2>3. want' \in Nat /\ enders' \subseteq Page
    BY <1>0 DEF PageTyped
  <2> QED BY <1>0, <2>1, <2>2, <2>3 DEF PageTyped
<1>3. BoundSound'
  BY <1>0 DEF BoundSound
<1>4. Joined' = (IF present THEN Joined \cup {p} ELSE Joined) /\ p \notin Joined
  BY <1>0 DEF Joined, Bound, PageTyped
<1>5. want' = want + (Cardinality(Joined') - Cardinality(Joined))
      /\ Cardinality(Joined) \in Nat /\ Cardinality(Joined') \in Nat
      /\ want \in Nat /\ taken \in Nat
  <2>1. Cardinality(Joined) \in Nat /\ want \in Nat /\ taken \in Nat
    BY <1>0, PageSets DEF PageTyped
  <2>2. Cardinality(Joined \cup {p}) = Cardinality(Joined) + 1
    BY <1>0, <1>4, OneMore
  <2> QED BY <1>0, <1>4, <2>1, <2>2
<1>6. CountsSound'
  <2>1. stack = 0 => want' = want
    BY <1>0
  <2> QED BY <1>0, <1>1, <1>5, <2>1 DEF CountsSound
<1>7. EndersSound'
  BY <1>0 DEF EndersSound
<1>8. TopicIsCurrent'
  <2> SUFFICES ASSUME armed, ~ended, enders' = {}
               PROVE  topic <=> want' > 0
    BY <1>0 DEF TopicIsCurrent
  <2>1. ~ends /\ enders = {}
    BY <1>0
  <2>2. topic <=> want > 0
    BY <1>0, <2>1 DEF TopicIsCurrent
  <2> QED BY <1>0, <1>5, <2>1, <2>2
<1> QED BY <1>2, <1>3, <1>6, <1>7, <1>8 DEF PageInv

LEMMA LeaveCount ==
  ASSUME PageInv, LoopSound, NEW p \in Page, Leave(p)
  PROVE  PageInv'
<1> DEFINE present == bound[p] = stack
           ends    == present /\ want = 1 /\ armed
<1>0. /\ PageTyped /\ BoundSound /\ CountsSound /\ EndersSound /\ TopicIsCurrent
      /\ lives \in Nat /\ stack \in Nat /\ page[p] = "leaving" /\ bound[p] # 0
      /\ Visiting \in SUBSET Page /\ Joined \in SUBSET Page
      /\ UNCHANGED <<up, lives, stack, armed, topic, taken, ended, wants>>
      /\ bound' = [bound EXCEPT ![p] = 0]
      /\ want' = IF present THEN want - 1 ELSE want
      /\ enders' = IF ends THEN enders \cup {p} ELSE enders
      /\ page' = [page EXCEPT ![p] = IF ends THEN "ending" ELSE "away"]
  <2>1. /\ page[p] = "leaving" /\ bound' = [bound EXCEPT ![p] = 0]
        /\ Counted(p, want - 1, want = 1, "away")
    BY DEF Leave
  <2>2. bound[p] # 0
    BY <2>1 DEF PageInv, PageTyped
  <2> QED BY <2>1, <2>2, PageLeaves DEF PageInv, Counted, Visiting, Joined,
        LoopSound, PageStep, loopVars
<1>1. Visiting' = Visiting
  BY <1>0 DEF Visiting, PageTyped
<1>2. present => p \in Joined /\ stack # 0
  BY <1>0 DEF Joined, Bound
<1>3. stack # 0 => Joined' = IF present THEN Joined \ {p} ELSE Joined
  BY <1>0 DEF Joined, Bound, PageTyped
<1>4. /\ Cardinality(Joined) \in Nat /\ want \in Nat /\ taken \in Nat
      /\ present => /\ Cardinality(Joined \ {p}) = Cardinality(Joined) - 1
                    /\ Cardinality(Joined) > 0
  BY <1>0, <1>2, PageSets, OneLess DEF PageTyped
<1>5. present => want > 0
  BY <1>0, <1>2, <1>4 DEF CountsSound
<1>6. PageTyped'
  <2>1. page' \in [Page -> {"away", "joining", "watching", "ending", "leaving"}]
    BY <1>0 DEF PageTyped
  <2>2. bound' \in [Page -> Nat]
        /\ \A q \in Page : page'[q] \in {"joining", "leaving"} => bound'[q] # 0
    BY <1>0 DEF PageTyped
  <2>3. want' \in Nat /\ enders' \subseteq Page
    BY <1>0, <1>4, <1>5 DEF PageTyped
  <2> QED BY <1>0, <2>1, <2>2, <2>3 DEF PageTyped
<1>7. BoundSound'
  BY <1>0 DEF BoundSound, PageTyped
<1>8. CountsSound'
  <2>1. stack = 0 => want' = want
    BY <1>0
  <2>2. stack # 0 => want' = taken + Cardinality(Joined')
    <3>1. stack # 0 => want = taken + Cardinality(Joined)
      BY <1>0 DEF CountsSound
    <3>2. CASE present
      <4>1. want' = want - 1
        BY <1>0, <3>2
      <4>2. stack # 0 => Cardinality(Joined') = Cardinality(Joined) - 1
        BY <1>3, <1>4, <3>2
      <4> HIDE DEF present
      <4> QED BY <1>4, <3>1, <4>1, <4>2
    <3>3. CASE ~present
      BY <1>0, <1>3, <3>1, <3>3
    <3> QED BY <3>2, <3>3
  <2>3. \A q \in Visiting : bound'[q] = bound[q]
    BY <1>0 DEF Visiting, PageTyped
  <2> QED BY <1>0, <1>1, <2>1, <2>2, <2>3 DEF CountsSound
<1>9. EndersSound'
  BY <1>0 DEF EndersSound
<1>10. TopicIsCurrent'
  <2> SUFFICES ASSUME armed, ~ended, enders' = {}
               PROVE  topic <=> want' > 0
    BY <1>0 DEF TopicIsCurrent
  <2>1. ~ends /\ enders = {}
    BY <1>0
  <2>2. topic <=> want > 0
    BY <1>0, <2>1 DEF TopicIsCurrent
  <2> QED BY <1>0, <1>4, <1>5, <2>1, <2>2
<1> QED BY <1>6, <1>7, <1>8, <1>9, <1>10 DEF PageInv

LEMMA EndSubCount ==
  ASSUME PageInv, LoopSound, NEW p \in Page, EndSub(p)
  PROVE  PageInv'
<1>0. /\ PageTyped /\ BoundSound /\ CountsSound /\ EndersSound /\ TopicIsCurrent
      /\ page[p] = "ending"
      /\ UNCHANGED <<up, lives, stack, armed, topic, taken, want, wants, bound>>
      /\ ended' = (ended \/ p \in enders) /\ enders' = enders \ {p}
      /\ page' = [page EXCEPT ![p] = IF bound[p] = 0 THEN "away" ELSE "watching"]
  BY PageLeaves DEF PageInv, EndSub
<1>1. Visiting' = Visiting
  BY <1>0 DEF Visiting, PageTyped
<1>2. stack # 0 => Joined' = Joined
  BY <1>0 DEF Joined, Bound, PageTyped
<1>3. PageTyped'
  BY <1>0 DEF PageTyped
<1>4. BoundSound' /\ CountsSound'
  BY <1>0, <1>1, <1>2 DEF BoundSound, CountsSound
<1>5. EndersSound' /\ TopicIsCurrent'
  BY <1>0 DEF EndersSound, TopicIsCurrent
<1> QED BY <1>3, <1>4, <1>5 DEF PageInv

-----------------------------------------------------------------------------
(* Theorems *)

HubInv == DeskInv /\ PageInv

LEMMA HubInit == Init => HubInv
<1> SUFFICES ASSUME Init
             PROVE  HubInv
  OBVIOUS
<1>1. FeedInv
  <2>1. reg = [i \in Inst |-> 0] /\ decl = Declared /\ off = {} /\ moves = 0
        /\ going = Nothing
    BY DEF Init, FeedInit
  <2>2. \A i \in Inst : Owed(i) = 0 /\ reg[i] = 0
    BY <2>1 DEF Owed, Nothing
  <2>3. 0 \in 0..MaxMove /\ 0 \in Nat
    BY FeedConstants DEF FeedConstants
  <2>4. StackTyped
    BY <2>1, <2>2, <2>3, FeedConstants DEF StackTyped, FeedConstants
  <2>5. /\ wake = FALSE /\ feed = "none" /\ fresh = TRUE /\ last = <<>> /\ wire = <<>>
    BY DEF Init, FeedInit
  <2>6. <<>> \in Seq(FrameRec) /\ Len(<<>>) <= WireSize + 1
    BY FeedConstants DEF FeedConstants
  <2>7. FeedTyped
    BY <2>5, <2>6, EmptyView DEF FeedTyped
  <2> QED BY <2>4, <2>5, <2>7 DEF FeedInv, FeedSound, Sent
<1>2. LoopSound /\ FramesAddUp
  BY EmptyView DEF Init, FeedInit, LoopSound, FramesAddUp
<1>3. PageTyped /\ BoundSound /\ EndersSound /\ TopicIsCurrent
  BY DEF Init, PageTyped, BoundSound, EndersSound, TopicIsCurrent
<1>4. CountsSound
  <2>1. Visiting = {}
    BY DEF Init, Visiting
  <2> QED BY <2>1, FS_EmptySet DEF Init, CountsSound
<1> QED BY <1>1, <1>2, <1>3, <1>4 DEF HubInv, DeskInv, PageInv

LEMMA HubStep == HubInv /\ [Next]_vars => HubInv'
<1> SUFFICES ASSUME DeskInv, PageInv, [Next]_vars
             PROVE  DeskInv' /\ PageInv'
  BY DEF HubInv
<1>0. LoopSound
  BY DEF DeskInv
<1>1. CASE Daemon
  BY <1>0, <1>1, DaemonDesk, OthersCount
<1>2. CASE DaemonEnds \/ DaemonStarts
  BY <1>0, <1>2, LivesDesk, OthersCount
<1>3. CASE Loop
  BY <1>0, <1>3, LoopDesk, OthersCount
<1>4. CASE Refresh
  BY <1>0, <1>4, RefreshDesk, RefreshCount
<1>5. CASE Pages
  <2>1. PICK p \in Page : Watch(p) \/ Release(p) \/ Join(p) \/ Leave(p) \/ EndSub(p)
    BY <1>5 DEF Pages, Settle
  <2>2. PageInv'
    BY <1>0, <2>1, WatchCount, ReleaseCount, JoinCount, LeaveCount, EndSubCount
  <2> QED BY <1>5, <2>2, PagesDesk
<1>6. CASE UNCHANGED vars
  <2>1. UNCHANGED <<reg, decl, off, going, moves, feedVars, silent, up, lives, stack,
                    keep, conn, shown, armed, ended, topic, want, page, bound, wants,
                    enders, taken>>
    BY <1>6 DEF vars, stackVars, loopVars, pageVars
  <2>2. FeedInv'
    BY <2>1, FeedKept DEF DeskInv
  <2>3. LoopSound' /\ FramesAddUp'
    BY <2>1 DEF DeskInv, LoopSound, FramesAddUp, feedVars
  <2>4. PageTyped' /\ BoundSound' /\ CountsSound' /\ EndersSound' /\ TopicIsCurrent'
    BY <2>1 DEF PageInv, PageTyped, BoundSound, CountsSound, Visiting, Joined, Bound,
       EndersSound, TopicIsCurrent
  <2> QED BY <2>2, <2>3, <2>4 DEF DeskInv, PageInv
<1> QED BY <1>1, <1>2, <1>3, <1>4, <1>5, <1>6 DEF Next

LEMMA HubHolds == Spec => []HubInv
BY HubInit, HubStep, PTL DEF Spec

\* A feed that waits without a signal has sent what every instance is, and what
\* it has sent and is still on its way adds up to what the page will hold, for
\* any instances, commands, frames, daemons and subscriptions (registry.emit and
\* subInstances against stack.apply).
THEOREM PagesAreTold == Spec => []PageIsTold
<1>1. ASSUME HubInv
      PROVE  MissesNoChange
  <2> SUFFICES ASSUME feed = "wait", ~wake, NEW i \in Inst \ silent
               PROVE  IF i \in DOMAIN Snapshot(reg)
                      THEN i \in DOMAIN last /\ last[i] = Snapshot(reg)[i]
                      ELSE i \notin DOMAIN last
    BY DEF MissesNoChange
  <2> DEFINE now == Snapshot(reg)
  <2>1. Of(now, i) = Of(last, i)
    BY <1>1 DEF HubInv, DeskInv, FeedInv, Sent
  <2> HIDE DEF now
  <2>2. IF i \in DOMAIN now THEN i \in DOMAIN last /\ last[i] = now[i]
                            ELSE i \notin DOMAIN last
    BY <2>1 DEF Of
  <2> QED BY <2>2 DEF now
<1>2. HubInv => FramesAddUp
  BY DEF HubInv, DeskInv
<1> QED BY <1>1, <1>2, HubHolds, PTL DEF PageIsTold

\* The counts of the pages, the hub's and the object's, and the topics of the
\* subscription agree, for any number of pages that come and go while daemons
\* end and start (hub.Watch, stack.watch, stack.keep).
THEOREM SubscriptionsAreCurrent == Spec => []SubscriptionIsCurrent
<1>1. ASSUME HubInv
      PROVE  SubscriptionIsCurrent
  <2>0. /\ StackTyped /\ FeedTyped /\ LoopSound
        /\ PageTyped /\ BoundSound /\ CountsSound /\ TopicIsCurrent
    BY <1>1 DEF HubInv, DeskInv, FeedInv, PageInv
  <2>1. /\ Joined \in SUBSET Page /\ Visiting \in SUBSET Page
        /\ Joined = {p \in Page : Bound(p)}
    BY DEF Joined, Visiting
  <2>2. /\ Cardinality(Joined) \in Nat /\ Cardinality(Joined) <= Cardinality(Page)
        /\ Cardinality(Visiting) \in Nat /\ Cardinality(Visiting) <= Cardinality(Page)
        /\ Cardinality(Page) \in Nat
    BY <2>1, PageSets
  <2>3. TypeOK
    <3>1. reg \in [Inst -> 0..MaxMove]
      <4>1. \A i \in Inst : reg[i] \in Nat /\ Owed(i) \in {0, 1}
                            /\ reg[i] + Owed(i) <= moves
        BY <2>0 DEF StackTyped, Owed
      <4>2. moves \in Nat /\ MaxMove \in Nat /\ moves <= MaxMove
        BY <2>0, FeedConstants DEF StackTyped, FeedConstants
      <4>3. \A i \in Inst : reg[i] \in 0..MaxMove
        BY <4>1, <4>2
      <4> QED BY <2>0, <4>3 DEF StackTyped
    <3>2. \A k \in DOMAIN wire : wire[k].changed \in Partial(Views)
                                 /\ wire[k].removed \subseteq Inst
      <4>1. \A k \in DOMAIN wire : wire[k] \in FrameRec
        BY <2>0 DEF FeedTyped
      <4> QED BY <4>1 DEF FrameRec
    <3>3. wants \in 0..Cardinality(Page) /\ want \in 0..2 * Cardinality(Page)
      <4>1. wants \in 0..Cardinality(Page)
        BY <2>0, <2>2 DEF CountsSound
      <4>2. CASE stack = 0
        BY <2>0, <2>2, <4>1, <4>2 DEF CountsSound
      <4>3. CASE stack # 0
        BY <2>0, <2>2, <4>1, <4>3 DEF CountsSound, PageTyped
      <4> QED BY <4>1, <4>2, <4>3
    <3> QED BY <2>0, <3>1, <3>2, <3>3 DEF TypeOK, StackTyped, FeedTyped, LoopSound,
          PageTyped
  <2>4. CountsAddUp
    BY <2>0, <2>1 DEF CountsSound, CountsAddUp
  <2>5. StreamsWhatIsWatched
    <3> SUFFICES ASSUME stack # 0, armed, ~ended, enders = {}
                 PROVE  /\ (\E p \in Page : page[p] = "watching") => topic
                        /\ (\A p \in Page : page[p] = "away") /\ taken = 0 => ~topic
      BY DEF StreamsWhatIsWatched
    <3>1. /\ topic <=> want > 0
          /\ want = taken + Cardinality(Joined) /\ taken \in Nat
      BY <2>0 DEF TopicIsCurrent, CountsSound, PageTyped
    <3>2. ASSUME NEW p \in Page, page[p] = "watching"
          PROVE  topic
      <4>1. CASE bound[p] = stack
        <5>1. p \in Joined
          BY <3>2, <4>1 DEF Joined, Bound
        <5>2. Cardinality(Joined) > 0
          BY <2>1, <5>1, OneLess
        <5> QED BY <2>2, <3>1, <5>2
      <4>2. CASE bound[p] # stack
        <5>1. p \in Visiting
          BY <3>2 DEF Visiting
        <5>2. taken > 0
          BY <2>0, <4>2, <5>1 DEF CountsSound
        <5> QED BY <2>2, <3>1, <5>2
      <4> QED BY <4>1, <4>2
    <3>3. ASSUME \A p \in Page : page[p] = "away", taken = 0
          PROVE  ~topic
      <4>1. Joined = {}
        BY <3>3 DEF Joined, Bound
      <4> QED BY <3>1, <3>3, <4>1, FS_EmptySet
    <3> QED BY <3>2, <3>3
  <2> QED BY <2>0, <2>3, <2>4, <2>5 DEF SubscriptionIsCurrent
<1> QED BY <1>1, HubHolds, PTL
=============================================================================
