--------------------------- MODULE JournalProofs ----------------------------
(***************************************************************************)
(* The journal implements EventLog for any number of readers, any capacity *)
(* of a channel and any number of events.                                  *)
(*                                                                         *)
(* What a reader still has before it is in three places: events to send,   *)
(* events in the channel, and events that are only in the files.  The      *)
(* invariant says that they cannot be sent out of turn: no kept event lies *)
(* between what the client has and what is about to be sent, unless it is  *)
(* about to be sent too (NoneBetween), and a reader that has sent nothing  *)
(* yet has the oldest event it lacks in its channel (NothingBefore).       *)
(***************************************************************************)
EXTENDS Journal, FiniteSetTheorems, TLAPS

\* The kept events are read back in order and count up to seq.
DiskInv ==
  /\ OnDiskIsOrdered
  /\ \A x \in Kept : x \in 1..seq

\* The next four are about a subscription s whose client was given g, while K is
\* kept and q is the last number.

\* Every event before one that is to be sent is to be sent, or was given.
NoneBetween(K, s, g) ==
  \A x \in K, t \in s.todo : g < x /\ x < t => x \in s.todo

\* The first event of a subscription that read nothing comes by the channel.
NothingBefore(K, s, g) ==
  s.pc = "live" /\ s.todo = {} /\ s.last = 0
    => \A x \in K : g < x => \E c \in s.chan : c <= x

\* A reader that is not ahead has been given exactly what was sent to it, and
\* all that is before it is new to its client.
InOrder(q, s, g) ==
  ~s.ahead => /\ g <= q
              /\ s.last # 0 => s.last = g
              /\ s.last = 0 => \A c \in s.chan : g < c
              /\ \A t \in s.todo : g < t

ReaderInv(K, q, s, g) ==
  /\ s.pc # "off" => /\ s.last <= g
                     /\ NoneBetween(K, s, g)
                     /\ NothingBefore(K, s, g)
                     /\ InOrder(q, s, g)
  /\ s.pc = "since" => s.last = 0 /\ s.todo = {}
  /\ s.pc = "gap" => s.last # 0 /\ s.last < s.ev /\ s.todo = {}

Inv ==
  /\ TypeOK
  /\ DiskInv
  /\ \A r \in Reader : ReaderInv(Kept, seq, reader[r], given[r])

\* The type of a subscription when q is the last number.
Subscription(q) ==
  [pc : {"off", "since", "live", "gap"}, chan : SUBSET (1..q),
   todo : SUBSET (1..q), last : 0..q, ev : 0..q, ahead : BOOLEAN]

-----------------------------------------------------------------------------

LEMMA InitInv == Init => Inv
BY DEF Init, Inv, TypeOK, DiskInv, OnDiskIsOrdered, Kept, ReaderInv, Nobody

\* The files after a write: what is kept was kept, or is the new event, and
\* what was given up is older than what stays.
LEMMA AppendFiles ==
  ASSUME TypeOK, DiskInv, Append
  PROVE  /\ disk' \in [old : SUBSET (1..seq'), live : SUBSET (1..seq'),
                       used : BOOLEAN, torn : BOOLEAN]
         /\ DiskInv'
         /\ Kept' \subseteq Kept \cup {seq + 1}
         /\ \E gone \in SUBSET Kept :
              /\ \A x \in gone, y \in Kept \ gone : x < y
              /\ Kept' \in {Kept \ gone, (Kept \ gone) \cup {seq + 1}}
<1> DEFINE n == seq + 1
           F  == [old : SUBSET (1..seq), live : SUBSET (1..seq),
                  used : BOOLEAN, torn : BOOLEAN]
<1>1. seq' = n /\ seq \in Nat /\ disk \in F
  BY DEF Append, TypeOK
<1>2. CASE disk' = disk
  <2>1. Kept' = Kept /\ Kept' = Kept \ {}
    BY <1>2 DEF Kept
  <2>2. DiskInv'
    BY <1>1, <1>2, <2>1 DEF DiskInv, OnDiskIsOrdered
  <2>3. {} \in SUBSET Kept /\ \A x \in {}, y \in Kept \ {} : x < y
    OBVIOUS
  <2>4. disk' \in [old : SUBSET (1..n), live : SUBSET (1..n),
                   used : BOOLEAN, torn : BOOLEAN]
    BY <1>1, <1>2
  <2> QED BY <1>1, <2>1, <2>2, <2>3, <2>4
<1>3. CASE disk' # disk
  <2>1. PICK d \in {disk, Rotated(disk)} : disk' \in Written(d, n) \/ disk' = d
    BY <1>3 DEF Append, RotatedFirst
  <2> DEFINE gone == IF d = disk THEN {} ELSE disk.old
  <2>2. /\ d \in F
        /\ d.old \cup d.live = Kept \ gone
        /\ \A x \in d.old, y \in d.live : x < y
    <3>1. CASE d = disk
      BY <1>1, <3>1 DEF Kept, DiskInv, OnDiskIsOrdered
    <3>2. CASE d # disk
      <4>1. d = Rotated(disk) /\ gone = disk.old
        BY <3>2
      <4>2. d.old = disk.live /\ d.live = {} /\ d \in F
        BY <1>1, <4>1 DEF Rotated
      <4>3. disk.live = Kept \ disk.old
        <5>1. \A x \in disk.live : x \notin disk.old
          BY <1>1 DEF DiskInv, OnDiskIsOrdered
        <5> QED BY <5>1 DEF Kept
      <4> QED BY <4>1, <4>2, <4>3
    <3> QED BY <3>1, <3>2
  <2>3. /\ disk' \in [old : SUBSET (1..n), live : SUBSET (1..n),
                      used : BOOLEAN, torn : BOOLEAN]
        /\ disk'.old = d.old
        /\ disk'.live \in {d.live, d.live \cup {n}}
    <3>0. /\ n \in 1..n
          /\ d \in [old : SUBSET (1..n), live : SUBSET (1..n),
                    used : BOOLEAN, torn : BOOLEAN]
      <4>1. 1..seq \subseteq 1..n /\ n \in 1..n
        BY <1>1
      <4> QED BY <2>2, <4>1
    <3> HIDE DEF n
    <3>1. CASE disk' = d
      BY <3>0, <3>1
    <3>2. CASE disk' = [d EXCEPT !.torn = TRUE]
      BY <3>0, <3>2
    <3>3. CASE disk' = [d EXCEPT !.live = IF d.torn THEN @ ELSE @ \cup {n},
                                 !.used = TRUE, !.torn = FALSE]
      BY <3>0, <3>3
    <3> QED BY <2>1, <3>1, <3>2, <3>3 DEF Written
  <2>4. Kept' \in {Kept \ gone, (Kept \ gone) \cup {n}}
    BY <2>2, <2>3 DEF Kept
  <2>5. \A x \in gone, y \in Kept \ gone : x < y
    BY DEF Kept, DiskInv, OnDiskIsOrdered
  <2>6. gone \in SUBSET Kept
    BY DEF Kept
  <2>7. DiskInv'
    BY <1>1, <2>2, <2>3, <2>4 DEF DiskInv, OnDiskIsOrdered
  <2> QED BY <1>1, <2>3, <2>4, <2>5, <2>6, <2>7
<1> QED BY <1>2, <1>3

\* A new event is newer than all a subscription has before it.
LEMMA HandedInv ==
  ASSUME NEW q \in Nat, NEW K \in SUBSET (1..q), NEW L \in SUBSET (K \cup {q + 1}),
         NEW s \in Subscription(q), NEW g \in Nat, ReaderInv(K, q, s, g)
  PROVE  /\ Handed(s, q + 1) \in Subscription(q + 1)
         /\ ReaderInv(L, q + 1, Handed(s, q + 1), g)
<1> DEFINE t == Handed(s, q + 1)
<1>1. t = s \/ (s.pc # "off" /\ t = [s EXCEPT !.chan = @ \cup {q + 1}])
  BY DEF Handed
<1>2. /\ t.pc = s.pc /\ t.todo = s.todo /\ t.last = s.last /\ t.ev = s.ev
      /\ t.ahead = s.ahead /\ s.chan \subseteq t.chan
      /\ t.chan \subseteq s.chan \cup {q + 1} /\ t \in Subscription(q + 1)
  BY <1>1 DEF Subscription
<1>3. s.chan = {} /\ s.pc # "off" => q + 1 \in t.chan
  <2>1. Cardinality({}) < Buf
    BY FS_EmptySet, JournalConstants
  <2> QED BY <2>1 DEF Handed, Subscription
<1> HIDE DEF t
<1>4. ASSUME t.pc # "off" PROVE NoneBetween(L, t, g)
  BY <1>2, <1>4 DEF ReaderInv, NoneBetween, Subscription
<1>5. ASSUME t.pc # "off" PROVE NothingBefore(L, t, g)
  <2> SUFFICES ASSUME t.pc = "live", t.todo = {}, t.last = 0,
                      NEW x \in L, g < x
               PROVE  \E c \in t.chan : c <= x
    BY DEF NothingBefore
  <2>1. CASE x \in K
    BY <1>2, <2>1 DEF ReaderInv, NothingBefore
  <2>2. CASE x = q + 1 /\ s.chan = {}
    BY <1>2, <1>3, <2>2
  <2>3. CASE x = q + 1 /\ s.chan # {}
    BY <1>2, <2>3 DEF Subscription
  <2> QED BY <2>1, <2>2, <2>3
<1>6. ASSUME t.pc # "off" PROVE InOrder(q + 1, t, g)
  BY <1>2, <1>6 DEF ReaderInv, InOrder, Subscription
<1> QED BY <1>2, <1>4, <1>5, <1>6 DEF ReaderInv, t

LEMMA AppendInv == Inv /\ Append => Inv'
<1> SUFFICES ASSUME Inv, Append PROVE Inv'
  OBVIOUS
<1>1. seq \in Nat /\ seq' = seq + 1 /\ given' = given /\ given \in [Reader -> Nat]
  BY DEF Inv, Append, TypeOK
<1>2. /\ disk' \in [old : SUBSET (1..seq'), live : SUBSET (1..seq'),
                    used : BOOLEAN, torn : BOOLEAN]
      /\ DiskInv' /\ Kept' \subseteq Kept \cup {seq + 1}
  BY AppendFiles DEF Inv
<1>3. reader' = [r \in Reader |-> Handed(reader[r], seq + 1)]
  BY DEF Append
<1>4. ASSUME NEW r \in Reader
      PROVE  /\ reader'[r] \in Subscription(seq')
             /\ ReaderInv(Kept', seq', reader'[r], given'[r])
  <2>1. /\ reader[r] \in Subscription(seq)
        /\ ReaderInv(Kept, seq, reader[r], given[r])
    BY DEF Inv, TypeOK, Subscription
  <2>2. Kept \in SUBSET (1..seq)
    BY DEF Inv, DiskInv
  <2> QED BY <1>1, <1>2, <1>3, <2>1, <2>2, HandedInv
<1>5. TypeOK'
  <2>1. reader' \in [Reader -> Subscription(seq')]
    BY <1>3, <1>4
  <2>2. open' \in BOOLEAN
    BY DEF Append, Inv, TypeOK
  <2> QED BY <1>1, <1>2, <2>1, <2>2 DEF TypeOK, Subscription
<1> QED BY <1>1, <1>2, <1>4, <1>5 DEF Inv

-----------------------------------------------------------------------------

\* A step of one subscription leaves the invariant when it leaves its own part.
LEMMA ReaderFrame ==
  ASSUME Inv, UNCHANGED <<seq, disk, open>>,
         NEW r \in Reader, NEW s \in Subscription(seq), NEW g \in Nat,
         ReaderInv(Kept, seq, s, g),
         reader' = [reader EXCEPT ![r] = s], given' = [given EXCEPT ![r] = g]
  PROVE  Inv'
<1>1. Kept' = Kept /\ DiskInv'
  BY DEF Inv, DiskInv, OnDiskIsOrdered, Kept
<1>2. TypeOK'
  BY DEF Inv, TypeOK, Subscription
<1>3. \A p \in Reader : ReaderInv(Kept, seq, reader'[p], given'[p])
  BY DEF Inv, TypeOK
<1> QED BY <1>1, <1>2, <1>3 DEF Inv

\* What the invariant says of one subscription.
LEMMA OneReader ==
  ASSUME Inv, NEW r \in Reader
  PROVE  /\ seq \in Nat /\ Kept \in SUBSET (1..seq)
         /\ reader[r] \in Subscription(seq) /\ given[r] \in Nat
         /\ ReaderInv(Kept, seq, reader[r], given[r])
         /\ given = [given EXCEPT ![r] = given[r]]
BY DEF Inv, TypeOK, DiskInv, Subscription

\* A client that is away has nothing before it.
LEMMA NobodyInv ==
  ASSUME NEW q \in Nat, NEW K, NEW g \in Nat
  PROVE  Nobody \in Subscription(q) /\ ReaderInv(K, q, Nobody, g)
BY DEF Nobody, Subscription, ReaderInv

LEMMA ComeAndGoInv ==
  ASSUME Inv, NEW r \in Reader, Resume(r) \/ FollowFromNow(r) \/ Leave(r)
  PROVE  Inv'
<1> DEFINE g == given[r]
<1>1. /\ seq \in Nat /\ Kept \in SUBSET (1..seq) /\ g \in Nat
      /\ given = [given EXCEPT ![r] = g]
  BY OneReader
<1>2. CASE Resume(r)
  <2> DEFINE s == [Nobody EXCEPT !.pc = "since", !.ahead = given[r] > seq]
  <2>1. /\ s.pc = "since" /\ s.chan = {} /\ s.todo = {} /\ s.last = 0
        /\ s.ahead = (given[r] > seq)
    BY DEF Nobody
  <2>5. ~s.ahead => g <= seq
    <3>1. ~(g > seq) => g <= seq
      BY <1>1
    <3> QED BY <2>1, <3>1, Zenon
  <2>2. s \in Subscription(seq)
    <3>1. (given[r] > seq) \in BOOLEAN
      OBVIOUS
    <3> QED BY <1>1, <3>1, NobodyInv DEF Subscription
  <2> HIDE DEF s
  <2>3. ReaderInv(Kept, seq, s, g)
    BY <1>1, <2>1, <2>5 DEF ReaderInv, NoneBetween, NothingBefore, InOrder
  <2>4. reader' = [reader EXCEPT ![r] = s]
    BY <1>2 DEF Resume, s
  <2> QED BY <1>1, <1>2, <2>2, <2>3, <2>4, ReaderFrame DEF Resume
<1>3. CASE FollowFromNow(r)
  <2> DEFINE s == [Nobody EXCEPT !.pc = "live"]
  <2>1. /\ s.pc = "live" /\ s.chan = {} /\ s.todo = {} /\ s.last = 0
        /\ s.ahead = FALSE
    BY DEF Nobody
  <2>2. s \in Subscription(seq)
    BY <1>1, NobodyInv DEF Subscription
  <2> HIDE DEF s
  <2>3. ReaderInv(Kept, seq, s, seq)
    BY <1>1, <2>1 DEF ReaderInv, NoneBetween, NothingBefore, InOrder
  <2>4. reader' = [reader EXCEPT ![r] = s]
    BY <1>3 DEF FollowFromNow, s
  <2> QED BY <1>1, <1>3, <2>2, <2>3, <2>4, ReaderFrame DEF FollowFromNow
<1>4. CASE Leave(r)
  BY <1>1, <1>4, NobodyInv, ReaderFrame DEF Leave
<1> QED BY <1>2, <1>3, <1>4

\* What is read from the files is all that is kept and not yet given.
LEMMA ReadInv ==
  ASSUME Inv, NEW r \in Reader, ReadPast(r) \/ Fill(r)
  PROVE  Inv'
<1> DEFINE g == given[r]
           s == reader[r]
<1>1. /\ seq \in Nat /\ Kept \in SUBSET (1..seq) /\ g \in Nat
      /\ given = [given EXCEPT ![r] = g]
      /\ s \in Subscription(seq) /\ ReaderInv(Kept, seq, s, g)
  BY OneReader
<1>2. CASE ReadPast(r)
  <2> DEFINE t == [s EXCEPT !.pc = "live", !.todo = {x \in Kept : x > given[r]}]
  <2>1. t \in Subscription(seq) /\ s.pc = "since"
    BY <1>1, <1>2 DEF ReadPast, Subscription
  <2>2. ReaderInv(Kept, seq, t, g)
    BY <1>1, <2>1 DEF Subscription, ReaderInv, NoneBetween, NothingBefore, InOrder
  <2>3. reader' = [reader EXCEPT ![r] = t]
    BY <1>2 DEF ReadPast, Inv, TypeOK
  <2> QED BY <1>1, <1>2, <2>1, <2>2, <2>3, ReaderFrame DEF ReadPast
<1>3. CASE Fill(r)
  <2> DEFINE todo == {x \in Kept : s.last < x /\ x < s.ev} \cup {s.ev}
             t == [s EXCEPT !.pc = "live", !.ev = 0, !.todo = todo]
  <2>1. /\ s.pc = "gap" /\ s.last < s.ev /\ s.last # 0 /\ s.last <= g
        /\ InOrder(seq, s, g)
    BY <1>1, <1>3 DEF Fill, ReaderInv
  <2>2. t \in Subscription(seq)
    <3>1. s.ev \in 1..seq
      BY <1>1, <2>1 DEF Subscription
    <3>2. todo \in SUBSET (1..seq) /\ 0 \in 0..seq
      BY <1>1, <3>1
    <3> HIDE DEF todo
    <3> QED BY <1>1, <3>2 DEF Subscription
  <2>3. NoneBetween(Kept, t, g)
    BY <1>1, <2>1 DEF NoneBetween, Subscription
  <2>4. InOrder(seq, t, g)
    BY <1>1, <2>1 DEF InOrder, Subscription
  <2>5. ReaderInv(Kept, seq, t, g)
    BY <1>1, <2>1, <2>3, <2>4 DEF Subscription, ReaderInv, NothingBefore
  <2> QED BY <1>1, <1>3, <2>2, <2>5, ReaderFrame DEF Fill
<1> QED BY <1>2, <1>3

\* What is taken from the channel is the next event, or waits for the gap.
LEMMA ReceiveInv ==
  ASSUME Inv, NEW r \in Reader, Receive(r)
  PROVE  Inv'
<1> DEFINE g == given[r]
           s == reader[r]
<1>1. /\ seq \in Nat /\ Kept \in SUBSET (1..seq) /\ g \in Nat
      /\ given = [given EXCEPT ![r] = g]
      /\ s \in Subscription(seq) /\ ReaderInv(Kept, seq, s, g)
  BY OneReader
<1>2. PICK e \in s.chan :
        /\ \A x \in s.chan : e <= x
        /\ LET taken == [s EXCEPT !.chan = @ \ {e}] IN
           \/ /\ e <= s.last
              /\ reader' = [reader EXCEPT ![r] = taken]
           \/ /\ e > s.last /\ InStep(s, e)
              /\ reader' = [reader EXCEPT ![r] = [taken EXCEPT !.todo = {e}]]
           \/ /\ e > s.last /\ ~InStep(s, e)
              /\ reader' = [reader EXCEPT ![r] = [taken EXCEPT !.pc = "gap", !.ev = e]]
  BY DEF Receive
<1> DEFINE taken == [s EXCEPT !.chan = @ \ {e}]
<1>3. /\ s.pc = "live" /\ s.todo = {} /\ UNCHANGED <<seq, disk, open, given>>
      /\ e \in 1..seq /\ s.last <= g /\ NothingBefore(Kept, s, g) /\ InOrder(seq, s, g)
  BY <1>1 DEF Receive, Subscription, ReaderInv
<1>4. CASE e <= s.last /\ reader' = [reader EXCEPT ![r] = taken]
  <2>1. taken \in Subscription(seq)
    BY <1>1 DEF Subscription
  <2>2. ReaderInv(Kept, seq, taken, g)
    BY <1>1, <1>3, <1>4 DEF Subscription, ReaderInv, NoneBetween, NothingBefore, InOrder
  <2> QED BY <1>1, <1>3, <1>4, <2>1, <2>2, ReaderFrame
<1>5. CASE /\ e > s.last /\ InStep(s, e)
           /\ reader' = [reader EXCEPT ![r] = [taken EXCEPT !.todo = {e}]]
  <2> DEFINE t == [taken EXCEPT !.todo = {e}]
  <2>1. t \in Subscription(seq) /\ t.chan \subseteq s.chan /\ t.todo = {e}
    BY <1>1, <1>3 DEF Subscription
  <2>2. NoneBetween(Kept, t, g)
    <3> SUFFICES ASSUME NEW x \in Kept, g < x, x < e PROVE FALSE
      BY <2>1 DEF NoneBetween
    <3>1. CASE s.last = 0
      BY <1>1, <1>2, <1>3, <3>1 DEF NothingBefore, Subscription
    <3>2. CASE s.last # 0
      BY <1>1, <1>3, <1>5, <3>2 DEF InStep, Subscription
    <3> QED BY <3>1, <3>2
  <2>3. InOrder(seq, t, g)
    BY <1>1, <1>3, <1>5, <2>1 DEF InOrder, Subscription
  <2>4. ReaderInv(Kept, seq, t, g)
    BY <1>1, <1>3, <2>1, <2>2, <2>3 DEF Subscription, ReaderInv, NothingBefore
  <2> QED BY <1>1, <1>3, <1>5, <2>1, <2>4, ReaderFrame
<1>6. CASE /\ e > s.last /\ ~InStep(s, e)
           /\ reader' = [reader EXCEPT ![r] = [taken EXCEPT !.pc = "gap", !.ev = e]]
  <2> DEFINE t == [taken EXCEPT !.pc = "gap", !.ev = e]
  <2>1. t \in Subscription(seq)
    <3>1. e \in 0..seq
      BY <1>1, <1>3
    <3> QED BY <1>1, <3>1 DEF Subscription
  <2>2. s.last # 0
    BY <1>6 DEF InStep
  <2>3. ReaderInv(Kept, seq, t, g)
    BY <1>1, <1>3, <1>6, <2>1, <2>2
       DEF Subscription, ReaderInv, NoneBetween, NothingBefore, InOrder
  <2> QED BY <1>1, <1>3, <1>6, <2>1, <2>3, ReaderFrame
<1> QED BY <1>2, <1>4, <1>5, <1>6

\* The oldest event that is to be sent becomes the last that was given.
LEMMA SendInv ==
  ASSUME Inv, NEW r \in Reader, Send(r)
  PROVE  Inv'
<1> DEFINE g == given[r]
           s == reader[r]
<1>1. /\ seq \in Nat /\ Kept \in SUBSET (1..seq) /\ g \in Nat
      /\ s \in Subscription(seq) /\ ReaderInv(Kept, seq, s, g)
  BY OneReader
<1>2. PICK e \in s.todo :
        /\ \A x \in s.todo : e <= x
        /\ reader' = [reader EXCEPT ![r] = [s EXCEPT !.todo = @ \ {e}, !.last = e]]
        /\ given' = [given EXCEPT ![r] = IF e > @ THEN e ELSE @]
  BY DEF Send
<1> DEFINE t == [s EXCEPT !.todo = @ \ {e}, !.last = e]
           h == IF e > g THEN e ELSE g
<1>3. /\ t \in Subscription(seq) /\ h \in Nat /\ e \in 1..seq /\ e <= h /\ g <= h
      /\ s.pc = "live" \/ s.pc = "off"
  <2>1. e \in 1..seq
    BY <1>1 DEF Subscription
  <2>2. e \in 0..seq /\ h \in Nat /\ e <= h /\ g <= h
    BY <1>1, <2>1
  <2>3. t \in Subscription(seq)
    BY <1>1, <2>2 DEF Subscription
  <2>4. s.pc = "live" \/ s.pc = "off"
    BY <1>1 DEF Subscription, ReaderInv
  <2> QED BY <2>1, <2>2, <2>3, <2>4
<1>4. /\ t.pc = s.pc /\ t.todo = s.todo \ {e} /\ t.last = e /\ t.chan = s.chan
      /\ t.ahead = s.ahead
  BY <1>1 DEF Subscription
<1>5. ASSUME s.pc # "off" PROVE NoneBetween(Kept, t, h)
  <2> HIDE DEF t, h
  <2> SUFFICES ASSUME NEW x \in Kept, NEW y \in t.todo, h < x, x < y
               PROVE  x \in t.todo
    BY DEF NoneBetween
  <2>1. g < x /\ x # e
    BY <1>1, <1>3
  <2>2. x \in s.todo
    BY <1>1, <1>4, <1>5, <2>1 DEF ReaderInv, NoneBetween
  <2> QED BY <1>4, <2>1, <2>2
<1>6. ASSUME s.pc # "off" PROVE InOrder(seq, t, h)
  BY <1>1, <1>2, <1>3, <1>4, <1>6 DEF ReaderInv, InOrder, Subscription
<1>7. ReaderInv(Kept, seq, t, h)
  BY <1>1, <1>3, <1>4, <1>5, <1>6 DEF ReaderInv, NothingBefore
<1>8. given' = [given EXCEPT ![r] = h]
  BY <1>2 DEF Inv, TypeOK
<1> QED BY <1>2, <1>3, <1>7, <1>8, ReaderFrame DEF Send

-----------------------------------------------------------------------------

\* The next daemon counts on from the last kept event: none is newer.
LEMMA LastIsNewest ==
  ASSUME TypeOK, DiskInv, NEW n \in 0..seq, LastOnDisk(disk, n)
  PROVE  n \in Nat /\ n \in Kept \cup {0} /\ \A x \in Kept : x \in 1..n
<1>1. seq \in Nat /\ \A x \in Kept : x \in 1..seq
  BY DEF TypeOK, DiskInv
<1>2. CASE disk.live # {}
  <2>1. n \in disk.live /\ \A x \in disk.live : x <= n
    BY <1>2 DEF LastOnDisk
  <2>2. \A x \in disk.old : x < n
    BY <2>1 DEF DiskInv, OnDiskIsOrdered
  <2> QED BY <1>1, <2>1, <2>2 DEF Kept
<1>3. CASE disk.live = {}
  BY <1>1, <1>3 DEF LastOnDisk, Kept
<1> QED BY <1>2, <1>3

LEMMA RestartInv == Inv /\ Restart => Inv'
<1> SUFFICES ASSUME Inv, Restart PROVE Inv'
  OBVIOUS
<1>1. PICK n \in 0..seq : LastOnDisk(disk, n) /\ seq' = n
  BY DEF Restart
<1>2. /\ n \in Nat /\ \A x \in Kept : x \in 1..n
      /\ disk' = Sized(disk) /\ given' = given /\ open' = TRUE
      /\ reader' = [r \in Reader |-> Nobody]
  BY <1>1, LastIsNewest DEF Inv, Restart
<1>3. Kept' = Kept /\ DiskInv'
  <2>1. disk'.old = disk.old /\ disk'.live = disk.live
    BY <1>2 DEF Sized, Inv, TypeOK
  <2> QED BY <1>1, <1>2, <2>1 DEF Inv, DiskInv, OnDiskIsOrdered, Kept
<1>4. \A r \in Reader : /\ Nobody \in Subscription(n) /\ given[r] \in Nat
                         /\ ReaderInv(Kept, n, Nobody, given[r])
  BY <1>2, NobodyInv DEF Inv, TypeOK
<1>5. disk' \in [old : SUBSET (1..n), live : SUBSET (1..n),
                used : BOOLEAN, torn : BOOLEAN]
  <2>1. disk \in [old : SUBSET (1..n), live : SUBSET (1..n),
                  used : BOOLEAN, torn : BOOLEAN]
    BY <1>2 DEF Inv, TypeOK, Kept
  <2>2. (disk.used \/ disk.torn) \in BOOLEAN
    OBVIOUS
  <2> QED BY <1>2, <2>1, <2>2 DEF Sized
<1>6. TypeOK'
  BY <1>1, <1>2, <1>4, <1>5 DEF Inv, TypeOK, Subscription
<1> QED BY <1>1, <1>2, <1>3, <1>4, <1>6 DEF Inv

LEMMA CloseInv == Inv /\ Close => Inv'
BY DEF Inv, Close, TypeOK, DiskInv, OnDiskIsOrdered, Kept

LEMMA StepInv == Inv /\ [Next]_vars => Inv'
<1> SUFFICES ASSUME Inv, [Next]_vars PROVE Inv'
  OBVIOUS
<1>1. CASE Append
  BY <1>1, AppendInv
<1>2. CASE Close
  BY <1>2, CloseInv
<1>3. CASE Restart
  BY <1>3, RestartInv
<1>4. ASSUME NEW r \in Reader, Resume(r) \/ FollowFromNow(r) \/ Leave(r) PROVE Inv'
  BY <1>4, ComeAndGoInv
<1>5. ASSUME NEW r \in Reader, ReadPast(r) \/ Fill(r) PROVE Inv'
  BY <1>5, ReadInv
<1>6. ASSUME NEW r \in Reader, Receive(r) PROVE Inv'
  BY <1>6, ReceiveInv
<1>7. ASSUME NEW r \in Reader, Send(r) PROVE Inv'
  BY <1>7, SendInv
<1>8. CASE UNCHANGED vars
  BY <1>8 DEF vars, Inv, TypeOK, DiskInv, OnDiskIsOrdered, Kept
<1> QED BY <1>1, <1>2, <1>3, <1>4, <1>5, <1>6, <1>7, <1>8 DEF Next, Follow

LEMMA InvHolds == Spec => []Inv
<1> QED BY InitInv, StepInv, PTL DEF Spec

\* Every variable of the journal keeps its type, and no number on disk, in a
\* channel or about to be sent is beyond the count (journal.go, subscribe.go).
THEOREM JournalTypes == Spec => []TypeOK
<1>1. Inv => TypeOK
  BY DEF Inv
<1> QED BY <1>1, InvHolds, PTL

\* The rotated file is older than the live one, through rotations, failed writes
\* and restarts: what Since, Tail and Open read in this order is in order.
THEOREM FilesAreOrdered == Spec => []OnDiskIsOrdered
<1>1. Inv => OnDiskIsOrdered
  BY DEF Inv, DiskInv
<1> QED BY <1>1, InvHolds, PTL

-----------------------------------------------------------------------------
(* Every step of the journal is one of EventLog, or none. *)

LEMMA InitRefines == Init => Log!Init
BY DEF Init, Log!Init, Nobody, Kept

\* A step that gives a client nothing and leaves the files and the daemon alone
\* is no step of EventLog when its reader does not come or go.
LEMMA Unseen ==
  ASSUME Inv, UNCHANGED <<seq, disk, open, given>>,
         NEW r \in Reader, NEW s, reader' = [reader EXCEPT ![r] = s],
         reader[r].pc # "off", s.pc # "off", s.ahead = reader[r].ahead
  PROVE  UNCHANGED Log!vars
<1>1. Kept' = Kept
  BY DEF Kept
<1>2. \A p \in Reader : /\ (reader'[p].pc = "off") = (reader[p].pc = "off")
                         /\ reader'[p].ahead = reader[p].ahead
  BY DEF Inv, TypeOK
<1> QED BY <1>1, <1>2 DEF Log!vars
\* The reader's side of EventLog, as Journal maps it.
Following(s) == IF s.pc = "off" THEN "off" ELSE IF s.ahead THEN "ahead" ELSE "following"

LEMMA AppendRefines == Inv /\ Append => Log!Record
<1> SUFFICES ASSUME Inv, Append PROVE Log!Record
  OBVIOUS
<1>1. PICK gone \in SUBSET Kept :
        /\ \A x \in gone, y \in Kept \ gone : x < y
        /\ Kept' \in {Kept \ gone, (Kept \ gone) \cup {seq + 1}}
  BY AppendFiles DEF Inv
<1>2. \A r \in Reader : /\ reader'[r].pc = reader[r].pc
                        /\ reader'[r].ahead = reader[r].ahead
  BY DEF Append, Handed, Inv, TypeOK
<1>3. seq' = seq + 1 /\ given' = given
  BY DEF Append
<1> QED BY <1>1, <1>2, <1>3 DEF Log!Record

LEMMA RestartRefines == Inv /\ Restart => Log!Restart
<1> SUFFICES ASSUME Inv, Restart PROVE Log!Restart
  OBVIOUS
<1>1. PICK n \in 0..seq : LastOnDisk(disk, n) /\ seq' = n
  BY DEF Restart
<1>2. n \in Kept \cup {0} /\ \A x \in Kept : x <= n
  BY <1>1, LastIsNewest DEF Inv
<1>3. Kept' = Kept /\ given' = given
  BY DEF Restart, Kept, Sized, Inv, TypeOK
<1>4. \A r \in Reader : reader'[r].pc = "off"
  BY DEF Restart, Nobody
<1> QED BY <1>1, <1>2, <1>3, <1>4 DEF Log!Restart

LEMMA ComeAndGoRefines ==
  ASSUME Inv, NEW r \in Reader, Resume(r) \/ FollowFromNow(r) \/ Leave(r)
  PROVE  Log!Join(r) \/ Log!Leave(r)
<1> DEFINE where(f) == [p \in Reader |-> Following(f[p])]
<1>1. Kept' = Kept /\ seq' = seq
  BY DEF Resume, FollowFromNow, Leave, Kept
<1>2. CASE Resume(r)
  <2>1. given' = given /\ reader[r].pc = "off"
    BY <1>2 DEF Resume
  <2>2. Following(reader'[r]) = IF given[r] > seq THEN "ahead" ELSE "following"
    BY <1>2 DEF Resume, Nobody, Following, Inv, TypeOK
  <2>3. \A p \in Reader : p # r => reader'[p] = reader[p]
    BY <1>2 DEF Resume, Inv, TypeOK
  <2>4. where(reader)' = [where(reader) EXCEPT ![r] = IF given'[r] > seq THEN "ahead" ELSE "following"]
    BY <2>1, <2>2, <2>3 DEF Following
  <2> QED BY <1>1, <2>1, <2>4 DEF Log!Join, Following
<1>3. CASE FollowFromNow(r)
  <2>1. given' = [given EXCEPT ![r] = seq] /\ reader[r].pc = "off"
    BY <1>3 DEF FollowFromNow
  <2>2. Following(reader'[r]) = "following" /\ ~(given'[r] > seq)
    BY <1>3 DEF FollowFromNow, Nobody, Following, Inv, TypeOK
  <2>3. \A p \in Reader : p # r => reader'[p] = reader[p]
    BY <1>3 DEF FollowFromNow, Inv, TypeOK
  <2>4. where(reader)' = [where(reader) EXCEPT ![r] = IF given'[r] > seq THEN "ahead" ELSE "following"]
    BY <2>1, <2>2, <2>3 DEF Following
  <2> QED BY <1>1, <2>1, <2>4 DEF Log!Join, Following
<1>4. CASE Leave(r)
  <2>1. Following(reader'[r]) = "off"
    BY <1>4 DEF Leave, Nobody, Following, Inv, TypeOK
  <2>2. \A p \in Reader : p # r => reader'[p] = reader[p]
    BY <1>4 DEF Leave, Inv, TypeOK
  <2>3. where(reader)' = [where(reader) EXCEPT ![r] = "off"]
    BY <2>1, <2>2 DEF Following
  <2> QED BY <1>1, <1>4, <2>3 DEF Leave, Log!Leave, Following
<1> QED BY <1>2, <1>3, <1>4

LEMMA SendRefines ==
  ASSUME Inv, NEW r \in Reader, Send(r)
  PROVE  Log!Deliver(r)
<1> DEFINE g == given[r]
           s == reader[r]
<1>1. s \in Subscription(seq) /\ ReaderInv(Kept, seq, s, g) /\ s.pc = "live"
  BY OneReader DEF Send
<1>2. PICK e \in s.todo :
        /\ \A x \in s.todo : e <= x
        /\ reader' = [reader EXCEPT ![r] = [s EXCEPT !.todo = @ \ {e}, !.last = e]]
        /\ given' = [given EXCEPT ![r] = IF e > @ THEN e ELSE @]
  BY DEF Send
<1>3. e \in 1..seq
  BY <1>1 DEF Subscription
<1>4. \A x \in Kept : ~(g < x /\ x < e)
  <2> SUFFICES ASSUME NEW x \in Kept, g < x, x < e PROVE FALSE
    OBVIOUS
  <2>1. x \in s.todo
    BY <1>1 DEF ReaderInv, NoneBetween
  <2>2. e <= x /\ x \in 1..seq
    BY <1>2, <2>1, OneReader
  <2> QED BY <1>3, <2>2
<1>5. ~s.ahead => e > g
  BY <1>1, <1>3, OneReader DEF ReaderInv, InOrder
<1>6. \A p \in Reader : /\ reader'[p].pc = reader[p].pc
                        /\ reader'[p].ahead = reader[p].ahead
  BY <1>2 DEF Inv, TypeOK
<1>7. seq' = seq /\ Kept' = Kept
  BY DEF Send, Kept
<1> QED BY <1>1, <1>2, <1>3, <1>4, <1>5, <1>6, <1>7 DEF Log!Deliver

LEMMA StepRefines == Inv /\ [Next]_vars => [Log!Next]_(Log!vars)
<1> SUFFICES ASSUME Inv, [Next]_vars PROVE [Log!Next]_(Log!vars)
  OBVIOUS
<1>1. CASE Append
  BY <1>1, AppendRefines DEF Log!Next
<1>2. CASE Close
  BY <1>2 DEF Close, Kept, Log!vars
<1>3. CASE Restart
  BY <1>3, RestartRefines DEF Log!Next
<1>4. ASSUME NEW r \in Reader, Resume(r) \/ FollowFromNow(r) \/ Leave(r)
      PROVE  Log!Next
  BY <1>4, ComeAndGoRefines DEF Log!Next
<1>5. ASSUME NEW r \in Reader, ReadPast(r) PROVE UNCHANGED Log!vars
  <2> DEFINE s == [reader[r] EXCEPT !.pc = "live", !.todo = {x \in Kept : x > given[r]}]
  <2>1. reader' = [reader EXCEPT ![r] = s] /\ UNCHANGED <<seq, disk, open, given>>
    BY <1>5 DEF ReadPast, Inv, TypeOK
  <2>2. reader[r].pc # "off" /\ s.pc # "off" /\ s.ahead = reader[r].ahead
    BY <1>5 DEF ReadPast, Inv, TypeOK
  <2> QED BY <2>1, <2>2, Unseen
<1>6. ASSUME NEW r \in Reader, Fill(r) PROVE UNCHANGED Log!vars
  <2> DEFINE s == reader'[r]
  <2>1. reader' = [reader EXCEPT ![r] = s] /\ UNCHANGED <<seq, disk, open, given>>
    BY <1>6 DEF Fill, Inv, TypeOK
  <2>2. reader[r].pc # "off" /\ s.pc # "off" /\ s.ahead = reader[r].ahead
    BY <1>6 DEF Fill, Inv, TypeOK
  <2> QED BY <2>1, <2>2, Unseen
<1>7. ASSUME NEW r \in Reader, Receive(r) PROVE UNCHANGED Log!vars
  <2> DEFINE s == reader'[r]
  <2>1. reader' = [reader EXCEPT ![r] = s] /\ UNCHANGED <<seq, disk, open, given>>
    BY <1>7 DEF Receive, Inv, TypeOK
  <2>2. reader[r].pc # "off" /\ s.pc # "off" /\ s.ahead = reader[r].ahead
    <3>1. PICK e \in reader[r].chan : \E t :
             /\ reader' = [reader EXCEPT ![r] = t]
             /\ t.ahead = reader[r].ahead /\ t.pc # "off"
      <4>0. reader[r] \in Subscription(seq) /\ reader[r].pc = "live"
        BY <1>7, OneReader DEF Receive
      <4> DEFINE taken(e) == [reader[r] EXCEPT !.chan = @ \ {e}]
      <4>1. PICK e \in reader[r].chan :
              \/ reader' = [reader EXCEPT ![r] = taken(e)]
              \/ reader' = [reader EXCEPT ![r] = [taken(e) EXCEPT !.todo = {e}]]
              \/ reader' = [reader EXCEPT ![r] = [taken(e) EXCEPT !.pc = "gap", !.ev = e]]
        BY <1>7 DEF Receive
      <4>2. /\ taken(e).ahead = reader[r].ahead /\ taken(e).pc = "live"
            /\ [taken(e) EXCEPT !.todo = {e}].ahead = reader[r].ahead
            /\ [taken(e) EXCEPT !.todo = {e}].pc = "live"
            /\ [taken(e) EXCEPT !.pc = "gap", !.ev = e].ahead = reader[r].ahead
            /\ [taken(e) EXCEPT !.pc = "gap", !.ev = e].pc = "gap"
        BY <4>0 DEF Subscription
      <4> QED BY <4>1, <4>2
    <3> QED BY <1>7, <3>1 DEF Receive, Inv, TypeOK
  <2> QED BY <2>1, <2>2, Unseen
<1>8. ASSUME NEW r \in Reader, Send(r) PROVE Log!Next
  BY <1>8, SendRefines DEF Log!Next
<1>9. CASE UNCHANGED vars
  BY <1>9 DEF vars, Kept, Log!vars
<1> QED BY <1>1, <1>2, <1>3, <1>4, <1>5, <1>6, <1>7, <1>8, <1>9 DEF Next, Follow

\* The journal and its subscriptions implement EventLog: whoever follows gets the
\* events in order and passes over none that is kept, however slow it is and
\* whatever breaks meanwhile (journal.go; subscribe.go, subJournal).
THEOREM JournalImplementsLog == Spec => PassesOverNothing
<1>1. Init => Log!Init
  BY InitRefines
<1>2. Inv /\ [Next]_vars => [Log!Next]_(Log!vars)
  BY StepRefines
<1> QED BY <1>1, <1>2, InvHolds, PTL DEF Spec, PassesOverNothing, Log!Spec
=============================================================================
