------------------------------ MODULE Journal -------------------------------
(***************************************************************************)
(* The journal of events (internal/journal) and the subscriptions that     *)
(* follow it (daemon/subscribe.go, subJournal).  An event is its sequence  *)
(* number.  Every operation of the journal holds its lock, so each is one  *)
(* step; a subscription is a goroutine that takes the lock now and then.   *)
(*                                                                         *)
(* A file is the set of events that can be read back from it: lines are    *)
(* appended in the order of their numbers and read back in that order.     *)
(* "torn" is a live file that ends in the middle of a line, so that the    *)
(* next line is glued to it and cannot be read back either.  A write that  *)
(* is cut exactly before its newline is not considered.                    *)
(***************************************************************************)
EXTENDS Naturals, FiniteSets

CONSTANTS Reader,      \* clients that follow the journal
          Buf,         \* the capacity of a subscriber's channel
          MaxSeq       \* bound: the highest number given out

ASSUME JournalConstants == Buf \in Nat \ {0} /\ MaxSeq \in Nat

VARIABLES
  seq,      \* Journal.seq
  disk,     \* the live file and the rotated one
  open,     \* whether Journal.f is set
  reader,   \* a reader's subscription: its channel and subJournal's variables
  given     \* the highest number a client was given, which it resumes after

vars == <<seq, disk, open, reader, given>>

Nobody == [pc |-> "off", chan |-> {}, todo |-> {}, last |-> 0, ev |-> 0,
           ahead |-> FALSE]

Kept == disk.old \cup disk.live

Init ==
  /\ seq = 0
  /\ disk = [old |-> {}, live |-> {}, used |-> FALSE, torn |-> FALSE]
  /\ open = TRUE
  /\ reader = [r \in Reader |-> Nobody]
  /\ given = [r \in Reader |-> 0]

-----------------------------------------------------------------------------
(* The daemon's side. *)

Rotated(d) == [old |-> d.live, live |-> {}, used |-> FALSE, torn |-> FALSE]

\* The write of event n is complete, fails at once or is cut short.
Written(d, n) ==
  { [d EXCEPT !.live = IF d.torn THEN @ ELSE @ \cup {n},
              !.used = TRUE, !.torn = FALSE],
    d,
    [d EXCEPT !.torn = TRUE] }

\* The live file is rotated when the line does not fit and Journal.size, which
\* does not count a write that was cut, is not zero.
RotatedFirst(d) == IF d.used THEN {d, Rotated(d)} ELSE {d}

\* A subscriber whose channel is full does not get the event.
Handed(s, n) ==
  IF s.pc # "off" /\ Cardinality(s.chan) < Buf
    THEN [s EXCEPT !.chan = @ \cup {n}]
    ELSE s

Append ==
  /\ seq < MaxSeq
  /\ seq' = seq + 1
  /\ \/ /\ open
        /\ \E d \in RotatedFirst(disk) : disk' \in Written(d, seq + 1)
        /\ UNCHANGED open
     \/ /\ open /\ disk.used              \* rotated, but there is no new file
        /\ disk' = Rotated(disk)
        /\ open' = FALSE
     \/ /\ ~open
        /\ UNCHANGED <<disk, open>>
  /\ reader' = [r \in Reader |-> Handed(reader[r], seq + 1)]
  /\ UNCHANGED given

\* The last thing a daemon does before it ends; what is appended later is only
\* handed to subscribers.
Close ==
  /\ open
  /\ open' = FALSE
  /\ UNCHANGED <<seq, disk, reader, given>>

LastIsLive(d, n) ==                     \* mutant: the rotated file is not read
  IF d.live = {} THEN n = 0 ELSE n \in d.live /\ \A x \in d.live : x <= n
RotatedWins(d, n) ==                    \* mutant: the rotated file is read last
  IF d.old # {} THEN n \in d.old /\ \A x \in d.old : x <= n
  ELSE IF d.live # {} THEN n \in d.live /\ \A x \in d.live : x <= n
  ELSE n = 0
\* Open takes up the number of the last event in the live file or, if that has
\* none, in the rotated one.
LastOnDisk(d, n) ==
  IF d.live # {} THEN n \in d.live /\ \A x \in d.live : x <= n
  ELSE IF d.old # {} THEN n \in d.old /\ \A x \in d.old : x <= n
  ELSE n = 0

\* Open takes the size of the file from the disk.
Sized(d) == [d EXCEPT !.used = d.used \/ d.torn]

\* The daemon ends, however, and the next one opens the journal.
Restart ==
  /\ \E n \in 0..seq : LastOnDisk(disk, n) /\ seq' = n
  /\ open' = TRUE
  /\ disk' = Sized(disk)
  /\ reader' = [r \in Reader |-> Nobody]
  /\ UNCHANGED given

-----------------------------------------------------------------------------
(* A subscription. *)

\* A screen asks for what follows the last event it was given: everything, if
\* it was given none.
Resume(r) ==
  /\ reader[r].pc = "off"
  /\ reader' = [reader EXCEPT ![r] = [Nobody EXCEPT !.pc = "since",
                                                    !.ahead = given[r] > seq]]
  /\ UNCHANGED <<seq, disk, open, given>>

\* A command follows from now on.
FollowFromNow(r) ==
  /\ reader[r].pc = "off"
  /\ reader' = [reader EXCEPT ![r] = [Nobody EXCEPT !.pc = "live"]]
  /\ given' = [given EXCEPT ![r] = seq]
  /\ UNCHANGED <<seq, disk, open>>

ReadPast(r) ==
  /\ reader[r].pc = "since"
  /\ reader' = [reader EXCEPT ![r].pc = "live",
                              ![r].todo = {x \in Kept : x > given[r]}]
  /\ UNCHANGED <<seq, disk, open, given>>

NoGap(s, e) == TRUE                     \* mutant: a gap is not noticed
InStep(s, e) == s.last = 0 \/ e <= s.last + 1

\* The oldest event in the channel is taken: skipped if the file already had
\* it, and kept back if those before it must first be read from there.
Receive(r) ==
  LET s == reader[r] IN
  /\ s.pc = "live" /\ s.todo = {}
  /\ \E e \in s.chan :
       /\ \A x \in s.chan : e <= x
       /\ LET taken == [s EXCEPT !.chan = @ \ {e}] IN
          \/ /\ e <= s.last
             /\ reader' = [reader EXCEPT ![r] = taken]
          \/ /\ e > s.last /\ InStep(s, e)
             /\ reader' = [reader EXCEPT ![r] = [taken EXCEPT !.todo = {e}]]
          \/ /\ e > s.last /\ ~InStep(s, e)
             /\ reader' = [reader EXCEPT ![r] = [taken EXCEPT !.pc = "gap", !.ev = e]]
  /\ UNCHANGED <<seq, disk, open, given>>

Fill(r) ==
  LET s == reader[r] IN
  /\ s.pc = "gap"
  /\ reader' = [reader EXCEPT
       ![r] = [s EXCEPT !.pc = "live", !.ev = 0,
                        !.todo = {x \in Kept : s.last < x /\ x < s.ev} \cup {s.ev}]]
  /\ UNCHANGED <<seq, disk, open, given>>

\* One frame reaches the client, which remembers the highest number.
Send(r) ==
  LET s == reader[r] IN
  /\ s.pc = "live"
  /\ \E e \in s.todo :
       /\ \A x \in s.todo : e <= x
       /\ reader' = [reader EXCEPT ![r] = [s EXCEPT !.todo = @ \ {e}, !.last = e]]
       /\ given' = [given EXCEPT ![r] = IF e > @ THEN e ELSE @]
  /\ UNCHANGED <<seq, disk, open>>

\* The client goes away, or its connection does with all that is on the way.
Leave(r) ==
  /\ reader[r].pc # "off"
  /\ reader' = [reader EXCEPT ![r] = Nobody]
  /\ UNCHANGED <<seq, disk, open, given>>

-----------------------------------------------------------------------------

Follow(r) == ReadPast(r) \/ Receive(r) \/ Fill(r) \/ Send(r)

Next ==
  \/ Append
  \/ Close
  \/ Restart
  \/ \E r \in Reader : Resume(r) \/ FollowFromNow(r) \/ Leave(r) \/ Follow(r)

Spec == Init /\ [][Next]_vars

\* A subscription under way takes its steps; nobody has to record an event.
FairSpec == Spec /\ \A r \in Reader : WF_vars(Follow(r))

-----------------------------------------------------------------------------
(* Properties. *)

\* Everything stays in its type, and no event is read that was not counted.
TypeOK ==
  /\ seq \in Nat
  /\ disk \in [old : SUBSET (1..seq), live : SUBSET (1..seq),
               used : BOOLEAN, torn : BOOLEAN]
  /\ open \in BOOLEAN
  /\ reader \in [Reader -> [pc : {"off", "since", "live", "gap"},
                            chan : SUBSET (1..seq), todo : SUBSET (1..seq),
                            last : 0..seq, ev : 0..seq, ahead : BOOLEAN]]
  /\ given \in [Reader -> Nat]

\* Reading the rotated file and then the live one gives the events in order:
\* what Since, Tail and Open rely on.
OnDiskIsOrdered == \A x \in disk.old, y \in disk.live : x < y

\* The journal keeps the promise of EventLog: a reader gets the events in
\* order, and passes over none that is kept, although its channel may be full,
\* the files rotate under it and its connection and the daemon may break.
Log == INSTANCE EventLog WITH
         top   <- seq,
         kept  <- Kept,
         where <- [r \in Reader |-> IF reader[r].pc = "off" THEN "off"
                                    ELSE IF reader[r].ahead THEN "ahead"
                                    ELSE "following"],
         at    <- given

PassesOverNothing == Log!Spec

\* subscribe.go:142: the journal is sent "from since on: what is on disk, then
\* each event as it is recorded": an event that is kept reaches whoever follows.
EventsArrive ==
  \A r \in Reader : \A e \in 1..MaxSeq :
    (reader[r].pc # "off" /\ e \in Kept /\ given[r] < e)
      ~> (reader[r].pc = "off" \/ e \notin Kept \/ given[r] >= e)
=============================================================================
