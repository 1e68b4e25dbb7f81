------------------------------ MODULE EventLog ------------------------------
(***************************************************************************)
(* What the journal promises the screens that follow it: a reader is given *)
(* the events in order and never passes over one that is still kept,       *)
(* whether it was slow, was away, or the daemon was restarted meanwhile.   *)
(*                                                                         *)
(* A reader resumes after the last event it was given.  One that resumes   *)
(* after an event the log no longer counts is "ahead": the numbers it has  *)
(* seen are given out again, and it may get them a second time.            *)
(***************************************************************************)
EXTENDS Naturals

CONSTANT Reader

VARIABLES top,      \* the number of the last event
          kept,     \* the numbers of the events that can still be read
          where,    \* whether a reader is following, and from where
          at        \* the last event a reader was given

vars == <<top, kept, where, at>>

Init == /\ top = 0
        /\ kept = {}
        /\ where = [r \in Reader |-> "off"]
        /\ at = [r \in Reader |-> 0]

\* Only the oldest events are given up, and the new one may not be kept.
Record ==
  /\ top' = top + 1
  /\ \E gone \in SUBSET kept :
       /\ \A x \in gone, y \in kept \ gone : x < y
       /\ kept' \in {kept \ gone, (kept \ gone) \cup {top + 1}}
  /\ UNCHANGED <<where, at>>

Join(r) ==
  /\ where[r] = "off"
  /\ \/ at' = at
     \/ at' = [at EXCEPT ![r] = top]
  /\ where' = [where EXCEPT ![r] = IF at'[r] > top THEN "ahead" ELSE "following"]
  /\ UNCHANGED <<top, kept>>

Deliver(r) ==
  /\ where[r] # "off"
  /\ \E e \in 1..top :
       /\ \A x \in kept : ~(at[r] < x /\ x < e)
       /\ where[r] = "following" => e > at[r]
       /\ at' = [at EXCEPT ![r] = IF e > @ THEN e ELSE @]
  /\ UNCHANGED <<top, kept, where>>

Leave(r) ==
  /\ where' = [where EXCEPT ![r] = "off"]
  /\ UNCHANGED <<top, kept, at>>

\* The count continues from the newest event that is kept.
Restart ==
  /\ top' \in kept \cup {0}
  /\ \A x \in kept : x <= top'
  /\ where' = [r \in Reader |-> "off"]
  /\ UNCHANGED <<kept, at>>

Next == \/ Record
        \/ Restart
        \/ \E r \in Reader : Join(r) \/ Deliver(r) \/ Leave(r)

Spec == Init /\ [][Next]_vars
=============================================================================
