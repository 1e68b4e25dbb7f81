------------------------------ MODULE LineLog -------------------------------
(***************************************************************************)
(* What the log store promises whoever follows what an instance prints:    *)
(* from the line the follower starts at, it is given the lines in order    *)
(* and never passes over one that is still kept, through restarts of the   *)
(* instance and however slow it is.                                        *)
(*                                                                         *)
(* When everything kept for the instance is removed, those who follow it   *)
(* are "lost": the store makes no promise to them any more.                *)
(***************************************************************************)
EXTENDS Naturals

CONSTANT Follower

VARIABLES
  top,      \* the number of the last line
  kept,     \* the numbers of the lines that can be read
  where,    \* whether somebody follows, and is promised anything
  at        \* the last line a follower was given

vars == <<top, kept, where, at>>

Init == /\ top = 0
        /\ kept = {}
        /\ where = [f \in Follower |-> "off"]
        /\ at = [f \in Follower |-> 0]

\* A line is printed; it is kept unless its file was removed, or is one that no
\* listing finds.
Record ==
  /\ top' = top + 1
  /\ kept' \in {kept, kept \cup {top + 1}}
  /\ UNCHANGED <<where, at>>

\* The oldest lines are given up.
Forget ==
  /\ \E oldest \in 0..top : kept' = {x \in kept : x > oldest}
  /\ UNCHANGED <<top, where, at>>

Remove ==
  /\ kept' = {}
  /\ where' = [f \in Follower |-> IF where[f] = "off" THEN "off" ELSE "lost"]
  /\ UNCHANGED <<top, at>>

\* A follower begins anywhere, usually some lines back; one that looked for its
\* place while everything was removed is lost from the beginning.
Join(f) ==
  /\ where[f] = "off"
  /\ \E w \in {"following", "lost"} : where' = [where EXCEPT ![f] = w]
  /\ \E x \in 0..top : at' = [at EXCEPT ![f] = x]
  /\ UNCHANGED <<top, kept>>

Deliver(f) ==
  /\ where[f] # "off"
  /\ \E x \in 1..top :
       /\ where[f] = "following" => x > at[f] /\ ~\E y \in kept : at[f] < y /\ y < x
       /\ at' = [at EXCEPT ![f] = x]
  /\ UNCHANGED <<top, kept, where>>

Leave(f) ==
  /\ where' = [where EXCEPT ![f] = "off"]
  /\ at' = [at EXCEPT ![f] = 0]
  /\ UNCHANGED <<top, kept>>

\* The daemon dies, and everyone who follows with it.
Restart ==
  /\ where' = [f \in Follower |-> "off"]
  /\ at' = [f \in Follower |-> 0]
  /\ UNCHANGED <<top, kept>>

Next ==
  \/ Record \/ Forget \/ Remove \/ Restart
  \/ \E f \in Follower : Join(f) \/ Deliver(f) \/ Leave(f)

Spec == Init /\ [][Next]_vars
=============================================================================
