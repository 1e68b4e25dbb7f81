------------------------------ MODULE Backend -------------------------------
(***************************************************************************)
(* What the runtime takes the processes of one instance for (the engine's  *)
(* Process interface): one thing that is started, runs, is over once, and  *)
(* is over only when nothing of it is left running.                        *)
(***************************************************************************)
CONSTANT Waiter        \* the goroutines that call Wait

VARIABLES
  status,   \* how far the backend is
  loose,    \* some process of it runs and has not been killed
  told      \* the waiters whose Wait has returned

vars == <<status, loose, told>>

Init == status = "starting" /\ loose \in BOOLEAN /\ told = {}

\* While it is starting or up its processes come and go.
Churn ==
  /\ status \in {"starting", "up"}
  /\ loose' \in BOOLEAN
  /\ UNCHANGED <<status, told>>

\* It is handed over, at worst when all of it has just ended.
Launched ==
  /\ status = "starting"
  /\ status' \in {"up"} \cup {s \in {"over"} : ~loose}
  /\ UNCHANGED <<loose, told>>

\* A start that fails takes with it whatever it had started.
Failed ==
  /\ status = "starting" /\ ~loose
  /\ status' = "failed"
  /\ UNCHANGED <<loose, told>>

Over ==
  /\ status = "up" /\ ~loose
  /\ status' = "over"
  /\ UNCHANGED <<loose, told>>

\* Wait returns to a caller.
Tell(w) ==
  /\ status = "over"
  /\ told' = told \cup {w}
  /\ UNCHANGED <<status, loose>>

Next == Churn \/ Launched \/ Failed \/ Over \/ \E w \in Waiter : Tell(w)

Spec == Init /\ [][Next]_vars
=============================================================================
