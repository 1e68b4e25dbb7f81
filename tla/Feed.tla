------------------------------- MODULE Feed --------------------------------
(***************************************************************************)
(* How a daemon tells a subscriber what its instances do: the signal of    *)
(* the registry (registry.Notify and emit), the loop that turns it into    *)
(* frames (daemon.subInstances over handler.snapshot), and the commands    *)
(* that change what a snapshot says (SetOff, AddInstance, RemoveInstance). *)
(*                                                                         *)
(* The registry's entry of an instance is how often it was changed.        *)
(* Commands come one at a time.                                            *)
(***************************************************************************)
EXTENDS Naturals, Sequences, FiniteSets

CONSTANTS Inst,       \* the instances of the stack
          Declared,   \* those that its doze.hcl declares
          MaxMove,    \* bound: the commands, the changes that come from none, and
                      \* in Hub the ends of a daemon and the visits of the pages
          WireSize    \* bound: the frames a connection holds

ASSUME FeedConstants == Declared \subseteq Inst /\ MaxMove \in Nat /\ WireSize \in Nat

VARIABLES
  reg,     \* registry: how often an instance was changed, 0 without an entry
  decl,    \* the instances in the configuration
  off,     \* Runtime.off
  going,   \* the command under way, and its instance
  moves,   \* how much of MaxMove is used
  wake,    \* a signal is waiting in the channel of Notify
  feed,    \* where subInstances is
  got,     \* the registry as its snapshot found it
  last,    \* what it has sent of each instance
  fresh,   \* no frame has been sent
  wire,    \* the frames on their way
  silent   \* history: the instances a command changed after the last signal

stackVars == <<reg, decl, off, going, moves>>
feedVars == <<wake, feed, got, last, fresh, wire>>

Nothing == <<"nothing">>

\* handler.snapshot: every instance that is registered or declared.
Snapshot(entries) ==
  [i \in {j \in Inst : entries[j] > 0 \/ j \in decl} |->
     [entry |-> entries[i], declared |-> i \in decl, disabled |-> i \in off]]

FeedInit ==
  /\ reg = [i \in Inst |-> 0]
  /\ decl = Declared
  /\ off = {} /\ moves = 0 /\ silent = {}
  /\ going = Nothing
  /\ wake = FALSE /\ feed = "none" /\ fresh = TRUE
  /\ got = <<>> /\ last = <<>> /\ wire = <<>>

-----------------------------------------------------------------------------
(* What changes. *)

\* Mutant: The signal is lost on a feed that is not waiting for it, as in a channel
\* without a buffer.
SignalUnbuffered ==
  /\ wake' = (wake \/ feed = "wait")
  /\ silent' = {}

\* registry.emit: one signal at most is waiting, whoever made it.
Signal ==
  /\ wake' = (feed # "none")
  /\ silent' = {}

Touch(i) == reg' = [reg EXCEPT ![i] = @ + 1] /\ Signal
Move == moves < MaxMove /\ moves' = moves + 1
Begin == going = Nothing /\ Move
Unseen(i) == silent' = silent \cup {i}

\* A boot, a crash, a sleep, a connection: any method of the registry that emits.
Change(i) ==
  /\ i \in decl
  /\ Move
  /\ Touch(i)
  /\ UNCHANGED <<decl, off, going, feed, got, last, fresh, wire>>

\* Runtime.SetOff: the mark is set before the stop, which resets the restart
\* budget and so emits whatever state the instance is in.
TakeOff(i) ==
  /\ Begin /\ i \in decl
  /\ going' = <<"off", i>>
  /\ off' = off \cup {i} /\ Unseen(i)
  /\ UNCHANGED <<reg, decl, feedVars>>

\* SetOff(on) only forgets the mark.
PutBack(i) ==
  /\ Begin /\ i \in decl \cap off
  /\ off' = off \ {i} /\ Unseen(i)
  /\ UNCHANGED <<reg, decl, going, feedVars>>

\* daemon.RemoveInstance begins with the same stop, whose failure it ignores.
RemoveInstance(i) ==
  /\ Begin /\ i \in decl
  /\ going' = <<"remove", i>>
  /\ UNCHANGED <<reg, decl, off, feedVars, silent>>

Stop(i) ==
  /\ going \in {<<"off", i>>, <<"remove", i>>}
  /\ going' = IF going[1] = "off" THEN Nothing ELSE <<"drop", i>>
  /\ Touch(i)
  /\ UNCHANGED <<decl, off, moves, feed, got, last, fresh, wire>>

\* cfg.Remove, and nothing to tell the feed of it.
Drop(i) ==
  /\ going = <<"drop", i>> /\ going' = Nothing
  /\ decl' = decl \ {i} /\ Unseen(i)
  /\ UNCHANGED <<reg, off, moves, feedVars>>

\* daemon.AddInstance: declared first, then given a listener, which may fail.
AddInstance(i) ==
  /\ Begin /\ i \notin decl
  /\ going' = <<"add", i>>
  /\ decl' = decl \cup {i} /\ Unseen(i)
  /\ UNCHANGED <<reg, off, feedVars>>

AddInstanceEnds(i) ==
  /\ going = <<"add", i>> /\ going' = Nothing
  /\ \/ UNCHANGED <<decl, silent>>
     \/ decl' = decl \ {i} /\ Unseen(i)
  /\ UNCHANGED <<reg, off, moves, feedVars>>

-----------------------------------------------------------------------------
(* subInstances. *)

Open ==
  /\ feed = "none" /\ feed' = "read"
  /\ UNCHANGED <<stackVars, wake, got, last, fresh, wire, silent>>

Close ==
  /\ feed' = "none" /\ wake' = FALSE /\ fresh' = TRUE
  /\ got' = <<>> /\ last' = <<>>

Read ==
  /\ feed = "read"
  /\ got' = reg /\ feed' = "look"
  /\ UNCHANGED <<stackVars, wake, last, fresh, wire, silent>>

\* Only what differs from what was sent, after a first frame with everything.
Frame(now) ==
  [snapshot |-> fresh,
   changed  |-> [i \in {j \in DOMAIN now : fresh \/ j \notin DOMAIN last \/ last[j] # now[j]}
                   |-> now[i]],
   removed  |-> DOMAIN last \ DOMAIN now]

\* The configuration and the marks are read after the registry was.
Look ==
  /\ feed = "look"
  /\ LET now == Snapshot(got)
         f   == Frame(now)
     IN  /\ last' = now
         /\ wire' = IF fresh \/ DOMAIN f.changed # {} \/ f.removed # {}
                      THEN Append(wire, f) ELSE wire
  /\ feed' = "wait" /\ fresh' = FALSE /\ got' = <<>>
  /\ UNCHANGED <<stackVars, wake, silent>>

\* A sender that a full connection holds back is not waiting yet.
Woken ==
  /\ feed = "wait" /\ wake /\ Len(wire) <= WireSize
  /\ wake' = FALSE /\ feed' = "read"
  /\ UNCHANGED <<stackVars, got, last, fresh, wire, silent>>

CommandStep == \E i \in Inst : Stop(i) \/ Drop(i) \/ AddInstanceEnds(i)
Changes ==
  \/ \E i \in Inst : Change(i) \/ TakeOff(i) \/ PutBack(i) \/ RemoveInstance(i) \/ AddInstance(i)
  \/ CommandStep
FeedStep == Read \/ Look \/ Woken

\* stack.apply on a frame of the topic "instances".
Apply(shown, f) ==
  LET names == (IF f.snapshot THEN {} ELSE DOMAIN shown) \cup DOMAIN f.changed
  IN  [i \in names \ f.removed |-> IF i \in DOMAIN f.changed THEN f.changed[i] ELSE shown[i]]
=============================================================================
