-------------------------------- MODULE Hub --------------------------------
(***************************************************************************)
(* The desktop's view of one stack: the hub that finds its daemon          *)
(* (hub.Refresh), the object that keeps a subscription open to it          *)
(* (stack.keep) and the pages that want an optional topic while they are   *)
(* on the screen (Watch), above the daemon's feed of module Feed.          *)
(*                                                                         *)
(* One optional topic stands for the two there are, meters and logs: both  *)
(* go through the same counts.  An answer to the snapshot request takes    *)
(* no time.  What the topic carries is in LogStore.                        *)
(***************************************************************************)
EXTENDS Feed

CONSTANT Page  \* the pages of the app

ASSUME HubConstants == IsFiniteSet(Page)

VARIABLES
  up,     \* a daemon holds the control socket
  lives,  \* how many daemons there have been before it
  stack,  \* which stack object the hub has, 0 for none
  keep,   \* where its subscription loop is
  conn,   \* stack.conn
  shown,  \* stack.instances
  want,   \* stack.want: the pages that need the topic, as the object counts them
  wants,  \* Hub.wants: the same as the hub counts them
  armed,  \* stack.resub is set
  ended,  \* the context of the subscription is cancelled
  topic,  \* the subscription asked for the topic
  page,   \* where a page is in Watch or the release
  bound,  \* the stack object that its release will tell, 0 for none
  enders, \* the pages about to end the present subscription
  taken   \* history: what the object's count began with

pageVars == <<page, bound, wants>>
loopVars == <<keep, conn, shown, armed, ended, topic>>
vars == <<stackVars, feedVars, silent, up, lives, stack, loopVars, want, pageVars, enders, taken>>

Init ==
  /\ FeedInit
  /\ up = TRUE /\ lives = 0
  /\ stack = 0 /\ keep = "off" /\ conn = "connecting" /\ shown = <<>>
  /\ want = 0 /\ wants = 0 /\ taken = 0
  /\ armed = FALSE /\ ended = FALSE /\ topic = FALSE
  /\ page = [p \in Page |-> "away"] /\ bound = [p \in Page |-> 0] /\ enders = {}

\* The subscription is over at both ends.
HangUp == Close /\ wire' = <<>>

-----------------------------------------------------------------------------
(* The daemon. *)

Daemon ==
  /\ up /\ (Changes \/ FeedStep)
  /\ UNCHANGED <<up, lives, stack, loopVars, want, pageVars, enders, taken>>

\* It stops, is killed or crashes.
DaemonEnds ==
  /\ up /\ Move
  /\ up' = FALSE
  /\ Close
  /\ UNCHANGED <<reg, decl, off, going, wire, silent, lives, stack, loopVars, want, pageVars,
                 enders, taken>>

\* The next one reads the configuration again and has an empty registry.
DaemonStarts ==
  /\ ~up
  /\ up' = TRUE /\ lives' = lives + 1
  /\ reg' = [i \in Inst |-> 0] /\ decl' = Declared /\ off' = {} /\ silent' = {}
  /\ going' = Nothing
  /\ UNCHANGED <<moves, feedVars, stack, loopVars, want, pageVars, enders, taken>>

-----------------------------------------------------------------------------
(* stack.keep. *)

LoopStep == UNCHANGED <<stackVars, silent, up, lives, stack, want, pageVars, taken>>
Quiet == UNCHANGED <<feedVars, enders>>

\* stack.snapshot
Ask ==
  /\ keep = "ask" /\ keep' = "arm"
  /\ IF up THEN shown' = Snapshot(reg) /\ conn' = "live" ELSE UNCHANGED <<shown, conn>>
  /\ UNCHANGED <<armed, ended, topic>> /\ LoopStep /\ Quiet

\* One section under the lock: what ends the subscription is there from the
\* moment its topics are chosen.
Arm ==
  /\ keep = "arm" /\ keep' = "dial"
  /\ armed' = TRUE /\ ended' = FALSE
  /\ topic' = (want > 0)
  /\ UNCHANGED <<conn, shown>> /\ LoopStep /\ Quiet

Dial ==
  /\ keep = "dial" /\ up
  /\ keep' = "stream"
  /\ Open /\ UNCHANGED <<conn, shown, armed, ended, topic, enders>> /\ LoopStep

Disarm == armed' = FALSE /\ ended' = FALSE /\ topic' = FALSE /\ enders' = {}

\* Mutant: The loop ends with the first subscription that fails.
GiveUpForGood ==
  /\ keep' = "off" /\ conn' = "down" /\ Disarm
  /\ UNCHANGED shown /\ LoopStep

\* The subscription failed: the loop waits, and asks again.
GiveUp ==
  /\ keep' = "ask" /\ conn' = "down" /\ Disarm
  /\ UNCHANGED shown /\ LoopStep

\* Nobody answers, or the context ended before somebody did, which is an error
\* of the dial and no end on purpose.
DialFails ==
  /\ keep = "dial" /\ (~up \/ ended)
  /\ GiveUp /\ UNCHANGED feedVars

\* A frame makes the connection live.
Receive ==
  /\ keep = "stream" /\ wire # <<>>
  /\ shown' = Apply(shown, Head(wire)) /\ wire' = Tail(wire)
  /\ conn' = "live"
  /\ UNCHANGED <<wake, feed, got, last, fresh, keep, armed, ended, topic, enders>> /\ LoopStep

\* Mutant: The loop takes the end of its subscription for its own.
ResubscribeNot ==
  /\ keep = "stream" /\ ended
  /\ keep' = "off" /\ Disarm
  /\ HangUp /\ UNCHANGED <<conn, shown>> /\ LoopStep

\* Ended on purpose: straight back.
Resubscribe ==
  /\ keep = "stream" /\ ended
  /\ keep' = "ask" /\ Disarm
  /\ HangUp /\ UNCHANGED <<conn, shown>> /\ LoopStep

\* The daemon hung up.  What had arrived may be read first or not at all.
Dropped ==
  /\ keep = "stream" /\ feed = "none" /\ ~ended
  /\ HangUp /\ GiveUp

Loop == Ask \/ Arm \/ Dial \/ DialFails \/ Receive \/ Resubscribe \/ Dropped

-----------------------------------------------------------------------------
(* The hub and its pages. *)

\* The object starts with what the hub's pages want, whichever object their
\* releases are going to tell.
Found ==
  /\ up /\ stack = 0
  /\ stack' = lives + 1
  /\ want' = wants /\ taken' = wants
  /\ keep' = "ask" /\ conn' = "connecting" /\ shown' = <<>>
  /\ UNCHANGED <<armed, ended, topic, feedVars, enders>>

Lost ==
  /\ ~up /\ stack # 0
  /\ stack' = 0 /\ keep' = "off" /\ want' = 0 /\ taken' = 0
  /\ conn' = "connecting" /\ shown' = <<>>
  /\ Disarm /\ HangUp

Refresh ==
  /\ Found \/ Lost
  /\ UNCHANGED <<stackVars, silent, up, lives, pageVars>>

PageStep == UNCHANGED <<reg, decl, off, going, feedVars, silent, up, lives, stack, loopVars, taken>>

\* Hub.Watch: counted by the hub, then by the object it has.
Watch(p) ==
  /\ page[p] = "away" /\ Move
  /\ wants' = wants + 1
  /\ bound' = [bound EXCEPT ![p] = stack]
  /\ page' = [page EXCEPT ![p] = IF stack = 0 THEN "watching" ELSE "joining"]
  /\ UNCHANGED <<want, enders>> /\ PageStep

\* Counts one more or one less in the object the page is bound to, if that is
\* still there, and takes the means to end its subscription when the count
\* leaves or reaches zero.
Counted(p, n, crossing, to) ==
  LET present == bound[p] = stack
      ends    == present /\ crossing /\ armed
  IN  /\ want' = IF present THEN n ELSE want
      /\ enders' = IF ends THEN enders \cup {p} ELSE enders
      /\ page' = [page EXCEPT ![p] = IF ends THEN "ending" ELSE to]
      /\ UNCHANGED <<wants, moves>> /\ PageStep

\* stack.watch
Join(p) ==
  /\ page[p] = "joining"
  /\ Counted(p, want + 1, want = 0, "watching")
  /\ UNCHANGED bound

\* The release: a page that found no object has nobody to tell.
Release(p) ==
  /\ page[p] = "watching"
  /\ wants' = wants - 1
  /\ page' = [page EXCEPT ![p] = IF bound[p] = 0 THEN "away" ELSE "leaving"]
  /\ UNCHANGED <<moves, want, bound, enders>> /\ PageStep

\* Mutant: The count is compared before it is lowered.
LeaveLate(p) ==
  /\ page[p] = "leaving"
  /\ Counted(p, want - 1, want = 0, "away")
  /\ bound' = [bound EXCEPT ![p] = 0]

Leave(p) ==
  /\ page[p] = "leaving"
  /\ Counted(p, want - 1, want = 1, "away")
  /\ bound' = [bound EXCEPT ![p] = 0]

\* The end itself comes after the lock is released: by then the subscription may
\* have been replaced already.
EndSub(p) ==
  /\ page[p] = "ending"
  /\ ended' = (ended \/ p \in enders)
  /\ enders' = enders \ {p}
  /\ page' = [page EXCEPT ![p] = IF bound[p] = 0 THEN "away" ELSE "watching"]
  /\ UNCHANGED <<stackVars, feedVars, silent, up, lives, stack, keep, conn, shown, armed, topic,
                 want, bound, wants, taken>>

Settle(p) == Join(p) \/ EndSub(p) \/ Leave(p)
Pages == \E p \in Page : Watch(p) \/ Release(p) \/ Settle(p)

Next == Daemon \/ DaemonEnds \/ DaemonStarts \/ Loop \/ Refresh \/ Pages

Spec == Init /\ [][Next]_vars

\* The Go scheduler runs the loops and the daemon's goroutines, Refresh is on a
\* ticker, and a page that has begun to watch or leave goes on.
FairSpec ==
  /\ Spec
  /\ WF_vars(Daemon /\ FeedStep) /\ WF_vars(Daemon /\ CommandStep)
  /\ WF_vars(Loop) /\ WF_vars(Refresh)
  /\ \A p \in Page : WF_vars(Settle(p))

-----------------------------------------------------------------------------
(* Properties. *)

Views == [entry : 0..MaxMove, declared : BOOLEAN, disabled : BOOLEAN]
Partial(S) == UNION {[D -> S] : D \in SUBSET Inst}

\* The variables have their types: the counts of the pages stay within the
\* number of pages, twice that for an object that took some over.
TypeOK ==
  /\ reg \in [Inst -> 0..MaxMove] /\ decl \subseteq Inst /\ off \subseteq Inst
  /\ going \in {Nothing} \cup ({"off", "remove", "drop", "add"} \X Inst)
  /\ feed \in {"none", "read", "look", "wait"}
  /\ last \in Partial(Views) /\ shown \in Partial(Views)
  /\ \A k \in DOMAIN wire : /\ wire[k].changed \in Partial(Views)
                            /\ wire[k].removed \subseteq Inst
  /\ Len(wire) <= WireSize + 1
  /\ keep \in {"off", "ask", "arm", "dial", "stream"}
  /\ conn \in {"connecting", "live", "down"}
  /\ wants \in 0..Cardinality(Page) /\ want \in 0..2 * Cardinality(Page)
  /\ enders \subseteq Page

\* A feed that waits with no signal has sent what every instance is, those
\* excepted that a command changed without a signal: "it cannot miss a change"
\* holds of what the registry says (daemon.subInstances, registry.emit).
MissesNoChange ==
  up /\ feed = "wait" /\ ~wake =>
    \A i \in Inst \ silent :
      LET now == Snapshot(reg)
      IN  IF i \in DOMAIN now THEN i \in DOMAIN last /\ last[i] = now[i] ELSE i \notin DOMAIN last

\* What a view says of an instance: nothing, or one thing.
Of(view, i) == {view[j] : j \in DOMAIN view \cap {i}}

\* Whoever holds the view and receives the frames ends up with what end says of
\* an instance: the last frame about it decides, or the view if there is none.
EndsWith(view, frames, end, i) ==
  LET about == {k \in DOMAIN frames :
                  \/ frames[k].snapshot
                  \/ i \in DOMAIN frames[k].changed \cup frames[k].removed}
      said(f) == IF i \in f.removed THEN {} ELSE Of(f.changed, i)
  IN  /\ about = {} => Of(view, i) = Of(end, i)
      /\ \A k \in about : (\A j \in about : j <= k) => said(frames[k]) = Of(end, i)

\* What the page holds and the frames on their way add up to what the daemon
\* believes it has told (subInstances' last against stack.apply).
FramesAddUp ==
  keep = "stream" /\ feed # "none" /\ ~fresh =>
    \A i \in Inst : EndsWith(shown, wire, last, i)

\* What was signalled is sent, and what was sent adds up.
PageIsTold == MissesNoChange /\ FramesAddUp

Bound(p) == bound[p] = stack /\ page[p] \in {"watching", "leaving", "ending"}

\* The object's count is the pages that will give it back, and those it took
\* over from the hub, which nobody ever takes off it (hub.Watch, stack.watch,
\* hub.Refresh).
CountsAddUp ==
  stack # 0 => want = taken + Cardinality({p \in Page : Bound(p)})

\* A subscription carries the topic exactly when somebody is counted for it, or
\* is about to be replaced: no page comes or goes unnoticed between the choice
\* of the topics and the means to end it (stack.keep, stack.watch).
TopicIsCurrent ==
  armed /\ ~ended /\ enders = {} => (topic <=> want > 0)

\* A page that watches is counted, and with no page the topic is not streamed,
\* "nothing streams for a page nobody is looking at", unless the object took a
\* count over when the hub found it.
StreamsWhatIsWatched ==
  stack # 0 /\ armed /\ ~ended /\ enders = {} =>
    /\ (\E p \in Page : page[p] = "watching") => topic
    /\ (\A p \in Page : page[p] = "away") /\ taken = 0 => ~topic

\* Both counts of the pages and the subscription made from them agree, whatever
\* pages and daemons come and go in between.
SubscriptionIsCurrent ==
  TypeOK /\ CountsAddUp /\ TopicIsCurrent /\ StreamsWhatIsWatched

\* Once a daemon stays and its stack no longer changes, the page ends up showing
\* it as it is, whatever the pages' comings and goings (stack.keep's retries and
\* resubscriptions over the feed), as long as every change was signalled.
ShowsTheStack ==
  <>[](up /\ silent = {}) => <>[](stack # 0 /\ shown = Snapshot(reg))

\* A page that goes on watching a running stack gets its topic.
WatchedIsStreamed ==
  \A p \in Page : <>[](up /\ page[p] = "watching") => <>[](keep = "stream" /\ topic)
=============================================================================
