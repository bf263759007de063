-------------------------- MODULE Dashboard_proofs --------------------------
(***************************************************************************)
(* Theorems about the dashboard's feed, for any number of browsers and of  *)
(* pause and resume requests, and any number of changes and faults: the    *)
(* types, and that an answered request reaches every connected browser.    *)
(***************************************************************************)
EXTENDS Dashboard, TLAPS

(* A frame that a poll reads, unlike the zero frame. *)
ReadFrames == [routing : Versions, orders : Versions, zero : {FALSE}]

(* The world moves within its bound, the frame under way was read from it, *)
(* and a handler past its select has a frame in hand.                      *)
FeedInv ==
    /\ DashTypeOK
    /\ world \in ReadFrames
    /\ world.routing + world.orders <= MaxChanges
    /\ poller.at = "orders" => poller.frame \in ReadFrames
    /\ \A b \in Browsers : conn[b] \in {"taken", "stamped"} => ~hand[b].empty

(* A frame is the zero frame or one that a poll can read. *)
LEMMA FramesAreRead == Frames = ReadFrames \union {Zero}
<1>1. ASSUME NEW f \in ReadFrames PROVE f \in Frames
  <2>1. [routing |-> f.routing, orders |-> f.orders] \in Polled
    BY DEF ReadFrames, Polled
  <2>2. f = [routing |-> f.routing, orders |-> f.orders, zero |-> FALSE]
    BY DEF ReadFrames
  <2> QED
    BY <2>1, <2>2 DEF Frames
<1>2. ASSUME NEW p \in Polled
      PROVE  [routing |-> p.routing, orders |-> p.orders, zero |-> FALSE] \in ReadFrames
  BY DEF ReadFrames, Polled
<1> QED
  BY <1>1, <1>2 DEF Frames

(* A stamped frame is a frame with a pause state, or None. *)
LEMMA StampedFrames ==
    Stamped = [frame : Frames, paused : BOOLEAN, empty : {FALSE}] \union {None}
<1>1. ASSUME NEW s \in [frame : Frames, paused : BOOLEAN, empty : {FALSE}]
      PROVE  s \in Stamped
  <2>1. s = [frame |-> s.frame, paused |-> s.paused, empty |-> FALSE]
    OBVIOUS
  <2> QED
    BY <2>1 DEF Stamped
<1>2. ASSUME NEW s \in Stamped, s # None
      PROVE  s \in [frame : Frames, paused : BOOLEAN, empty : {FALSE}]
  <2>1. PICK f \in Frames, p \in BOOLEAN : s = [frame |-> f, paused |-> p, empty |-> FALSE]
    BY <1>2 DEF Stamped
  <2> QED
    BY <2>1
<1>3. None \in Stamped
  BY DEF Stamped
<1> QED
  BY <1>1, <1>2, <1>3

(* Nothing has been read at first. *)
LEMMA InitFeedInv == DashInit => FeedInv
<1> SUFFICES ASSUME DashInit PROVE FeedInv
  OBVIOUS
<1>1. world \in ReadFrames /\ world.routing + world.orders <= MaxChanges
  BY DashboardAssumption DEF DashInit, ReadFrames, Versions
<1>2. Zero \in Frames /\ None \in Stamped
  BY FramesAreRead, StampedFrames
<1>3. DashTypeOK
  <2>1. /\ world \in Frames /\ latest \in Frames
        /\ poller \in [at : {"idle", "orders", "publish"}, frame : Frames]
        /\ handler \in [Handlers ->
                        [at : {"new", "latest", "publish", "answered"}, frame : Frames]]
    BY <1>1, <1>2, FramesAreRead DEF DashInit
  <2>2. open \in BOOLEAN /\ byHandler \in BOOLEAN /\ hasData \in BOOLEAN
    BY DEF DashInit
  <2>3. /\ conn \in [Browsers -> {"off", "select", "taken", "stamped"}]
        /\ chan \in [Browsers -> SUBSET Frames]
        /\ hand \in [Browsers -> Stamped]
        /\ shown \in [Browsers -> Stamped]
    BY <1>2 DEF DashInit
  <2>4. flips \in 0..MaxFlips /\ faults \in 0..MaxFaults
    BY DashboardAssumption DEF DashInit
  <2> QED
    BY <2>1, <2>2, <2>3, <2>4 DEF DashTypeOK
<1> QED
  BY <1>1, <1>3 DEF DashInit, FeedInv

(* What Publish leaves in the channels. *)
LEMMA PublishTypeOK ==
    ASSUME DashTypeOK, NEW frame \in Frames, Publish(frame)
    PROVE  /\ latest' \in Frames /\ hasData' = TRUE
           /\ chan' \in [Browsers -> SUBSET Frames]
BY DEF DashTypeOK, Publish, Send

(* The world changes within its bound; a flip changes no frame. *)
LEMMA WorldFeedInv ==
    ASSUME FeedInv, WorldChanges \/ RefreshFlips
    PROVE  FeedInv'
<1>1. CASE WorldChanges
  <2>1. /\ world \in [routing : Versions, orders : Versions, zero : {FALSE}]
        /\ world.routing + world.orders < MaxChanges
    BY <1>1 DEF WorldChanges, FeedInv, ReadFrames
  <2>2. world.routing \in Nat /\ world.orders \in Nat
    BY <2>1 DEF Versions
  <2>3. world.routing + 1 \in Versions /\ world.orders + 1 \in Versions
    BY <2>1, <2>2, DashboardAssumption DEF Versions
  <2>4. ASSUME world' = [world EXCEPT !.routing = @ + 1]
        PROVE  world' \in ReadFrames /\ world'.routing + world'.orders <= MaxChanges
    <3>1. world' \in ReadFrames
      BY <2>1, <2>3, <2>4 DEF ReadFrames
    <3>2. world'.routing = world.routing + 1 /\ world'.orders = world.orders
      BY <2>1, <2>4
    <3>3. world'.routing + world'.orders <= MaxChanges
      BY <2>1, <2>2, <3>2, DashboardAssumption
    <3> QED
      BY <3>1, <3>3
  <2>5. ASSUME world' = [world EXCEPT !.orders = @ + 1]
        PROVE  world' \in ReadFrames /\ world'.routing + world'.orders <= MaxChanges
    <3>1. world' \in ReadFrames
      BY <2>1, <2>3, <2>5 DEF ReadFrames
    <3>2. world'.routing = world.routing /\ world'.orders = world.orders + 1
      BY <2>1, <2>5
    <3>3. world'.routing + world'.orders <= MaxChanges
      BY <2>1, <2>2, <3>2, DashboardAssumption
    <3> QED
      BY <3>1, <3>3
  <2>6. world' \in ReadFrames /\ world'.routing + world'.orders <= MaxChanges
    BY <1>1, <2>4, <2>5 DEF WorldChanges
  <2> QED
    BY <1>1, <2>6, FramesAreRead DEF WorldChanges, FeedInv, DashTypeOK, hubVars, browserVars
<1>2. CASE RefreshFlips
  <2>1. flips' \in 0..MaxFlips
    BY <1>2, DashboardAssumption DEF RefreshFlips, FeedInv, DashTypeOK
  <2>2. open' \in BOOLEAN /\ byHandler' \in BOOLEAN
    BY <1>2 DEF RefreshFlips
  <2> QED
    BY <1>2, <2>1, <2>2 DEF RefreshFlips, FeedInv, DashTypeOK, hubVars, browserVars
<1> QED
  BY <1>1, <1>2

(* A poll reads the versions of the world, each as it is. *)
LEMMA PollerFeedInv ==
    ASSUME FeedInv, PollerStep \/ PollFails
    PROVE  FeedInv'
<1>1. Zero \in Frames /\ ReadFrames \subseteq Frames
  BY FramesAreRead
<1>2. CASE DeploymentSnapshot
  <2>1. [world EXCEPT !.orders = 0] \in ReadFrames
    <3>1. 0 \in Versions /\ world \in ReadFrames
      BY DashboardAssumption DEF FeedInv, Versions
    <3> QED
      BY <3>1 DEF ReadFrames
  <2> QED
    BY <1>1, <1>2, <2>1 DEF DeploymentSnapshot, FeedInv, DashTypeOK, hubVars, browserVars
<1>3. CASE OpenOrders
  <2>1. PICK orders \in {world.orders, 0} :
           /\ poller' = [at |-> "publish", frame |-> [poller.frame EXCEPT !.orders = orders]]
           /\ faults' \in 0..MaxFaults
    BY <1>3, DashboardAssumption DEF OpenOrders, FeedInv, DashTypeOK
  <2>2. orders \in Versions
    BY DashboardAssumption DEF FeedInv, ReadFrames, Versions
  <2>3. [poller.frame EXCEPT !.orders = orders] \in ReadFrames
    BY <1>3, <2>2 DEF OpenOrders, FeedInv, ReadFrames
  <2> QED
    BY <1>1, <1>3, <2>1, <2>3 DEF OpenOrders, FeedInv, DashTypeOK, hubVars, browserVars
<1>4. CASE PollFails
  BY <1>1, <1>4, DashboardAssumption DEF PollFails, FeedInv, DashTypeOK, hubVars, browserVars
<1>5. CASE PollPublishes
  <2>1. /\ latest' \in Frames /\ hasData' = TRUE
        /\ chan' \in [Browsers -> SUBSET Frames]
    BY <1>5, PublishTypeOK DEF PollPublishes, FeedInv, DashTypeOK
  <2> QED
    BY <1>1, <1>5, <2>1 DEF PollPublishes, FeedInv, DashTypeOK
<1> QED
  BY <1>2, <1>3, <1>4, <1>5 DEF PollerStep

(* Browsers only pass frames on; one that is taken is never None. *)
LEMMA BrowserFeedInv ==
    ASSUME FeedInv, NEW b \in Browsers, Subscribe(b) \/ BrowserStep(b) \/ Disconnect(b)
    PROVE  FeedInv'
<1> USE DEF FeedInv, DashTypeOK, hubVars
<1>1. None \in Stamped
  BY StampedFrames
<1>2. CASE Subscribe(b)
  BY <1>2 DEF Subscribe
<1>3. CASE TakeFrame(b)
  <2>1. PICK frame \in chan[b] :
           hand' = [hand EXCEPT ![b] = [frame |-> frame, paused |-> FALSE, empty |-> FALSE]]
    BY <1>3 DEF TakeFrame
  <2>2. [frame |-> frame, paused |-> FALSE, empty |-> FALSE] \in Stamped
    BY StampedFrames
  <2> QED
    BY <1>3, <2>1, <2>2 DEF TakeFrame
<1>4. CASE Stamp(b)
  <2>1. hand[b] \in [frame : Frames, paused : BOOLEAN, empty : {FALSE}]
    <3>1. hand[b] \in Stamped /\ ~hand[b].empty
      BY <1>4 DEF Stamp
    <3>2. None.empty
      BY DEF None
    <3> QED
      BY <3>1, <3>2, StampedFrames
  <2>2. [hand[b] EXCEPT !.paused = ~open] \in [frame : Frames, paused : BOOLEAN, empty : {FALSE}]
    BY <2>1
  <2>3. hand' \in [Browsers -> Stamped] /\ ~hand'[b].empty
    BY <1>4, <2>2, StampedFrames DEF Stamp
  <2> QED
    BY <1>4, <2>3 DEF Stamp
<1>5. CASE WriteFrame(b)
  BY <1>1, <1>5 DEF WriteFrame
<1>6. CASE Disconnect(b)
  BY <1>1, <1>6, DashboardAssumption DEF Disconnect
<1> QED
  BY <1>2, <1>3, <1>4, <1>5, <1>6 DEF BrowserStep

(* A handler republishes the frame that the Hub holds. *)
LEMMA HandlerFeedInv ==
    ASSUME FeedInv, NEW h \in Handlers, SwitchSet(h) \/ SwitchFails(h) \/ HandlerStep(h)
    PROVE  FeedInv'
<1> USE DEF FeedInv, DashTypeOK, hubVars, browserVars
<1>1. CASE SwitchSet(h) \/ SwitchFails(h)
  <2>1. handler' \in [Handlers ->
                         [at : {"new", "latest", "publish", "answered"}, frame : Frames]]
    BY <1>1 DEF SwitchSet, SwitchFails
  <2>2. open' \in BOOLEAN /\ byHandler' \in BOOLEAN
    BY <1>1 DEF SwitchSet, SwitchFails
  <2> QED
    BY <1>1, <2>1, <2>2 DEF SwitchSet, SwitchFails
<1>2. CASE CopyLatest(h)
  BY <1>2 DEF CopyLatest
<1>3. CASE Republish(h)
  <2>1. /\ latest' \in Frames /\ hasData' = TRUE
        /\ chan' \in [Browsers -> SUBSET Frames]
    BY <1>3, PublishTypeOK DEF Republish
  <2> QED
    BY <1>3, <2>1, FramesAreRead DEF Republish
<1> QED
  BY <1>1, <1>2, <1>3 DEF HandlerStep

(* Every step keeps the types and the frames. *)
LEMMA NextFeedInv == FeedInv /\ [DashNext]_dashVars => FeedInv'
<1>1. FeedInv /\ UNCHANGED dashVars => FeedInv'
  BY DEF FeedInv, DashTypeOK, dashVars
<1> QED
  BY <1>1, WorldFeedInv, PollerFeedInv, BrowserFeedInv, HandlerFeedInv DEF DashNext

(* The frames are what was polled, always. *)
LEMMA FeedInvariant == DashSpec => []FeedInv
BY InitFeedInv, NextFeedInv, PTL DEF DashSpec

(* The frames in the Hub, the channels, the handlers and the pages are     *)
(* frames that were polled, or the zero frame.                             *)
THEOREM DashTypeCorrect == DashSpec => []DashTypeOK
<1>1. FeedInv => DashTypeOK
  BY DEF FeedInv
<1> QED
  BY <1>1, FeedInvariant, PTL
-----------------------------------------------------------------------------
(* Delivery to the browsers.                                               *)

Quiet == \A h \in Handlers : handler[h].at \in {"new", "answered"}

(* Once a request is answered there is a frame for whoever connects, and   *)
(* every browser that is connected has it or shows it.                     *)
ReachInv ==
    /\ byHandler /\ Quiet => hasData
    /\ PauseReachesBrowsers

(* Publishing reaches every connected browser: a full channel has a frame  *)
(* that is still to be stamped.                                            *)
LEMMA PublishReaches ==
    ASSUME FeedInv, NEW frame \in Frames, Publish(frame), UNCHANGED conn
    PROVE  /\ hasData' = TRUE
           /\ \A b \in Browsers : conn'[b] = "off" \/ chan'[b] # {}
BY DEF Publish, Send

(* No request has been made at first. *)
LEMMA InitReachInv == DashInit => ReachInv
BY DEF DashInit, ReachInv, PauseReachesBrowsers

(* Every step leaves the pause state shown, or on its way. *)
LEMMA NextReachInv == FeedInv /\ ReachInv /\ [DashNext]_dashVars => ReachInv'
<1> SUFFICES ASSUME FeedInv, ReachInv, [DashNext]_dashVars
             PROVE  ReachInv'
  OBVIOUS
<1> USE DEF ReachInv, PauseReachesBrowsers, Quiet, hubVars, browserVars
<1>0. DashTypeOK
  BY DEF FeedInv
<1>1. CASE WorldChanges \/ RefreshFlips
  BY <1>1 DEF WorldChanges, RefreshFlips
<1>2. CASE DeploymentSnapshot \/ OpenOrders \/ PollFails
  BY <1>2 DEF DeploymentSnapshot, OpenOrders, PollFails
<1>3. CASE PollPublishes
  BY <1>0, <1>3, PublishReaches DEF PollPublishes, DashTypeOK
<1>4. ASSUME NEW b \in Browsers, Subscribe(b) \/ BrowserStep(b) \/ Disconnect(b)
      PROVE  ReachInv'
  <2>1. /\ UNCHANGED <<open, byHandler, hasData, latest, handler>>
        /\ \A c \in Browsers : c # b =>
              /\ conn'[c] = conn[c] /\ chan'[c] = chan[c]
              /\ hand'[c] = hand[c] /\ shown'[c] = shown[c]
    BY <1>0, <1>4 DEF DashTypeOK, Subscribe, BrowserStep, TakeFrame, Stamp, WriteFrame, Disconnect
  <2>2. ASSUME byHandler, Quiet
        PROVE  \/ conn'[b] \in {"off", "taken"}
               \/ chan'[b] # {}
               \/ conn'[b] = "stamped" /\ hand'[b].paused = ~open
               \/ conn'[b] = "select" /\ shown'[b].paused = ~open
    <3>1. CASE Subscribe(b)
      BY <1>0, <2>2, <3>1 DEF Subscribe, DashTypeOK
    <3>2. CASE TakeFrame(b) \/ Disconnect(b)
      BY <1>0, <3>2 DEF TakeFrame, Disconnect, DashTypeOK
    <3>3. CASE Stamp(b)
      <4>1. hand[b] \in [frame : Frames, paused : BOOLEAN, empty : {FALSE}]
        <5>1. hand[b] \in Stamped /\ ~hand[b].empty
          BY <1>0, <3>3 DEF Stamp, FeedInv, DashTypeOK
        <5>2. None.empty
          BY DEF None
        <5> QED
          BY <5>1, <5>2, StampedFrames
      <4>2. hand'[b] = [hand[b] EXCEPT !.paused = ~open]
        BY <1>0, <3>3 DEF Stamp, DashTypeOK
      <4>3. hand'[b].paused = ~open /\ conn'[b] = "stamped"
        BY <1>0, <3>3, <4>1, <4>2 DEF Stamp, DashTypeOK
      <4> QED
        BY <4>3
    <3>4. CASE WriteFrame(b)
      <4>1. conn[b] = "stamped" /\ conn'[b] = "select" /\ shown'[b] = hand[b] /\ chan' = chan
        BY <1>0, <3>4 DEF WriteFrame, DashTypeOK
      <4> QED
        BY <2>2, <4>1
    <3> QED
      BY <1>4, <3>1, <3>2, <3>3, <3>4 DEF BrowserStep
  <2> QED
    BY <2>1, <2>2
<1>5. ASSUME NEW h \in Handlers, SwitchSet(h) \/ CopyLatest(h)
      PROVE  ReachInv'
  <2>1. handler'[h].at \in {"latest", "publish"}
    BY <1>0, <1>5 DEF SwitchSet, CopyLatest, DashTypeOK
  <2> QED
    BY <2>1
<1>6. ASSUME NEW h \in Handlers, Republish(h)
      PROVE  ReachInv'
  BY <1>0, <1>6, PublishReaches DEF Republish, DashTypeOK
<1>7. ASSUME NEW h \in Handlers, SwitchFails(h)
      PROVE  ReachInv'
  <2>1. Quiet' => Quiet
    BY <1>0, <1>7 DEF SwitchFails, DashTypeOK
  <2> QED
    BY <1>7, <2>1 DEF SwitchFails
<1>8. CASE UNCHANGED dashVars
  BY <1>8 DEF dashVars
<1> QED
  BY <1>1, <1>2, <1>3, <1>4, <1>5, <1>6, <1>7, <1>8 DEF DashNext, PollerStep, HandlerStep

(* A request that is answered has reached every connected browser, or has  *)
(* a frame on its way there that will be stamped with the new state.       *)
THEOREM RequestsReachBrowsers == DashSpec => []PauseReachesBrowsers
<1>1. ReachInv => PauseReachesBrowsers
  BY DEF ReachInv
<1> QED
  BY <1>1, InitReachInv, NextReachInv, FeedInvariant, PTL DEF DashSpec
=============================================================================
