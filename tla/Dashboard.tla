------------------------------ MODULE Dashboard ------------------------------
(***************************************************************************)
(* The dashboard's feed: the poller that reads Temporal, the Hub that fans *)
(* frames out, one SSE handler per connected browser, and the handlers of  *)
(* PUT and DELETE /pause that push a frame of their own.                   *)
(*                                                                         *)
(* A frame holds what one poll read: a version of the routing and one of   *)
(* the orders, read one after the other; version 0 has no orders. The      *)
(* pause state is not part of it: each SSE handler stamps it on when it    *)
(* writes the frame. The Hub's methods are atomic, they hold its mutex;    *)
(* everything between them is not.                                         *)
(***************************************************************************)
EXTENDS Naturals

CONSTANTS
    Browsers,
    Handlers,       \* bound: pause and resume requests, each made once
    MaxChanges,     \* bound: changes of the routing and of the orders
    MaxFlips,       \* bound: changes that Refresh makes to the switch
    MaxFaults       \* bound: failed polls and queries, lost connections

ASSUME DashboardAssumption ==
    /\ MaxChanges \in Nat
    /\ MaxFlips \in Nat
    /\ MaxFaults \in Nat

VARIABLES
    world,      \* what Temporal holds
    open,       \* Switch.open, the cached state
    byHandler,  \* history: open was last set by a request, not by Refresh
    poller,     \* the poller's tick
    latest,     \* Hub.latest, the zero frame at first
    hasData,    \* Hub.hasData
    conn,       \* conn[b]: off, or where b's SSE handler stands
    chan,       \* chan[b]: the frame in b's channel, which holds one
    hand,       \* hand[b]: the frame b's handler is writing, and its stamp
    shown,      \* shown[b]: the last frame that reached the page
    handler,    \* handler[h]: the pause and resume requests
    flips, faults

hubVars     == <<latest, hasData>>
browserVars == <<conn, chan, hand, shown>>
dashVars    == <<world, open, byHandler, poller, latest, hasData, conn, chan, hand, shown,
                 handler, flips, faults>>

Versions == 0..MaxChanges
Polled   == [routing : Versions, orders : Versions]
Zero     == [routing |-> 0, orders |-> 0, zero |-> TRUE]
Frames   == {[routing |-> p.routing, orders |-> p.orders, zero |-> FALSE] : p \in Polled}
            \union {Zero}
None     == [frame |-> Zero, paused |-> TRUE, empty |-> TRUE]
Stamped  == {[frame |-> f, paused |-> p, empty |-> FALSE] : f \in Frames, p \in BOOLEAN}
            \union {None}

DashInit ==
    /\ world = [routing |-> 0, orders |-> 0, zero |-> FALSE]
    /\ open \in BOOLEAN
    /\ byHandler = FALSE
    /\ poller = [at |-> "idle", frame |-> Zero]
    /\ latest = Zero
    /\ hasData = FALSE
    /\ conn = [b \in Browsers |-> "off"]
    /\ chan = [b \in Browsers |-> {}]
    /\ hand = [b \in Browsers |-> None]
    /\ shown = [b \in Browsers |-> None]
    /\ handler = [h \in Handlers |-> [at |-> "new", frame |-> Zero]]
    /\ flips = 0
    /\ faults = 0
-----------------------------------------------------------------------------
(* The Hub.                                                                *)

(* Mutant of Send: a channel without a buffer. *)
SendUnbuffered(b, frame) ==
    IF conn[b] = "select" /\ chan[b] = {} THEN {frame} ELSE chan[b]

(* A send that does not wait: into an empty channel, or nowhere. *)
Send(b, frame) == IF conn[b] # "off" /\ chan[b] = {} THEN {frame} ELSE chan[b]

Publish(frame) ==
    /\ latest' = frame
    /\ hasData' = TRUE
    /\ chan' = [b \in Browsers |-> Send(b, frame)]

Subscribe(b) ==
    /\ conn[b] = "off"
    /\ conn' = [conn EXCEPT ![b] = "select"]
    /\ chan' = [chan EXCEPT ![b] = IF hasData THEN {latest} ELSE {}]
    /\ UNCHANGED <<world, open, byHandler, poller, hubVars, hand, shown, handler, flips, faults>>
-----------------------------------------------------------------------------
(* The world, and what Refresh makes of it.                                *)

WorldChanges ==
    /\ world.routing + world.orders < MaxChanges
    /\ \/ world' = [world EXCEPT !.routing = @ + 1]
       \/ world' = [world EXCEPT !.orders = @ + 1]
    /\ UNCHANGED <<open, byHandler, poller, hubVars, browserVars, handler, flips, faults>>

(* Switch.Refresh finds that publishing was opened or closed elsewhere. *)
RefreshFlips ==
    /\ flips < MaxFlips
    /\ flips' = flips + 1
    /\ open' = ~open
    /\ byHandler' = FALSE
    /\ UNCHANGED <<world, poller, hubVars, browserVars, handler, faults>>
-----------------------------------------------------------------------------
(* The poller's tick: two reads, then Publish.                             *)

DeploymentSnapshot ==
    /\ poller.at = "idle"
    /\ poller' = [at |-> "orders", frame |-> [world EXCEPT !.orders = 0]]
    /\ UNCHANGED <<world, open, byHandler, hubVars, browserVars, handler, flips, faults>>

(* An order whose query fails is left out of the frame. *)
OpenOrders ==
    /\ poller.at = "orders"
    /\ \E orders \in {world.orders, 0} :
          /\ poller' = [at |-> "publish", frame |-> [poller.frame EXCEPT !.orders = orders]]
          /\ IF orders = world.orders
             THEN UNCHANGED faults
             ELSE faults < MaxFaults /\ faults' = faults + 1
    /\ UNCHANGED <<world, open, byHandler, hubVars, browserVars, handler, flips>>

(* A read fails: the tick ends and what was published stays. *)
PollFails ==
    /\ poller.at \in {"idle", "orders"}
    /\ faults < MaxFaults
    /\ faults' = faults + 1
    /\ poller' = [at |-> "idle", frame |-> Zero]
    /\ UNCHANGED <<world, open, byHandler, hubVars, browserVars, handler, flips>>

(* Mutant of PollPublishes: an unchanged state is not published again. *)
PollPublishesChange ==
    /\ poller.at = "publish"
    /\ \/ poller.frame # latest /\ Publish(poller.frame)
       \/ poller.frame = latest /\ UNCHANGED <<hubVars, chan>>
    /\ poller' = [at |-> "idle", frame |-> Zero]
    /\ UNCHANGED <<world, open, byHandler, conn, hand, shown, handler, flips, faults>>

PollPublishes ==
    /\ poller.at = "publish"
    /\ Publish(poller.frame)
    /\ poller' = [at |-> "idle", frame |-> Zero]
    /\ UNCHANGED <<world, open, byHandler, conn, hand, shown, handler, flips, faults>>
-----------------------------------------------------------------------------
(* handleSSE: the loop of one connection.                                  *)

TakeFrame(b) ==
    /\ conn[b] = "select"
    /\ \E frame \in chan[b] :
          hand' = [hand EXCEPT ![b] = [frame |-> frame, paused |-> FALSE, empty |-> FALSE]]
    /\ chan' = [chan EXCEPT ![b] = {}]
    /\ conn' = [conn EXCEPT ![b] = "taken"]
    /\ UNCHANGED <<world, open, byHandler, poller, hubVars, shown, handler, flips, faults>>

(* writeFrame reads Paused once, for the whole frame ... *)
Stamp(b) ==
    /\ conn[b] = "taken"
    /\ hand' = [hand EXCEPT ![b].paused = ~open]
    /\ conn' = [conn EXCEPT ![b] = "stamped"]
    /\ UNCHANGED <<world, open, byHandler, poller, hubVars, chan, shown, handler, flips, faults>>

(* ... and its regions reach the page some time later. *)
WriteFrame(b) ==
    /\ conn[b] = "stamped"
    /\ shown' = [shown EXCEPT ![b] = hand[b]]
    /\ hand' = [hand EXCEPT ![b] = None]
    /\ conn' = [conn EXCEPT ![b] = "select"]
    /\ UNCHANGED <<world, open, byHandler, poller, hubVars, chan, handler, flips, faults>>

(* The browser leaves or a write fails: unsubscribe.  The page stays as it *)
(* is, until it reconnects.                                                *)
Disconnect(b) ==
    /\ conn[b] # "off"
    /\ faults < MaxFaults
    /\ faults' = faults + 1
    /\ conn' = [conn EXCEPT ![b] = "off"]
    /\ chan' = [chan EXCEPT ![b] = {}]
    /\ hand' = [hand EXCEPT ![b] = None]
    /\ UNCHANGED <<world, open, byHandler, poller, hubVars, shown, handler, flips>>
-----------------------------------------------------------------------------
(* handlePause and handleResume.                                           *)

(* The switch has done it and cached it. *)
SwitchSet(h) ==
    /\ handler[h].at = "new"
    /\ open' \in BOOLEAN
    /\ byHandler' = TRUE
    /\ handler' = [handler EXCEPT ![h].at = "latest"]
    /\ UNCHANGED <<world, poller, hubVars, browserVars, flips, faults>>

(* Mutant of CopyLatest: there is no latest frame before the first poll. *)
CopyNothing(h) ==
    /\ handler[h].at = "latest"
    /\ handler' = [handler EXCEPT ![h] = [at |-> "publish",
                                          frame |-> IF hasData THEN latest ELSE None]]
    /\ UNCHANGED <<world, open, byHandler, poller, hubVars, browserVars, flips, faults>>

(* republishLatest: a copy of the latest frame, the zero one if need be ... *)
CopyLatest(h) ==
    /\ handler[h].at = "latest"
    /\ handler' = [handler EXCEPT ![h] = [at |-> "publish", frame |-> latest]]
    /\ UNCHANGED <<world, open, byHandler, poller, hubVars, browserVars, flips, faults>>

(* ... is published; the poller may have published a newer one meanwhile. *)
Republish(h) ==
    /\ handler[h].at = "publish"
    /\ Publish(handler[h].frame)
    /\ handler' = [handler EXCEPT ![h] = [at |-> "answered", frame |-> Zero]]
    /\ UNCHANGED <<world, open, byHandler, poller, conn, hand, shown, flips, faults>>

(* The switch reports an error: a toast, and no frame. *)
SwitchFails(h) ==
    /\ handler[h].at = "new"
    /\ handler' = [handler EXCEPT ![h].at = "answered"]
    /\ UNCHANGED <<world, open, byHandler, poller, hubVars, browserVars, flips, faults>>
-----------------------------------------------------------------------------
PollerStep == DeploymentSnapshot \/ OpenOrders \/ PollPublishes

BrowserStep(b) == TakeFrame(b) \/ Stamp(b) \/ WriteFrame(b)

HandlerStep(h) == CopyLatest(h) \/ Republish(h)

DashNext ==
    \/ WorldChanges \/ RefreshFlips \/ PollerStep \/ PollFails
    \/ \E b \in Browsers : Subscribe(b) \/ BrowserStep(b) \/ Disconnect(b)
    \/ \E h \in Handlers : SwitchSet(h) \/ SwitchFails(h) \/ HandlerStep(h)

DashSpec == DashInit /\ [][DashNext]_dashVars

(* The goroutines run: the poller's ticker ticks for as long as the backend *)
(* is up, connections are written to, and a request that was begun ends.   *)
DashFairness ==
    /\ WF_dashVars(PollerStep)
    /\ \A b \in Browsers : WF_dashVars(BrowserStep(b))
    /\ \A h \in Handlers : WF_dashVars(HandlerStep(h))

DashFairSpec == DashSpec /\ DashFairness
-----------------------------------------------------------------------------
DashTypeOK ==
    /\ world \in Frames
    /\ open \in BOOLEAN
    /\ byHandler \in BOOLEAN
    /\ poller \in [at : {"idle", "orders", "publish"}, frame : Frames]
    /\ latest \in Frames
    /\ hasData \in BOOLEAN
    /\ conn \in [Browsers -> {"off", "select", "taken", "stamped"}]
    /\ chan \in [Browsers -> SUBSET Frames]
    /\ hand \in [Browsers -> Stamped]
    /\ shown \in [Browsers -> Stamped]
    /\ handler \in [Handlers -> [at : {"new", "latest", "publish", "answered"}, frame : Frames]]
    /\ flips \in 0..MaxFlips
    /\ faults \in 0..MaxFaults

(* Once a pause or resume is answered, every connected browser shows the   *)
(* new state or has a frame coming that will: without another poll, and    *)
(* even if its channel was full and the republished frame was dropped.     *)
PauseReachesBrowsers ==
    byHandler /\ (\A h \in Handlers : handler[h].at \in {"new", "answered"})
    => \A b \in Browsers :
          \/ conn[b] \in {"off", "taken"}
          \/ chan[b] # {}
          \/ conn[b] = "stamped" /\ hand[b].paused = ~open
          \/ conn[b] = "select" /\ shown[b].paused = ~open

(* Whatever was dropped, went out in the wrong order or carried an old      *)
(* stamp: once the world and the switch rest, every connected browser ends *)
(* up with the world's state and the switch's.                             *)
BrowsersConverge ==
    \A b \in Browsers :
        <>[](conn[b] # "off" => shown[b] = [frame |-> world, paused |-> ~open, empty |-> FALSE])
=============================================================================
