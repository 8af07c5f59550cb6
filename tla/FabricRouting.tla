--------------------------- MODULE FabricRouting ----------------------------
(***************************************************************************)
(* hs_route_immediate: what the step thread does with one message, under   *)
(* sys->lock: give it a place in the payload ring, validate it, decide     *)
(* whether it is recorded, and put it into the inbox of its node, or       *)
(* refuse it and report why.                                               *)
(***************************************************************************)
EXTENDS FabricMessages, Sequences, FiniteSets

CONSTANTS
  Nodes,         \* the registered nodes, in the order of registration
  InboxSize,     \* HS_QUEUE_SIZE
  Reserve,       \* HS_SYSTEM_RT_RESERVE
  PayloadSlots,  \* payload_capacity
  LogSlots,      \* log_capacity
  Validate,      \* validate_on_send
  CountMax,      \* bound: the drop counters stay at this value once there
  None           \* an unused payload slot, no message

ASSUME NodesAssumption == Nodes \in Seq({Nodes[k] : k \in DOMAIN Nodes})
ASSUME SystemRegistered == \E k \in DOMAIN Nodes : Nodes[k] = System
ASSUME InboxAssumption == InboxSize \in Nat /\ Reserve \in 0 .. InboxSize
ASSUME PayloadAssumption == PayloadSlots \in Nat \ {0} /\ LogSlots \in Nat
ASSUME CountAssumption == CountMax \in Nat

VARIABLES
  inbox,                       \* of each node
  payload,                     \* the payload ring: head and whose data is in each slot
  log, recording, overflow,    \* the recording: messages, switch, log_overflow
  recordMask,                  \* the channels recorded
  dropped                      \* the dropped_* counters

routeVars == <<inbox, payload, log, recording, overflow, recordMask, dropped>>

Registered == {Nodes[k] : k \in DOMAIN Nodes}

RoutingInit ==
  /\ inbox = [nd \in Registered |-> <<>>]
  /\ payload = [head |-> 0, owner |-> [s \in 0 .. PayloadSlots - 1 |-> None]]
  /\ log = <<>> /\ recording = TRUE /\ overflow = FALSE
  /\ recordMask = {"RENDER"}
  /\ dropped = [errorEx |-> 0, queueFull |-> 0, systemNonRt |-> 0, result |-> 0]

Bump(counter) ==
  [dropped EXCEPT ![counter] = IF @ < CountMax THEN @ + 1 ELSE @]

ResultLost == Bump("result")

\* Mutant of NonRtLost: a drop at the reserve is not counted.
NonRtLostSilently == dropped

NonRtLost == Bump("systemNonRt")

\* hs_payload_alloc_and_copy: the next slot, whoever's data is in it.
Allocated(ring, m) ==
  [head |-> (ring.head + 1) % PayloadSlots, owner |-> [ring.owner EXCEPT ![ring.head] = Key(m)]]

\* The message and the ring once an in-band payload has moved to the ring.
Placed(m) == IF m.pay = "inband" THEN [m EXCEPT !.pay = "ring", !.pidx = payload.head] ELSE m

PlacedRing(m) == IF m.pay = "inband" THEN Allocated(payload, m) ELSE payload

Room(nd) == Len(inbox[nd]) < InboxSize
\* Mutant of Push: the newest message comes first.
PushFront(nd, m) == [inbox EXCEPT ![nd] = <<m>> \o @]

Push(nd, m) == [inbox EXCEPT ![nd] = Append(@, m)]

-----------------------------------------------------------------------------
(* Recording.                                                              *)

Wanted(m) == recording /\ m.ch \in recordMask
Logged(m) == Wanted(m) /\ Len(log) < LogSlots

\* A full log ends the recording, even when the message is then refused.
RecordOrOverflow(m) ==
  /\ overflow' = (overflow \/ (Wanted(m) /\ ~Logged(m)))
  /\ recording' = (recording /\ (Wanted(m) => Logged(m)))

Keep(m) == IF Logged(m) THEN Append(log, Placed(m)) ELSE log

-----------------------------------------------------------------------------
(* The messages that are taken.                                            *)

Passes(m) == Validate => m.valid

\* Frame markers go to the render list and to no node.
RouteFrame(m) ==
  /\ Passes(m) /\ m.op \in FrameOps
  /\ RecordOrOverflow(m)
  /\ log' = Keep(m) /\ payload' = PlacedRing(m)
  /\ UNCHANGED <<inbox, dropped, recordMask>>

\* The result is stored if there is room, then the fence if there was room
\* when it came in.
FenceLog(m, res) ==
  LET withResult == IF recording /\ "RT" \in recordMask /\ Len(log) < LogSlots
                      THEN Append(log, res) ELSE log
  IN  IF Logged(m) THEN Append(withResult, Placed(m)) ELSE withResult

\* A fence is answered on the spot, by a RESULT in the system's inbox.
RouteFence(m) ==
  LET ring == PlacedRing(m)
      res  == ResultOf(m, ring.head)
  IN  /\ Passes(m) /\ m.op = "FENCE"
      /\ RecordOrOverflow(m)
      /\ payload' = Allocated(ring, res)
      /\ IF Room(System)
           THEN /\ inbox' = Push(System, res)
                /\ log' = FenceLog(m, res)
                /\ UNCHANGED dropped
           ELSE /\ dropped' = ResultLost
                /\ log' = Keep(m)
                /\ UNCHANGED inbox
      /\ UNCHANGED recordMask

Ordinary(m) == Passes(m) /\ m.op \notin FrameOps \cup {"FENCE"}

\* The last places of the system's inbox are for RT.
Reserved(m) ==
  m.to = System /\ m.ch # "RT" /\ Len(inbox[System]) >= InboxSize - Reserve

RouteToInbox(m) ==
  /\ Ordinary(m) /\ m.to \in Registered
  /\ ~Reserved(m) /\ Room(m.to)
  /\ RecordOrOverflow(m)
  /\ inbox' = Push(m.to, Placed(m))
  /\ log' = Keep(m) /\ payload' = PlacedRing(m)
  /\ UNCHANGED <<dropped, recordMask>>

RouteAccepts(m) == RouteFrame(m) \/ RouteFence(m) \/ RouteToInbox(m)

-----------------------------------------------------------------------------
(* The messages that are refused.                                          *)

\* hs_report_error_ex: an ERROR_EX straight into the system's inbox.
ReportErrorEx(m) ==
  LET ring == PlacedRing(m)
      err  == ErrorExOf(m, ring.head)
  IN  /\ payload' = Allocated(ring, err)
      /\ IF Room(System)
           THEN inbox' = Push(System, err) /\ UNCHANGED dropped
           ELSE dropped' = Bump("errorEx") /\ UNCHANGED inbox

\* hs_report_queue_full: a QUEUE_FULL straight into the system's inbox.
ReportQueueFull(m) ==
  IF Room(System)
    THEN inbox' = Push(System, QueueFullOf(m)) /\ UNCHANGED dropped
    ELSE dropped' = Bump("queueFull") /\ UNCHANGED inbox

RouteInvalid(m) ==
  /\ ~Passes(m)
  /\ ReportErrorEx(m)
  /\ UNCHANGED <<log, recording, overflow, recordMask>>

RouteNowhere(m) ==
  /\ Ordinary(m) /\ m.to \notin Registered
  /\ RecordOrOverflow(m)
  /\ ReportErrorEx(m)
  /\ UNCHANGED <<log, recordMask>>

RouteReserved(m) ==
  /\ Ordinary(m) /\ m.to \in Registered /\ Reserved(m)
  /\ RecordOrOverflow(m)
  /\ dropped' = NonRtLost
  /\ payload' = PlacedRing(m)
  /\ UNCHANGED <<inbox, log, recordMask>>

RouteFull(m) ==
  /\ Ordinary(m) /\ m.to \in Registered
  /\ ~Reserved(m) /\ ~Room(m.to)
  /\ RecordOrOverflow(m)
  /\ ReportQueueFull(m)
  /\ payload' = PlacedRing(m)
  /\ UNCHANGED <<log, recordMask>>

RouteRefuses(m) ==
  RouteInvalid(m) \/ RouteNowhere(m) \/ RouteReserved(m) \/ RouteFull(m)
=============================================================================
