------------------------------ MODULE SpscLane ------------------------------
(***************************************************************************)
(* One single-producer single-consumer lane of the fabric                  *)
(* (HSSpscQueue): a ring of Size slots, written by the one thread that     *)
(* owns the producer id (hs_spsc_push) and drained by the step thread in   *)
(* batches (the lane loop of hs_step).  The two threads share the ring     *)
(* without a lock, so every access to shared memory is a step of its own.  *)
(*                                                                         *)
(* head and tail are free-running 32-bit counters that wrap (module Ring,  *)
(* Size = HS_SPSC_SIZE).  The C code publishes with release stores and     *)
(* reads with acquire loads, so the slot written before a store of tail is *)
(* seen by whoever loads that tail: interleaved steps are enough.          *)
(***************************************************************************)
EXTENDS Ring, Sequences

CONSTANTS
  Batch,     \* 32: the largest batch routed before head is stored
  Budget     \* the channel's drain budget for one step

ASSUME BatchAssumption == Batch \in Nat \ {0} /\ Budget \in Nat \ {0}

VARIABLES
  slots, head, tail,     \* the shared ring
  pushPc, pushMsg,       \* producer: where in hs_spsc_push, and with which message
  drainPc, chead,        \* step thread: where in the drain, the head it loaded
  taken, done,           \* the batch (n), and how many of it are routed (i)
  left,                  \* what is left of the channel's budget in this drain
  routed                 \* the message the step thread routed last

pushVars == <<pushPc, pushMsg>>
drainVars == <<drainPc, chead, taken, done, left>>
laneVars == <<slots, head, tail, pushVars, drainVars, routed>>

Min2(a, b) == IF a <= b THEN a ELSE b

LaneInit ==
  /\ slots = [s \in Slot |-> None]
  /\ head = 0 /\ tail = 0
  /\ pushPc = "idle" /\ pushMsg = None
  /\ drainPc = "idle" /\ chead = 0 /\ taken = 0 /\ done = 0 /\ left = 0
  /\ routed = None

-----------------------------------------------------------------------------
(* The producer: hs_spsc_push.                                             *)

\* Mutant of PushRoom: the full test lets one message too many in.
PushRoomOffByOne(m) ==
  /\ pushPc = "idle"
  /\ Dist(tail, head) <= Size
  /\ pushPc' = "write" /\ pushMsg' = m
  /\ UNCHANGED <<slots, head, tail, drainVars, routed>>

\* Loads its own tail and the consumer's head and finds room.
PushRoom(m) ==
  /\ pushPc = "idle"
  /\ Dist(tail, head) < Size
  /\ pushPc' = "write" /\ pushMsg' = m
  /\ UNCHANGED <<slots, head, tail, drainVars, routed>>

\* Copies message and payload into the slot.
PushWrite ==
  /\ pushPc = "write"
  /\ slots' = [slots EXCEPT ![Index(tail)] = pushMsg]
  /\ pushPc' = "publish"
  /\ UNCHANGED <<head, tail, pushMsg, drainVars, routed>>

\* Stores tail + 1 with release: the message is accepted.
PushPublish ==
  /\ pushPc = "publish"
  /\ tail' = Plus(tail, 1)
  /\ pushPc' = "idle" /\ pushMsg' = None
  /\ UNCHANGED <<slots, head, drainVars, routed>>

-----------------------------------------------------------------------------
(* The step thread: the lane loop of hs_step.                              *)

\* The drain of this lane begins with what other lanes left of the budget.
DrainBegin(b) ==
  /\ drainPc = "idle"
  /\ drainPc' = "load" /\ left' = b
  /\ UNCHANGED <<slots, head, tail, pushVars, chead, taken, done, routed>>

\* Budget used up, or nothing available: on to the next lane.
DrainEnd ==
  /\ drainPc = "load"
  /\ left = 0 \/ Dist(tail, head) = 0
  /\ drainPc' = "idle"
  /\ UNCHANGED <<slots, head, tail, pushVars, chead, taken, done, left, routed>>

\* Mutant of DrainLoad: head is stored when the batch is taken, not when it
\* has been routed.
DrainLoadReleasesEarly ==
  /\ drainPc = "load"
  /\ left > 0
  /\ Dist(tail, head) # 0
  /\ chead' = head
  /\ taken' = Min2(Min2(Dist(tail, head), Batch), left)
  /\ head' = Plus(head, taken')
  /\ done' = 0
  /\ drainPc' = "route"
  /\ UNCHANGED <<slots, tail, pushVars, left, routed>>

\* Loads head and tail and fixes the size of the batch.
DrainLoad ==
  /\ drainPc = "load"
  /\ left > 0
  /\ Dist(tail, head) # 0
  /\ chead' = head
  /\ taken' = Min2(Min2(Dist(tail, head), Batch), left)
  /\ done' = 0
  /\ drainPc' = "route"
  /\ UNCHANGED <<slots, head, tail, pushVars, left, routed>>

\* Routes one message straight from its slot (hs_route_immediate on &s->msg).
DrainRoute ==
  /\ drainPc = "route"
  /\ done < taken
  /\ routed' = slots[Index(Plus(chead, done))]
  /\ done' = done + 1
  /\ UNCHANGED <<slots, head, tail, pushVars, drainPc, chead, taken, left>>

\* Mutant of DrainRelease: head catches up with tail instead of moving past
\* the batch.
DrainReleaseToTail ==
  /\ drainPc = "route"
  /\ done = taken
  /\ head' = tail
  /\ left' = left - taken
  /\ drainPc' = "load" /\ taken' = 0 /\ done' = 0
  /\ UNCHANGED <<slots, tail, pushVars, chead, routed>>

\* Gives the whole batch back to the producer with one store of head.
DrainRelease ==
  /\ drainPc = "route"
  /\ done = taken
  /\ head' = Plus(chead, taken)
  /\ left' = left - taken
  /\ drainPc' = "load" /\ taken' = 0 /\ done' = 0
  /\ UNCHANGED <<slots, tail, pushVars, chead, routed>>

-----------------------------------------------------------------------------
LaneNext ==
  \/ \E m \in Msg : PushRoom(m)
  \/ PushWrite
  \/ PushPublish
  \/ \E b \in 0 .. Budget : DrainBegin(b)
  \/ DrainEnd
  \/ DrainLoad
  \/ DrainRoute
  \/ DrainRelease

LaneSpec == LaneInit /\ [][LaneNext]_laneVars

\* The step thread keeps stepping, and a lane that reaches its turn again and
\* again is not left without budget every time (strong fairness: a turn with
\* no budget disables the others); a producer inside hs_spsc_push runs on.
LaneFairness ==
  /\ SF_laneVars(\E b \in 1 .. Budget : DrainBegin(b))
  /\ WF_laneVars(DrainEnd) /\ WF_laneVars(DrainLoad)
  /\ WF_laneVars(DrainRoute) /\ WF_laneVars(DrainRelease)
  /\ WF_laneVars(PushWrite) /\ WF_laneVars(PushPublish)

LaneFairSpec == LaneSpec /\ LaneFairness

-----------------------------------------------------------------------------
(* Properties.                                                             *)

LaneTypes ==
  /\ slots \in [Slot -> Msg \union {None}]
  /\ head \in Pos /\ tail \in Pos
  /\ pushPc \in {"idle", "write", "publish"}
  /\ pushMsg \in Msg \union {None}
  /\ drainPc \in {"idle", "load", "route"}
  /\ chead \in Pos /\ taken \in 0 .. Budget /\ done \in 0 .. Budget /\ left \in 0 .. Budget
  /\ routed \in Msg \union {None}

\* The slot the producer writes is never one the step thread has still to
\* read: hs_spsc_push copies into a slot with plain stores while hs_step reads
\* others, and only the counters keep the two apart, across their wrap too.
NoSlotRace ==
  (pushPc = "write" /\ drainPc = "route") =>
    \A k \in done .. taken - 1 : Index(Plus(chead, k)) # Index(tail)

\* The two threads' view of the counters: the ring never holds more than Size
\* messages, a producer that found room still has it when it publishes, and
\* the batch being routed was all published before it was taken and fits into
\* the budget.  The slot about to be published holds the message.
PositionsAgree ==
  /\ Dist(tail, head) <= Size
  /\ pushPc # "idle" => Dist(tail, head) < Size /\ pushMsg \in Msg
  /\ pushPc = "publish" => slots[Index(tail)] = pushMsg
  /\ drainPc = "route" => chead = head /\ done <= taken /\ taken <= left /\ taken <= Dist(tail, head)
  /\ drainPc # "route" => done = 0

\* The messages accepted and not yet routed, oldest first.  While a batch is
\* being routed head lags behind by done.
InLane ==
  LET start == Plus(head, done)
  IN  [k \in 1 .. Dist(tail, start) |-> slots[Index(Plus(start, k - 1))]]

\* The lane is a FIFO channel of Size messages: nothing that hs_spsc_push
\* accepted is lost, routed twice or overtaken.
Fifo == INSTANCE FifoChannel WITH queue <- InLane, out <- routed, Capacity <- Size
LaneIsFifo == Fifo!Spec

\* A message that hs_spsc_push accepted is routed as long as the step thread
\* keeps reaching this lane with some budget left.
IsInLane(m) == \E k \in DOMAIN InLane : InLane[k] = m
AcceptedIsRouted == \A m \in Msg : IsInLane(m) ~> routed = m
=============================================================================
