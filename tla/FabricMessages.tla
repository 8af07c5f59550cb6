--------------------------- MODULE FabricMessages ---------------------------
(***************************************************************************)
(* The messages of the fabric (Message): opcodes, channels, and the        *)
(* messages the system itself makes.                                       *)
(*                                                                         *)
(* An opcode is its name; every opcode that only changes the state of an   *)
(* ordinary node stands in for the others ("DRAW").  A message keeps the   *)
(* identity <<producer, number>> of the send that caused it in id (its     *)
(* correlation id), so <<id, op>> names a message.                         *)
(***************************************************************************)
EXTENDS Naturals

CONSTANT System   \* NODE_SYSTEM

Channel == {"RT", "RENDER", "TELEM"}

FrameOps == {"FRAME_BEGIN", "FRAME_END", "PRESENT"}
TelemOps == {"ERROR_EX", "ERROR", "TRACE", "QUEUE_FULL"}
ControlOps == {"FENCE", "QUERY_STATS", "QUERY_FABRIC", "SET_RECORD_MASK",
               "SET_CHAN_BUDGET", "SET_BLOCK_POLICY"}
ReplyOps == {"ACK", "RESULT", "ASYNC_DONE", "STOP"}

\* What the system makes itself and no thread passes to hs_send.
SystemOps == {"ACK", "RESULT", "ERROR_EX", "QUEUE_FULL"}

\* hs_default_channel_for_op.
DefaultChannel(op) ==
  CASE op \in TelemOps              -> "TELEM"
    [] op \in ReplyOps \cup ControlOps -> "RT"
    [] OTHER                        -> "RENDER"

\* The channel hs_send_enqueue settles on, whatever the sender asked for:
\* control opcodes are never downgraded, frame markers are RENDER.
ChannelFor(op, asked) ==
  CASE op \in ControlOps  -> "RT"
    [] op \in FrameOps    -> "RENDER"
    [] asked \in Channel  -> asked
    [] OTHER              -> DefaultChannel(op)

\* Where a message's payload is: nowhere, in the lane slot beside it, or in
\* the system's payload ring at pidx.
Payload == {"none", "inband", "ring"}

\* The kth message of producer p, from what the caller fills in.
Sent(p, k, t) ==
  [id |-> <<p, k>>, op |-> t.op, to |-> t.to, ch |-> ChannelFor(t.op, t.asked),
   ack |-> t.ack, pay |-> t.pay, pidx |-> 0, valid |-> t.valid, arg |-> t.arg,
   via |-> "lane"]

\* A message of the system's own about m.
Report(m, op, ch, pay, pidx) ==
  [id |-> m.id, op |-> op, to |-> System, ch |-> ch, ack |-> FALSE, pay |-> pay, pidx |-> pidx,
   valid |-> TRUE, arg |-> m.arg, via |-> m.via]

AckOf(m)            == Report(m, "ACK", "RT", "none", 0)
ResultOf(m, pidx)   == Report(m, "RESULT", "RT", "ring", pidx)
ErrorExOf(m, pidx)  == Report(m, "ERROR_EX", "TELEM", "ring", pidx)
QueueFullOf(m)      == Report(m, "QUEUE_FULL", "TELEM", "none", 0)

Key(m) == <<m.id, m.op>>
=============================================================================
