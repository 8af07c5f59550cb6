------------------------------ MODULE MCFabric ------------------------------
(* Small instances of the fabric: one or two producers, the nodes Shader    *)
(* and System, and for each run the kinds of messages that make its         *)
(* interesting case happen.                                                 *)
EXTENDS FabricProps

CONSTANTS Shader, Nowhere

ShaderThenSystem == <<Shader, System>>

Draw      == [op |-> "DRAW", to |-> Shader, asked |-> "DEFAULT", ack |-> FALSE,
              pay |-> "none", valid |-> TRUE, arg |-> None]
DrawAcked == [Draw EXCEPT !.ack = TRUE]
DrawData  == [DrawAcked EXCEPT !.op = "DRAW_TEXT", !.pay = "inband"]
DrawBad   == [Draw EXCEPT !.valid = FALSE]
DrawLost  == [Draw EXCEPT !.to = Nowhere]
Trace     == [Draw EXCEPT !.op = "TRACE", !.to = System, !.pay = "inband"]
Fence     == [Draw EXCEPT !.op = "FENCE", !.to = System]
Frame     == [Draw EXCEPT !.op = "FRAME_BEGIN", !.to = System]
Query     == [Draw EXCEPT !.op = "QUERY_STATS", !.to = System]
Value     == [ch |-> "RENDER", n |-> 0, block |-> FALSE, mask |-> {}]
Setting(op, a) == [Draw EXCEPT !.op = op, !.to = System, !.pay = "inband", !.arg = a]

CoreTemplates == {DrawAcked, Trace}
ControlTemplates ==
  {DrawData, DrawBad, DrawLost, Trace, Frame, Fence, Query,
   Setting("SET_CHAN_BUDGET", [Value EXCEPT !.n = 1]),
   Setting("SET_BLOCK_POLICY", Value),
   Setting("SET_RECORD_MASK", [Value EXCEPT !.mask = {"RT", "RENDER"}])}
JustDraw == {Draw}

Ample == [c \in Channel |-> 8]
RtAndRender == {"RT", "RENDER"}
JustRender == {"RENDER"}
NoGarbage == [op \in {"SET_CHAN_BUDGET", "SET_BLOCK_POLICY", "SET_RECORD_MASK"} |-> {None}]
NoMasks == {}
RtMask == {{"RT", "RENDER"}}
=============================================================================
