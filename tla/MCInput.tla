------------------------------ MODULE MCInput -------------------------------
(* A small instance of the input stream: one device, added or hot-plugged, a *)
(* queue with room for one event, so that it fills and events are dropped. *)
EXTENDS InputProps

MCEvents ==
  {[type |-> "key", code |-> "left", value |-> 1],
   [type |-> "key", code |-> "left", value |-> 0]}
=============================================================================
