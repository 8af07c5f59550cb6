---------------------------- MODULE FifoChannel ----------------------------
(***************************************************************************)
(* What a lock-free queue promises, whatever ring it is made of: a bounded *)
(* first-in first-out channel.  A message that was put is got exactly      *)
(* once, in the order of the puts, and never more than Capacity messages   *)
(* wait.  SpscLane, SubmitQueue and the queue of InputStream implement it. *)
(***************************************************************************)
EXTENDS Naturals, Sequences

CONSTANTS
  Msg,        \* the messages that can be put
  Capacity,   \* how many may wait
  None        \* the value of out before the first Get

VARIABLES
  queue,      \* the waiting messages, oldest first
  out         \* the last message handed to the receiver

chanVars == <<queue, out>>

Init == queue = <<>> /\ out = None

Put(m) ==
  /\ Len(queue) < Capacity
  /\ queue' = Append(queue, m)
  /\ UNCHANGED out

Get ==
  /\ queue # <<>>
  /\ out' = Head(queue)
  /\ queue' = Tail(queue)

Next == (\E m \in Msg : Put(m)) \/ Get

Spec == Init /\ [][Next]_chanVars
=============================================================================
