------------------------------ MODULE MlProps -------------------------------
(* What the message layer promises producers and executor.                  *)
EXTENDS MlMsg, SequencesExt

\* What was popped, in that order, and what waits in thread t's own queue.
Popped == IF exec.at = "dispatch" THEN Append(order, exec.msg) ELSE order
Waits(t, ch) ==
  IF prod[t].at \in {"new", "toomany", "rejected"} THEN <<>> ELSE queues[ch][prod[t].id]

InHand == {prod[t].msg : t \in {u \in Threads :
             prod[u].at \notin {"new", "toomany", "rejected", "idle"}}}

\* If a and b are one thread's on one channel, a was submitted first.
Precedes(a, b) == a.from = b.from /\ a.ch = b.ch => a.n < b.n
Ordered(s) == \A i, j \in DOMAIN s : i < j => Precedes(s[i], s[j])

\* Until a replay, every message submitted is dispatched once, waits, is in its
\* producer's hands, or was refused with false, and each producer's messages of
\* a channel are dispatched in the order it submitted them, from a queue that is
\* the producer's alone.
AcceptedInOrder ==
  exec.at \notin {"replay", "replayed"} /\ running =>
    LET all == Range(Popped) \cup UNION {Range(Waits(t, ch)) : t \in Threads, ch \in Channel}
    IN  /\ \A t \in Threads :
              {m.n : m \in {k \in all \cup failed \cup InHand : k.from = t}} = 1 .. prod[t].n
        /\ all \cap (failed \cup InHand) = {}
        /\ \A t \in Threads, ch \in Channel :
             /\ Ordered(Popped \o Waits(t, ch))
             /\ \A m \in Range(Waits(t, ch)) : m.from = t /\ m.ch = ch

Position(m) == CHOOSE i \in DOMAIN effects : effects[i] = m

\* A fence orders the operations: what was dispatched before it, to the GPU node
\* too, has taken effect when the fence does, and what is dispatched after it
\* takes effect after it.  No operation takes effect twice.
FenceOrders ==
  /\ IsInjective(effects)
  /\ \A i, j \in DOMAIN order :
       i < j /\ "fence" \in {order[i].op, order[j].op} /\ order[j] \in Range(effects) =>
         order[i] \in Range(effects) /\ Position(order[i]) < Position(order[j])

\* Every message is dispatched or refused in the end, whatever the budgets and
\* although a producer that waits counts itself and finds the queue full unseen
\* by the executor, unless that turns to a replay or stops.
SubmittedIsDispatched ==
  \A t \in Threads : \A n \in DOMAIN Script[t] :
    prod[t].n >= n ~> \/ \E m \in failed \cup Range(order) : m.from = t /\ m.n = n
                      \/ exec.at \in {"replay", "replayed"} \/ ~running

\* That, and ml_sys_free lets every producer out of ml_sys_submit.
SubmitEnds == SubmittedIsDispatched /\ (~running ~> InHand = {})
=============================================================================
