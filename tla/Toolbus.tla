------------------------------ MODULE Toolbus -------------------------------
(***************************************************************************)
(* The toolbus: the ring in which the system node keeps copies of the last *)
(* results, so that a thread that sent a query can find its answer.  Every *)
(* operation runs under toolbus_lock, so each is an operator on the whole  *)
(* toolbus.                                                                *)
(***************************************************************************)
EXTENDS Integers

CONSTANTS
  ToolbusSize,   \* HS_TOOLBUS_SIZE
  NoOp           \* the opcode of an empty entry

ASSUME ToolbusAssumption == ToolbusSize \in Nat \ {0}

ToolbusSlot == 0 .. ToolbusSize - 1

NoEntry == [seq |-> 0, cid |-> 0, op |-> NoOp, of |-> 0]
EmptyRing == [s \in ToolbusSlot |-> NoEntry]

\* seq, head, count and dropped are toolbus_seq, toolbus_head, toolbus_count
\* and toolbus_dropped.
ToolbusInit == [ring |-> EmptyRing, head |-> 0, count |-> 0, seq |-> 0, dropped |-> 0]

\* Mutant of NextHead: never uses the last slot.
NextHeadShort(t) == IF t.head + 2 >= ToolbusSize THEN 0 ELSE t.head + 1

NextHead(t) == (t.head + 1) % ToolbusSize

\* hs_toolbus_record_result: the newest result takes the place of the oldest.
\* of is the request it answers; the code copies the payload.
Recorded(t, r) ==
  [ring    |-> [t.ring EXCEPT ![t.head] = [seq |-> t.seq + 1, cid |-> r.cid, op |-> r.op, of |-> r.n]],
   head    |-> NextHead(t),
   seq     |-> t.seq + 1,
   count   |-> IF t.count < ToolbusSize THEN t.count + 1 ELSE t.count,
   dropped |-> IF t.count < ToolbusSize THEN t.dropped ELSE t.dropped + 1]

\* hs_clear: the entries go, the sequence numbers go on.
Cleared(t) == [t EXCEPT !.ring = EmptyRing, !.head = 0, !.count = 0, !.seq = @ + 1]

\* The ith newest entry.
Newest(t, i) == t.ring[(t.head + ToolbusSize - 1 - i) % ToolbusSize]

\* The scan of hs_toolbus_wait goes back from the newest entry as long as
\* entries are younger than after, ...
InReach(t, after, i) ==
  \A j \in 0 .. i : Newest(t, j).seq # 0 /\ Newest(t, j).seq > after

\* Mutant of Matches: any client's result of this kind will do.
MatchesOp(e, cid, op) == e.op = op

Matches(e, cid, op) == e.cid = cid /\ e.op = op

\* ... and stops at the first that matches.
Hits(t, after, cid, op) ==
  {i \in 0 .. ToolbusSize - 1 : InReach(t, after, i) /\ Matches(Newest(t, i), cid, op)}

Found(t, after, cid, op) ==
  Newest(t, CHOOSE i \in Hits(t, after, cid, op) : \A j \in Hits(t, after, cid, op) : i <= j)
=============================================================================
