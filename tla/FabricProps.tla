---------------------------- MODULE FabricProps -----------------------------
(***************************************************************************)
(* What the fabric promises its users.                                     *)
(***************************************************************************)
EXTENDS Fabric

-----------------------------------------------------------------------------
(* Where messages are.                                                     *)

\* What is in a lane and not yet routed (head is stored once per batch).
Unrouted(c, l) ==
  IF step.at = "route" /\ c = Ch /\ l = step.lane
    THEN SubSeq(lanes[c][l], step.i + 1, Len(lanes[c][l])) ELSE lanes[c][l]

\* The messages accepted and not yet routed.
Pending ==
  UNION {(UNION {Range(Unrouted(c, l)) : l \in LaneIds}) \cup Range(submit[c]) : c \in Channel}

\* Every place a message can be in, and the messages there.
Place ==
  ({"lane"} \X Channel \X LaneIds) \cup ({"submit"} \X Channel) \cup ({"inbox"} \X Registered)
  \cup {<<"outbox">>, <<"ack">>, <<"applied">>}

At(x) ==
  CASE x[1] = "lane"    -> Unrouted(x[2], x[3])
    [] x[1] = "submit"  -> submit[x[2]]
    [] x[1] = "inbox"   -> inbox[x[2]]
    [] x[1] = "outbox"  -> outbox
    [] x[1] = "ack"     -> IF step.at = "ack" THEN <<step.ack>> ELSE <<>>
    [] x[1] = "applied" -> applied

\* Where the message with key k is.
Holders(k) ==
  {h \in UNION {{x} \X DOMAIN At(x) : x \in Place} : Key(At(h[1])[h[2]]) = k}

\* How often it is there, refusal included.
Times(k) == Cardinality(Holders(k)) + (IF k \in refused THEN 1 ELSE 0)

\* A message hs_send accepted is in exactly one place from then on: waiting,
\* in an inbox, processed, or refused by hs_route_immediate.  It is never
\* lost on the way from a lane to an inbox and never routed twice, whatever
\* the batches and budgets; and hs_clear leaves none behind.
Conservation ==
  /\ \A m \in accepted : Times(Key(m)) = 1
  /\ {Key(m) : m \in Pending} \subseteq {Key(m) : m \in accepted}

\* What an ordinary node acknowledges, and what the system answers.
Acknowledged(m) == m.ack /\ m.to # System /\ m.op \notin FrameOps \cup {"FENCE"}
Answered(m) == m.op \in ControlOps /\ (m.to = System \/ m.op = "FENCE")

\* A request for an acknowledgement that an ordinary node has applied has
\* exactly one OP_ACK on its way, and every query, setting and fence that was
\* applied has one OP_RESULT, unless dropped_result counts its loss.
AnsweredOnce ==
  /\ \A j \in DOMAIN applied :
       LET m == applied[j] IN
       /\ Acknowledged(m) => Times(<<m.id, "ACK">>) = 1
       /\ Answered(m) => Times(<<m.id, "RESULT">>) <= 1
  /\ dropped.result < CountMax =>
       Cardinality({j \in DOMAIN applied :
                      Answered(applied[j]) /\ Times(<<applied[j].id, "RESULT">>) = 0})
         <= dropped.result

Reports == {"QUEUE_FULL", "ERROR_EX"}
Notices(s) == Cardinality({j \in DOMAIN s : s[j].op \in Reports})

\* Every message that hs_step throws away shows: a counter was bumped, or an
\* OP_QUEUE_FULL or OP_ERROR_EX is on its way to the system node or has been
\* counted there (docs/P0_PRD.md: failures must be visible via counters).
LossIsReported ==
  (\A counter \in {"systemNonRt", "queueFull", "errorEx"} : dropped[counter] < CountMax) =>
    Cardinality(refused) <= dropped.systemNonRt + dropped.queueFull + dropped.errorEx
                            + Notices(inbox[System]) + Notices(applied)

UserOps == {t.op : t \in Templates}
ByLane(m) == m.op \in UserOps \ (FrameOps \cup {"FENCE"}) /\ m.via = "lane"
SameStream(a, b) == a.id[1] = b.id[1] /\ a.ch = b.ch /\ a.to = b.to

\* If a and b went through one producer's lane to one node, a was sent first.
SentBefore(a, b) == ByLane(a) /\ ByLane(b) /\ SameStream(a, b) => a.id[2] < b.id[2]

InOrder(s) == \A j \in DOMAIN s : \A i \in 1 .. j - 1 : SentBefore(s[i], s[j])

\* FIFO per producer lane within a channel: what went through a lane is
\* processed, and recorded, in the order it was sent.
LaneOrder == InOrder(applied) /\ InOrder(log)

\* A drawing message for node nd (frame markers go to no node).
DrawnBy(nd, m) == m.to = nd /\ m.ch = "RENDER" /\ m.op \notin FrameOps \cup {"FENCE"}

\* The recording holds, for each ordinary node, exactly the RENDER messages
\* put into its inbox, in that order: replaying it to the node repeats what
\* the node saw.
RecordingIsComplete ==
  recording => \A nd \in Registered \ {System} :
    LET seen == applied \o inbox[nd]
        kept == {j \in DOMAIN log : DrawnBy(nd, log[j])}
        got  == {j \in DOMAIN seen : DrawnBy(nd, seen[j])}
    IN  /\ {Key(log[j]) : j \in kept} = {Key(seen[j]) : j \in got}
        /\ \A i, j \in kept, k, l \in got :
             Key(log[i]) = Key(seen[k]) /\ Key(log[j]) = Key(seen[l]) => (i < j <=> k < l)

\* Nothing that sets the record mask takes RENDER out of it.
RenderStays ==
  /\ \A mask \in Masks : "RENDER" \in mask
  /\ \A a \in {t.arg : t \in {u \in Templates : u.op = "SET_RECORD_MASK"}} \cup Decodings["SET_RECORD_MASK"] :
       a = None \/ "RENDER" \in a.mask

-----------------------------------------------------------------------------
(* Progress.                                                               *)

\* hs_send returns, for a producer that waits for room gets it; and with a
\* thread of its own and no acknowledgements hs_step returns, although "the step
\* thread must never block" (docs/CHANNEL_FABRIC.md:67) holds only then.
CallsReturn ==
  /\ \A p \in Producers : pc[p] # "idle" ~> pc[p] = "idle"
  /\ step.at # "idle" ~> step.at = "idle"

\* Every accepted message is processed or refused in the end.
AcceptedIsSettled ==
  []<>(\A m \in accepted : Key(m) \in refused \/ Key(m) \in {Key(applied[j]) : j \in DOMAIN applied})
=============================================================================
