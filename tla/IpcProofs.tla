----------------------------- MODULE IpcProofs ------------------------------
(***************************************************************************)
(* For every toolbus, lane and inbox, any number of requests and every     *)
(* schedule of clients, server, steps and timeouts: results reach the      *)
(* request they answer if correlation ids are distinct, replies come in    *)
(* the order of the requests, a result that is there is found, and         *)
(* hs_ipc_stop waits for the thread.                                       *)
(***************************************************************************)
EXTENDS IpcProps, SequenceTheorems, WellFoundedInduction, TLAPS

Num == 0 .. MaxRequests
Op == OpKinds \cup {NoOp}
At == {"off", "listen", "select", "read", "seq", "send", "wait", "done"}
Status == {"ok", "refused", "malformed", "enqueue failed", "timeout"}

\* What carries the number of a request also carries its correlation id, which
\* is that number if correlation ids are distinct.
OwnRequest == {r \in [n : Num, op : Op, cid : Num] : FreshCids => r.cid = r.n}
OwnMessage == {m \in [n : Num, op : Op, cid : Num, result : BOOLEAN] : FreshCids => m.cid = m.n}
OwnEntry == {e \in [seq : Nat, cid : Num, op : Op, of : Num] : FreshCids => e.cid = e.of}
OwnReply ==
  {r \in [n : Num, status : Status, of : Num] : FreshCids /\ r.status = "ok" => r.of = r.n}
OwnToolbus ==
  [ring : [ToolbusSlot -> OwnEntry], head : ToolbusSlot, count : 0 .. ToolbusSize,
   seq : Nat, dropped : Nat]

\* The types, with the correlation ids in them, and that a client is there as
\* long as it is served.
OwnTypes ==
  /\ conn \in {"none", "open", "gone"} /\ made \in Num /\ first \in 1 .. MaxRequests + 1
  /\ wire \in Seq(1 .. MaxRequests) /\ replies \in Seq(OwnReply)
  /\ server \in [at : At, req : OwnRequest, after : Nat] /\ server.after <= toolbus.seq
  /\ caller \in {"starting", "started", "failed", "stopping", "stopped"} /\ stop \in BOOLEAN
  /\ lane \in Seq(OwnRequest) /\ Len(lane) <= LaneSize
  /\ inbox \in Seq(OwnMessage) /\ Len(inbox) <= InboxSize
  /\ outbox \in Seq(OwnMessage) /\ Len(outbox) <= InboxSize
  /\ phase \in {"drain", "nodes", "outbox"}
  /\ toolbus \in OwnToolbus
  /\ server.at \in {"read", "seq", "send", "wait"} => conn # "none"

-----------------------------------------------------------------------------
(* The toolbus.                                                            *)

LEMMA SlotIsSlot == ASSUME NEW k \in Int PROVE k % ToolbusSize \in ToolbusSlot
  BY ToolbusAssumption DEF ToolbusSlot

LEMMA EmptyRingType == EmptyRing \in [ToolbusSlot -> OwnEntry] /\ 0 \in ToolbusSlot
<1>1. NoEntry \in OwnEntry  BY IpcAssumption DEF NoEntry, OwnEntry, Op, Num
<1>2. QED  BY <1>1, ToolbusAssumption DEF EmptyRing, ToolbusSlot

LEMMA RecordedType ==
  ASSUME NEW t \in OwnToolbus, NEW m \in OwnMessage
  PROVE  Recorded(t, m) \in OwnToolbus /\ Recorded(t, m).seq = t.seq + 1
<1> DEFINE e == [seq |-> t.seq + 1, cid |-> m.cid, op |-> m.op, of |-> m.n]
<1>1. e \in OwnEntry  BY DEF OwnEntry, OwnMessage, OwnToolbus
<1>2. [t.ring EXCEPT ![t.head] = e] \in [ToolbusSlot -> OwnEntry]  BY <1>1 DEF OwnToolbus
<1>3. NextHead(t) \in ToolbusSlot
  <2>1. t.head + 1 \in Int  BY ToolbusAssumption DEF OwnToolbus, ToolbusSlot
  <2>2. QED  BY <2>1, SlotIsSlot DEF NextHead
<1>4. QED  BY <1>2, <1>3, ToolbusAssumption DEF Recorded, OwnToolbus

LEMMA ClearedType ==
  ASSUME NEW t \in OwnToolbus
  PROVE  Cleared(t) \in OwnToolbus /\ Cleared(t).seq = t.seq + 1
<1>1. t.seq + 1 \in Nat /\ 0 \in 0 .. ToolbusSize
  BY ToolbusAssumption DEF OwnToolbus
<1> DEFINE c1 == [t EXCEPT !.ring = EmptyRing]
           c2 == [c1 EXCEPT !.head = 0]
           c3 == [c2 EXCEPT !.count = 0]
<1>2. c1 \in OwnToolbus /\ c1.seq = t.seq  BY EmptyRingType DEF OwnToolbus
<1>3. c2 \in OwnToolbus /\ c2.seq = t.seq  BY <1>2, EmptyRingType DEF OwnToolbus
<1>4. c3 \in OwnToolbus /\ c3.seq = t.seq  BY <1>1, <1>3 DEF OwnToolbus
<1>5. Cleared(t) = [c3 EXCEPT !.seq = @ + 1]  BY DEF Cleared
<1>6. QED  BY <1>1, <1>4, <1>5 DEF OwnToolbus

\* What hs_toolbus_wait returns is an entry of the ring that matches, and the
\* newest of those.
LEMMA FoundIsNewest ==
  ASSUME NEW t, NEW after, NEW cid, NEW op, Hits(t, after, cid, op) # {}
  PROVE  \E i \in Hits(t, after, cid, op) :
           /\ Found(t, after, cid, op) = Newest(t, i)
           /\ \A j \in Hits(t, after, cid, op) : i <= j
<1> DEFINE hits == Hits(t, after, cid, op)
<1>1. hits \subseteq Nat  BY ToolbusAssumption DEF Hits
<1>2. PICK i \in hits : \A j \in hits : ~ (<<j, i>> \in OpToRel(<, Nat))
  BY <1>1, NatLessThanWellFounded, WFMin
<1>3. \A j \in hits : i <= j
  <2>1. \A j \in hits : <<j, i>> \in Nat \X Nat  BY <1>1
  <2>2. \A j \in hits : j < i => <<j, i>> \in OpToRel(<, Nat)  BY <2>1 DEF OpToRel
  <2>3. \A j \in hits : ~ (j < i)  BY <1>2, <2>2
  <2>4. QED  BY <1>1, <2>3
<1> DEFINE best == CHOOSE k \in hits : \A j \in hits : k <= j
<1>4. best \in hits /\ \A j \in hits : best <= j  BY <1>3
<1>5. Found(t, after, cid, op) = Newest(t, best)  BY DEF Found
<1>6. QED  BY <1>4, <1>5

LEMMA FoundMatches ==
  ASSUME NEW t \in OwnToolbus, NEW after, NEW cid, NEW op, Hits(t, after, cid, op) # {}
  PROVE  Found(t, after, cid, op) \in OwnEntry /\ Matches(Found(t, after, cid, op), cid, op)
<1>1. PICK i \in Hits(t, after, cid, op) : Found(t, after, cid, op) = Newest(t, i)
  BY FoundIsNewest
<1>2. i \in 0 .. ToolbusSize - 1 /\ Matches(Newest(t, i), cid, op)
  BY DEF Hits
<1>3. Newest(t, i) \in OwnEntry
  <2>1. t.head + ToolbusSize - 1 - i \in Int
    BY <1>2, ToolbusAssumption DEF OwnToolbus, ToolbusSlot
  <2>2. QED  BY <2>1, SlotIsSlot DEF Newest, OwnToolbus
<1>4. QED  BY <1>1, <1>2, <1>3

-----------------------------------------------------------------------------
(* Types.                                                                  *)

LEMMA NoRequestType == NoRequest \in OwnRequest
  BY IpcAssumption DEF NoRequest, OwnRequest, Num, Op

LEMMA NextRequestType ==
  ASSUME NEW op \in OpKinds, wire # <<>>, wire \in Seq(1 .. MaxRequests)
  PROVE  NextRequest(op) \in OwnRequest /\ NextRequest(op).n = Head(wire) /\ Head(wire) \in Num
<1>1. Head(wire) \in 1 .. MaxRequests  BY HeadTailProperties
<1>2. QED  BY <1>1, IpcAssumption DEF NextRequest, OwnRequest, Num, Op

LEMMA PushedType ==
  ASSUME NEW box \in Seq(OwnMessage), Len(box) <= InboxSize, NEW m \in OwnMessage
  PROVE  Pushed(box, m) \in Seq(OwnMessage) /\ Len(Pushed(box, m)) <= InboxSize
  BY AppendProperties, LenProperties, IpcAssumption DEF Pushed

LEMMA TailType ==
  ASSUME NEW S, NEW s \in Seq(S), s # <<>>, NEW k \in Nat, Len(s) <= k
  PROVE  Head(s) \in S /\ Tail(s) \in Seq(S) /\ Len(Tail(s)) <= k
  BY HeadTailProperties, LenProperties

LEMMA MessageType ==
  ASSUME NEW r \in OwnRequest PROVE Result(r) \in OwnMessage /\ Query(r) \in OwnMessage
  BY DEF OwnRequest, OwnMessage, Result, Query

LEMMA AnswerType ==
  ASSUME NEW m \in OwnMessage PROVE Result(m) \in OwnMessage
  BY DEF OwnMessage, Result

\* What the server sends keeps the replies a sequence of own replies.
LEMMA ToldType ==
  ASSUME replies \in Seq(OwnReply), NEW r \in OwnRequest, NEW status \in Status,
         NEW of \in Num, FreshCids /\ status = "ok" => of = r.n, Told(r, status, of)
  PROVE  replies' \in Seq(OwnReply)
<1>1. [n |-> r.n, status |-> status, of |-> of] \in OwnReply
  BY DEF OwnReply, OwnRequest
<1>2. QED  BY <1>1, AppendProperties DEF Told

\* A reply, successful or not, leads back to the next request or connection.
LEMMA ReplyType ==
  ASSUME OwnTypes, NEW r \in OwnRequest, NEW of \in Num, FreshCids => of = r.n, Reply(r, of)
  PROVE  /\ replies' \in Seq(OwnReply) /\ conn' \in {"none", "open", "gone"}
         /\ server' \in [at : At, req : OwnRequest, after : Nat] /\ server'.after = server.after
         /\ conn' = "none" => wire' = <<>> \/ conn = "none"
         /\ conn # "none" /\ server'.at = "read" => conn' # "none"
         /\ server'.at \in {"read", "listen"}
<1>1. CASE Told(r, "ok", of) /\ BackTo("read") /\ UNCHANGED conn
  BY <1>1, ToldType, NoRequestType DEF OwnTypes, BackTo, Status, At
<1>2. CASE conn = "gone" /\ Closed /\ UNCHANGED replies /\ BackTo("listen")
  BY <1>2, NoRequestType DEF OwnTypes, BackTo, Closed, At
<1>3. QED  BY <1>1, <1>2 DEF Reply

LEMMA ReplyErrorType ==
  ASSUME OwnTypes, NEW r \in OwnRequest, NEW status \in Status \ {"ok"}, ReplyError(r, status)
  PROVE  /\ replies' \in Seq(OwnReply) /\ conn' = conn
         /\ server' \in [at : At, req : OwnRequest, after : Nat] /\ server'.after = server.after
         /\ server'.at = "read"
<1>1. 0 \in Num  BY IpcAssumption DEF Num
<1>2. replies' \in Seq(OwnReply)  BY <1>1, ToldType DEF OwnTypes, ReplyError
<1>3. /\ server' \in [at : At, req : OwnRequest, after : Nat] /\ server'.after = server.after
      /\ server'.at = "read"
  BY NoRequestType DEF OwnTypes, ReplyError, BackTo, At
<1>4. QED  BY <1>2, <1>3 DEF ReplyError

LEMMA InitTypes == Init => OwnTypes
<1> SUFFICES ASSUME Init PROVE OwnTypes
  OBVIOUS
<1>1. toolbus \in OwnToolbus
  BY EmptyRingType, ToolbusAssumption DEF Init, ToolbusInit, OwnToolbus
<1>2. /\ server \in [at : At, req : OwnRequest, after : Nat] /\ server.after <= toolbus.seq
      /\ server.at = "off"
  BY NoRequestType DEF Init, At, ToolbusInit
<1>3. /\ wire \in Seq(1 .. MaxRequests) /\ replies \in Seq(OwnReply) /\ lane \in Seq(OwnRequest)
      /\ inbox \in Seq(OwnMessage) /\ outbox \in Seq(OwnMessage)
      /\ Len(lane) = 0 /\ Len(inbox) = 0 /\ Len(outbox) = 0
  BY EmptySeq DEF Init
<1>4. 0 \in Num /\ 1 \in 1 .. MaxRequests + 1  BY IpcAssumption DEF Num
<1>5. /\ conn \in {"none", "open", "gone"} /\ made \in Num /\ first \in 1 .. MaxRequests + 1
      /\ caller \in {"starting", "started", "failed", "stopping", "stopped"} /\ stop \in BOOLEAN
      /\ phase \in {"drain", "nodes", "outbox"} /\ conn = "none"
  BY <1>4 DEF Init
<1>6. QED
  BY <1>1, <1>2, <1>3, <1>5, IpcAssumption DEF OwnTypes

LEMMA NextTypes == OwnTypes /\ [Next]_vars => OwnTypes'
<1> SUFFICES ASSUME OwnTypes, [Next]_vars PROVE OwnTypes'
  OBVIOUS
<1> USE DEF clientVars, serverVars, fabricVars, toolbusVars
<1>1. CASE Connect
  BY <1>1, IpcAssumption, EmptySeq DEF Connect, OwnTypes, Num
<1>2. CASE Request
  <2>1. made + 1 \in 1 .. MaxRequests  BY <1>2, IpcAssumption DEF Request, OwnTypes, Num
  <2>2. wire' \in Seq(1 .. MaxRequests)  BY <1>2, <2>1, AppendProperties DEF Request, OwnTypes
  <2>3. QED  BY <1>2, <2>1, <2>2 DEF Request, OwnTypes, Num
<1>3. CASE HangUp
  BY <1>3, EmptySeq DEF HangUp, OwnTypes
<1>4. CASE ThreadUp \/ Listen \/ Accept \/ SelectReturns \/ ThreadExits
  BY <1>4, ZenonT(30) DEF ThreadUp, Listen, Accept, SelectReturns, ThreadExits, OwnTypes, At
<1>5. CASE ReadFails
  BY <1>5, NoRequestType, EmptySeq DEF ReadFails, Closed, BackTo, OwnTypes, At
<1>6. CASE ReadDirect
  <2> DEFINE r == NextRequest("DIRECT")
  <2>1. r \in OwnRequest /\ r.n = Head(wire) /\ Head(wire) \in Num
    BY <1>6, NextRequestType DEF ReadDirect, ReadNext, OwnTypes, OpKinds
  <2>2. /\ replies' \in Seq(OwnReply) /\ conn' \in {"none", "open", "gone"}
        /\ server' \in [at : At, req : OwnRequest, after : Nat] /\ server'.after = server.after
        /\ conn' = "none" => wire' = <<>> \/ conn = "none"
        /\ conn # "none" /\ server'.at = "read" => conn' # "none"
        /\ server'.at \in {"read", "listen"}
    <3>1. CASE Reply(r, Head(wire))  BY <2>1, <3>1, ReplyType
    <3>2. CASE ReplyError(r, "refused")
      BY <2>1, <3>2, ReplyErrorType DEF Status, OwnTypes
    <3>3. QED  BY <1>6, <3>1, <3>2 DEF ReadDirect
  <2>3. conn # "none"  BY <1>6 DEF ReadDirect, ReadNext, OwnTypes
  <2>4. wire' \in Seq(1 .. MaxRequests)
    <3>1. Tail(wire) \in Seq(1 .. MaxRequests)
      BY <1>6, HeadTailProperties DEF ReadDirect, ReadNext, OwnTypes
    <3>2. wire' = Tail(wire) \/ wire' = <<>>
      BY <1>6, <2>2, <2>3 DEF ReadDirect
    <3>3. QED  BY <3>1, <3>2, EmptySeq
  <2>5. QED  BY <1>6, <2>2, <2>3, <2>4 DEF ReadDirect, OwnTypes
<1>7. CASE ReadMalformed
  <2> DEFINE r == NextRequest("MALFORMED")
  <2>1. r \in OwnRequest /\ r.n = Head(wire)
    BY <1>7, NextRequestType DEF ReadMalformed, ReadNext, OwnTypes, OpKinds
  <2>2. replies' \in Seq(OwnReply)
    <3>1. 0 \in Num /\ "malformed" \in Status  BY IpcAssumption DEF Num, Status
    <3>2. Told(r, "malformed", 0)  BY <1>7 DEF ReadMalformed
    <3>3. QED  BY <2>1, <3>1, <3>2, ToldType DEF OwnTypes
  <2>3. QED
    BY <1>7, <2>2, NoRequestType, EmptySeq DEF ReadMalformed, Closed, BackTo, OwnTypes, At
<1>8. ASSUME NEW op \in {"FENCE", "QUERY"}, ReadRequest(op) PROVE OwnTypes'
  <2>1. NextRequest(op) \in OwnRequest
    BY <1>8, NextRequestType DEF ReadRequest, ReadNext, OwnTypes, OpKinds
  <2>2. wire' \in Seq(1 .. MaxRequests)
    BY <1>8, HeadTailProperties DEF ReadRequest, ReadNext, OwnTypes
  <2>3. /\ server' \in [at : At, req : OwnRequest, after : Nat] /\ server'.after = server.after
        /\ conn # "none"
    BY <1>8, <2>1 DEF ReadRequest, ReadNext, OwnTypes, At
  <2>4. QED  BY <1>8, <2>2, <2>3 DEF ReadRequest, OwnTypes
<1>9. CASE NoteSeq
  <2>1. toolbus.seq \in Nat  BY DEF OwnTypes, OwnToolbus
  <2>2. /\ server' \in [at : At, req : OwnRequest, after : Nat]
        /\ server'.after = toolbus.seq /\ conn # "none"
    BY <1>9, <2>1 DEF NoteSeq, OwnTypes, At
  <2>3. QED  BY <1>9, <2>1, <2>2 DEF NoteSeq, OwnTypes
<1>10. CASE Send
  <2>1. lane' \in Seq(OwnRequest) /\ Len(lane') <= LaneSize
    BY <1>10, AppendProperties, LenProperties, IpcAssumption DEF Send, OwnTypes
  <2>2. QED  BY <1>10, <2>1 DEF Send, OwnTypes, At
<1>11. CASE SendFails \/ WaitTimesOut
  <2>1. PICK status \in Status \ {"ok"} : ReplyError(server.req, status)
    BY <1>11 DEF SendFails, WaitTimesOut, Status
  <2>2. server.req \in OwnRequest /\ conn # "none"
    BY <1>11 DEF SendFails, WaitTimesOut, OwnTypes
  <2>3. QED
    BY <1>11, <2>1, <2>2, ReplyErrorType DEF SendFails, WaitTimesOut, OwnTypes
<1>12. CASE WaitFinds
  <2>1. server.req \in OwnRequest /\ conn # "none" /\ toolbus \in OwnToolbus
    BY <1>12 DEF WaitFinds, OwnTypes
  <2>2. Answer \in OwnEntry /\ Matches(Answer, server.req.cid, server.req.op)
    BY <1>12, <2>1, FoundMatches DEF WaitFinds, Answers, Answer
  <2>3. Answer.of \in Num /\ (FreshCids => Answer.of = server.req.n)
    BY <2>1, <2>2 DEF OwnEntry, OwnRequest, Matches
  <2>4. Reply(server.req, Answer.of)  BY <1>12 DEF WaitFinds
  <2>5. /\ replies' \in Seq(OwnReply) /\ conn' \in {"none", "open", "gone"}
        /\ server' \in [at : At, req : OwnRequest, after : Nat] /\ server'.after = server.after
        /\ conn' = "none" => wire' = <<>> \/ conn = "none"
        /\ conn # "none" /\ server'.at = "read" => conn' # "none"
        /\ server'.at \in {"read", "listen"}
    BY <2>1, <2>3, <2>4, ReplyType
  <2>6. wire' \in Seq(1 .. MaxRequests)
    BY <1>12, <2>1, <2>5, EmptySeq DEF WaitFinds, OwnTypes
  <2>7. QED  BY <1>12, <2>1, <2>5, <2>6 DEF WaitFinds, OwnTypes
<1>13. CASE StartReturns \/ StopCall \/ StopReturn
  BY <1>13 DEF StartReturns, StopCall, StopReturn, OwnTypes
<1>14. CASE Drain
  <2>1. /\ Head(lane) \in OwnRequest /\ lane' \in Seq(OwnRequest) /\ Len(lane') <= LaneSize
    BY <1>14, TailType, IpcAssumption DEF Drain, OwnTypes
  <2>2. inbox' \in Seq(OwnMessage) /\ Len(inbox') <= InboxSize
    BY <1>14, <2>1, MessageType, PushedType DEF Drain, OwnTypes
  <2>3. QED  BY <1>14, <2>1, <2>2 DEF Drain, OwnTypes
<1>15. CASE DrainOther
  <2>1. Query([n |-> 0, op |-> "QUERY", cid |-> 0]) \in OwnMessage
    BY IpcAssumption DEF Query, OwnMessage, Num, Op, OpKinds
  <2>2. inbox' \in Seq(OwnMessage) /\ Len(inbox') <= InboxSize
    BY <1>15, <2>1, PushedType DEF DrainOther, OwnTypes
  <2>3. QED  BY <1>15, <2>2 DEF DrainOther, OwnTypes
<1>16. CASE NodeAnswers
  <2>1. /\ Head(inbox) \in OwnMessage /\ inbox' \in Seq(OwnMessage) /\ Len(inbox') <= InboxSize
    BY <1>16, TailType, IpcAssumption DEF NodeAnswers, OwnTypes
  <2>2. outbox' \in Seq(OwnMessage) /\ Len(outbox') <= InboxSize
    BY <1>16, <2>1, AnswerType, PushedType DEF NodeAnswers, OwnTypes
  <2>3. QED  BY <1>16, <2>1, <2>2 DEF NodeAnswers, OwnTypes
<1>17. CASE NodeRecords
  <2>1. /\ Head(inbox) \in OwnMessage /\ inbox' \in Seq(OwnMessage) /\ Len(inbox') <= InboxSize
    BY <1>17, TailType, IpcAssumption DEF NodeRecords, OwnTypes
  <2>2. toolbus' \in OwnToolbus /\ toolbus'.seq = toolbus.seq + 1
    BY <1>17, <2>1, RecordedType DEF NodeRecords, OwnTypes
  <2>3. server.after <= toolbus'.seq
    BY <2>2 DEF OwnTypes, OwnToolbus
  <2>4. QED  BY <1>17, <2>1, <2>2, <2>3 DEF NodeRecords, OwnTypes
<1>18. CASE Outbox
  <2>1. /\ Head(outbox) \in OwnMessage /\ outbox' \in Seq(OwnMessage) /\ Len(outbox') <= InboxSize
    BY <1>18, TailType, IpcAssumption DEF Outbox, OwnTypes
  <2>2. inbox' \in Seq(OwnMessage) /\ Len(inbox') <= InboxSize
    BY <1>18, <2>1, PushedType DEF Outbox, OwnTypes
  <2>3. QED  BY <1>18, <2>1, <2>2 DEF Outbox, OwnTypes
<1>19. CASE DrainDone \/ NodesDone \/ StepEnd
  BY <1>19 DEF DrainDone, NodesDone, StepEnd, OwnTypes
<1>20. CASE Clear
  <2>1. toolbus' \in OwnToolbus /\ toolbus'.seq = toolbus.seq + 1
    BY <1>20, ClearedType DEF Clear, OwnTypes
  <2>2. server.after <= toolbus'.seq
    BY <2>1 DEF OwnTypes, OwnToolbus
  <2>3. /\ lane' \in Seq(OwnRequest) /\ inbox' \in Seq(OwnMessage) /\ outbox' \in Seq(OwnMessage)
        /\ Len(lane') = 0 /\ Len(inbox') = 0 /\ Len(outbox') = 0
    BY <1>20, EmptySeq DEF Clear
  <2>4. QED  BY <1>20, <2>1, <2>2, <2>3, IpcAssumption DEF Clear, OwnTypes
<1>21. CASE UNCHANGED vars
  BY <1>21 DEF vars, OwnTypes
<1>22. QED
  BY <1>1, <1>2, <1>3, <1>4, <1>5, <1>6, <1>7, <1>8, <1>9, <1>10, <1>11, <1>12, <1>13, <1>14,
     <1>15, <1>16, <1>17, <1>18, <1>19, <1>20, <1>21
     DEF Next, ClientStep, ServerStep, StepGoesOn

-----------------------------------------------------------------------------
(* The conversation of a client with the server: the requests are numbered *)
(* without a gap, and the next reply is due to the request that is being   *)
(* served, or to the first one on the wire.                                *)

InService == server.at \in {"seq", "send", "wait"}
Served == IF InService THEN 1 ELSE 0
Due == first + Len(replies)

Conversation ==
  /\ RepliesInOrder
  /\ conn = "open" =>
       /\ InService => server.req.n = Due
       /\ \A k \in DOMAIN wire : wire[k] = Due + Served + k - 1
       /\ made + 1 = Due + Served + Len(wire)

\* A reply to the request that is due keeps the order.
LEMMA ToldInOrder ==
  ASSUME OwnTypes, RepliesInOrder, NEW r, NEW status, NEW of, Told(r, status, of),
         first' = first, replies' \in Seq(OwnReply), conn = "open" => r.n = Due
  PROVE  RepliesInOrder' /\ (conn = "open" => Due' = Due + 1)
<1>1. CASE conn = "open"
  <2> DEFINE reply == [n |-> r.n, status |-> status, of |-> of]
  <2>1. replies' = Append(replies, reply) /\ reply.n = Due  BY <1>1 DEF Told
  <2>2. /\ Len(replies') = Len(replies) + 1 /\ DOMAIN replies = 1 .. Len(replies)
        /\ DOMAIN replies' = 1 .. Len(replies) + 1
        /\ \A k \in 1 .. Len(replies) : replies'[k] = replies[k]
        /\ replies'[Len(replies) + 1] = reply /\ Len(replies) \in Nat /\ first \in Nat
    BY <2>1, IpcAssumption, AppendProperties, LenProperties DEF OwnTypes
  <2>3. RepliesInOrder'  BY <2>1, <2>2 DEF RepliesInOrder, Due
  <2>4. QED  BY <2>2, <2>3 DEF Due
<1>2. CASE conn # "open"  BY <1>2 DEF Told, RepliesInOrder
<1>3. QED  BY <1>1, <1>2

\* What is left on the wire when its first request is taken.
LEMMA WireRest ==
  ASSUME NEW w \in Seq(1 .. MaxRequests), w # <<>>, NEW d \in Int,
         \A k \in DOMAIN w : w[k] = d + k - 1
  PROVE  /\ Head(w) = d /\ Len(w) = Len(Tail(w)) + 1
         /\ \A k \in DOMAIN Tail(w) : Tail(w)[k] = d + k
<1>1. /\ Len(w) \in Nat \ {0} /\ DOMAIN w = 1 .. Len(w) /\ Head(w) = w[1]
      /\ Tail(w) \in Seq(1 .. MaxRequests) /\ Len(Tail(w)) = Len(w) - 1
      /\ \A k \in 1 .. Len(Tail(w)) : Tail(w)[k] = w[k + 1]
  BY HeadTailProperties, EmptySeq, LenProperties
<1>2. DOMAIN Tail(w) = 1 .. Len(w) - 1  BY <1>1, LenProperties
<1>3. QED  BY <1>1, <1>2

\* A reply to the request that is due leaves the conversation with the rest.
LEMMA AnswerGoesOn ==
  ASSUME OwnTypes, OwnTypes', Conversation, UNCHANGED <<conn, first, made>>,
         NEW r, NEW status, NEW of, Told(r, status, of), conn = "open" => r.n = Due,
         server'.at = "read",
         conn = "open" => /\ \A k \in DOMAIN wire' : wire'[k] = Due + k
                          /\ made = Due + Len(wire')
  PROVE  Conversation'
<1>1. RepliesInOrder /\ replies' \in Seq(OwnReply)  BY DEF Conversation, OwnTypes
<1>2. RepliesInOrder' /\ (conn = "open" => Due' = Due + 1)  BY <1>1, ToldInOrder
<1>3. ~ InService' /\ Served' = 0  BY DEF InService, Served
<1>4. Due \in Nat /\ made \in Nat /\ Len(wire') \in Nat /\ DOMAIN wire' = 1 .. Len(wire')
  BY IpcAssumption, LenProperties DEF OwnTypes, Num, Due
<1>5. conn' = "open" =>
        /\ \A k \in DOMAIN wire' : wire'[k] = Due' + Served' + k - 1
        /\ made' + 1 = Due' + Served' + Len(wire')
  BY <1>2, <1>3, <1>4
<1>6. QED  BY <1>2, <1>3, <1>5 DEF Conversation

\* Nothing is promised to a client that is gone.
LEMMA GoneGoesOn == ASSUME RepliesInOrder', conn' # "open" PROVE Conversation'
  BY DEF Conversation

LEMMA InitConversation == Init => Conversation
<1> SUFFICES ASSUME Init PROVE Conversation
  OBVIOUS
<1>1. RepliesInOrder  BY DEF Init, RepliesInOrder
<1>2. QED  BY <1>1 DEF Init, Conversation

LEMMA NextConversation == OwnTypes /\ OwnTypes' /\ Conversation /\ [Next]_vars => Conversation'
<1> SUFFICES ASSUME OwnTypes, OwnTypes', Conversation, [Next]_vars PROVE Conversation'
  OBVIOUS
<1> USE DEF clientVars, serverVars, fabricVars, toolbusVars
<1>0. /\ first \in Nat /\ made \in Nat /\ Len(replies) \in Nat /\ Len(wire) \in Nat
      /\ Due \in Nat /\ Served \in {0, 1} /\ RepliesInOrder
  <2>1. first \in Nat /\ made \in Nat  BY IpcAssumption DEF OwnTypes, Num
  <2>2. Len(replies) \in Nat /\ Len(wire) \in Nat  BY LenProperties DEF OwnTypes
  <2>3. QED  BY <2>1, <2>2 DEF Due, Served, Conversation
<1>1. CASE Connect
  <2>1. RepliesInOrder'  BY <1>1 DEF Connect, RepliesInOrder
  <2>2. Served' = 0  BY <1>1 DEF Connect, OwnTypes, Served, InService
  <2>3. Due' = made + 1 /\ Len(wire') = 0 /\ wire' = <<>>
    BY <1>0, <1>1, EmptySeq DEF Connect, Due
  <2>4. ~ InService'  BY <1>1 DEF Connect, OwnTypes, InService
  <2>5. QED  BY <1>0, <1>1, <2>1, <2>2, <2>3, <2>4 DEF Connect, Conversation
<1>2. CASE Request
  <2>1. UNCHANGED <<conn, replies, first, server>> /\ made' = made + 1
    BY <1>2 DEF Request
  <2>2. /\ Len(wire') = Len(wire) + 1 /\ wire'[Len(wire) + 1] = made + 1
        /\ \A k \in 1 .. Len(wire) : wire'[k] = wire[k]
        /\ DOMAIN wire' = 1 .. Len(wire) + 1 /\ DOMAIN wire = 1 .. Len(wire)
    <3>1. made + 1 \in 1 .. MaxRequests  BY <1>0, <1>2, IpcAssumption DEF Request
    <3>2. wire' = Append(wire, made + 1) /\ wire \in Seq(1 .. MaxRequests)
      BY <1>2 DEF Request, OwnTypes
    <3>3. QED  BY <1>0, <3>1, <3>2, AppendProperties, LenProperties
  <2>3. Due' = Due /\ Served' = Served /\ RepliesInOrder' /\ InService' = InService
    BY <1>0, <2>1 DEF Due, Served, InService, RepliesInOrder
  <2>4. ASSUME conn = "open"
        PROVE  /\ \A k \in DOMAIN wire' : wire'[k] = Due + Served + k - 1
               /\ made' + 1 = Due + Served + Len(wire')
    <3>1. /\ \A k \in 1 .. Len(wire) : wire[k] = Due + Served + k - 1
          /\ made + 1 = Due + Served + Len(wire)
      BY <2>2, <2>4 DEF Conversation
    <3>2. QED  BY <1>0, <2>1, <2>2, <3>1
  <2>5. QED  BY <2>1, <2>3, <2>4 DEF Conversation
<1>3. CASE HangUp
  BY <1>3 DEF HangUp, Conversation, RepliesInOrder
<1>4. CASE ThreadUp \/ Listen \/ Accept \/ SelectReturns \/ ThreadExits
  <2>1. /\ UNCHANGED <<conn, wire, replies, made, first>>
        /\ server'.at \in {"listen", "select", "read", "done"}
        /\ server.at \in {"off", "listen", "select"}
    BY <1>4 DEF ThreadUp, Listen, Accept, SelectReturns, ThreadExits, OwnTypes
  <2>2. ~ InService /\ ~ InService' /\ Served' = Served /\ Due' = Due
    BY <2>1 DEF InService, Served, Due
  <2>3. QED  BY <2>1, <2>2 DEF Conversation, RepliesInOrder
<1>5. CASE ReadFails
  BY <1>5 DEF ReadFails, Closed, Conversation, RepliesInOrder
<1>6. ASSUME server.at = "read", wire # <<>>, conn = "open"
      PROVE  /\ Head(wire) = Due /\ made = Due + Len(Tail(wire))
             /\ \A k \in DOMAIN Tail(wire) : Tail(wire)[k] = Due + k
  <2>1. Served = 0  BY <1>6 DEF Served, InService
  <2>2. \A k \in DOMAIN wire : wire[k] = Due + k - 1
    BY <1>0, <1>6, <2>1, LenProperties DEF Conversation, OwnTypes
  <2>3. /\ Head(wire) = Due /\ Len(wire) = Len(Tail(wire)) + 1
        /\ \A k \in DOMAIN Tail(wire) : Tail(wire)[k] = Due + k
    <3>1. wire \in Seq(1 .. MaxRequests) /\ wire # <<>> /\ Due \in Int
      BY <1>0, <1>6 DEF OwnTypes
    <3>2. QED  BY <2>2, <3>1, WireRest, Zenon
  <2>4. Len(Tail(wire)) \in Nat
    BY <1>6, HeadTailProperties, LenProperties DEF OwnTypes
  <2>5. made + 1 = Due + Len(wire)  BY <1>0, <1>6, <2>1 DEF Conversation
  <2>6. QED  BY <1>0, <2>3, <2>4, <2>5
<1>7. CASE ReadDirect
  <2> DEFINE r == NextRequest("DIRECT")
  <2>1. /\ server.at = "read" /\ wire # <<>> /\ UNCHANGED <<made, first>>
        /\ conn' # "none" => wire' = Tail(wire)
        /\ conn # "none" /\ r.n = Head(wire)
    BY <1>7 DEF ReadDirect, ReadNext, OwnTypes, NextRequest
  <2>2. ASSUME NEW status, NEW of, Told(r, status, of), BackTo("read"), UNCHANGED conn
        PROVE  Conversation'
    <3>1. server'.at = "read" /\ wire' = Tail(wire)  BY <2>1, <2>2 DEF BackTo, OwnTypes
    <3>2. conn = "open" => /\ r.n = Due /\ made = Due + Len(wire')
                           /\ \A k \in DOMAIN wire' : wire'[k] = Due + k
      BY <1>6, <2>1, <3>1
    <3>3. QED  BY <2>1, <2>2, <3>1, <3>2, AnswerGoesOn
  <2>3. CASE Reply(r, Head(wire))
    <3>1. CASE conn = "gone" /\ Closed /\ UNCHANGED replies
      BY <1>0, <2>1, <3>1, GoneGoesOn DEF Closed, RepliesInOrder
    <3>2. QED  BY <2>2, <2>3, <3>1 DEF Reply
  <2>4. CASE ReplyError(r, "refused")
    BY <2>2, <2>4 DEF ReplyError
  <2>5. QED  BY <1>7, <2>3, <2>4 DEF ReadDirect
<1>8. CASE ReadMalformed
  <2> DEFINE r == NextRequest("MALFORMED")
  <2>1. /\ server.at = "read" /\ wire # <<>> /\ first' = first /\ r.n = Head(wire)
        /\ Told(r, "malformed", 0) /\ conn' = "none" /\ replies' \in Seq(OwnReply)
    BY <1>8 DEF ReadMalformed, ReadNext, OwnTypes, NextRequest, Closed
  <2>2. conn = "open" => r.n = Due  BY <1>6, <2>1
  <2>3. RepliesInOrder'  BY <1>0, <2>1, <2>2, ToldInOrder
  <2>4. QED  BY <2>1, <2>3, GoneGoesOn
<1>9. ASSUME NEW op \in {"FENCE", "QUERY"}, ReadRequest(op) PROVE Conversation'
  <2>1. /\ server.at = "read" /\ wire # <<>> /\ UNCHANGED <<conn, replies, made, first>>
        /\ wire' = Tail(wire) /\ server'.at = "seq" /\ server'.req.n = Head(wire)
    BY <1>9 DEF ReadRequest, ReadNext, OwnTypes, NextRequest
  <2>2. Due' = Due /\ Served' = 1 /\ RepliesInOrder'
    BY <1>0, <2>1 DEF Due, Served, InService, RepliesInOrder
  <2>3. ASSUME conn = "open"
        PROVE  /\ server'.req.n = Due
               /\ \A k \in DOMAIN wire' : wire'[k] = Due + 1 + k - 1
               /\ made + 1 = Due + 1 + Len(wire')
    <3>1. /\ Head(wire) = Due /\ made = Due + Len(wire')
          /\ \A k \in DOMAIN wire' : wire'[k] = Due + k
      BY <1>6, <2>1, <2>3
    <3>2. Len(wire') \in Nat /\ DOMAIN wire' = 1 .. Len(wire')
      BY LenProperties DEF OwnTypes
    <3>3. QED  BY <1>0, <2>1, <3>1, <3>2
  <2>4. QED  BY <2>1, <2>2, <2>3 DEF Conversation
<1>10. CASE NoteSeq \/ Send
  <2>1. /\ UNCHANGED <<conn, wire, replies, made, first>> /\ server'.req = server.req
        /\ server'.at \in {"send", "wait"} /\ server.at \in {"seq", "send"}
    BY <1>10 DEF NoteSeq, Send, OwnTypes
  <2>2. InService /\ InService' /\ Served' = Served /\ Due' = Due
    BY <2>1 DEF InService, Served, Due
  <2>3. QED  BY <2>1, <2>2 DEF Conversation, RepliesInOrder
\* The request that is served is due, and the wire goes on after it.
<1>11. ASSUME server.at \in {"send", "wait"}, conn = "open"
       PROVE  /\ server.req.n = Due /\ made = Due + Len(wire)
              /\ \A k \in DOMAIN wire : wire[k] = Due + k
  <2>1. InService /\ Served = 1  BY <1>11 DEF Served, InService
  <2>2. /\ server.req.n = Due /\ made + 1 = Due + 1 + Len(wire)
        /\ \A k \in DOMAIN wire : wire[k] = Due + 1 + k - 1
    BY <1>11, <2>1 DEF Conversation
  <2>3. DOMAIN wire = 1 .. Len(wire)  BY LenProperties DEF OwnTypes
  <2>4. QED  BY <1>0, <2>2, <2>3
<1>12. ASSUME server.at \in {"send", "wait"}, UNCHANGED <<conn, wire, made, first>>,
              NEW status, NEW of, Told(server.req, status, of), BackTo("read")
       PROVE  Conversation'
  <2>1. server'.at = "read"  BY <1>12 DEF BackTo, OwnTypes
  <2>2. conn = "open" => /\ server.req.n = Due /\ made = Due + Len(wire')
                         /\ \A k \in DOMAIN wire' : wire'[k] = Due + k
    BY <1>11, <1>12
  <2>3. QED  BY <1>12, <2>1, <2>2, AnswerGoesOn
<1>13. CASE SendFails \/ WaitTimesOut
  BY <1>12, <1>13 DEF SendFails, WaitTimesOut, ReplyError
<1>14. CASE WaitFinds
  <2>1. /\ server.at = "wait" /\ conn # "none" /\ Reply(server.req, Answer.of)
        /\ conn' # "none" => wire' = wire
        /\ UNCHANGED <<made, first>>
    BY <1>14 DEF WaitFinds, OwnTypes
  <2>2. CASE Told(server.req, "ok", Answer.of) /\ BackTo("read") /\ UNCHANGED conn
    BY <1>12, <2>1, <2>2
  <2>3. CASE conn = "gone" /\ Closed /\ UNCHANGED replies
    BY <1>0, <2>1, <2>3, GoneGoesOn DEF Closed, RepliesInOrder
  <2>4. QED  BY <2>1, <2>2, <2>3 DEF Reply
<1>15. CASE \/ StartReturns \/ StopCall \/ StopReturn \/ StepGoesOn \/ DrainOther \/ Clear
            \/ UNCHANGED vars
  <2>1. UNCHANGED <<clientVars, server>>
    BY <1>15 DEF StartReturns, StopCall, StopReturn, StepGoesOn, DrainOther, Clear, vars,
                 Drain, DrainDone, NodeAnswers, NodeRecords, NodesDone, Outbox, StepEnd
  <2>2. QED  BY <2>1 DEF Conversation, RepliesInOrder, InService, Served, Due
<1>16. QED
  BY <1>1, <1>2, <1>3, <1>4, <1>5, <1>7, <1>8, <1>9, <1>10, <1>13, <1>14, <1>15
     DEF Next, ClientStep, ServerStep

-----------------------------------------------------------------------------
(* The ring and the history: the ith newest entry of the ring is the ith   *)
(* newest result since the last hs_clear, numbered without a gap, and the  *)
(* rest of the ring is empty.                                              *)

Age == 0 .. ToolbusSize - 1

RingIsHistory ==
  /\ history \in Seq(OwnEntry) /\ Len(history) <= toolbus.seq
  /\ \A k \in 1 .. Len(history) : history[k].seq = toolbus.seq - Len(history) + k
  /\ \A i \in Age : IF i < Len(history) THEN Newest(toolbus, i) = history[Len(history) - i]
                                        ELSE Newest(toolbus, i).seq = 0

\* The slot of the ith newest entry.
Slot(t, i) == (t.head + ToolbusSize - 1 - i) % ToolbusSize

LEMMA SlotWraps ==
  ASSUME NEW x \in 0 .. 2 * ToolbusSize - 1
  PROVE  x % ToolbusSize = IF x < ToolbusSize THEN x ELSE x - ToolbusSize
<1> USE ToolbusAssumption
<1>1. CASE x < ToolbusSize  BY <1>1, SMT
<1>2. CASE x >= ToolbusSize  BY <1>2, SMT
<1>3. QED  BY <1>1, <1>2

LEMMA SlotOfAge ==
  ASSUME NEW t \in OwnToolbus, NEW i \in Age
  PROVE  /\ Slot(t, i) = IF t.head > i THEN t.head - 1 - i ELSE t.head + ToolbusSize - 1 - i
         /\ Slot(t, i) \in ToolbusSlot
<1>1. t.head \in 0 .. ToolbusSize - 1 /\ ToolbusSize \in Nat /\ i \in 0 .. ToolbusSize - 1
  BY ToolbusAssumption DEF OwnToolbus, ToolbusSlot, Age
<1>2. t.head + ToolbusSize - 1 - i \in 0 .. 2 * ToolbusSize - 1  BY <1>1
<1>3. Slot(t, i) = IF t.head + ToolbusSize - 1 - i < ToolbusSize
                     THEN t.head + ToolbusSize - 1 - i ELSE t.head - 1 - i
  BY <1>1, <1>2, SlotWraps DEF Slot
<1>4. QED  BY <1>1, <1>3 DEF ToolbusSlot

\* A new result is the newest; every other entry is one older than it was,
\* and the oldest is gone.
LEMMA RecordedAges ==
  ASSUME NEW t \in OwnToolbus, NEW m \in OwnMessage
  PROVE  /\ Newest(Recorded(t, m), 0) = [seq |-> t.seq + 1, cid |-> m.cid, op |-> m.op, of |-> m.n]
         /\ \A i \in Age \ {0} : Newest(Recorded(t, m), i) = Newest(t, i - 1)
<1> DEFINE u == Recorded(t, m)
           e == [seq |-> t.seq + 1, cid |-> m.cid, op |-> m.op, of |-> m.n]
<1>1. u \in OwnToolbus  BY RecordedType
<1>2. u.ring = [t.ring EXCEPT ![t.head] = e]  BY DEF Recorded
<1>3. u.head = IF t.head + 1 < ToolbusSize THEN t.head + 1 ELSE 0
  <2>1. t.head \in 0 .. ToolbusSize - 1 /\ ToolbusSize \in Nat
    BY ToolbusAssumption DEF OwnToolbus, ToolbusSlot
  <2>2. t.head + 1 \in 0 .. 2 * ToolbusSize - 1  BY <2>1
  <2>3. u.head = (t.head + 1) % ToolbusSize  BY DEF Recorded, NextHead
  <2>4. QED  BY <2>1, <2>2, <2>3, SlotWraps
<1>4. /\ ToolbusSize \in Nat \ {0} /\ t.head \in 0 .. ToolbusSize - 1
      /\ t.ring \in [ToolbusSlot -> OwnEntry] /\ t.head \in ToolbusSlot
  BY ToolbusAssumption DEF OwnToolbus, ToolbusSlot
<1> HIDE DEF u, e
<1>5. Newest(u, 0) = e
  <2>1. 0 \in Age  BY <1>4 DEF Age
  <2>2. Slot(u, 0) = t.head  BY <1>1, <1>3, <1>4, <2>1, SlotOfAge
  <2>3. Newest(u, 0) = u.ring[Slot(u, 0)]  BY DEF Newest, Slot
  <2>4. QED  BY <1>2, <1>4, <2>2, <2>3
<1>6. ASSUME NEW i \in Age \ {0} PROVE Newest(u, i) = Newest(t, i - 1)
  <2>1. i - 1 \in Age /\ i \in Age /\ i \in Nat /\ i > 0 /\ i < ToolbusSize  BY <1>4 DEF Age
  <2>2. /\ Slot(u, i) = IF u.head > i THEN u.head - 1 - i ELSE u.head + ToolbusSize - 1 - i
        /\ Slot(t, i - 1) = IF t.head > i - 1 THEN t.head - 1 - (i - 1)
                                               ELSE t.head + ToolbusSize - 1 - (i - 1)
        /\ Slot(t, i - 1) \in ToolbusSlot
    BY <1>1, <2>1, SlotOfAge
  <2>3. Slot(u, i) = Slot(t, i - 1) /\ Slot(t, i - 1) # t.head
    BY <1>3, <1>4, <2>1, <2>2
  <2>4. Newest(u, i) = u.ring[Slot(u, i)] /\ Newest(t, i - 1) = t.ring[Slot(t, i - 1)]
    BY DEF Newest, Slot
  <2>5. QED  BY <1>2, <1>4, <2>2, <2>3, <2>4
<1>7. QED  BY <1>5, <1>6 DEF u, e

LEMMA ClearedAges ==
  ASSUME NEW t \in OwnToolbus, NEW i \in Age
  PROVE  Newest(Cleared(t), i).seq = 0
<1>1. Cleared(t) \in OwnToolbus  BY ClearedType
<1>2. Cleared(t).ring = EmptyRing  BY DEF Cleared, OwnToolbus
<1>3. Slot(Cleared(t), i) \in ToolbusSlot  BY <1>1, SlotOfAge
<1>4. Newest(Cleared(t), i) = EmptyRing[Slot(Cleared(t), i)]  BY <1>2 DEF Newest, Slot
<1>5. QED  BY <1>3, <1>4 DEF EmptyRing, NoEntry

LEMMA InitRing == Init => RingIsHistory
<1> SUFFICES ASSUME Init PROVE RingIsHistory
  OBVIOUS
<1>1. toolbus = ToolbusInit /\ history = <<>>  BY DEF Init
<1>2. ToolbusInit \in OwnToolbus /\ ToolbusInit.ring = EmptyRing /\ ToolbusInit.seq = 0
  BY EmptyRingType, ToolbusAssumption DEF ToolbusInit, OwnToolbus
<1>3. history \in Seq(OwnEntry) /\ Len(history) = 0  BY <1>1, EmptySeq
<1>4. ASSUME NEW i \in Age PROVE Newest(toolbus, i).seq = 0
  <2>1. Slot(toolbus, i) \in ToolbusSlot  BY <1>1, <1>2, SlotOfAge
  <2>2. Newest(toolbus, i) = EmptyRing[Slot(toolbus, i)]  BY <1>1, <1>2 DEF Newest, Slot
  <2>3. QED  BY <2>1, <2>2 DEF EmptyRing, NoEntry
<1>5. \A i \in Age : i \in Nat  BY DEF Age
<1>6. QED  BY <1>1, <1>2, <1>3, <1>4, <1>5 DEF RingIsHistory

\* A result that is recorded goes to the end of both.
LEMMA RecordingKeepsRing == OwnTypes /\ RingIsHistory /\ NodeRecords => RingIsHistory'
<1> SUFFICES ASSUME OwnTypes, RingIsHistory, NodeRecords PROVE RingIsHistory'
  OBVIOUS
<1>1. PICK m \in OwnMessage : m = Head(inbox)
  BY HeadTailProperties DEF OwnTypes, NodeRecords
<1>2. toolbus \in OwnToolbus /\ toolbus.seq \in Nat  BY DEF OwnTypes, OwnToolbus
<1>3. toolbus' = Recorded(toolbus, m) /\ toolbus'.seq = toolbus.seq + 1
  BY <1>1, <1>2, RecordedType DEF NodeRecords
<1>4. PICK e \in OwnEntry : e = [seq |-> toolbus.seq + 1, cid |-> m.cid, op |-> m.op, of |-> m.n]
  <2>1. /\ m.cid \in Num /\ m.op \in Op /\ m.n \in Num /\ (FreshCids => m.cid = m.n)
        /\ toolbus.seq + 1 \in Nat
    BY <1>2 DEF OwnMessage
  <2>2. [seq |-> toolbus.seq + 1, cid |-> m.cid, op |-> m.op, of |-> m.n] \in OwnEntry
    BY <2>1 DEF OwnEntry
  <2>3. QED  BY <2>2
<1>5. history' = Append(history, e)
  <2>1. e = [seq |-> toolbus.seq + 1, of |-> m.n, cid |-> m.cid, op |-> m.op]  BY <1>4
  <2>2. QED  BY <1>1, <1>3, <2>1 DEF NodeRecords
<1>6. PICK n \in Nat : n = Len(history)  BY LenProperties DEF RingIsHistory
<1>7. /\ history' \in Seq(OwnEntry) /\ Len(history') = n + 1 /\ history'[n + 1] = e
      /\ \A k \in 1 .. n : history'[k] = history[k]
  <2>1. history \in Seq(OwnEntry)  BY DEF RingIsHistory
  <2>2. QED  BY <1>4, <1>5, <1>6, <2>1, AppendProperties
<1>8. /\ Newest(toolbus', 0) = e
      /\ \A i \in Age \ {0} : Newest(toolbus', i) = Newest(toolbus, i - 1)
  BY <1>2, <1>3, <1>4, RecordedAges
<1>9. /\ n <= toolbus.seq /\ \A k \in 1 .. n : history[k].seq = toolbus.seq - n + k
      /\ \A i \in Age : IF i < n THEN Newest(toolbus, i) = history[n - i]
                                 ELSE Newest(toolbus, i).seq = 0
  BY <1>6 DEF RingIsHistory
<1>10. \A k \in 1 .. n + 1 : history'[k].seq = toolbus'.seq - (n + 1) + k
  <2> SUFFICES ASSUME NEW k \in 1 .. n + 1 PROVE history'[k].seq = toolbus'.seq - (n + 1) + k
    OBVIOUS
  <2>1. CASE k = n + 1
    <3>1. history'[k].seq = toolbus.seq + 1  BY <1>4, <1>7, <2>1
    <3>2. QED  BY <1>2, <1>3, <2>1, <3>1
  <2>2. CASE k \in 1 .. n
    <3>1. history'[k].seq = toolbus.seq - n + k  BY <1>7, <1>9, <2>2
    <3>2. QED  BY <1>2, <1>3, <3>1
  <2>3. QED  BY <2>1, <2>2
<1>11. ASSUME NEW i \in Age
       PROVE  IF i < n + 1 THEN Newest(toolbus', i) = history'[n + 1 - i]
                           ELSE Newest(toolbus', i).seq = 0
  <2>1. CASE i = 0
    BY <1>7, <1>8, <2>1
  <2>2. CASE i # 0
    <3>1. i - 1 \in Age /\ i \in Nat /\ i > 0  BY <2>2, ToolbusAssumption DEF Age
    <3>2. Newest(toolbus', i) = Newest(toolbus, i - 1)  BY <1>8, <2>2
    <3>3. CASE i < n + 1
      <4>1. n + 1 - i \in 1 .. n /\ n - (i - 1) = n + 1 - i /\ i - 1 < n  BY <3>1, <3>3
      <4>2. Newest(toolbus, i - 1) = history[n + 1 - i]  BY <1>9, <3>1, <4>1
      <4>3. QED  BY <1>7, <3>2, <3>3, <4>1, <4>2
    <3>4. CASE ~ (i < n + 1)
      <4>1. ~ (i - 1 < n)  BY <3>1, <3>4
      <4>2. QED  BY <1>9, <3>1, <3>2, <3>4, <4>1
    <3>5. QED  BY <3>3, <3>4
  <2>3. QED  BY <2>1, <2>2
<1>12. n + 1 <= toolbus'.seq  BY <1>2, <1>3, <1>9
<1>13. /\ Len(history') = n + 1 /\ history' \in Seq(OwnEntry)
       /\ \A k \in 1 .. Len(history') : history'[k].seq = toolbus'.seq - Len(history') + k
  BY <1>7, <1>10
<1>14. \A i \in Age : IF i < Len(history')
                        THEN Newest(toolbus', i) = history'[Len(history') - i]
                        ELSE Newest(toolbus', i).seq = 0
  BY <1>11, <1>13, ToolbusAssumption DEF Age
<1>15. Len(history') <= toolbus'.seq  BY <1>12, <1>13
<1>16. QED  BY <1>13, <1>14, <1>15 DEF RingIsHistory

\* hs_clear empties both.
LEMMA ClearingKeepsRing == OwnTypes /\ Clear => RingIsHistory'
<1> SUFFICES ASSUME OwnTypes, Clear PROVE RingIsHistory'
  OBVIOUS
<1>1. toolbus \in OwnToolbus /\ toolbus.seq \in Nat  BY DEF OwnTypes, OwnToolbus
<1>2. toolbus' = Cleared(toolbus) /\ toolbus'.seq = toolbus.seq + 1 /\ history' = <<>>
  BY <1>1, ClearedType DEF Clear
<1>3. history' \in Seq(OwnEntry) /\ Len(history') = 0  BY <1>2, EmptySeq
<1>4. \A i \in Age : Newest(toolbus', i).seq = 0 /\ i \in Nat
  BY <1>1, <1>2, ClearedAges DEF Age
<1>5. QED  BY <1>1, <1>2, <1>3, <1>4 DEF RingIsHistory

LEMMA NextRing == OwnTypes /\ RingIsHistory /\ [Next]_vars => RingIsHistory'
<1> SUFFICES ASSUME OwnTypes, RingIsHistory, [Next]_vars PROVE RingIsHistory'
  OBVIOUS
<1>1. CASE NodeRecords  BY <1>1, RecordingKeepsRing
<1>2. CASE Clear  BY <1>2, ClearingKeepsRing
<1>3. ASSUME UNCHANGED toolbusVars PROVE RingIsHistory'
  BY <1>3 DEF toolbusVars, RingIsHistory
<1>4. CASE ClientStep \/ ServerStep \/ SendFails \/ StartReturns \/ StopCall \/ StopReturn
  BY <1>3, <1>4
     DEF ClientStep, Connect, HangUp, Request, ServerStep, SendFails, ThreadUp, Listen, Accept,
         SelectReturns, ThreadExits, ReadFails, ReadDirect, ReadMalformed, ReadRequest, NoteSeq,
         Send, WaitFinds, WaitTimesOut, StartReturns, StopCall, StopReturn
<1>5. CASE DrainOther \/ Drain \/ DrainDone \/ NodeAnswers \/ NodesDone \/ Outbox \/ StepEnd
  BY <1>3, <1>5 DEF DrainOther, Drain, DrainDone, NodeAnswers, NodesDone, Outbox, StepEnd
<1>6. CASE UNCHANGED vars  BY <1>3, <1>6 DEF vars
<1>7. QED  BY <1>1, <1>2, <1>4, <1>5, <1>6 DEF Next, StepGoesOn

\* Entries that were not overwritten are usable results, and the scan reaches
\* them over younger ones only.
LEMMA UsableIsHit ==
  ASSUME OwnTypes, RingIsHistory, NEW k \in Usable
  PROVE  Len(history) - k \in Answers /\ history[k].seq = toolbus.seq - (Len(history) - k)
<1>1. PICK n \in Nat : n = Len(history)  BY LenProperties DEF RingIsHistory
<1>2. /\ DOMAIN history = 1 .. n /\ k \in 1 .. n /\ k > n - ToolbusSize
      /\ history[k].seq > server.after
      /\ history[k].cid = server.req.cid /\ history[k].op = server.req.op
  BY <1>1, LenProperties DEF Usable, RingIsHistory
<1>3. toolbus.seq \in Nat /\ server.after \in Nat /\ ToolbusSize \in Nat
  BY ToolbusAssumption DEF OwnTypes, OwnToolbus
<1>4. PICK i \in Age : i = n - k /\ i < n
  BY <1>2, <1>3 DEF Age
<1>5. history[k].seq = toolbus.seq - i
  <2>1. history[k].seq = toolbus.seq - n + k  BY <1>1, <1>2 DEF RingIsHistory
  <2>2. QED  BY <1>2, <1>3, <1>4, <2>1
<1>6. ASSUME NEW j \in 0 .. i
      PROVE  Newest(toolbus, j).seq # 0 /\ Newest(toolbus, j).seq > server.after
  <2>1. j \in Age /\ j < n /\ n - j \in 1 .. n  BY <1>3, <1>4 DEF Age
  <2>2. Newest(toolbus, j) = history[n - j]  BY <1>1, <2>1 DEF RingIsHistory
  <2>3. history[n - j].seq = toolbus.seq - n + (n - j)  BY <1>1, <2>1 DEF RingIsHistory
  <2>4. j \in Nat /\ i \in Nat /\ j <= i  BY <1>4 DEF Age
  <2>5. QED  BY <1>2, <1>3, <1>5, <2>2, <2>3, <2>4
<1>7. Newest(toolbus, i) = history[k]
  <2>1. Newest(toolbus, i) = history[n - i] /\ n - i = k
    BY <1>1, <1>2, <1>4 DEF RingIsHistory, Age
  <2>2. QED  BY <2>1
<1>8. i \in Answers
  BY <1>2, <1>4, <1>6, <1>7 DEF Answers, Hits, InReach, Matches, Age
<1>9. QED  BY <1>1, <1>4, <1>5, <1>8

LEMMA HitIsUsable ==
  ASSUME OwnTypes, RingIsHistory, NEW i \in Answers
  PROVE  /\ Len(history) - i \in Usable /\ i \in Age
         /\ Newest(toolbus, i).seq = toolbus.seq - i
<1>1. PICK n \in Nat : n = Len(history)  BY LenProperties DEF RingIsHistory
<1>2. toolbus.seq \in Nat /\ server.after \in Nat /\ ToolbusSize \in Nat
  BY ToolbusAssumption DEF OwnTypes, OwnToolbus
<1>3. /\ i \in Age /\ i \in Nat /\ i < ToolbusSize
      /\ Matches(Newest(toolbus, i), server.req.cid, server.req.op)
      /\ InReach(toolbus, server.after, i)
  BY <1>2 DEF Answers, Hits, Age
<1>4. Newest(toolbus, i).seq # 0 /\ Newest(toolbus, i).seq > server.after
  BY <1>3 DEF InReach
<1>5. i < n /\ Newest(toolbus, i) = history[n - i]
  BY <1>1, <1>3, <1>4 DEF RingIsHistory
<1>6. n - i \in 1 .. n /\ n - i > n - ToolbusSize  BY <1>2, <1>3, <1>5
<1>7. history[n - i].seq = toolbus.seq - n + (n - i)
  BY <1>1, <1>6 DEF RingIsHistory
<1>8. Newest(toolbus, i).seq = toolbus.seq - i  BY <1>2, <1>3, <1>5, <1>7
<1>9. DOMAIN history = 1 .. n  BY <1>1, LenProperties DEF RingIsHistory
<1>10. n - i \in Usable
  BY <1>1, <1>3, <1>4, <1>5, <1>6, <1>9 DEF Usable, Matches
<1>11. QED  BY <1>1, <1>3, <1>8, <1>10

\* So the scan finds the newest usable result.
LEMMA RingIsScanned == OwnTypes /\ RingIsHistory => ScanIsComplete
<1> SUFFICES ASSUME OwnTypes, RingIsHistory PROVE ScanIsComplete
  OBVIOUS
<1>1. ASSUME Usable = {} PROVE Answers = {}
  BY <1>1, HitIsUsable
<1>2. ASSUME NEW k \in Usable PROVE Answers # {} /\ Answer.seq >= history[k].seq
  <2>1. Len(history) - k \in Answers /\ history[k].seq = toolbus.seq - (Len(history) - k)
    BY UsableIsHit
  <2>2. PICK i \in Answers : Answer = Newest(toolbus, i) /\ \A j \in Answers : i <= j
    BY <2>1, FoundIsNewest DEF Answers, Answer
  <2>3. Newest(toolbus, i).seq = toolbus.seq - i /\ i \in Age  BY HitIsUsable
  <2>4. PICK d \in Age : d = Len(history) - k  BY <2>1, HitIsUsable
  <2>5. i <= d /\ toolbus.seq \in Nat /\ d \in Nat /\ i \in Nat
    BY <2>1, <2>2, <2>3, <2>4 DEF Age, OwnTypes, OwnToolbus
  <2>6. QED  BY <2>1, <2>2, <2>3, <2>4, <2>5
<1>3. QED  BY <1>1, <1>2 DEF ScanIsComplete

-----------------------------------------------------------------------------
(* The theorems.                                                           *)

\* The invariant behind the first two theorems.
LEMMA AlwaysOwnTypes == Spec => []OwnTypes
  BY InitTypes, NextTypes, PTL DEF Spec

\* Whatever the schedule, every variable keeps its type, the fabric's queues
\* and the toolbus their bounds, and the server never waits for a sequence
\* number that the toolbus has not reached.
THEOREM IpcTypes == Spec => []TypeOK
<1>1. OwnTypes => TypeOK
  <2> SUFFICES ASSUME OwnTypes PROVE TypeOK
    OBVIOUS
  <2>1. server.req \in RequestSet
    BY DEF OwnTypes, OwnRequest, RequestSet, Num, Op
  <2>2. server.after \in 0 .. toolbus.seq
    BY DEF OwnTypes, OwnToolbus
  <2>3. toolbus.head \in ToolbusSlot /\ toolbus.count \in 0 .. ToolbusSize
    BY DEF OwnTypes, OwnToolbus
  <2>4. server.at \in At  BY DEF OwnTypes
  <2>5. QED  BY <2>1, <2>2, <2>3, <2>4 DEF OwnTypes, TypeOK, At, Num
<1>2. QED  BY <1>1, AlwaysOwnTypes, PTL

\* If correlation ids are distinct, a client is never sent the result of
\* another request than the one it answers: not one that came after its
\* request had timed out, not one of an earlier client, and not another
\* thread's.
THEOREM IpcAnswerIsOwn == ASSUME FreshCids PROVE Spec => []AnswerIsOwn
<1>1. OwnTypes => AnswerIsOwn
  <2> SUFFICES ASSUME OwnTypes, NEW k \in DOMAIN replies, replies[k].status = "ok"
               PROVE  replies[k].of = replies[k].n
    BY DEF AnswerIsOwn
  <2>1. replies[k] \in OwnReply  BY ElementOfSeq, LenProperties DEF OwnTypes
  <2>2. QED  BY <2>1 DEF OwnReply
<1>2. QED  BY <1>1, AlwaysOwnTypes, PTL

\* A client is sent one reply per request, in the order it made them, whether
\* results, refusals or timeouts, and whoever hangs up in between.
THEOREM IpcRepliesInOrder == Spec => []RepliesInOrder
<1>1. Conversation => RepliesInOrder  BY DEF Conversation
<1>2. Spec => []Conversation
  BY InitConversation, NextConversation, AlwaysOwnTypes, PTL DEF Spec
<1>3. QED  BY <1>1, <1>2, PTL

\* When hs_ipc_stop has returned, the server's thread is through with the
\* server's data, and stays so.
THEOREM IpcStopIsFinal == Spec => []StopIsFinal
<1>1. Init => StopIsFinal  BY DEF Init, StopIsFinal
<1>2. OwnTypes /\ StopIsFinal /\ [Next]_vars => StopIsFinal'
  <2> SUFFICES ASSUME OwnTypes, StopIsFinal, [Next]_vars PROVE StopIsFinal'
    OBVIOUS
  <2> USE DEF clientVars, serverVars, fabricVars, toolbusVars, StopIsFinal
  <2>1. CASE ServerStep \/ SendFails
    <3>1. server.at # "done"
      BY <2>1 DEF ServerStep, SendFails, ThreadUp, Listen, Accept, SelectReturns, ThreadExits,
                  ReadFails, ReadDirect, ReadMalformed, ReadRequest, ReadNext, NoteSeq, Send,
                  WaitFinds, WaitTimesOut
    <3>2. caller' = caller
      BY <2>1 DEF ServerStep, SendFails, ThreadUp, Listen, Accept, SelectReturns, ThreadExits,
                  ReadFails, ReadDirect, ReadMalformed, ReadRequest, NoteSeq, Send,
                  WaitFinds, WaitTimesOut
    <3>3. QED  BY <3>1, <3>2
  <2>2. CASE StartReturns \/ StopCall \/ StopReturn
    BY <2>2 DEF StartReturns, StopCall, StopReturn, Joined
  <2>3. CASE \/ Connect \/ HangUp \/ Request \/ StepGoesOn \/ DrainOther \/ Clear
             \/ UNCHANGED vars
    <3>1. UNCHANGED <<server, caller>>
      BY <2>3 DEF Connect, HangUp, Request, StepGoesOn, DrainOther, Clear, vars,
                  Drain, DrainDone, NodeAnswers, NodeRecords, NodesDone, Outbox, StepEnd
    <3>2. QED  BY <3>1
  <2>4. QED  BY <2>1, <2>2, <2>3 DEF Next, ClientStep
<1>3. QED  BY <1>1, <1>2, AlwaysOwnTypes, PTL DEF Spec

\* While the server waits, the scan of hs_toolbus_wait finds the newest result
\* that answers its request whenever the ring still has one, for every size of
\* the ring, wherever its head is and whatever hs_clear has wiped out.
THEOREM IpcScanIsComplete == Spec => []ScanIsComplete
<1>1. Spec => []RingIsHistory
  BY InitRing, NextRing, AlwaysOwnTypes, PTL DEF Spec
<1>2. QED  BY <1>1, RingIsScanned, AlwaysOwnTypes, PTL
=============================================================================
