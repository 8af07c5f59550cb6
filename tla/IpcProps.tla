------------------------------ MODULE IpcProps ------------------------------
(* What the IPC server promises its clients and the thread that stops it.   *)
EXTENDS Ipc

RequestSet ==
  [n : 0 .. MaxRequests, op : OpKinds \cup {NoOp}, cid : 0 .. MaxRequests]

TypeOK ==
  /\ conn \in {"none", "open", "gone"}
  /\ wire \in Seq(1 .. MaxRequests) /\ made \in 0 .. MaxRequests /\ first \in 1 .. MaxRequests + 1
  /\ server.at \in {"off", "listen", "select", "read", "seq", "send", "wait", "done"}
  /\ server.req \in RequestSet /\ server.after \in 0 .. toolbus.seq
  /\ caller \in {"starting", "started", "failed", "stopping", "stopped"} /\ stop \in BOOLEAN
  /\ Len(lane) <= LaneSize /\ Len(inbox) <= InboxSize /\ Len(outbox) <= InboxSize
  /\ phase \in {"drain", "nodes", "outbox"}
  /\ toolbus.head \in ToolbusSlot /\ toolbus.count \in 0 .. ToolbusSize

\* A result sent to a client is the result of the very request it answers,
\* never a late one of a request that had timed out, as long as no two
\* requests share a correlation id (docs/IPC_CONTROL.md: results are matched
\* by cid).
AnswerIsOwn == \A k \in DOMAIN replies : replies[k].status = "ok" => replies[k].of = replies[k].n

\* A client's requests are answered one by one in the order it made them:
\* timeouts, refusals and results leave no gap and no duplicate, and nothing
\* of an earlier client's reaches it.
RepliesInOrder == \A k \in DOMAIN replies : replies[k].n = first + k - 1

\* The results a waiting server could use: recorded since it noted the
\* sequence number, and not yet pushed out of the ring by later ones.
Usable ==
  {k \in DOMAIN history :
     /\ k > Len(history) - ToolbusSize
     /\ history[k].seq > server.after
     /\ history[k].cid = server.req.cid /\ history[k].op = server.req.op}

\* The scan of hs_toolbus_wait, which breaks off at the first old entry,
\* finds the newest usable result whenever there is one, wherever the ring's
\* head is and whatever hs_clear wiped out.
ScanIsComplete ==
  server.at = "wait" =>
    IF Usable = {} THEN Answers = {}
    ELSE /\ Answers # {}
         /\ \A k \in Usable : Answer.seq >= history[k].seq

\* hs_ipc_stop returns only when the server's thread is through with the
\* server's data.
StopIsFinal == caller = "stopped" => server.at = "done"

\* docs/IPC_CONTROL.md: "Timeouts are mandatory: never hang a client".  A
\* request the server took up is answered or refused in the end, as long as
\* somebody calls hs_step: the wait for a result has a deadline, and the wait
\* of hs_send for room ends when a step has drained the lane.
RequestIsAnswered == server.at \in {"seq", "send", "wait"} ~> server.at \in {"read", "listen"}

\* Once hs_ipc_stop was called it returns, if clients hang up (it waits for
\* the client that is connected, however long that stays).
StopReturnsAlone == <>[](caller = "stopping" /\ conn # "open") => <>(caller = "stopped")

\* Both: the server comes back to its clients, and to hs_ipc_stop.
ServerMovesOn == RequestIsAnswered /\ StopReturnsAlone
=============================================================================
