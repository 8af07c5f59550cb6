-------------------------------- MODULE Ipc ---------------------------------
(***************************************************************************)
(* The IPC server: one thread that serves one client connection at a time, *)
(* sends the client's queries, settings and fences to the system node and  *)
(* waits for their results on the toolbus, for 250 ms at most.             *)
(*                                                                         *)
(* The fabric is reduced to what the server's requests see of it: the RT   *)
(* lane of the server's thread, the system node's inbox and outbox, and    *)
(* the phases of hs_step (module Fabric has the whole of it).              *)
(***************************************************************************)
EXTENDS Toolbus, Sequences

CONSTANTS
  Ops,          \* the kinds of requests clients make, from OpKinds
  FreshCids,    \* whether every request has a correlation id of its own
  LaneSize,     \* HS_SPSC_SIZE + HS_SUBMIT_SIZE: RT messages the server may have queued
  InboxSize,    \* HS_QUEUE_SIZE
  MaxRequests,  \* bound: requests in a behaviour
  MaxOther,     \* bound: results of other threads' queries
  MaxClears     \* bound: calls of hs_clear

\* FENCE is answered while it is routed; QUERY, which stands for the settings
\* too, by the system node; DIRECT the server thread itself answers: with an
\* error if it does not support the opcode or the payload does not fit it, and
\* with a result if it is an ML operation; after MALFORMED it hangs up.
OpKinds == {"FENCE", "QUERY", "DIRECT", "MALFORMED"}

ASSUME IpcAssumption ==
  /\ Ops \subseteq OpKinds /\ FreshCids \in BOOLEAN
  /\ LaneSize \in Nat \ {0} /\ InboxSize \in Nat \ {0}
  /\ MaxRequests \in Nat /\ MaxOther \in Nat /\ MaxClears \in Nat

VARIABLES
  conn,        \* the client's connection: "none", "open", or "gone" when the client hung up
  wire,        \* requests written by the client and not read by the server
  replies,     \* what the connected client has been sent
  made,        \* requests made so far, by all clients
  first,       \* the number of this client's first request
  server,      \* the server thread: at, the request it serves, after_seq
  caller,      \* the thread that calls hs_ipc_start and hs_ipc_stop
  stop,        \* srv->stop
  lane, inbox, outbox, phase,   \* the way through the fabric, and where hs_step is
  others, clears,               \* counters for the bounds
  toolbus,
  history      \* the results recorded since the last hs_clear, for the properties

clientVars == <<conn, wire, replies, made, first>>
serverVars == <<server, stop, caller>>
fabricVars == <<lane, inbox, outbox, phase, others>>
toolbusVars == <<toolbus, history>>
vars == <<clientVars, serverVars, fabricVars, toolbusVars, clears>>

NoRequest == [n |-> 0, op |-> NoOp, cid |-> 0]

Init ==
  /\ conn = "none" /\ wire = <<>> /\ replies = <<>> /\ made = 0 /\ first = 1
  /\ server = [at |-> "off", req |-> NoRequest, after |-> 0]
  /\ caller = "starting" /\ stop = FALSE
  /\ lane = <<>> /\ inbox = <<>> /\ outbox = <<>> /\ phase = "drain"
  /\ others = 0 /\ clears = 0
  /\ toolbus = ToolbusInit /\ history = <<>>

\* srv->running
Running == server.at \notin {"off", "done"}

-----------------------------------------------------------------------------
(* Clients.                                                                *)

\* Clients come once the thread listens, unless hs_ipc_start has given up;
\* later ones wait in the backlog while one is served.
Connect ==
  /\ conn = "none" /\ Running /\ caller # "failed"
  /\ conn' = "open" /\ wire' = <<>> /\ replies' = <<>> /\ first' = made + 1
  /\ UNCHANGED <<made, serverVars, fabricVars, toolbusVars, clears>>

\* A client need not wait for a reply before its next request.  What kind of
\* request it is matters when the server reads it, and is chosen then.
Request ==
  /\ conn = "open" /\ made < MaxRequests
  /\ made' = made + 1
  /\ wire' = Append(wire, made + 1)
  /\ UNCHANGED <<conn, replies, first, serverVars, fabricVars, toolbusVars, clears>>

HangUp ==
  /\ conn = "open"
  /\ conn' = "gone" /\ replies' = <<>>
  /\ UNCHANGED <<wire, made, first, serverVars, fabricVars, toolbusVars, clears>>

-----------------------------------------------------------------------------
(* The server thread.                                                      *)

\* Listens, sets running, and later accepts a connection.
ThreadUp ==
  /\ server.at = "off"
  /\ server' = [server EXCEPT !.at = "listen"]
  /\ UNCHANGED <<clientVars, stop, caller, fabricVars, toolbusVars, clears>>

\* srv->stop is looked at between connections only, at the head of the loop ...
Listen ==
  /\ server.at = "listen" /\ ~stop
  /\ server' = [server EXCEPT !.at = "select"]
  /\ UNCHANGED <<clientVars, stop, caller, fabricVars, toolbusVars, clears>>

\* ... and not again before the client that select announces is accepted.
Accept ==
  /\ server.at = "select" /\ conn # "none"
  /\ server' = [server EXCEPT !.at = "read"]
  /\ UNCHANGED <<clientVars, stop, caller, fabricVars, toolbusVars, clears>>

\* After 200 ms, or as hs_ipc_stop has shut the socket down.
SelectReturns ==
  /\ server.at = "select" /\ conn = "none"
  /\ server' = [server EXCEPT !.at = "listen"]
  /\ UNCHANGED <<clientVars, stop, caller, fabricVars, toolbusVars, clears>>

ThreadExits ==
  /\ server.at = "listen" /\ stop
  /\ server' = [server EXCEPT !.at = "done"]
  /\ UNCHANGED <<clientVars, stop, caller, fabricVars, toolbusVars, clears>>

Closed == conn' = "none" /\ wire' = <<>>
BackTo(at) == server' = [server EXCEPT !.at = at, !.req = NoRequest]
Told(r, status, of) ==
  replies' = IF conn = "open" THEN Append(replies, [n |-> r.n, status |-> status, of |-> of])
                              ELSE replies

\* The client hung up and everything it wrote has been read.
ReadFails ==
  /\ server.at = "read" /\ wire = <<>> /\ conn = "gone"
  /\ Closed /\ BackTo("listen")
  /\ UNCHANGED <<replies, made, first, stop, caller, fabricVars, toolbusVars, clears>>

\* A result is sent.  To a client that hung up the write may fail: then the
\* server closes the connection.
Reply(r, of) ==
  \/ Told(r, "ok", of) /\ BackTo("read") /\ UNCHANGED conn
  \/ conn = "gone" /\ Closed /\ UNCHANGED replies /\ BackTo("listen")

\* Mutant of ReplyError: goes on without telling the client.
ReplyErrorNot(r, status) == BackTo("read") /\ UNCHANGED <<conn, replies>>

\* An error is sent; hs_ipc_send_error does not look whether that succeeds.
ReplyError(r, status) == Told(r, status, 0) /\ BackTo("read") /\ UNCHANGED conn

\* The next request the server reads, if it is of the kind op.
ReadNext(op) == server.at = "read" /\ wire # <<>> /\ op \in Ops
NextRequest(op) == [n |-> Head(wire), op |-> op, cid |-> IF FreshCids THEN Head(wire) ELSE 1]

\* Unread requests go when the server closes the connection.
ReadDirect ==
  /\ ReadNext("DIRECT")
  /\ Reply(NextRequest("DIRECT"), Head(wire)) \/ ReplyError(NextRequest("DIRECT"), "refused")
  /\ conn' # "none" => wire' = Tail(wire)
  /\ UNCHANGED <<made, first, stop, caller, fabricVars, toolbusVars, clears>>

ReadMalformed ==
  /\ ReadNext("MALFORMED")
  /\ Told(NextRequest("MALFORMED"), "malformed", 0)
  /\ Closed /\ BackTo("listen")
  /\ UNCHANGED <<made, first, stop, caller, fabricVars, toolbusVars, clears>>

ReadRequest(op) ==
  /\ ReadNext(op)
  /\ server' = [server EXCEPT !.at = "seq", !.req = NextRequest(op)]
  /\ wire' = Tail(wire)
  /\ UNCHANGED <<conn, replies, made, first, stop, caller, fabricVars, toolbusVars, clears>>

\* Notes the sequence number after which the result will come ...
NoteSeq ==
  /\ server.at = "seq"
  /\ server' = [server EXCEPT !.at = "send", !.after = toolbus.seq]
  /\ UNCHANGED <<clientVars, stop, caller, fabricVars, toolbusVars, clears>>

\* ... and only then sends the request.
Send ==
  /\ server.at = "send" /\ Len(lane) < LaneSize
  /\ lane' = Append(lane, server.req)
  /\ server' = [server EXCEPT !.at = "wait"]
  /\ UNCHANGED <<clientVars, stop, caller, inbox, outbox, phase, others, toolbusVars, clears>>

\* No room: hs_send fails if RT does not block, and waits if it does.  Settings
\* change that at any time, so the choice is open and not subject to fairness.
SendFails ==
  /\ server.at = "send" /\ Len(lane) >= LaneSize
  /\ ReplyError(server.req, "enqueue failed")
  /\ UNCHANGED <<wire, made, first, stop, caller, fabricVars, toolbusVars, clears>>

Answers == Hits(toolbus, server.after, server.req.cid, server.req.op)
Answer == Found(toolbus, server.after, server.req.cid, server.req.op)

\* hs_toolbus_wait finds a result, now or when it wakes up.
WaitFinds ==
  /\ server.at = "wait" /\ Answers # {}
  /\ Reply(server.req, Answer.of)
  /\ conn' # "none" => UNCHANGED wire
  /\ UNCHANGED <<made, first, stop, caller, fabricVars, toolbusVars, clears>>

\* Mutant of WaitTimesOut: there is no deadline.
WaitForEver == FALSE /\ UNCHANGED vars

\* 250 ms are over.
WaitTimesOut ==
  /\ server.at = "wait" /\ Answers = {}
  /\ ReplyError(server.req, "timeout")
  /\ UNCHANGED <<wire, made, first, stop, caller, fabricVars, toolbusVars, clears>>

ServerStep ==
  \/ ThreadUp \/ Listen \/ Accept \/ SelectReturns \/ ThreadExits \/ ReadFails
  \/ ReadDirect \/ ReadMalformed \/ \E op \in {"FENCE", "QUERY"} : ReadRequest(op)
  \/ NoteSeq \/ Send \/ WaitFinds \/ WaitTimesOut

-----------------------------------------------------------------------------
(* hs_ipc_start and hs_ipc_stop.                                           *)

\* Returns whether the thread is up, which it waits 50 ms for.
StartReturns ==
  /\ caller = "starting"
  /\ caller' = IF Running THEN "started" ELSE "failed"
  /\ UNCHANGED <<clientVars, server, stop, fabricVars, toolbusVars, clears>>

StopCall ==
  /\ caller = "started"
  /\ caller' = "stopping" /\ stop' = TRUE
  /\ UNCHANGED <<clientVars, server, fabricVars, toolbusVars, clears>>

\* Mutant of Joined: returns as soon as nobody is served.
JoinedEarly == server.at \in {"listen", "done"}

\* Joins the thread if it is running.
Joined == server.at = "done"

StopReturn ==
  /\ caller = "stopping" /\ Joined
  /\ caller' = "stopped"
  /\ UNCHANGED <<clientVars, server, stop, fabricVars, toolbusVars, clears>>

-----------------------------------------------------------------------------
(* hs_step, as far as the server's requests and other threads' queries see *)
(* it, and hs_clear.                                                       *)

Result(r) == [n |-> r.n, op |-> r.op, cid |-> r.cid, result |-> TRUE]
Query(r) == [n |-> r.n, op |-> r.op, cid |-> r.cid, result |-> FALSE]

\* A full inbox refuses the message.
Pushed(box, m) == IF Len(box) < InboxSize THEN Append(box, m) ELSE box

\* A fence puts its own result into the inbox.
Drain ==
  /\ phase = "drain" /\ lane # <<>>
  /\ lane' = Tail(lane)
  /\ inbox' = Pushed(inbox, IF Head(lane).op = "FENCE" THEN Result(Head(lane)) ELSE Query(Head(lane)))
  /\ UNCHANGED <<clientVars, serverVars, outbox, phase, others, toolbusVars, clears>>

\* Another thread's query, with the correlation id 0.
DrainOther ==
  /\ phase = "drain" /\ others < MaxOther
  /\ others' = others + 1
  /\ inbox' = Pushed(inbox, Query([n |-> 0, op |-> "QUERY", cid |-> 0]))
  /\ UNCHANGED <<clientVars, serverVars, lane, outbox, phase, toolbusVars, clears>>

DrainDone ==
  /\ phase = "drain" /\ lane = <<>>
  /\ phase' = "nodes"
  /\ UNCHANGED <<clientVars, serverVars, lane, inbox, outbox, others, toolbusVars, clears>>

\* system_node_process: answers a query into the outbox ...
NodeAnswers ==
  /\ phase = "nodes" /\ inbox # <<>> /\ ~Head(inbox).result
  /\ inbox' = Tail(inbox)
  /\ outbox' = Pushed(outbox, Result(Head(inbox)))
  /\ UNCHANGED <<clientVars, serverVars, lane, phase, others, toolbusVars, clears>>

\* ... and copies a result to the toolbus.
NodeRecords ==
  /\ phase = "nodes" /\ inbox # <<>> /\ Head(inbox).result
  /\ inbox' = Tail(inbox)
  /\ toolbus' = Recorded(toolbus, Head(inbox))
  /\ history' = Append(history, [seq |-> toolbus'.seq, of |-> Head(inbox).n,
                                 cid |-> Head(inbox).cid, op |-> Head(inbox).op])
  /\ UNCHANGED <<clientVars, serverVars, lane, outbox, phase, others, clears>>

NodesDone ==
  /\ phase = "nodes" /\ inbox = <<>>
  /\ phase' = "outbox"
  /\ UNCHANGED <<clientVars, serverVars, lane, inbox, outbox, others, toolbusVars, clears>>

Outbox ==
  /\ phase = "outbox" /\ outbox # <<>>
  /\ outbox' = Tail(outbox)
  /\ inbox' = Pushed(inbox, Head(outbox))
  /\ UNCHANGED <<clientVars, serverVars, lane, phase, others, toolbusVars, clears>>

\* hs_step ends; the next one begins by draining.
StepEnd ==
  /\ phase = "outbox" /\ outbox = <<>>
  /\ phase' = "drain"
  /\ UNCHANGED <<clientVars, serverVars, lane, inbox, outbox, others, toolbusVars, clears>>

StepGoesOn ==
  \/ Drain \/ DrainDone \/ NodeAnswers \/ NodeRecords \/ NodesDone
  \/ Outbox \/ StepEnd

\* hs_clear, which must not run while a producer sends: not while the server
\* may be about to, but possibly while it waits for a result.  It comes between
\* two steps, when the next one has drained nothing yet (draining only moves
\* messages between queues that hs_clear empties).
Clear ==
  /\ phase = "drain" /\ server.at \in {"listen", "select", "wait"} /\ clears < MaxClears
  /\ clears' = clears + 1
  /\ lane' = <<>> /\ inbox' = <<>> /\ outbox' = <<>>
  /\ toolbus' = Cleared(toolbus) /\ history' = <<>>
  /\ UNCHANGED <<clientVars, serverVars, phase, others>>

-----------------------------------------------------------------------------
ClientStep == Connect \/ HangUp \/ Request

Next ==
  \/ ClientStep
  \/ ServerStep \/ SendFails
  \/ StartReturns \/ StopCall \/ StopReturn
  \/ StepGoesOn \/ DrainOther
  \/ Clear

Spec == Init /\ [][Next]_vars

\* The server's thread runs on (its waits end), somebody keeps calling
\* hs_step, and a started hs_ipc_start or hs_ipc_stop goes on.  Clients owe
\* nobody anything.
Fairness ==
  /\ WF_vars(ServerStep) /\ WF_vars(StepGoesOn)
  /\ WF_vars(StartReturns) /\ WF_vars(StopReturn)

FairSpec == Spec /\ Fairness
=============================================================================
