------------------------------- MODULE Fabric -------------------------------
(***************************************************************************)
(* The message fabric as its users see it: threads that call hs_send, and  *)
(* the step thread that drains their lanes and the submit queues channel   *)
(* by channel, routes each message, lets the nodes process their inboxes   *)
(* and routes their outboxes (hs_step).                                    *)
(*                                                                         *)
(* A lane and a submit queue are bounded sequences here: SpscLane and      *)
(* SubmitQueue show that the lock-free code implements FIFO channels.      *)
(* hs_step holds sys->lock throughout, and inboxes, outboxes, log and      *)
(* payload ring are touched by the step thread only: one message, or one   *)
(* batch boundary, is one step.                                            *)
(***************************************************************************)
EXTENDS FabricRouting, Functions

CONSTANTS
  Producers,      \* the threads that call hs_send
  Stepper,        \* the producer that also calls hs_step, or None
  Templates,      \* what producers may send: records [op, to, asked, ack, pay, valid, arg]
  MaxSends,       \* bound: messages per producer
  MaxProducers,   \* HS_MAX_PRODUCERS
  LaneSize,       \* HS_SPSC_SIZE
  SubmitSize,     \* HS_SUBMIT_SIZE
  Batch,          \* 32
  Budgets,        \* the initial chan_budget
  Blocking,       \* the channels with block_on_full_chan at first
  Decodings,      \* what an overwritten OP_SET_* payload may decode to, by opcode
  Masks,          \* masks that hs_set_record_mask may be called with
  Clears          \* whether hs_clear may be called

ASSUME LaneAssumption == LaneSize \in Nat \ {0} /\ SubmitSize \in Nat /\ Batch \in Nat \ {0}
ASSUME ProducerAssumption == MaxProducers \in Nat /\ MaxSends \in Nat /\ None \notin Producers
ASSUME TemplateAssumption ==
  \A t \in Templates :
    t.op \notin SystemOps /\ t.ack \in BOOLEAN /\ t.pay \in Payload /\ t.valid \in BOOLEAN
\* A budget is a number, the one a setting carries too.
ASSUME BudgetAssumption ==
  /\ Budgets \in [Channel -> Nat]
  /\ \A a \in {t.arg : t \in {u \in Templates : u.op = "SET_CHAN_BUDGET"}} \cup Decodings["SET_CHAN_BUDGET"] :
       a = None \/ a.n \in Nat

VARIABLES
  pc, cur, sent,      \* producers: where in hs_send, with which message, how many so far
  pid, producerCount, \* g_tls_prod.id of each, producer_count
  lanes, submit,      \* producers[ch][id], submit[ch]
  step,               \* the step thread's locals in hs_step
  outbox,             \* the system node's outbox (the only one in use)
  budget, blocking,   \* chan_budget, block_on_full_chan
  accepted,           \* the messages hs_send put into a queue
  discarded,          \* keys of TELEM messages dropped at a full lane
  refused,            \* keys of accepted messages that hs_step threw away
  applied             \* messages that nodes, or the system itself, have processed

sendVars == <<pc, cur, sent, pid, producerCount>>
queueVars == <<lanes, submit>>
policyVars == <<budget, blocking>>
fateVars == <<accepted, discarded, refused, applied>>
vars == <<sendVars, queueVars, step, outbox, policyVars, fateVars, routeVars>>

LaneIds == 0 .. MaxProducers - 1
Fallback == MaxProducers
NoId == MaxProducers + 1

Min2(a, b) == IF a <= b THEN a ELSE b

ChannelAt == <<"RT", "RENDER", "TELEM">>
Ch == ChannelAt[step.ch]

Idle == [at |-> "idle", ch |-> 1, lane |-> 0, lanes |-> 0, used |-> 0, n |-> 0, i |-> 0,
         node |-> 1, ack |-> None]

NoLanes == [c \in Channel |-> [l \in LaneIds |-> <<>>]]
NoSubmits == [c \in Channel |-> <<>>]

Init ==
  /\ pc = [p \in Producers |-> "idle"]
  /\ cur = [p \in Producers |-> None]
  /\ sent = [p \in Producers |-> 0]
  /\ pid = [p \in Producers |-> NoId] /\ producerCount = 0
  /\ lanes = NoLanes /\ submit = NoSubmits
  /\ step = Idle /\ outbox = <<>>
  /\ budget = Budgets /\ blocking = Blocking
  /\ accepted = {} /\ discarded = {} /\ refused = {} /\ applied = <<>>
  /\ RoutingInit

-----------------------------------------------------------------------------
(* hs_send on thread p.                                                    *)

MaySend(p) == p = Stepper => step.at = "idle"

\* Calls hs_send; the first call takes a lane while there are any left
\* (hs_get_producer_id).
SendCall(p) ==
  /\ pc[p] = "idle" /\ sent[p] < MaxSends /\ MaySend(p)
  /\ \E t \in Templates : cur' = [cur EXCEPT ![p] = Sent(p, sent[p] + 1, t)]
  /\ sent' = [sent EXCEPT ![p] = @ + 1]
  /\ IF pid[p] = NoId
       THEN /\ pid' = [pid EXCEPT ![p] = IF producerCount < MaxProducers THEN producerCount ELSE Fallback]
            /\ producerCount' = producerCount + 1
       ELSE UNCHANGED <<pid, producerCount>>
  /\ pc' = [pc EXCEPT ![p] = IF pid'[p] = Fallback THEN "submit" ELSE "lane"]
  /\ UNCHANGED <<queueVars, step, outbox, policyVars, fateVars, routeVars>>

Returns(p) ==
  /\ pc' = [pc EXCEPT ![p] = "idle"]
  /\ cur' = [cur EXCEPT ![p] = None]
  /\ UNCHANGED <<sent, pid, producerCount>>

LaneHasRoom(p) == Len(lanes[cur[p].ch][pid[p]]) < LaneSize

SpscPush(p) ==
  LET m == cur[p] IN
  /\ pc[p] = "lane" /\ LaneHasRoom(p)
  /\ lanes' = [lanes EXCEPT ![m.ch][pid[p]] = Append(@, m)]
  /\ accepted' = accepted \cup {m}
  /\ Returns(p)
  /\ UNCHANGED <<submit, step, outbox, policyVars, discarded, refused, applied, routeVars>>

\* The lane is full: fall through to the submit queue, except for TELEM.
SpscFull(p) ==
  /\ pc[p] = "lane" /\ ~LaneHasRoom(p) /\ cur[p].ch # "TELEM"
  /\ pc' = [pc EXCEPT ![p] = "submit"]
  /\ UNCHANGED <<cur, sent, pid, producerCount, queueVars, step, outbox, policyVars, fateVars, routeVars>>

\* A TELEM message is dropped at a full lane, counted in telem_dropped, and
\* reported as sent.
TelemDrop(p) ==
  /\ pc[p] = "lane" /\ ~LaneHasRoom(p) /\ cur[p].ch = "TELEM"
  /\ discarded' = discarded \cup {Key(cur[p])}
  /\ Returns(p)
  /\ UNCHANGED <<queueVars, step, outbox, policyVars, accepted, refused, applied, routeVars>>

SubmitOk(p) == cur[p].to \in Registered /\ Len(submit[cur[p].ch]) < SubmitSize

SubmitEnqueue(p) ==
  LET m == [cur[p] EXCEPT !.via = "submit"] IN
  /\ pc[p] = "submit" /\ SubmitOk(p)
  /\ submit' = [submit EXCEPT ![m.ch] = Append(@, m)]
  /\ accepted' = accepted \cup {m}
  /\ Returns(p)
  /\ UNCHANGED <<lanes, step, outbox, policyVars, discarded, refused, applied, routeVars>>

Blocks(m) == m.ch # "TELEM" /\ m.ch \in blocking

\* No room, or no such node: hs_send returns false ...
SendFails(p) ==
  /\ pc[p] = "submit" /\ ~SubmitOk(p) /\ ~Blocks(cur[p])
  /\ Returns(p)
  /\ UNCHANGED <<queueVars, step, outbox, policyVars, fateVars, routeVars>>

\* ... or waits (hs_backpressure_wait).
SendWaits(p) ==
  /\ pc[p] = "submit" /\ ~SubmitOk(p) /\ Blocks(cur[p])
  /\ pc' = [pc EXCEPT ![p] = "wait"]
  /\ UNCHANGED <<cur, sent, pid, producerCount, queueVars, step, outbox, policyVars, fateVars, routeVars>>

\* Woken by a step, or after a millisecond, it tries again from the start.
SendRetries(p) ==
  /\ pc[p] = "wait"
  /\ pc' = [pc EXCEPT ![p] = IF pid[p] = Fallback THEN "submit" ELSE "lane"]
  /\ UNCHANGED <<cur, sent, pid, producerCount, queueVars, step, outbox, policyVars, fateVars, routeVars>>

SendGoesOn(p) ==
  \/ SpscPush(p) \/ SpscFull(p) \/ TelemDrop(p)
  \/ SubmitEnqueue(p) \/ SendFails(p) \/ SendWaits(p) \/ SendRetries(p)

-----------------------------------------------------------------------------
(* hs_step: the drain.                                                     *)

\* The lanes a step looks at: those handed out when it begins.
StepLanes == Min2(producerCount, MaxProducers)

StepBegin ==
  /\ step.at = "idle"
  /\ Stepper \in Producers => pc[Stepper] = "idle"
  /\ step' = [Idle EXCEPT !.at = "lane", !.lanes = StepLanes]
  /\ UNCHANGED <<sendVars, queueVars, outbox, policyVars, fateVars, routeVars>>

Left == budget[Ch] - step.used

\* Takes the next batch of the lane ...
LaneTake ==
  LET q == lanes[Ch][step.lane] IN
  /\ step.at = "lane" /\ step.lane < step.lanes /\ Left > 0 /\ q # <<>>
  /\ step' = [step EXCEPT !.at = "route", !.i = 0, !.n = Min2(Min2(Len(q), Batch), Left)]
  /\ UNCHANGED <<sendVars, queueVars, outbox, policyVars, fateVars, routeVars>>

\* Mutant of LaneAfter: never leaves an empty lane.
LaneAfterStays == step.lane

LaneAfter == step.lane + 1

\* ... or goes on to the next lane when this one is empty ...
LaneNext ==
  /\ step.at = "lane" /\ step.lane < step.lanes /\ Left > 0
  /\ lanes[Ch][step.lane] = <<>>
  /\ step' = [step EXCEPT !.lane = LaneAfter]
  /\ UNCHANGED <<sendVars, queueVars, outbox, policyVars, fateVars, routeVars>>

\* ... or to the submit queue after the last lane or with the budget used up.
LanesDone ==
  /\ step.at = "lane" /\ (step.lane >= step.lanes \/ Left <= 0)
  /\ step' = [step EXCEPT !.at = "submit"]
  /\ UNCHANGED <<sendVars, queueVars, outbox, policyVars, fateVars, routeVars>>

\* What becomes of a routed message: frame markers and fences are done with.
Apply(m) == applied' = IF m.op \in FrameOps \cup {"FENCE"} THEN Append(applied, m) ELSE applied

\* hs_step ignores what hs_route_immediate returns.
Route(m) ==
  \/ RouteAccepts(m) /\ Apply(m) /\ UNCHANGED refused
  \/ RouteRefuses(m) /\ refused' = refused \cup {Key(m)} /\ UNCHANGED applied

\* Mutant of BatchItem: starts at the end of the batch.
BatchItemBackwards == lanes[Ch][step.lane][step.n - step.i]

BatchItem == lanes[Ch][step.lane][step.i + 1]

LaneRoute ==
  /\ step.at = "route" /\ step.i < step.n
  /\ Route(BatchItem)
  /\ step' = [step EXCEPT !.i = @ + 1]
  /\ UNCHANGED <<sendVars, queueVars, outbox, policyVars, accepted, discarded>>

LaneRest(q) == SubSeq(q, step.n + 1, Len(q))

\* Stores head: the batch's slots are the producer's again.
LaneRelease ==
  /\ step.at = "route" /\ step.i = step.n
  /\ lanes' = [lanes EXCEPT ![Ch][step.lane] = LaneRest(@)]
  /\ step' = [step EXCEPT !.at = "lane", !.used = @ + step.n, !.n = 0, !.i = 0]
  /\ UNCHANGED <<sendVars, submit, outbox, policyVars, fateVars, routeVars>>

\* Mutant of SubmitLeft: leaves the last message behind.
SubmitLeftOffByOne == Left > 0 /\ Len(submit[Ch]) > 1

SubmitLeft == Left > 0 /\ submit[Ch] # <<>>

SubmitRoute ==
  /\ step.at = "submit" /\ SubmitLeft
  /\ submit' = [submit EXCEPT ![Ch] = Tail(@)]
  /\ Route(Head(submit[Ch]))
  /\ step' = [step EXCEPT !.used = @ + 1]
  /\ UNCHANGED <<sendVars, lanes, outbox, policyVars, accepted, discarded>>

ChannelDone ==
  /\ step.at = "submit" /\ ~SubmitLeft
  /\ step' = IF step.ch < 3
               THEN [step EXCEPT !.at = "lane", !.ch = @ + 1, !.lane = 0, !.used = 0]
               ELSE [step EXCEPT !.at = "nodes", !.node = 1]
  /\ UNCHANGED <<sendVars, queueVars, outbox, policyVars, fateVars, routeVars>>

-----------------------------------------------------------------------------
(* hs_step: the nodes, then the outboxes.                                  *)

Node == Nodes[step.node]
Next1 == Head(inbox[Node])
Popped == [inbox EXCEPT ![Node] = Tail(@)]

\* Mutant of WantsAck: one acknowledgement for the whole inbox.
WantsAckOnce(m) == m.ack /\ Len(inbox[Node]) = 1

WantsAck(m) == m.ack

\* An ordinary node applies the message and acknowledges it if asked to.
NodeApply ==
  /\ step.at = "nodes" /\ Node # System /\ inbox[Node] # <<>>
  /\ inbox' = Popped
  /\ applied' = Append(applied, Next1)
  /\ step' = IF WantsAck(Next1) THEN [step EXCEPT !.at = "ack", !.ack = AckOf(Next1)] ELSE step
  /\ UNCHANGED <<sendVars, queueVars, outbox, policyVars, accepted, discarded, refused>>
  /\ UNCHANGED <<payload, log, recording, overflow, recordMask, dropped>>

\* emit_ack calls hs_send, which routes at once when called within the step.
AckRouted ==
  /\ step.at = "ack" /\ RouteAccepts(step.ack)
  /\ step' = [step EXCEPT !.at = "nodes", !.ack = None]
  /\ UNCHANGED <<sendVars, queueVars, outbox, policyVars, fateVars>>

\* A refused acknowledgement is given up if RT does not block ...
AckDropped ==
  /\ step.at = "ack" /\ RouteRefuses(step.ack) /\ ~Blocks(step.ack)
  /\ refused' = refused \cup {Key(step.ack)}
  /\ step' = [step EXCEPT !.at = "nodes", !.ack = None]
  /\ UNCHANGED <<sendVars, queueVars, outbox, policyVars, accepted, discarded, applied>>

\* ... and otherwise tried again after a wait, by the step thread itself.
AckWaits ==
  /\ step.at = "ack" /\ RouteRefuses(step.ack) /\ Blocks(step.ack)
  /\ UNCHANGED <<sendVars, queueVars, step, outbox, policyVars, fateVars>>

\* What the payload of a setting decodes to: None if it does not, anything if
\* the ring has reused its slot.
Decoded(m) ==
  IF m.pay # "ring" THEN {None}
  ELSE IF payload.owner[m.pidx] = Key(m) THEN {m.arg} ELSE Decodings[m.op]

\* The system node carries out a setting.
Settings(m) ==
  \E a \in Decoded(m) :
    /\ recordMask' = IF m.op = "SET_RECORD_MASK" /\ a # None THEN a.mask ELSE recordMask
    /\ budget' = IF m.op = "SET_CHAN_BUDGET" /\ a # None
                   THEN [budget EXCEPT ![a.ch] = a.n] ELSE budget
    /\ blocking' = IF m.op = "SET_BLOCK_POLICY" /\ a # None
                     THEN IF a.block THEN blocking \cup {a.ch} ELSE blocking \ {a.ch}
                     ELSE blocking

\* emit_result: into the outbox, with a payload of its own.
EmitResult(m) ==
  LET res == ResultOf(m, payload.head)
  IN  /\ payload' = Allocated(payload, res)
      /\ IF Len(outbox) < InboxSize
           THEN outbox' = Append(outbox, res) /\ UNCHANGED dropped
           ELSE dropped' = ResultLost /\ UNCHANGED outbox

\* The system node answers queries and settings, counts the rest, and
\* acknowledges nothing.
SystemApply ==
  LET m == Next1 IN
  /\ step.at = "nodes" /\ Node = System /\ inbox[Node] # <<>>
  /\ inbox' = Popped
  /\ applied' = Append(applied, m)
  /\ IF m.op \in ControlOps \ {"FENCE"}
       THEN Settings(m) /\ EmitResult(m)
       ELSE UNCHANGED <<recordMask, policyVars, payload, outbox, dropped>>
  /\ UNCHANGED <<sendVars, queueVars, step, accepted, discarded, refused>>
  /\ UNCHANGED <<log, recording, overflow>>

NodeDone ==
  /\ step.at = "nodes" /\ inbox[Node] = <<>>
  /\ step' = IF step.node < Len(Nodes)
               THEN [step EXCEPT !.node = @ + 1] ELSE [step EXCEPT !.at = "outbox"]
  /\ UNCHANGED <<sendVars, queueVars, outbox, policyVars, fateVars, routeVars>>

OutboxRoute ==
  /\ step.at = "outbox" /\ outbox # <<>>
  /\ outbox' = Tail(outbox)
  /\ Route(Head(outbox))
  /\ UNCHANGED <<sendVars, queueVars, step, policyVars, accepted, discarded>>

StepEnd ==
  /\ step.at = "outbox" /\ outbox = <<>>
  /\ step' = Idle
  /\ UNCHANGED <<sendVars, queueVars, outbox, policyVars, fateVars, routeVars>>

StepGoesOn ==
  \/ LaneTake \/ LaneNext \/ LanesDone \/ LaneRoute \/ LaneRelease
  \/ SubmitRoute \/ ChannelDone
  \/ NodeApply \/ AckRouted \/ AckDropped \/ AckWaits \/ SystemApply \/ NodeDone
  \/ OutboxRoute \/ StepEnd

-----------------------------------------------------------------------------
(* Calls from outside, serialised with hs_step by sys->lock.               *)

\* hs_set_record_mask.
SetRecordMask(mask) ==
  /\ step.at = "idle" /\ recordMask # mask
  /\ recordMask' = mask
  /\ UNCHANGED <<sendVars, queueVars, step, outbox, policyVars, fateVars>>
  /\ UNCHANGED <<inbox, payload, log, recording, overflow, dropped>>

\* Mutant of ClearedLanes: the lanes keep their messages.
ClearedLanesNot == lanes

ClearedLanes == NoLanes

\* hs_clear, which must not run while a producer sends: every queue is
\* emptied, every thread will take a lane anew.
Clear ==
  /\ step.at = "idle" /\ \A p \in Producers : pc[p] = "idle"
  /\ Clears /\ producerCount > 0
  /\ pid' = [p \in Producers |-> NoId] /\ producerCount' = 0
  /\ lanes' = ClearedLanes /\ submit' = NoSubmits /\ outbox' = <<>>
  /\ accepted' = {} /\ discarded' = {} /\ refused' = {} /\ applied' = <<>>
  /\ inbox' = [nd \in Registered |-> <<>>]
  /\ payload' = [payload EXCEPT !.head = 0]
  /\ log' = <<>> /\ overflow' = FALSE
  /\ dropped' = [errorEx |-> 0, queueFull |-> 0, systemNonRt |-> 0, result |-> 0]
  /\ UNCHANGED <<pc, cur, sent, step, policyVars, recording, recordMask>>

-----------------------------------------------------------------------------
Next ==
  \/ \E p \in Producers : SendCall(p) \/ SendGoesOn(p)
  \/ StepBegin \/ StepGoesOn
  \/ \E mask \in Masks : SetRecordMask(mask)
  \/ Clear

Spec == Init /\ [][Next]_vars

\* Threads inside hs_send run on, and somebody keeps calling hs_step.
Fairness ==
  /\ \A p \in Producers : WF_vars(SendGoesOn(p))
  /\ WF_vars(StepBegin \/ StepGoesOn)

FairSpec == Spec /\ Fairness
=============================================================================
