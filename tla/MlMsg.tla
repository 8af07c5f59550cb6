------------------------------- MODULE MlMsg --------------------------------
(***************************************************************************)
(* The message layer of inference: producers submit operations on channels *)
(* (ml_sys_submit), one executor drains them (ml_sys_step), dispatches     *)
(* them, captures and replays them, and frees the system in the end.  A    *)
(* GPU node, if one is registered, runs the small operations on a thread   *)
(* of its own.                                                             *)
(*                                                                         *)
(* A queue of a producer and a channel is the single-producer              *)
(* single-consumer ring that module SpscLane treats slot by slot: here it  *)
(* is a sequence, and a push or pop is one step.  Ticks, statistics and    *)
(* what an operation computes are left out.                                *)
(***************************************************************************)
EXTENDS Integers, Sequences

CONSTANTS
  NThreads,      \* threads that register as producers
  MaxProducers,  \* ML_MAX_PRODUCERS
  QueueSize,     \* ML_QUEUE_SIZE
  Channels,      \* how many channels, in their order of priority
  Budget,        \* Budget[ch]: messages of a channel for one step
  Blocking,      \* Blocking[ch]: a full channel makes its producers wait
  Script,        \* Script[t]: operations and channels of thread t's messages
  GpuActive,     \* a GPU node is registered
  Capacity       \* capture_capacity

ASSUME MlAssumption ==
  /\ NThreads \in Nat /\ MaxProducers \in Nat \ {0} /\ QueueSize \in Nat \ {0} /\ Channels \in Nat \ {0}
  /\ Budget \in [1 .. Channels -> Nat] /\ Blocking \in [1 .. Channels -> BOOLEAN]
  /\ Script \in [1 .. NThreads -> Seq([op : {"cpu", "small", "fence"}, ch : 1 .. Channels])]
  /\ GpuActive \in BOOLEAN /\ Capacity \in Nat

VARIABLES
  count,       \* producer_count
  queues,      \* producers[ch][id], oldest first
  dropped,     \* channels[ch].dropped
  running,
  lock,        \* the thread that holds bp_lock
  waiters,     \* bp_waiters
  prod,        \* each thread: where it is, its id, messages begun, message, counter loaded
  exec,        \* the executor: where it is, channel, producer, used, prod_count, message
  inbox,       \* the operations the GPU node has not run
  capturing, capture,  \* the capture buffer and its state
  order,       \* history: the messages in the order they were dispatched
  effects,     \* history: the same in the order they took effect
  failed       \* history: the messages ml_sys_submit returned false for

sysVars == <<count, running, lock, waiters>>
captVars == <<capturing, capture>>
histVars == <<order, effects, failed>>
vars == <<sysVars, queues, dropped, prod, exec, inbox, captVars, histVars>>

Threads == 1 .. NThreads
Channel == 1 .. Channels
Producer == 0 .. MaxProducers - 1
Ops == {"cpu", "small", "fence"}      \* small: ROPE, SOFTMAX, ACTIVATE, ADD
NoOne == 0
NoMsg == [op |-> "fence", ch |-> 1, from |-> NoOne, n |-> 0]

Idle == [at |-> "idle", ch |-> 1, p |-> 0, used |-> 0, cnt |-> 0, msg |-> NoMsg]

\* ml_sys_init.
Init ==
  /\ count = 0 /\ running = TRUE /\ lock = NoOne /\ waiters = 0
  /\ queues = [c \in Channel |-> [p \in Producer |-> <<>>]]
  /\ dropped = [c \in Channel |-> 0]
  /\ prod = [t \in Threads |-> [at |-> "new", id |-> 0, n |-> 0, msg |-> NoMsg, seen |-> 0]]
  /\ exec = Idle
  /\ inbox = <<>> /\ capturing = FALSE /\ capture = <<>>
  /\ order = <<>> /\ effects = <<>> /\ failed = {}

-----------------------------------------------------------------------------
(* Producers: ml_sys_register_producer and ml_sys_submit.                  *)

ProdGoes(t, where) == prod' = [prod EXCEPT ![t].at = where]

prodFrame == <<exec, inbox, captVars, histVars>>

\* The program registers its producers in order, before they submit.
Register(t) ==
  /\ prod[t].at = "new" /\ \A u \in 1 .. t - 1 : prod[u].at # "new"
  /\ count' = count + 1
  /\ prod' = [prod EXCEPT ![t].id = count,
                          ![t].at = IF count < MaxProducers THEN "idle" ELSE "toomany"]
  /\ UNCHANGED <<prodFrame, running, lock, waiters, queues, dropped>>

\* Too many producers: the number is given back.
RegisterFails(t) ==
  /\ prod[t].at = "toomany"
  /\ count' = count - 1
  /\ ProdGoes(t, "rejected")
  /\ UNCHANGED <<prodFrame, running, lock, waiters, queues, dropped>>

SubmitCall(t) ==
  /\ prod[t].at = "idle" /\ prod[t].n < Len(Script[t])
  /\ running /\ exec.at \notin {"replay", "replayed"}
  /\ \A u \in Threads : prod[u].at # "new"
  /\ LET n == prod[t].n + 1
         m == [op |-> Script[t][n].op, ch |-> Script[t][n].ch, from |-> t, n |-> n]
     IN  prod' = [prod EXCEPT ![t].at = "push", ![t].n = n, ![t].msg = m]
  /\ UNCHANGED <<prodFrame, sysVars, queues, dropped>>

MyQueue(t) == queues[prod[t].msg.ch][prod[t].id]
IsFull(t) == Len(MyQueue(t)) >= QueueSize

\* ml_spsc_push, at the first try or after waiting.
Push(t) ==
  /\ prod[t].at \in {"push", "again"} /\ ~IsFull(t)
  /\ prod[t].at = "again" => running
  /\ queues' = [queues EXCEPT ![prod[t].msg.ch][prod[t].id] = Append(@, prod[t].msg)]
  /\ ProdGoes(t, "idle")
  /\ UNCHANGED <<prodFrame, sysVars, dropped>>

PushFull(t) ==
  /\ prod[t].at = "push" /\ IsFull(t)
  /\ ProdGoes(t, IF Blocking[prod[t].msg.ch] THEN "count" ELSE "drop")
  /\ UNCHANGED <<prodFrame, sysVars, queues, dropped>>

\* policy->dropped++, which is not atomic: the load ...
DropLoads(t) ==
  /\ prod[t].at = "drop"
  /\ prod' = [prod EXCEPT ![t].at = "dropped", ![t].seen = dropped[prod[t].msg.ch]]
  /\ UNCHANGED <<prodFrame, sysVars, queues, dropped>>

\* ... and the store.
DropStores(t) ==
  /\ prod[t].at = "dropped"
  /\ dropped' = [dropped EXCEPT ![prod[t].msg.ch] = prod[t].seen + 1]
  /\ failed' = failed \cup {prod[t].msg}
  /\ prod' = [prod EXCEPT ![t].at = "idle", ![t].seen = 0]
  /\ UNCHANGED <<exec, inbox, captVars, order, effects, sysVars, queues>>

\* The producer counts itself before it takes the lock.
WaitCounts(t) ==
  /\ prod[t].at = "count"
  /\ waiters' = waiters + 1
  /\ ProdGoes(t, "lock")
  /\ UNCHANGED <<prodFrame, count, running, lock, queues, dropped>>

WaitLocks(t) ==
  /\ prod[t].at = "lock" /\ lock = NoOne
  /\ lock' = t
  /\ ProdGoes(t, "check")
  /\ UNCHANGED <<prodFrame, count, running, waiters, queues, dropped>>

\* pthread_cond_wait, while the system runs and the queue is full.
WaitChecks(t) ==
  /\ prod[t].at = "check"
  /\ ProdGoes(t, IF running /\ IsFull(t) THEN "wait" ELSE "unlock")
  /\ lock' = IF running /\ IsFull(t) THEN NoOne ELSE lock
  /\ UNCHANGED <<prodFrame, count, running, waiters, queues, dropped>>

\* A spurious wake-up.
WaitWakes(t) ==
  /\ prod[t].at = "wait"
  /\ ProdGoes(t, "lock")
  /\ UNCHANGED <<prodFrame, sysVars, queues, dropped>>

WaitUnlocks(t) ==
  /\ prod[t].at = "unlock"
  /\ lock' = NoOne
  /\ ProdGoes(t, "uncount")
  /\ UNCHANGED <<prodFrame, count, running, waiters, queues, dropped>>

WaitUncounts(t) ==
  /\ prod[t].at = "uncount"
  /\ waiters' = waiters - 1
  /\ ProdGoes(t, "again")
  /\ UNCHANGED <<prodFrame, count, running, lock, queues, dropped>>

\* The system stopped meanwhile, or the queue is full again: false.
SubmitFails(t) ==
  /\ prod[t].at = "again" /\ (~running \/ IsFull(t))
  /\ failed' = failed \cup {prod[t].msg}
  /\ ProdGoes(t, "idle")
  /\ UNCHANGED <<exec, inbox, captVars, order, effects, sysVars, queues, dropped>>

-----------------------------------------------------------------------------
(* The executor: ml_sys_step, ml_sys_dispatch.                             *)

execFrame == <<count, prod, failed>>

StepBegin ==
  /\ exec.at = "idle"
  /\ exec' = [exec EXCEPT !.at = "drain", !.ch = 1, !.p = 0, !.used = 0,
                          !.cnt = IF count < MaxProducers THEN count ELSE MaxProducers]
  /\ UNCHANGED <<execFrame, running, lock, waiters, queues, dropped, inbox, captVars, order, effects>>

Source == queues[exec.ch][exec.p]
HasBudget == exec.used < Budget[exec.ch]

\* Mutant of StepPops: the head is not moved on.
StepPopsKeeps ==
  /\ exec.at = "drain" /\ exec.p < exec.cnt /\ HasBudget /\ Source # <<>>
  /\ exec' = [exec EXCEPT !.at = "dispatch", !.msg = Head(Source), !.used = @ + 1]
  /\ UNCHANGED <<execFrame, running, lock, waiters, queues, dropped, inbox, captVars, order, effects>>

\* ml_spsc_pop.
StepPops ==
  /\ exec.at = "drain" /\ exec.p < exec.cnt /\ HasBudget /\ Source # <<>>
  /\ exec' = [exec EXCEPT !.at = "dispatch", !.msg = Head(Source), !.used = @ + 1]
  /\ queues' = [queues EXCEPT ![exec.ch][exec.p] = Tail(@)]
  /\ UNCHANGED <<execFrame, running, lock, waiters, dropped, inbox, captVars, order, effects>>

\* The next producer of the channel.
StepNextProducer ==
  /\ exec.at = "drain" /\ exec.p < exec.cnt /\ HasBudget /\ Source = <<>>
  /\ exec' = [exec EXCEPT !.p = @ + 1]
  /\ UNCHANGED <<execFrame, running, lock, waiters, queues, dropped, inbox, captVars, order, effects>>

\* The next channel, or the end of the step.
StepNextChannel ==
  /\ exec.at = "drain" /\ (exec.p >= exec.cnt \/ ~HasBudget)
  /\ exec' = IF exec.ch < Channels THEN [exec EXCEPT !.ch = @ + 1, !.p = 0, !.used = 0]
                                   ELSE [Idle EXCEPT !.at = "wake"]
  /\ UNCHANGED <<execFrame, running, lock, waiters, queues, dropped, inbox, captVars, order, effects>>

ToGpu(m) == GpuActive /\ m.op = "small"

\* Mutant of Dispatch: a fence does not wait for the GPU node.
DispatchUnsynced(m) ==
  /\ inbox' = IF ToGpu(m) THEN Append(inbox, m) ELSE inbox
  /\ effects' = IF ToGpu(m) THEN effects ELSE Append(effects, m)
  /\ order' = Append(order, m)
  /\ capture' = IF capturing /\ Len(capture) < Capacity THEN Append(capture, m) ELSE capture

\* What ml_sys_dispatch does with a message: the GPU node gets it, or it takes
\* effect here; a fence waits until the GPU node has run what it got.  Then it
\* is captured if there is room.
Dispatch(m) ==
  /\ m.op = "fence" /\ GpuActive => inbox = <<>>
  /\ inbox' = IF ToGpu(m) THEN Append(inbox, m) ELSE inbox
  /\ effects' = IF ToGpu(m) THEN effects ELSE Append(effects, m)
  /\ order' = Append(order, m)
  /\ capture' = IF capturing /\ Len(capture) < Capacity THEN Append(capture, m) ELSE capture

StepDispatches ==
  /\ exec.at = "dispatch"
  /\ Dispatch(exec.msg)
  /\ exec' = [exec EXCEPT !.at = "drain", !.msg = NoMsg]
  /\ UNCHANGED <<execFrame, running, lock, waiters, queues, dropped, capturing>>

\* Are there producers to wake?
StepLooks ==
  /\ exec.at = "wake"
  /\ exec' = [exec EXCEPT !.at = IF waiters > 0 THEN "broadcast" ELSE "idle"]
  /\ UNCHANGED <<execFrame, running, lock, waiters, queues, dropped, inbox, captVars, order, effects>>

\* Locks, broadcasts and unlocks.
Broadcast ==
  /\ lock = NoOne
  /\ prod' = [t \in Threads |-> IF prod[t].at = "wait" THEN [prod[t] EXCEPT !.at = "lock"] ELSE prod[t]]

StepWakes ==
  /\ exec.at = "broadcast" /\ Broadcast
  /\ exec' = [exec EXCEPT !.at = "idle"]
  /\ UNCHANGED <<sysVars, failed, queues, dropped, inbox, captVars, order, effects>>

\* The GPU node's thread runs the oldest operation it was given.
GpuRuns ==
  /\ inbox # <<>>
  /\ effects' = Append(effects, Head(inbox))
  /\ inbox' = Tail(inbox)
  /\ UNCHANGED <<sysVars, queues, dropped, prod, exec, captVars, order, failed>>

-----------------------------------------------------------------------------
(* The executor: capture, replay, the end.                                 *)

\* (Before anything is dispatched.)
CaptureStart ==
  /\ exec.at = "idle" /\ ~capturing /\ capture = <<>> /\ order = <<>>
  /\ capturing' = TRUE /\ capture' = <<>>
  /\ UNCHANGED <<sysVars, queues, dropped, prod, exec, inbox, histVars>>

CaptureStop ==
  /\ exec.at = "idle" /\ capturing
  /\ capturing' = FALSE
  /\ UNCHANGED <<sysVars, queues, dropped, prod, exec, inbox, capture, histVars>>

\* ml_sys_replay, when no producer is submitting: statistics are reset.
ReplayBegin ==
  /\ exec.at = "idle" /\ ~capturing /\ capture # <<>>
  /\ \A t \in Threads : prod[t].at \in {"idle", "rejected"}
  /\ exec' = [exec EXCEPT !.at = "replay", !.used = 0]
  /\ dropped' = [c \in Channel |-> 0]
  /\ order' = <<>> /\ effects' = <<>> /\ inbox = <<>>
  /\ UNCHANGED <<execFrame, running, lock, waiters, queues, inbox, captVars>>

ReplayNext ==
  /\ exec.at = "replay" /\ exec.used < Len(capture)
  /\ Dispatch(capture[exec.used + 1])
  /\ exec' = [exec EXCEPT !.used = @ + 1]
  /\ UNCHANGED <<execFrame, running, lock, waiters, queues, dropped, capturing>>

ReplayEnd ==
  /\ exec.at = "replay" /\ exec.used = Len(capture)
  /\ exec' = [exec EXCEPT !.at = "replayed"]
  /\ UNCHANGED <<execFrame, running, lock, waiters, queues, dropped, inbox, captVars, order, effects>>

\* Mutant of FreeCall: producers are woken before they can see that it stops.
FreeCallLate ==
  /\ exec.at \in {"idle", "replayed"}
  /\ exec' = [exec EXCEPT !.at = "free"]
  /\ UNCHANGED <<execFrame, running, lock, waiters, queues, dropped, inbox, captVars, order, effects>>

\* ml_sys_free.
FreeCall ==
  /\ exec.at \in {"idle", "replayed"}
  /\ running' = FALSE
  /\ exec' = [exec EXCEPT !.at = "free"]
  /\ UNCHANGED <<execFrame, lock, waiters, queues, dropped, inbox, captVars, order, effects>>

FreeWakes ==
  /\ exec.at = "free" /\ Broadcast
  /\ exec' = [exec EXCEPT !.at = "freed"]
  /\ UNCHANGED <<sysVars, failed, queues, dropped, inbox, captVars, order, effects>>

-----------------------------------------------------------------------------
Waiting(t) == WaitCounts(t) \/ WaitChecks(t) \/ WaitUnlocks(t) \/ WaitUncounts(t)
SubmitGoesOn(t) ==
  \/ Register(t) \/ RegisterFails(t)
  \/ Push(t) \/ PushFull(t) \/ DropLoads(t) \/ DropStores(t) \/ Waiting(t) \/ SubmitFails(t)
Stepping ==
  StepPops \/ StepNextProducer \/ StepNextChannel \/ StepDispatches \/ StepLooks
Replaying == ReplayNext \/ ReplayEnd
Waking == StepWakes \/ FreeWakes

Next ==
  \/ \E t \in Threads : SubmitCall(t) \/ SubmitGoesOn(t) \/ WaitLocks(t) \/ WaitWakes(t)
  \/ StepBegin \/ Stepping \/ Replaying \/ Waking
  \/ GpuRuns
  \/ CaptureStart \/ CaptureStop \/ ReplayBegin \/ FreeCall

Spec == Init /\ [][Next]_vars

\* Threads go on; the executor keeps stepping until it replays or frees the
\* system; a mutex that is released again and again is not denied for ever.
Fairness ==
  /\ \A t \in Threads : WF_vars(SubmitGoesOn(t)) /\ SF_vars(WaitLocks(t))
  /\ WF_vars(StepBegin) /\ WF_vars(Stepping) /\ WF_vars(Replaying) /\ SF_vars(Waking)
  /\ WF_vars(GpuRuns)

FairSpec == Spec /\ Fairness
=============================================================================
