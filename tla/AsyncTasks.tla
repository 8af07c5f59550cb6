----------------------------- MODULE AsyncTasks -----------------------------
(***************************************************************************)
(* Asynchronous tasks: a ring of slots into which callers put textures to  *)
(* load and files to save, a worker thread started by the first of them, a *)
(* semaphore, and the main thread, which collects completed tasks with     *)
(* hs_async_process, tells the fabric about them, and calls                *)
(* hs_async_shutdown in the end.                                           *)
(*                                                                         *)
(* Callers and workers hold async->mutex for a moment: what they do with   *)
(* it is one step.  hs_async_process holds it while it sends; if the       *)
(* fabric is full the send waits for room, or fails if the RT channel is   *)
(* set not to block.  What a task does is left out.                        *)
(***************************************************************************)
EXTENDS Integers, Sequences, FiniteSets

CONSTANTS
  Callers,     \* threads that call hs_async_load_texture and hs_async_save_file
  Workers,     \* threads that pthread_create may make
  NoWorker,    \* async->thread before the first of them
  MaxPending,  \* HS_ASYNC_MAX_PENDING
  Room,        \* OP_ASYNC_DONE messages that fit into the fabric's RT queues
  First,       \* the callers that may find no worker running
  MaxTasks     \* bound: tasks in a behaviour

ASSUME AsyncAssumption ==
  /\ MaxPending \in Nat \ {0} /\ Room \in Nat \ {0} /\ MaxTasks \in Nat
  /\ First \subseteq Callers /\ IsFiniteSet(First) /\ NoWorker \notin Workers

VARIABLES
  slots, pending, head, tail, nextId,  \* tasks, pending_count, head, tail, next_task_id
  sem, running, thread,
  caller,      \* where each caller is in its call
  worker,      \* where each worker is, and the id of its task
  main,        \* where the main thread is, and the loop index of hs_async_process
  rtBlocks,    \* sys->block_on_full_chan[CHAN_RT]
  unread,      \* how many OP_ASYNC_DONE messages hs_step has not drained
  collected,   \* the tasks hs_async_process has freed, in this order
  untold,      \* those of them whose message the fabric refused
  lost         \* the tasks whose slot was overwritten before they were collected

ringVars == <<slots, pending, head, tail, nextId, lost>>
threadVars == <<sem, running, thread>>
tellVars == <<rtBlocks, unread, collected, untold>>
mainVars == <<main, tellVars>>
vars == <<ringVars, threadVars, caller, worker, mainVars>>

Slot == 0 .. MaxPending - 1

\* Mutant of Next1: it wraps one slot early.
Next1Short(i) == (i + 1) % (MaxPending - 1)

Next1(i) == (i + 1) % MaxPending

Zero == [id |-> 0, done |-> FALSE]

Init ==
  /\ slots = [s \in Slot |-> Zero]
  /\ pending = 0 /\ head = 0 /\ tail = 0 /\ nextId = 0 /\ lost = {}
  /\ sem = 0 /\ running = FALSE /\ thread = NoWorker
  /\ caller = [c \in Callers |-> "idle"]
  /\ worker = [w \in Workers |-> [at |-> "off", id |-> 0]]
  /\ main = [at |-> "idle", i |-> 0] /\ rtBlocks \in BOOLEAN /\ unread = 0
  /\ collected = <<>> /\ untold = {}

\* Only hs_async_process keeps the mutex.
MutexIsFree == main.at # "reap"

-----------------------------------------------------------------------------
(* hs_async_load_texture and hs_async_save_file.                           *)

\* A task goes into the slot at head, whatever that holds.  (The call fails,
\* and changes nothing, if MaxPending tasks are pending or memory is short.)
Enqueue(c) ==
  /\ caller[c] = "idle" /\ nextId < MaxTasks
  /\ main.at \notin {"stopping", "stopped"}    \* nobody uses it any more then
  /\ running \/ c \in First
  /\ MutexIsFree /\ pending < MaxPending
  /\ nextId' = nextId + 1
  /\ slots' = [slots EXCEPT ![head] = [id |-> nextId', done |-> FALSE]]
  /\ lost' = lost \cup ({slots[head].id} \ {0})
  /\ head' = Next1(head) /\ pending' = pending + 1
  /\ caller' = [caller EXCEPT ![c] = "look"]
  /\ UNCHANGED <<tail, threadVars, worker, mainVars>>

\* After the mutex was released: is there a worker?
LookForWorker(c) ==
  /\ caller[c] = "look"
  /\ caller' = [caller EXCEPT ![c] = IF running THEN "post" ELSE "create"]
  /\ UNCHANGED <<ringVars, threadVars, worker, mainVars>>

CreateWorker(c) ==
  /\ caller[c] = "create"
  /\ running' = TRUE
  /\ \E w \in Workers :
       /\ worker[w].at = "off"
       /\ worker' = [worker EXCEPT ![w].at = "loop"]
       /\ thread' = w
  /\ caller' = [caller EXCEPT ![c] = "post"]
  /\ UNCHANGED <<ringVars, sem, mainVars>>

Post(c) ==
  /\ caller[c] = "post"
  /\ sem' = sem + 1
  /\ caller' = [caller EXCEPT ![c] = "idle"]
  /\ UNCHANGED <<ringVars, running, thread, worker, mainVars>>

-----------------------------------------------------------------------------
(* async_worker.                                                           *)

\* The head of the loop, and again after sem_wait: is it to go on?
WorkerLooks(w) ==
  /\ worker[w].at \in {"loop", "woken"}
  /\ worker' = [worker EXCEPT ![w].at =
                  IF ~running THEN "done" ELSE IF @ = "loop" THEN "wait" ELSE "lock"]
  /\ UNCHANGED <<ringVars, threadVars, caller, mainVars>>

\* sem_wait.
WorkerWakes(w) ==
  /\ worker[w].at = "wait" /\ sem > 0
  /\ sem' = sem - 1
  /\ worker' = [worker EXCEPT ![w].at = "woken"]
  /\ UNCHANGED <<ringVars, running, thread, caller, mainVars>>

\* Mutant of WorkerTakes: the task is marked done before it is worked on.
WorkerTakesAsDone(w) ==
  /\ worker[w].at = "lock" /\ MutexIsFree /\ pending > 0
  /\ worker' = [worker EXCEPT ![w] = [at |-> "work", id |-> slots[tail].id]]
  /\ slots' = [slots EXCEPT ![tail].done = TRUE]
  /\ tail' = Next1(tail) /\ pending' = pending - 1
  /\ UNCHANGED <<head, nextId, lost, threadVars, caller, mainVars>>

\* Mutant of WorkerTakes: the task stays in the ring until it is done.
WorkerTakesNot(w) ==
  /\ worker[w].at = "lock" /\ MutexIsFree /\ pending > 0
  /\ worker' = [worker EXCEPT ![w] = [at |-> "work", id |-> slots[tail].id]]
  /\ pending' = pending - 1
  /\ UNCHANGED <<slots, head, tail, nextId, lost, threadVars, caller, mainVars>>

\* Copies the oldest pending task; its slot keeps it until it is collected.
\* (The code goes round its loop if there is none; a worker that got here in vain
\* would stay for ever, against WorkEnds.)
WorkerTakes(w) ==
  /\ worker[w].at = "lock" /\ MutexIsFree /\ pending > 0
  /\ worker' = [worker EXCEPT ![w] = [at |-> "work", id |-> slots[tail].id]]
  /\ tail' = Next1(tail) /\ pending' = pending - 1
  /\ UNCHANGED <<slots, head, nextId, lost, threadVars, caller, mainVars>>

\* The task is done; its slot, if it still has one, is marked.
WorkerReports(w) ==
  /\ worker[w].at = "work" /\ MutexIsFree
  /\ slots' = [s \in Slot |-> IF slots[s].id = worker[w].id
                                THEN [slots[s] EXCEPT !.done = TRUE] ELSE slots[s]]
  /\ worker' = [worker EXCEPT ![w] = [at |-> "loop", id |-> 0]]
  /\ UNCHANGED <<pending, head, tail, nextId, lost, threadVars, caller, mainVars>>

-----------------------------------------------------------------------------
(* The main thread.                                                        *)

Done(i) == {s \in Slot : s >= i /\ slots[s].done}

ProcessBegin ==
  /\ main.at = "idle"
  /\ main' = [at |-> "reap", i |-> 0]
  /\ UNCHANGED <<ringVars, threadVars, caller, worker, tellVars>>

\* The next completed task: the fabric is told, as soon as it has room, or not at
\* all if it has none and does not block.  The result of the send is ignored: the
\* task is freed.
ProcessReaps ==
  /\ main.at = "reap"
  /\ \E s \in Done(main.i) :
       /\ \A o \in Done(main.i) : s <= o
       /\ \/ unread < Room /\ unread' = unread + 1 /\ untold' = untold
          \/ unread = Room /\ ~rtBlocks /\ untold' = untold \cup {slots[s].id} /\ unread' = unread
       /\ collected' = Append(collected, slots[s].id)
       /\ slots' = [slots EXCEPT ![s] = Zero]
       /\ main' = [main EXCEPT !.i = s + 1]
  /\ UNCHANGED <<pending, head, tail, nextId, lost, threadVars, caller, worker, rtBlocks>>

ProcessEnd ==
  /\ main.at = "reap" /\ Done(main.i) = {}
  /\ main' = [at |-> "idle", i |-> 0]
  /\ UNCHANGED <<ringVars, threadVars, caller, worker, tellVars>>

\* Mutant of StopCall: the worker is not woken.
StopCallNoPost ==
  /\ main.at = "idle" /\ \A c \in Callers : caller[c] = "idle"
  /\ main' = [main EXCEPT !.at = IF running THEN "stopping" ELSE "stopped"]
  /\ running' = FALSE
  /\ UNCHANGED <<ringVars, sem, thread, caller, worker, tellVars>>

\* hs_async_shutdown, which does nothing if there is no worker.
StopCall ==
  /\ main.at = "idle" /\ \A c \in Callers : caller[c] = "idle"
  /\ main' = [main EXCEPT !.at = IF running THEN "stopping" ELSE "stopped"]
  /\ running' = FALSE
  /\ sem' = IF running THEN sem + 1 ELSE sem
  /\ UNCHANGED <<ringVars, thread, caller, worker, tellVars>>

\* Mutant of StopReturn: it does not join.
StopReturnAtOnce ==
  /\ main.at = "stopping"
  /\ main' = [main EXCEPT !.at = "stopped"]
  /\ UNCHANGED <<ringVars, threadVars, caller, worker, tellVars>>

\* Joins the worker that was started last.
StopReturn ==
  /\ main.at = "stopping" /\ worker[thread].at = "done"
  /\ main' = [main EXCEPT !.at = "stopped"]
  /\ UNCHANGED <<ringVars, threadVars, caller, worker, tellVars>>

\* hs_step, on another thread, drains the fabric.
FabricDrains ==
  /\ unread > 0
  /\ unread' = 0
  /\ UNCHANGED <<ringVars, threadVars, caller, worker, main, rtBlocks, collected, untold>>

\* OP_SET_BLOCK_POLICY, which hs_step carries out.
SetBlockPolicy ==
  /\ rtBlocks' = ~rtBlocks
  /\ UNCHANGED <<ringVars, threadVars, caller, worker, main, unread, collected, untold>>

-----------------------------------------------------------------------------
CallGoesOn(c) == LookForWorker(c) \/ CreateWorker(c) \/ Post(c)
WorkerSteps(w) == WorkerLooks(w) \/ WorkerWakes(w)
WorkerLocks(w) == WorkerTakes(w) \/ WorkerReports(w)
ProcessGoesOn == ProcessReaps \/ ProcessEnd

Next ==
  \/ \E c \in Callers : Enqueue(c) \/ CallGoesOn(c)
  \/ \E w \in Workers : WorkerSteps(w) \/ WorkerLocks(w)
  \/ ProcessBegin \/ ProcessGoesOn
  \/ StopCall \/ StopReturn
  \/ FabricDrains \/ SetBlockPolicy

Spec == Init /\ [][Next]_vars

\* Threads go on, the main thread keeps calling hs_async_process until it shuts
\* down, and sleeps between two calls, so that the worker gets the mutex.
Fairness ==
  /\ \A c \in Callers : WF_vars(CallGoesOn(c))
  /\ \A w \in Workers : WF_vars(WorkerSteps(w)) /\ SF_vars(WorkerLocks(w))
  /\ WF_vars(ProcessBegin) /\ WF_vars(ProcessGoesOn) /\ WF_vars(StopReturn)
  /\ WF_vars(FabricDrains)

FairSpec == Spec /\ Fairness
-----------------------------------------------------------------------------
(* What the task queue promises its callers.                               *)

TypeOK ==
  /\ slots \in [Slot -> [id : 0 .. MaxTasks, done : BOOLEAN]]
  /\ pending \in 0 .. MaxPending /\ head \in Slot /\ tail \in Slot /\ nextId \in 0 .. MaxTasks
  /\ sem \in Nat /\ running \in BOOLEAN /\ thread \in Workers \cup {NoWorker}
  /\ caller \in [Callers -> {"idle", "look", "create", "post"}]
  /\ worker \in [Workers -> [at : {"off", "loop", "wait", "woken", "lock", "work", "done"},
                             id : 0 .. MaxTasks]]
  /\ main \in [at : {"idle", "reap", "stopping", "stopped"}, i : 0 .. MaxPending]
  /\ collected \in Seq(1 .. MaxTasks) /\ untold \subseteq 1 .. MaxTasks
  /\ rtBlocks \in BOOLEAN /\ unread \in 0 .. Room /\ lost \subseteq 1 .. MaxTasks

\* The slot k places after the tail.
From(k) == (tail + k) % MaxPending

\* The ring holds the pending tasks in the order they were accepted: none is
\* overwritten, skipped or handed to two workers, however callers, workers and
\* collection overlap.
QueueIsFifo ==
  /\ head = From(pending)
  /\ \A k \in 0 .. pending - 1 :
       slots[From(k)] = [id |-> nextId - pending + 1 + k, done |-> FALSE]

\* A task is collected once at most, so that the fabric is told of it once at
\* most, and its buffers, freed at that moment, are not in a worker's hands any
\* more.
CollectedOnce ==
  /\ \A j, k \in DOMAIN collected : collected[j] = collected[k] => j = k
  /\ \A w \in Workers : worker[w].at = "work" =>
       \A k \in DOMAIN collected : collected[k] # worker[w].id

\* The workers that were started, and those of them that still use the queue.
Started == {w \in Workers : worker[w].at # "off"}
OneWorker == \A v, w \in Started : v = w
Alive == {w \in Workers : worker[w].at \notin {"off", "done"}}

\* Running is tested and set outside the mutex, and hs_async_shutdown joins one
\* worker: when it has destroyed semaphore and mutex, fewer workers use them than
\* callers competed to start the first, and none if one caller started it.
StopLeavesFew == main.at = "stopped" => Alive = {} \/ Cardinality(Alive) < Cardinality(First)

Told(id) == id \notin untold /\ \E k \in DOMAIN collected : collected[k] = id

\* Every accepted task is completed and collected in the end unless its slot was
\* overwritten or the queue is shut down first.  The fabric is told of it or
\* refuses the message, which it does not if the RT channel always blocks.  Two
\* workers do as well.
AcceptedIsTold ==
  /\ \A id \in 1 .. MaxTasks :
       nextId >= id ~> Told(id) \/ id \in untold \/ id \in lost \/ main.at \in {"stopping", "stopped"}
  /\ []rtBlocks => [](untold = {})

\* No slot is overwritten as long as callers have at most MaxPending tasks that
\* were not collected and one worker completes them, in their order.
LossNeedsOverrun == [][lost' # lost /\ OneWorker => nextId - Len(collected) >= MaxPending]_vars

\* That, and hs_async_shutdown returns if there is one worker: of two, the one it does
\* not join may take the post that was to wake the other.
WorkEnds == AcceptedIsTold /\ (main.at = "stopping" /\ OneWorker ~> main.at = "stopped")
=============================================================================
