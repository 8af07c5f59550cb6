---------------------------- MODULE AsyncProofs -----------------------------
(***************************************************************************)
(* For every size of the ring, any number of callers and workers and every *)
(* schedule: pending tasks stay in the ring in their order, each goes to   *)
(* one worker, and is collected once, after the worker is done with it.    *)
(* Fewer workers outlive a shutdown than callers competed to start the     *)
(* first.  If one caller at most may start it, only callers that do not    *)
(* wait for collection have tasks overwritten.                             *)
(***************************************************************************)
EXTENDS AsyncTasks, SequenceTheorems, FiniteSetTheorems, TLAPS

\* Task ids are never used twice: not in two slots, not by two workers, not by
\* a slot that is collected already; and a task that is worked on is not done.
IdsAreOwn ==
  /\ pending <= nextId
  /\ \A s \in Slot : slots[s].id <= nextId /\ (slots[s].done => slots[s].id # 0)
  /\ \A s, o \in Slot : slots[s].id = slots[o].id /\ slots[s].id # 0 => s = o
  /\ \A k \in DOMAIN collected :
       collected[k] <= nextId - pending /\ \A s \in Slot : slots[s].id # collected[k]
  /\ \A w \in Workers : worker[w].at = "work" =>
       /\ worker[w].id \in 1 .. nextId - pending
       /\ \A s \in Slot : slots[s].id = worker[w].id => ~ slots[s].done
       /\ \A v \in Workers : worker[v].at = "work" /\ worker[v].id = worker[w].id => v = w

IInv == TypeOK /\ QueueIsFifo /\ CollectedOnce /\ IdsAreOwn

-----------------------------------------------------------------------------
(* Places in the ring.                                                     *)

LEMMA RingMod ==
  ASSUME NEW x \in 0 .. 2 * MaxPending - 1
  PROVE  x % MaxPending = IF x < MaxPending THEN x ELSE x - MaxPending
<1>1. CASE x < MaxPending  BY <1>1, AsyncAssumption, SMT
<1>2. CASE x >= MaxPending  BY <1>2, AsyncAssumption, SMT
<1>3. QED  BY <1>1, <1>2, AsyncAssumption

\* The places from 0 to MaxPending - 1 after the tail are slots of their own.
LEMMA FromCases ==
  ASSUME tail \in Slot
  PROVE  /\ \A k \in 0 .. MaxPending : From(k) \in Slot
         /\ \A j, k \in 0 .. MaxPending - 1 : From(j) = From(k) => j = k
         /\ From(0) = tail
         /\ \A k \in 0 .. MaxPending - 1 : Next1(From(k)) = From(k + 1)
<1>1. \A k \in 0 .. MaxPending - 1 :
        From(k) = IF tail + k < MaxPending THEN tail + k ELSE tail + k - MaxPending
  BY RingMod, AsyncAssumption DEF From, Slot
<1>2. From(MaxPending) = tail  BY RingMod, AsyncAssumption DEF From, Slot
<1>3. ASSUME NEW k \in 0 .. MaxPending - 1 PROVE Next1(From(k)) = From(k + 1)
  <2>1. From(k) + 1 \in 0 .. 2 * MaxPending - 1 /\ From(k) \in Slot
    BY <1>1, AsyncAssumption DEF Slot
  <2>2. Next1(From(k)) = IF From(k) + 1 < MaxPending THEN From(k) + 1 ELSE 0
    BY <2>1, RingMod, AsyncAssumption DEF Next1, Slot
  <2>3. CASE k + 1 = MaxPending
    BY <1>1, <1>2, <2>2, <2>3, AsyncAssumption DEF Slot
  <2>4. CASE k + 1 # MaxPending
    BY <1>1, <2>2, <2>4, AsyncAssumption DEF Slot
  <2>5. QED  BY <2>3, <2>4
<1>4. QED  BY <1>1, <1>2, <1>3, AsyncAssumption DEF Slot

\* Taking the oldest task moves every place by one.
LEMMA FromMoves ==
  ASSUME tail \in Slot, tail' = Next1(tail)
  PROVE  tail' \in Slot /\ \A k \in 0 .. MaxPending - 1 : From(k)' = From(k + 1)
<1>1. tail' = IF tail + 1 < MaxPending THEN tail + 1 ELSE 0
  BY RingMod, AsyncAssumption DEF Next1, Slot
<1>2. ASSUME NEW k \in 0 .. MaxPending - 1 PROVE From(k)' = From(k + 1)
  <2>1. From(k)' = IF tail' + k < MaxPending THEN tail' + k ELSE tail' + k - MaxPending
    BY <1>1, RingMod, AsyncAssumption DEF From, Slot
  <2>2. CASE tail + k + 1 < 2 * MaxPending
    <3>1. From(k + 1) = IF tail + k + 1 < MaxPending THEN tail + k + 1 ELSE tail + k + 1 - MaxPending
      BY <2>2, RingMod, AsyncAssumption DEF From, Slot
    <3>2. QED  BY <1>1, <2>1, <3>1, AsyncAssumption DEF Slot
  <2>3. QED  BY <2>2, AsyncAssumption DEF Slot
<1>3. QED  BY <1>1, <1>2, AsyncAssumption DEF Slot

\* A slot whose task is younger than the ones taken holds a pending task.
LEMMA YoungIsPending ==
  ASSUME IInv, NEW s \in Slot, slots[s].id > nextId - pending
  PROVE  ~ slots[s].done /\ \E k \in 0 .. pending - 1 : s = From(k)
<1> DEFINE k == slots[s].id - (nextId - pending + 1)
<1>1. slots[s].id \in Nat /\ nextId \in Nat /\ pending \in 0 .. MaxPending /\ slots[s].id <= nextId
  BY AsyncAssumption DEF IInv, TypeOK, IdsAreOwn
<1>2. k \in 0 .. pending - 1  BY <1>1, AsyncAssumption
<1>3. slots[From(k)] = [id |-> nextId - pending + 1 + k, done |-> FALSE]
  BY <1>2 DEF IInv, QueueIsFifo
<1>4. slots[From(k)].id = slots[s].id /\ ~ slots[From(k)].done
  BY <1>1, <1>2, <1>3
<1>5. From(k) \in Slot
  BY <1>1, <1>2, FromCases, AsyncAssumption DEF IInv, TypeOK
<1>6. slots[s].id # 0  BY <1>1, AsyncAssumption DEF IInv, IdsAreOwn
<1>7. s = From(k)  BY <1>4, <1>5, <1>6 DEF IInv, IdsAreOwn
<1>8. QED  BY <1>2, <1>4, <1>7

-----------------------------------------------------------------------------
(* The invariant.                                                          *)

LEMMA AsyncInit == Init => IInv
<1> SUFFICES ASSUME Init PROVE IInv
  OBVIOUS
<1>1. TypeOK
  <2>1. collected \in Seq(1 .. MaxTasks) /\ untold \subseteq 1 .. MaxTasks /\ rtBlocks \in BOOLEAN
    BY EmptySeq DEF Init
  <2>2. slots \in [Slot -> [id : 0 .. MaxTasks, done : BOOLEAN]]
    BY AsyncAssumption DEF Init, Zero
  <2>3. /\ main \in [at : {"idle", "reap", "stopping", "stopped"}, i : 0 .. MaxPending]
        /\ worker \in [Workers -> [at : {"off", "loop", "wait", "woken", "lock", "work", "done"},
                                   id : 0 .. MaxTasks]]
        /\ caller \in [Callers -> {"idle", "look", "create", "post"}]
    BY AsyncAssumption DEF Init
  <2>4. /\ pending \in 0 .. MaxPending /\ head \in Slot /\ tail \in Slot /\ nextId \in 0 .. MaxTasks
        /\ sem \in Nat /\ unread \in 0 .. Room
    BY AsyncAssumption DEF Init, Slot
  <2>5. running \in BOOLEAN /\ thread \in Workers \cup {NoWorker} /\ lost \subseteq 1 .. MaxTasks
    BY DEF Init
  <2>6. QED  BY <2>1, <2>2, <2>3, <2>4, <2>5 DEF TypeOK
<1>2. QueueIsFifo
  <2>1. From(0) = 0
    <3>1. tail \in Slot  BY AsyncAssumption DEF Init, Slot
    <3>2. QED  BY <3>1, FromCases DEF Init
  <2>2. QED  BY <2>1, AsyncAssumption DEF Init, QueueIsFifo
<1>3. CollectedOnce  BY DEF Init, CollectedOnce
<1>4. IdsAreOwn  BY DEF Init, IdsAreOwn, Zero
<1>5. QED  BY <1>1, <1>2, <1>3, <1>4 DEF IInv

\* Steps that leave the ring and what was collected alone, and nobody's task.
LEMMA RingStays ==
  ASSUME IInv, UNCHANGED <<slots, pending, head, tail, nextId, collected>>,
         \A w \in Workers : worker'[w].at = "work" =>
           worker[w].at = "work" /\ worker'[w].id = worker[w].id
  PROVE  QueueIsFifo' /\ CollectedOnce' /\ IdsAreOwn'
<1>1. QueueIsFifo'  BY DEF IInv, QueueIsFifo, From
<1>2. CollectedOnce'  BY DEF IInv, CollectedOnce
<1>3. IdsAreOwn'  BY DEF IInv, IdsAreOwn
<1>4. QED  BY <1>1, <1>2, <1>3

LEMMA EnqueueKeeps == ASSUME IInv, NEW c \in Callers, Enqueue(c) PROVE IInv'
<1> DEFINE new == [id |-> nextId + 1, done |-> FALSE]
<1>1. /\ nextId \in Nat /\ pending \in 0 .. MaxPending - 1 /\ nextId + 1 \in 1 .. MaxTasks
      /\ pending <= nextId /\ tail \in Slot /\ head \in Slot /\ head = From(pending)
  BY AsyncAssumption DEF IInv, TypeOK, IdsAreOwn, QueueIsFifo, Enqueue
<1>2. /\ slots' = [slots EXCEPT ![head] = new] /\ nextId' = nextId + 1 /\ pending' = pending + 1
      /\ head' = Next1(head) /\ UNCHANGED <<tail, worker, collected>>
  BY DEF Enqueue, mainVars, tellVars
<1>3. /\ slots'[head] = new /\ \A s \in Slot \ {head} : slots'[s] = slots[s]
      /\ slots' \in [Slot -> [id : 0 .. MaxTasks, done : BOOLEAN]]
  BY <1>1, <1>2 DEF IInv, TypeOK
<1>4. /\ head' = From(pending + 1) /\ head' \in Slot /\ (tail + pending + 1) % MaxPending = From(pending + 1)
      /\ \A k \in 0 .. pending - 1 : From(k) \in Slot /\ From(k) # head
  <2>1. Next1(From(pending)) = From(pending + 1) /\ From(pending + 1) \in Slot
    BY <1>1, FromCases, AsyncAssumption
  <2>2. \A k \in 0 .. pending - 1 : From(k) \in Slot /\ From(k) # From(pending)
    BY <1>1, FromCases, AsyncAssumption
  <2>3. tail + pending + 1 = tail + (pending + 1)  BY <1>1, AsyncAssumption DEF Slot
  <2>4. QED  BY <1>1, <1>2, <2>1, <2>2, <2>3 DEF From
<1>5. TypeOK'
  <2>1. lost' \subseteq 1 .. MaxTasks
    <3>1. slots[head].id \in 0 .. MaxTasks /\ lost \subseteq 1 .. MaxTasks
      BY <1>1 DEF IInv, TypeOK
    <3>2. {slots[head].id} \ {0} \subseteq 1 .. MaxTasks  BY <3>1, AsyncAssumption
    <3>3. QED  BY <3>1, <3>2 DEF Enqueue
  <2>2. caller' \in [Callers -> {"idle", "look", "create", "post"}]
    BY DEF Enqueue, IInv, TypeOK
  <2>3. pending' \in 0 .. MaxPending /\ nextId' \in 0 .. MaxTasks
    BY <1>1, <1>2, AsyncAssumption
  <2>4. UNCHANGED <<tail, sem, running, thread, worker, main, rtBlocks, unread, collected, untold>>
    BY DEF Enqueue, threadVars, mainVars, tellVars
  <2>5. QED  BY <1>3, <1>4, <2>1, <2>2, <2>3, <2>4 DEF IInv, TypeOK
<1>6. QueueIsFifo'
  <2>1. ASSUME NEW k \in 0 .. pending
        PROVE  slots'[From(k)'] = [id |-> nextId - pending + 1 + k, done |-> FALSE]
    <3>1. From(k)' = From(k)  BY <1>2 DEF From
    <3>2. CASE k = pending  BY <1>1, <1>3, <3>1, <3>2
    <3>3. CASE k # pending
      <4>1. k \in 0 .. pending - 1  BY <1>1, <3>3, AsyncAssumption
      <4>2. QED  BY <1>3, <1>4, <3>1, <4>1 DEF IInv, QueueIsFifo
    <3>4. QED  BY <3>2, <3>3
  <2>2. head' = (tail' + pending') % MaxPending  BY <1>1, <1>2, <1>4 DEF From
  <2>3. 0 .. pending' - 1 = 0 .. pending /\ nextId' - pending' = nextId - pending
    BY <1>1, <1>2, AsyncAssumption
  <2>4. QED  BY <2>1, <2>2, <2>3 DEF QueueIsFifo, From
<1>7. CollectedOnce'  BY <1>2 DEF IInv, CollectedOnce
<1>8. IdsAreOwn'
  <2>1. \A s \in Slot : slots[s].id <= nextId /\ slots[s].id \in Nat
    BY DEF IInv, TypeOK, IdsAreOwn
  <2>2. \A s \in Slot : slots'[s].id <= nextId' /\ (slots'[s].done => slots'[s].id # 0)
    BY <1>1, <1>2, <1>3, <2>1 DEF IInv, IdsAreOwn
  <2>3. \A s, o \in Slot : slots'[s].id = slots'[o].id /\ slots'[s].id # 0 => s = o
    BY <1>1, <1>3, <2>1 DEF IInv, IdsAreOwn
  <2>4. \A k \in DOMAIN collected' :
          collected'[k] <= nextId' - pending' /\ \A s \in Slot : slots'[s].id # collected'[k]
    <3>1. ASSUME NEW k \in DOMAIN collected
          PROVE  /\ collected[k] \in Nat /\ collected[k] <= nextId - pending
                 /\ \A s \in Slot : slots[s].id # collected[k]
      BY ElementOfSeq, LenProperties, AsyncAssumption DEF IInv, TypeOK, IdsAreOwn
    <3>2. QED  BY <1>1, <1>2, <1>3, <3>1, AsyncAssumption
  <2>5. ASSUME NEW w \in Workers, worker'[w].at = "work"
        PROVE  /\ worker'[w].id \in 1 .. nextId' - pending'
               /\ \A s \in Slot : slots'[s].id = worker'[w].id => ~ slots'[s].done
               /\ \A v \in Workers : worker'[v].at = "work" /\ worker'[v].id = worker'[w].id => v = w
    BY <1>1, <1>2, <1>3, <2>5, AsyncAssumption DEF IInv, IdsAreOwn
  <2>6. pending' <= nextId'  BY <1>1, <1>2, AsyncAssumption
  <2>7. QED  BY <2>2, <2>3, <2>4, <2>5, <2>6 DEF IdsAreOwn
<1>9. QED  BY <1>5, <1>6, <1>7, <1>8 DEF IInv

LEMMA WorkerTakesKeeps == ASSUME IInv, NEW w \in Workers, WorkerTakes(w) PROVE IInv'
<1> DEFINE id == nextId - pending + 1
<1>1. /\ nextId \in Nat /\ pending \in 1 .. MaxPending /\ pending <= nextId
      /\ tail \in Slot /\ nextId \in 0 .. MaxTasks
  BY AsyncAssumption DEF IInv, TypeOK, IdsAreOwn, WorkerTakes
<1>2. slots[tail] = [id |-> id, done |-> FALSE]
  <2>1. From(0) = tail  BY <1>1, FromCases
  <2>2. slots[From(0)] = [id |-> nextId - pending + 1 + 0, done |-> FALSE]
    BY <1>1, AsyncAssumption DEF IInv, QueueIsFifo
  <2>3. QED  BY <1>1, <2>1, <2>2
<1>3. id \in 1 .. MaxTasks /\ nextId - (pending - 1) = id  BY <1>1, AsyncAssumption
<1>4. /\ worker' = [worker EXCEPT ![w] = [at |-> "work", id |-> id]]
      /\ tail' = Next1(tail) /\ pending' = pending - 1
      /\ UNCHANGED <<slots, head, nextId, collected>>
  BY <1>2 DEF WorkerTakes, mainVars, tellVars
<1>5. tail' \in Slot /\ \A k \in 0 .. MaxPending - 1 : (tail' + k) % MaxPending = From(k + 1)
  <2>1. tail' \in Slot /\ \A k \in 0 .. MaxPending - 1 : From(k)' = From(k + 1)
    BY <1>1, <1>4, FromMoves
  <2>2. QED  BY <2>1 DEF From
<1>6. /\ worker'[w] = [at |-> "work", id |-> id] /\ \A v \in Workers \ {w} : worker'[v] = worker[v]
      /\ worker' \in [Workers -> [at : {"off", "loop", "wait", "woken", "lock", "work", "done"},
                                  id : 0 .. MaxTasks]]
  BY <1>3, <1>4, AsyncAssumption DEF IInv, TypeOK
<1>7. TypeOK'
  <2>1. pending' \in 0 .. MaxPending  BY <1>1, <1>4, AsyncAssumption
  <2>2. UNCHANGED <<slots, head, nextId, lost, sem, running, thread, caller, main, rtBlocks, unread, collected, untold>>
    BY DEF WorkerTakes, threadVars, mainVars, tellVars
  <2>3. QED  BY <1>5, <1>6, <2>1, <2>2 DEF IInv, TypeOK
<1>8. QueueIsFifo'
  <2>1. (tail' + pending') % MaxPending = From(pending)
    <3>1. pending - 1 \in 0 .. MaxPending - 1 /\ (pending - 1) + 1 = pending
      BY <1>1, AsyncAssumption
    <3>2. (tail' + (pending - 1)) % MaxPending = From((pending - 1) + 1)  BY <1>5, <3>1
    <3>3. QED  BY <1>4, <3>1, <3>2
  <2>2. ASSUME NEW k \in 0 .. pending - 2
        PROVE  slots[(tail' + k) % MaxPending] = [id |-> id + 1 + k, done |-> FALSE]
    <3>1. k + 1 \in 0 .. pending - 1 /\ k \in 0 .. MaxPending - 1  BY <1>1, AsyncAssumption
    <3>2. slots[From(k + 1)] = [id |-> nextId - pending + 1 + (k + 1), done |-> FALSE]
      BY <3>1 DEF IInv, QueueIsFifo
    <3>3. nextId - pending + 1 + (k + 1) = id + 1 + k  BY <1>1, <3>1, AsyncAssumption
    <3>4. QED  BY <1>5, <3>1, <3>2, <3>3
  <2>3. head = (tail' + pending') % MaxPending
    BY <2>1 DEF IInv, QueueIsFifo
  <2>4. 0 .. pending' - 1 = 0 .. pending - 2 /\ nextId' - pending' = id
    BY <1>1, <1>4, AsyncAssumption
  <2>5. QED  BY <1>4, <2>2, <2>3, <2>4 DEF QueueIsFifo, From
<1>9. \A k \in DOMAIN collected :
        collected[k] \in Nat /\ collected[k] <= nextId - pending /\ collected[k] # id
  BY <1>1, ElementOfSeq, LenProperties, AsyncAssumption DEF IInv, TypeOK, IdsAreOwn
<1>10. CollectedOnce'  BY <1>4, <1>6, <1>9 DEF IInv, CollectedOnce
<1>11. IdsAreOwn'
  <2>1. ASSUME NEW v \in Workers, worker'[v].at = "work"
        PROVE  /\ worker'[v].id \in 1 .. id
               /\ \A s \in Slot : slots[s].id = worker'[v].id => ~ slots[s].done
               /\ \A u \in Workers : worker'[u].at = "work" /\ worker'[u].id = worker'[v].id => u = v
    <3>1. \A u \in Workers \ {w} : worker[u].at = "work" => worker[u].id \in 1 .. nextId - pending
      BY DEF IInv, IdsAreOwn
    <3>2. \A u \in Workers \ {w} : worker[u].at = "work" => worker[u].id # id
      BY <1>1, <3>1, AsyncAssumption
    <3>3. CASE v = w
      <4>1. \A s \in Slot : slots[s].id = id => s = tail
        BY <1>1, <1>2, <1>3 DEF IInv, IdsAreOwn
      <4>2. QED  BY <1>2, <1>3, <1>6, <3>2, <3>3, <4>1, AsyncAssumption
    <3>4. CASE v # w
      <4>1. worker[v].id \in 1 .. nextId - pending /\ worker'[v] = worker[v]
        BY <1>6, <2>1, <3>1, <3>4
      <4>2. worker[v].id \in 1 .. id  BY <1>1, <4>1, AsyncAssumption
      <4>3. QED  BY <1>6, <2>1, <3>2, <3>4, <4>1, <4>2 DEF IInv, IdsAreOwn
    <3>5. QED  BY <3>3, <3>4
  <2>2. nextId' - pending' = id /\ pending' <= nextId'  BY <1>1, <1>4, AsyncAssumption
  <2>3. \A k \in DOMAIN collected : collected[k] <= id  BY <1>1, <1>9, AsyncAssumption
  <2>4. QED  BY <1>4, <2>1, <2>2, <2>3 DEF IInv, IdsAreOwn
<1>12. QED  BY <1>7, <1>8, <1>10, <1>11 DEF IInv

LEMMA WorkerReportsKeeps == ASSUME IInv, NEW w \in Workers, WorkerReports(w) PROVE IInv'
<1>1. /\ nextId \in Nat /\ pending \in 0 .. MaxPending /\ tail \in Slot
      /\ worker[w].id \in 1 .. nextId - pending /\ worker[w].at = "work"
  BY AsyncAssumption DEF IInv, TypeOK, IdsAreOwn, WorkerReports
<1>2. \A s \in Slot : slots[s] \in [id : 0 .. MaxTasks, done : BOOLEAN]
  BY DEF IInv, TypeOK
<1>3. /\ worker' = [worker EXCEPT ![w] = [at |-> "loop", id |-> 0]]
      /\ UNCHANGED <<pending, head, tail, nextId, collected>>
  BY DEF WorkerReports, mainVars, tellVars
<1>4. \A s \in Slot :
        /\ slots'[s].id = slots[s].id
        /\ slots[s].id # worker[w].id => slots'[s] = slots[s]
        /\ slots'[s] \in [id : 0 .. MaxTasks, done : BOOLEAN]
  BY <1>2 DEF WorkerReports
<1>5. TypeOK'
  <2>1. slots' \in [Slot -> [id : 0 .. MaxTasks, done : BOOLEAN]]
    BY <1>4 DEF WorkerReports
  <2>2. worker' \in [Workers -> [at : {"off", "loop", "wait", "woken", "lock", "work", "done"},
                                 id : 0 .. MaxTasks]]
    BY <1>3, AsyncAssumption DEF IInv, TypeOK
  <2>3. UNCHANGED <<pending, head, tail, nextId, lost, sem, running, thread, caller,
                    main, rtBlocks, unread, collected, untold>>
    BY DEF WorkerReports, threadVars, mainVars, tellVars
  <2>4. QED  BY <2>1, <2>2, <2>3 DEF IInv, TypeOK
<1>6. \A v \in Workers : worker'[v].at = "work" =>
        v # w /\ worker[v].at = "work" /\ worker'[v] = worker[v]
  BY <1>3 DEF IInv, TypeOK
<1>7. QueueIsFifo'
  <2>1. ASSUME NEW k \in 0 .. pending - 1
        PROVE  slots'[From(k)] = [id |-> nextId - pending + 1 + k, done |-> FALSE]
    <3>1. slots[From(k)] = [id |-> nextId - pending + 1 + k, done |-> FALSE]
      BY DEF IInv, QueueIsFifo
    <3>2. From(k) \in Slot  BY <1>1, FromCases, AsyncAssumption
    <3>3. nextId - pending + 1 + k # worker[w].id  BY <1>1, AsyncAssumption
    <3>4. QED  BY <1>4, <3>1, <3>2, <3>3
  <2>2. QED  BY <1>3, <2>1 DEF IInv, QueueIsFifo, From
<1>8. CollectedOnce'  BY <1>3, <1>6 DEF IInv, CollectedOnce
<1>9. IdsAreOwn'
  <2>1. \A s \in Slot : slots'[s].id <= nextId /\ (slots'[s].done => slots'[s].id # 0)
    <3>1. worker[w].id # 0  BY <1>1, AsyncAssumption
    <3>2. QED  BY <1>4, <3>1 DEF IInv, IdsAreOwn
  <2>2. \A v \in Workers : worker'[v].at = "work" =>
          \A s \in Slot : slots'[s].id = worker'[v].id => ~ slots'[s].done
    BY <1>1, <1>4, <1>6 DEF IInv, IdsAreOwn
  <2>3. QED  BY <1>3, <1>4, <1>6, <2>1, <2>2 DEF IInv, IdsAreOwn
<1>10. QED  BY <1>5, <1>7, <1>8, <1>9 DEF IInv

LEMMA ProcessReapsKeeps == ASSUME IInv, ProcessReaps PROVE IInv'
<1>1. PICK s \in Done(main.i) :
        /\ \/ unread < Room /\ unread' = unread + 1 /\ untold' = untold
           \/ untold' = untold \cup {slots[s].id} /\ unread' = unread
        /\ collected' = Append(collected, slots[s].id)
        /\ slots' = [slots EXCEPT ![s] = Zero]
        /\ main' = [main EXCEPT !.i = s + 1]
  BY DEF ProcessReaps
<1>0. /\ rtBlocks' = rtBlocks
      /\ \/ unread < Room /\ unread' = unread + 1 /\ untold' = untold
         \/ untold' = untold \cup {slots[s].id} /\ unread' = unread
  BY <1>1 DEF ProcessReaps
<1>2. s \in Slot /\ slots[s].done  BY DEF Done
<1>3. /\ nextId \in Nat /\ pending \in 0 .. MaxPending /\ tail \in Slot
      /\ slots[s].id \in 1 .. MaxTasks /\ collected \in Seq(1 .. MaxTasks)
  <2>1. slots[s].id \in 0 .. MaxTasks /\ slots[s].id # 0
    BY <1>2 DEF IInv, TypeOK, IdsAreOwn
  <2>2. QED  BY <2>1, AsyncAssumption DEF IInv, TypeOK
<1>4. slots[s].id <= nextId - pending
  BY <1>2, <1>3, YoungIsPending, AsyncAssumption
<1>5. slots'[s] = Zero /\ \A o \in Slot \ {s} : slots'[o] = slots[o]
  BY <1>1, <1>2 DEF IInv, TypeOK
<1>6. /\ collected' \in Seq(1 .. MaxTasks) /\ Len(collected') = Len(collected) + 1
      /\ DOMAIN collected' = 1 .. Len(collected) + 1
      /\ collected'[Len(collected) + 1] = slots[s].id
      /\ \A k \in DOMAIN collected : collected'[k] = collected[k]
      /\ DOMAIN collected = 1 .. Len(collected) /\ Len(collected) \in Nat
  BY <1>1, <1>3, AppendProperties, LenProperties
<1>7. \A k \in DOMAIN collected : /\ collected[k] \in 1 .. MaxTasks /\ collected[k] <= nextId - pending
                             /\ \A o \in Slot : slots[o].id # collected[k]
  BY <1>3, <1>6, ElementOfSeq DEF IInv, IdsAreOwn
<1>8. UNCHANGED <<pending, head, tail, nextId, worker>>  BY DEF ProcessReaps
<1>9. TypeOK'
  <2>1. slots' \in [Slot -> [id : 0 .. MaxTasks, done : BOOLEAN]]
    <3>1. Zero \in [id : 0 .. MaxTasks, done : BOOLEAN]  BY AsyncAssumption DEF Zero
    <3>2. QED  BY <1>1, <1>2, <3>1 DEF IInv, TypeOK
  <2>2. unread' \in 0 .. Room /\ untold' \subseteq 1 .. MaxTasks /\ rtBlocks' \in BOOLEAN
    <3>1. unread \in 0 .. Room /\ untold \subseteq 1 .. MaxTasks /\ rtBlocks \in BOOLEAN
      BY DEF IInv, TypeOK
    <3>2. CASE unread < Room /\ unread' = unread + 1 /\ untold' = untold
      BY <1>0, <3>1, <3>2, AsyncAssumption
    <3>3. CASE untold' = untold \cup {slots[s].id} /\ unread' = unread
      BY <1>0, <1>3, <3>1, <3>3
    <3>4. QED  BY <1>0, <3>2, <3>3
  <2>3. main' \in [at : {"idle", "reap", "stopping", "stopped"}, i : 0 .. MaxPending]
    <3>1. s + 1 \in 0 .. MaxPending  BY <1>2, AsyncAssumption DEF Slot
    <3>2. QED  BY <1>1, <3>1 DEF IInv, TypeOK
  <2>4. UNCHANGED <<pending, head, tail, nextId, lost, sem, running, thread, caller, worker>>
    BY DEF ProcessReaps, threadVars
  <2>5. QED  BY <1>6, <2>1, <2>2, <2>3, <2>4 DEF IInv, TypeOK
<1>10. QueueIsFifo'
  <2>1. ASSUME NEW k \in 0 .. pending - 1 PROVE slots'[From(k)] = slots[From(k)]
    <3>1. From(k) \in Slot  BY <1>3, FromCases, AsyncAssumption
    <3>2. slots[From(k)] = [id |-> nextId - pending + 1 + k, done |-> FALSE]
      BY DEF IInv, QueueIsFifo
    <3>3. ~ slots[From(k)].done  BY <3>2
    <3>4. QED  BY <1>2, <1>5, <3>1, <3>3
  <2>2. QED  BY <1>8, <2>1 DEF IInv, QueueIsFifo, From
<1>11. CollectedOnce'
  <2>1. \A j, k \in DOMAIN collected' : collected'[j] = collected'[k] => j = k
    <3>1. \A k \in DOMAIN collected : collected'[k] # slots[s].id  BY <1>2, <1>6, <1>7
    <3>2. \A k \in DOMAIN collected' : k \in DOMAIN collected \/ k = Len(collected) + 1  BY <1>6
    <3>3. QED  BY <1>6, <3>1, <3>2 DEF IInv, CollectedOnce
  <2>2. ASSUME NEW w \in Workers, worker[w].at = "work", NEW k \in DOMAIN collected'
        PROVE  collected'[k] # worker[w].id
    <3>1. slots[s].id # worker[w].id  BY <1>2, <2>2 DEF IInv, IdsAreOwn
    <3>2. k \in DOMAIN collected \/ k = Len(collected) + 1  BY <1>6
    <3>3. QED  BY <1>6, <2>2, <3>1, <3>2 DEF IInv, CollectedOnce
  <2>3. QED  BY <1>8, <2>1, <2>2 DEF CollectedOnce
<1>12. IdsAreOwn'
  <2>1. \A o \in Slot : slots'[o].id <= nextId /\ (slots'[o].done => slots'[o].id # 0)
    BY <1>3, <1>5, AsyncAssumption DEF IInv, IdsAreOwn, Zero
  <2>2. \A o, r \in Slot : slots'[o].id = slots'[r].id /\ slots'[o].id # 0 => o = r
    BY <1>5 DEF IInv, IdsAreOwn, Zero
  <2>3. ASSUME NEW k \in DOMAIN collected', NEW o \in Slot
        PROVE  collected'[k] <= nextId - pending /\ slots'[o].id # collected'[k]
    <3>1. CASE k \in DOMAIN collected
      <4>1. collected[k] # 0  BY <1>7, <3>1, AsyncAssumption
      <4>2. QED  BY <1>5, <1>6, <1>7, <3>1, <4>1 DEF Zero
    <3>2. CASE k = Len(collected) + 1
      <4>1. collected'[k] = slots[s].id /\ slots[s].id # 0  BY <1>3, <1>6, <3>2, AsyncAssumption
      <4>2. o # s => slots[o].id # slots[s].id  BY <1>2, <4>1 DEF IInv, IdsAreOwn
      <4>3. QED  BY <1>4, <1>5, <4>1, <4>2 DEF Zero
    <3>3. QED  BY <1>6, <3>1, <3>2
  <2>4. ASSUME NEW w \in Workers, worker[w].at = "work"
        PROVE  \A o \in Slot : slots'[o].id = worker[w].id => ~ slots'[o].done
    BY <1>5, <2>4 DEF IInv, IdsAreOwn, Zero
  <2>5. \A w \in Workers : worker[w].at = "work" =>
          /\ worker[w].id \in 1 .. nextId - pending
          /\ \A v \in Workers : worker[v].at = "work" /\ worker[v].id = worker[w].id => v = w
    BY DEF IInv, IdsAreOwn
  <2>6. pending <= nextId  BY DEF IInv, IdsAreOwn
  <2>7. pending' = pending /\ nextId' = nextId /\ worker' = worker  BY <1>8
  <2>8. \A k \in DOMAIN collected' :
          collected'[k] <= nextId - pending /\ \A o \in Slot : slots'[o].id # collected'[k]
    BY <1>2, <2>3
  <2>9. \A w \in Workers : worker'[w].at = "work" =>
          /\ worker'[w].id \in 1 .. nextId' - pending'
          /\ \A o \in Slot : slots'[o].id = worker'[w].id => ~ slots'[o].done
          /\ \A v \in Workers : worker'[v].at = "work" /\ worker'[v].id = worker'[w].id => v = w
    BY <2>4, <2>5, <2>7
  <2>10. QED  BY <2>1, <2>2, <2>6, <2>7, <2>8, <2>9 DEF IdsAreOwn
<1>13. QED  BY <1>9, <1>10, <1>11, <1>12 DEF IInv

\* The other steps leave the ring alone.
LEMMA AsyncStep == IInv /\ [Next]_vars => IInv'
<1> SUFFICES ASSUME IInv, [Next]_vars PROVE IInv'
  OBVIOUS
<1> USE AsyncAssumption
<1>1. ASSUME NEW c \in Callers, CallGoesOn(c) PROVE IInv'
  <2>1. UNCHANGED <<slots, pending, head, tail, nextId, lost, main, rtBlocks, unread, collected, untold>>
    BY <1>1 DEF CallGoesOn, LookForWorker, CreateWorker, Post, ringVars, mainVars, tellVars
  <2>2. caller' \in [Callers -> {"idle", "look", "create", "post"}]
    BY <1>1 DEF CallGoesOn, LookForWorker, CreateWorker, Post, IInv, TypeOK
  <2>3. sem' \in Nat
    BY <1>1 DEF CallGoesOn, LookForWorker, CreateWorker, Post, threadVars, IInv, TypeOK
  <2>4. /\ running' \in BOOLEAN /\ thread' \in Workers \cup {NoWorker}
        /\ worker' \in [Workers -> [at : {"off", "loop", "wait", "woken", "lock", "work", "done"},
                                    id : 0 .. MaxTasks]]
        /\ \A w \in Workers : worker'[w].at = "work" =>
             worker[w].at = "work" /\ worker'[w].id = worker[w].id
    <3>1. CASE CreateWorker(c)
      <4>1. PICK w \in Workers : worker' = [worker EXCEPT ![w].at = "loop"] /\ thread' = w
        BY <3>1 DEF CreateWorker
      <4>2. worker'[w].at = "loop" /\ \A v \in Workers \ {w} : worker'[v] = worker[v]
        BY <4>1 DEF IInv, TypeOK
      <4>3. worker' \in [Workers -> [at : {"off", "loop", "wait", "woken", "lock", "work", "done"},
                                      id : 0 .. MaxTasks]]
        BY <4>1 DEF IInv, TypeOK
      <4>4. \A v \in Workers : worker'[v].at = "work" =>
              worker[v].at = "work" /\ worker'[v].id = worker[v].id
        BY <4>2
      <4>5. running' \in BOOLEAN /\ thread' \in Workers \cup {NoWorker}
        BY <3>1, <4>1 DEF CreateWorker
      <4>6. QED  BY <4>3, <4>4, <4>5
    <3>2. CASE LookForWorker(c) \/ Post(c)
      BY <3>2 DEF LookForWorker, Post, threadVars, IInv, TypeOK
    <3>3. QED  BY <1>1, <3>1, <3>2 DEF CallGoesOn
  <2>5. QueueIsFifo' /\ CollectedOnce' /\ IdsAreOwn'  BY <2>1, <2>4, RingStays
  <2>6. TypeOK'  BY <2>1, <2>2, <2>3, <2>4 DEF IInv, TypeOK
  <2>7. QED  BY <2>5, <2>6 DEF IInv
<1>2. ASSUME NEW w \in Workers, WorkerSteps(w) PROVE IInv'
  <2>1. UNCHANGED <<slots, pending, head, tail, nextId, lost, running, thread, caller,
                    main, rtBlocks, unread, collected, untold>>
    BY <1>2 DEF WorkerSteps, WorkerLooks, WorkerWakes, ringVars, threadVars,
                mainVars, tellVars
  <2>2. sem' \in Nat
    BY <1>2 DEF WorkerSteps, WorkerLooks, WorkerWakes, threadVars, IInv, TypeOK
  <2>3. PICK a \in {"loop", "wait", "woken", "lock", "done"} :
          worker' = [worker EXCEPT ![w].at = a]
    <3>1. CASE WorkerLooks(w)
      BY <3>1 DEF WorkerLooks
    <3>2. CASE WorkerWakes(w)
      BY <3>2 DEF WorkerWakes
    <3>3. QED  BY <1>2, <3>1, <3>2 DEF WorkerSteps
  <2>4. /\ worker' \in [Workers -> [at : {"off", "loop", "wait", "woken", "lock", "work", "done"},
                                    id : 0 .. MaxTasks]]
        /\ worker'[w].at = a /\ \A v \in Workers \ {w} : worker'[v] = worker[v]
    BY <2>3 DEF IInv, TypeOK
  <2>5. QueueIsFifo' /\ CollectedOnce' /\ IdsAreOwn'  BY <2>1, <2>4, RingStays
  <2>6. TypeOK'  BY <2>1, <2>2, <2>4 DEF IInv, TypeOK
  <2>7. QED  BY <2>5, <2>6 DEF IInv
<1>3. ASSUME ProcessBegin \/ ProcessEnd \/ StopCall \/ StopReturn \/ FabricDrains \/ SetBlockPolicy
      PROVE  IInv'
  <2>1. UNCHANGED <<slots, pending, head, tail, nextId, lost, thread, caller, worker, collected, untold>>
    BY <1>3 DEF ProcessBegin, ProcessEnd, StopCall, StopReturn, FabricDrains, SetBlockPolicy, ringVars,
                threadVars, tellVars
  <2>2. sem' \in Nat /\ running' \in BOOLEAN /\ unread' \in 0 .. Room /\ rtBlocks' \in BOOLEAN
    <3>0. sem \in Nat /\ running \in BOOLEAN /\ unread \in 0 .. Room /\ rtBlocks \in BOOLEAN
      BY DEF IInv, TypeOK
    <3>1. CASE StopCall
      <4>1. (sem' = sem \/ sem' = sem + 1) /\ running' = FALSE /\ UNCHANGED <<unread, rtBlocks>>
        BY <3>1 DEF StopCall, tellVars
      <4>2. sem' \in Nat  BY <3>0, <4>1
      <4>3. QED  BY <3>0, <4>1, <4>2
    <3>2. CASE ProcessBegin \/ ProcessEnd \/ StopReturn
      BY <3>0, <3>2 DEF ProcessBegin, ProcessEnd, StopReturn, threadVars, tellVars
    <3>3. CASE FabricDrains
      BY <3>0, <3>3 DEF FabricDrains, threadVars
    <3>4. CASE SetBlockPolicy
      BY <3>0, <3>4 DEF SetBlockPolicy, threadVars
    <3>5. QED  BY <1>3, <3>1, <3>2, <3>3, <3>4
  <2>3. main' \in [at : {"idle", "reap", "stopping", "stopped"}, i : 0 .. MaxPending]
    BY <1>3 DEF ProcessBegin, ProcessEnd, StopCall, StopReturn, FabricDrains, SetBlockPolicy, IInv, TypeOK
  <2>4. QueueIsFifo' /\ CollectedOnce' /\ IdsAreOwn'  BY <2>1, RingStays
  <2>5. TypeOK'  BY <2>1, <2>2, <2>3 DEF IInv, TypeOK
  <2>6. QED  BY <2>4, <2>5 DEF IInv
<1>4. ASSUME UNCHANGED vars PROVE IInv'
  <2>1. UNCHANGED <<slots, pending, head, tail, nextId, lost, sem, running, thread, caller,
                    worker, main, rtBlocks, unread, collected, untold>>
    BY <1>4 DEF vars, ringVars, threadVars, mainVars, tellVars
  <2>2. QueueIsFifo' /\ CollectedOnce' /\ IdsAreOwn'  BY <2>1, RingStays
  <2>3. TypeOK'  BY <2>1 DEF IInv, TypeOK
  <2>4. QED  BY <2>2, <2>3 DEF IInv
<1>5. QED
  BY <1>1, <1>2, <1>3, <1>4, EnqueueKeeps, WorkerTakesKeeps, WorkerReportsKeeps, ProcessReapsKeeps
  DEF Next, WorkerLocks, ProcessGoesOn

-----------------------------------------------------------------------------
THEOREM AsyncInvariant == Spec => []IInv
<1>1. QED  BY AsyncInit, AsyncStep, PTL DEF Spec

\* hs_async_load_texture, hs_async_save_file and the workers pass tasks on in
\* their order, and never through a slot that holds another pending task,
\* whatever the size of the ring and however late tasks are collected.
THEOREM AsyncQueueIsFifo == Spec => []QueueIsFifo
<1>1. IInv => QueueIsFifo  BY DEF IInv
<1>2. QED  BY <1>1, AsyncInvariant, PTL

\* hs_async_process collects no task twice and frees no buffer that a worker
\* still has, though a slot may have been overwritten in between.
THEOREM AsyncCollectedOnce == Spec => []CollectedOnce
<1>1. IInv => CollectedOnce  BY DEF IInv
<1>2. QED  BY <1>1, AsyncInvariant, PTL
-----------------------------------------------------------------------------
(* Shutting down.                                                          *)

\* Each worker was started, or is about to be, by a caller of its own that found
\* none running; the one that was started last is async->thread, and is the one
\* that hs_async_shutdown waits for.
Starting == {c \in Callers : caller[c] = "create"}
OverNow == main.at \in {"stopping", "stopped"}

FewWorkers ==
  /\ \A c \in Callers : caller[c] = "look" => running \/ c \in First
  /\ Starting \subseteq First
  /\ OverNow => ~ running /\ \A c \in Callers : caller[c] = "idle"
  /\ ~ running /\ ~ OverNow => Started = {}
  /\ running \/ main.at = "stopping" \/ Started # {} => thread \in Started
  /\ main.at = "stopped" => Started = {} \/ \E w \in Started : worker[w].at = "done"
  /\ IsFiniteSet(Started) /\ Cardinality(Started) + Cardinality(Starting) <= Cardinality(First)

LEMMA FewWorkersInit == Init => FewWorkers
<1> SUFFICES ASSUME Init PROVE FewWorkers
  OBVIOUS
<1>1. Started = {} /\ Starting = {} /\ main.at = "idle" /\ ~ running /\ \A c \in Callers : caller[c] = "idle"
  BY DEF Init, Started, Starting
<1>2. Cardinality(First) \in Nat  BY FS_CardinalityType, AsyncAssumption
<1>3. IsFiniteSet({}) /\ Cardinality({}) = 0  BY FS_EmptySet
<1>4. Cardinality(Started) + Cardinality(Starting) <= Cardinality(First)  BY <1>1, <1>2, <1>3
<1>5. QED  BY <1>1, <1>3, <1>4 DEF FewWorkers, OverNow

\* Steps that start no worker and leave the callers that are about to alone.
LEMMA SameWorkers ==
  ASSUME TypeOK, FewWorkers, Starting' = Starting, UNCHANGED <<running, thread>>,
         \A w \in Workers : worker'[w].at = "off" <=> worker[w].at = "off",
         \A w \in Workers : worker[w].at = "done" => worker'[w].at = "done",
         \A c \in Callers : caller'[c] = "look" => caller[c] = "look" \/ running \/ c \in First,
         OverNow' <=> OverNow, OverNow => UNCHANGED caller,
         main'.at = "stopped" => main.at = "stopped" \/ worker[thread].at = "done",
         main.at = "stopped" => main'.at = "stopped"
  PROVE  FewWorkers'
<1>1. Started' = Started  BY DEF Started
<1>2. main'.at = "stopping" => main.at = "stopping"  BY DEF OverNow
<1>3. main'.at = "stopped" => Started' = {} \/ \E w \in Started' : worker'[w].at = "done"
  <2>1. CASE main.at = "stopped"
    <3>1. Started = {} \/ \E w \in Started : worker[w].at = "done"  BY <2>1 DEF FewWorkers
    <3>2. Started \subseteq Workers  BY DEF Started
    <3>3. QED  BY <1>1, <3>1, <3>2
  <2>2. CASE main.at # "stopped" /\ main'.at = "stopped"
    <3>1. main.at = "stopping"  BY <2>2 DEF OverNow
    <3>2. thread \in Started /\ thread \in Workers  BY <3>1 DEF FewWorkers, Started
    <3>3. worker'[thread].at = "done"  BY <2>2, <3>2
    <3>4. QED  BY <1>1, <3>2, <3>3
  <2>3. QED  BY <2>1, <2>2
<1>4. OverNow' => ~ running' /\ \A c \in Callers : caller'[c] = "idle"  BY DEF FewWorkers
<1>5. Cardinality(Started)' = Cardinality(Started) /\ Cardinality(Starting)' = Cardinality(Starting)
      /\ IsFiniteSet(Started)' /\ Cardinality(First)' = Cardinality(First)
  BY <1>1 DEF FewWorkers
<1>6. QED  BY <1>1, <1>2, <1>3, <1>4, <1>5 DEF FewWorkers

\* A caller that finds no worker is one of First, and there is none then.
LEMMA LookingKeepsFew ==
  ASSUME TypeOK, FewWorkers, NEW c \in Callers, LookForWorker(c) PROVE FewWorkers'
<1>1. /\ caller[c] = "look" /\ caller' = [caller EXCEPT ![c] = IF running THEN "post" ELSE "create"]
      /\ UNCHANGED <<running, thread, worker, main>>
  BY DEF LookForWorker, threadVars, mainVars
<1>2. ~ OverNow  BY <1>1 DEF FewWorkers
<1>3. /\ caller'[c] = IF running THEN "post" ELSE "create"
      /\ \A d \in Callers \ {c} : caller'[d] = caller[d]
  BY <1>1 DEF TypeOK
<1>4. CASE running
  <2>1. Starting' = Starting  BY <1>1, <1>3, <1>4 DEF Starting
  <2>2. QED  BY <1>1, <1>2, <1>3, <1>4, <2>1, SameWorkers DEF OverNow
<1>5. CASE ~ running
  <2>1. c \in First /\ Started = {} /\ Started' = {}  BY <1>1, <1>2, <1>5 DEF FewWorkers, Started
  <2>2. Starting' \subseteq First  BY <1>3, <2>1 DEF FewWorkers, Starting
  <2>3. IsFiniteSet(Starting') /\ Cardinality(Starting') <= Cardinality(First)
    BY <2>2, FS_Subset, AsyncAssumption
  <2>4. Cardinality(Started') = 0 /\ IsFiniteSet(Started')  BY <2>1, FS_EmptySet
  <2>5. Cardinality(Starting') \in Nat /\ Cardinality(First) \in Nat
    BY <2>3, FS_CardinalityType, AsyncAssumption
  <2>6. Cardinality(Started') + Cardinality(Starting') <= Cardinality(First)  BY <2>3, <2>4, <2>5
  <2>7. \A d \in Callers : caller'[d] = "look" => running' \/ d \in First
    BY <1>1, <1>3, <1>5 DEF FewWorkers
  <2>8. QED  BY <1>1, <1>2, <1>5, <2>1, <2>2, <2>4, <2>6, <2>7 DEF FewWorkers, OverNow
<1>6. QED  BY <1>4, <1>5

LEMMA CreatingKeepsFew ==
  ASSUME TypeOK, FewWorkers, NEW c \in Callers, CreateWorker(c) PROVE FewWorkers'
<1>1. PICK w \in Workers : /\ worker[w].at = "off" /\ thread' = w
                           /\ worker' = [worker EXCEPT ![w].at = "loop"]
  BY DEF CreateWorker
<1>2. /\ caller[c] = "create" /\ caller' = [caller EXCEPT ![c] = "post"] /\ running' = TRUE
      /\ main' = main
  BY DEF CreateWorker, mainVars
<1>3. ~ OverNow /\ ~ OverNow'  BY <1>2 DEF FewWorkers, OverNow
<1>4. Starting' = Starting \ {c} /\ c \in Starting
  BY <1>2 DEF Starting, TypeOK
<1>5. Started' = Started \cup {w} /\ w \notin Started
  <2>1. worker'[w].at = "loop" /\ \A v \in Workers \ {w} : worker'[v] = worker[v]
    BY <1>1 DEF TypeOK
  <2>2. QED  BY <1>1, <2>1 DEF Started
<1>6. IsFiniteSet(Starting)  BY FS_Subset, AsyncAssumption DEF FewWorkers
<1>7. Cardinality(Starting') = Cardinality(Starting) - 1 /\ Cardinality(Starting) \in Nat
  BY <1>4, <1>6, FS_RemoveElement, FS_CardinalityType
<1>8. IsFiniteSet(Started') /\ Cardinality(Started') = Cardinality(Started) + 1
      /\ Cardinality(Started) \in Nat
  BY <1>5, FS_AddElement, FS_CardinalityType DEF FewWorkers
<1>9. Cardinality(Started') + Cardinality(Starting') = Cardinality(Started) + Cardinality(Starting)
  BY <1>7, <1>8
<1>10. Cardinality(Started') + Cardinality(Starting') <= Cardinality(First)
  BY <1>9 DEF FewWorkers
<1>11. \A d \in Callers : caller'[d] = "look" => running' \/ d \in First  BY <1>2
<1>12. Starting' \subseteq First /\ thread' \in Started'  BY <1>1, <1>4, <1>5 DEF FewWorkers
<1>13. QED  BY <1>2, <1>3, <1>8, <1>10, <1>11, <1>12 DEF FewWorkers, OverNow

LEMMA FewWorkersStep == ASSUME TypeOK, FewWorkers, [Next]_vars PROVE FewWorkers'
<1>1. ASSUME NEW c \in Callers, Enqueue(c) \/ Post(c) PROVE FewWorkers'
  <2>1. /\ UNCHANGED <<running, thread, worker, main>>
        /\ caller[c] \in {"idle", "post"}
        /\ \/ caller' = [caller EXCEPT ![c] = "look"] /\ (running \/ c \in First) /\ ~ OverNow
           \/ caller' = [caller EXCEPT ![c] = "idle"] /\ caller[c] = "post"
    BY <1>1 DEF Enqueue, Post, threadVars, mainVars, OverNow
  <2>2. Starting' = Starting  BY <2>1 DEF Starting, TypeOK
  <2>3. ~ OverNow  BY <2>1 DEF FewWorkers
  <2>4. \A d \in Callers : caller'[d] = "look" => caller[d] = "look" \/ running \/ d \in First
    BY <2>1 DEF TypeOK
  <2>5. QED  BY <2>1, <2>2, <2>3, <2>4, SameWorkers DEF OverNow
<1>2. ASSUME NEW w \in Workers, WorkerSteps(w) \/ WorkerLocks(w) PROVE FewWorkers'
  <2>1. UNCHANGED <<running, thread, caller, main>>
    BY <1>2 DEF WorkerSteps, WorkerLocks, WorkerLooks, WorkerWakes, WorkerTakes, WorkerReports,
                threadVars, mainVars
  <2>2. /\ worker[w].at \notin {"off", "done"} /\ worker'[w].at # "off"
        /\ \A v \in Workers : v # w => worker'[v] = worker[v]
    BY <1>2 DEF WorkerSteps, WorkerLocks, WorkerLooks, WorkerWakes, WorkerTakes, WorkerReports, TypeOK
  <2>3. Starting' = Starting  BY <2>1 DEF Starting
  <2>4. QED  BY <2>1, <2>2, <2>3, SameWorkers DEF OverNow
<1>3. CASE ProcessBegin \/ ProcessGoesOn \/ FabricDrains \/ SetBlockPolicy
  <2>1. /\ UNCHANGED <<running, thread, caller, worker>>
        /\ main'.at = main.at \/ {main.at, main'.at} \subseteq {"idle", "reap"}
    BY <1>3 DEF ProcessBegin, ProcessGoesOn, ProcessReaps, ProcessEnd, FabricDrains, SetBlockPolicy,
                threadVars, TypeOK
  <2>2. Starting' = Starting  BY <2>1 DEF Starting
  <2>3. QED  BY <2>1, <2>2, SameWorkers DEF OverNow
<1>4. CASE StopCall
  <2>1. /\ main.at = "idle" /\ \A c \in Callers : caller[c] = "idle"
        /\ main'.at = (IF running THEN "stopping" ELSE "stopped") /\ running' = FALSE
        /\ UNCHANGED <<thread, caller, worker>>
    BY <1>4 DEF StopCall, TypeOK
  <2>2. Starting' = Starting /\ Started' = Started  BY <2>1 DEF Starting, Started
  <2>3. ~ running => Started = {}  BY <2>1 DEF FewWorkers, OverNow
  <2>4. QED  BY <2>1, <2>2, <2>3 DEF FewWorkers, OverNow
<1>5. CASE StopReturn
  <2>1. /\ main.at = "stopping" /\ worker[thread].at = "done" /\ main'.at = "stopped"
        /\ UNCHANGED <<running, thread, caller, worker>>
    BY <1>5 DEF StopReturn, threadVars, TypeOK
  <2>2. Starting' = Starting  BY <2>1 DEF Starting
  <2>3. QED  BY <2>1, <2>2, SameWorkers DEF OverNow
<1>6. CASE UNCHANGED vars
  <2>1. UNCHANGED <<running, thread, caller, worker, main>>
    BY <1>6 DEF vars, threadVars, mainVars
  <2>2. Starting' = Starting  BY <2>1 DEF Starting
  <2>3. QED  BY <2>1, <2>2, SameWorkers DEF OverNow
<1>7. QED
  BY <1>1, <1>2, <1>3, <1>4, <1>5, <1>6, LookingKeepsFew, CreatingKeepsFew DEF Next, CallGoesOn

\* Of the workers that were started the one joined is done.
LEMMA FewAreLeft == FewWorkers => StopLeavesFew
<1> SUFFICES ASSUME FewWorkers, main.at = "stopped", Alive # {}
             PROVE  Cardinality(Alive) < Cardinality(First)
  BY DEF StopLeavesFew
<1>1. Alive \subseteq Started  BY DEF Alive, Started
<1>2. PICK w \in Started : worker[w].at = "done"  BY <1>1 DEF FewWorkers
<1>3. Alive \subseteq Started \ {w}  BY <1>1, <1>2 DEF Alive
<1>4. IsFiniteSet(Started) /\ Cardinality(Started) \in Nat
  BY FS_CardinalityType DEF FewWorkers
<1>5. IsFiniteSet(Started \ {w}) /\ Cardinality(Started \ {w}) = Cardinality(Started) - 1
  BY <1>4, FS_RemoveElement
<1>6. Cardinality(Alive) <= Cardinality(Started) - 1 /\ Cardinality(Alive) \in Nat
  BY <1>3, <1>5, FS_Subset, FS_CardinalityType
<1>7. IsFiniteSet(Starting)  BY FS_Subset, AsyncAssumption DEF FewWorkers
<1>8. Cardinality(Starting) \in Nat /\ Cardinality(First) \in Nat
  BY <1>7, FS_CardinalityType, AsyncAssumption
<1>9. Cardinality(Started) + Cardinality(Starting) <= Cardinality(First)  BY DEF FewWorkers
<1>10. QED  BY <1>4, <1>6, <1>8, <1>9

\* hs_async_shutdown has destroyed semaphore and mutex under fewer workers than
\* callers that competed to start the first (running is tested and set outside
\* the mutex), for any number of callers and workers and whoever competes; under
\* none if one caller had started the worker before the others came.
THEOREM AsyncStopLeavesFew == Spec => []StopLeavesFew
<1>1. IInv => TypeOK  BY DEF IInv
<1>2. TypeOK /\ FewWorkers /\ [Next]_vars => FewWorkers'  BY FewWorkersStep
<1>3. QED  BY <1>1, <1>2, FewWorkersInit, FewAreLeft, AsyncInvariant, PTL DEF Spec
-----------------------------------------------------------------------------
(* Overwriting.                                                            *)

\* How many tasks ago a slot was last written, and how many tasks are completed
\* if there is one worker.
Behind(s) == IF s < head THEN head - s ELSE head - s + MaxPending
Working == \E w \in Workers : worker[w].at = "work"
Finished == nextId - pending - (IF Working THEN 1 ELSE 0)

\* One worker completes tasks in their order.  A sweep of hs_async_process, which
\* no task is added or completed during, leaves no completed task behind it, so
\* that between two sweeps what was collected is older than what is in the ring.
Aged ==
  \A s \in Slot : slots[s].id # 0 =>
    slots[s].id = nextId + 1 - Behind(s) /\ (slots[s].done <=> slots[s].id <= Finished)
TakenLast == \A w \in Workers : worker[w].at = "work" => worker[w].id = nextId - pending
CollectedFinished == \A k \in DOMAIN collected : collected[k] <= Finished
Swept == main.at = "reap" => \A s \in Slot : s < main.i => ~ slots[s].done
CollectedFirst ==
  main.at # "reap" =>
    \A k \in DOMAIN collected, s \in Slot : slots[s].id # 0 => collected[k] < slots[s].id

InOrder == Aged /\ TakenLast /\ CollectedFinished /\ Swept /\ CollectedFirst

LEMMA OrderTypes ==
  ASSUME IInv
  PROVE  /\ nextId \in Nat /\ pending \in 0 .. MaxPending /\ pending <= nextId /\ head \in Slot
         /\ MaxPending \in Nat /\ MaxPending > 0 /\ Finished \in Int
         /\ \A s \in Slot : slots[s].id \in Nat /\ slots[s].done \in BOOLEAN /\ s \in Nat
         /\ \A k \in DOMAIN collected : collected[k] \in Nat /\ collected[k] >= 1
         /\ collected \in Seq(1 .. MaxTasks) /\ DOMAIN collected = 1 .. Len(collected) /\ Len(collected) \in Nat
<1> USE AsyncAssumption
<1>1. nextId \in Nat /\ pending \in 0 .. MaxPending /\ pending <= nextId /\ head \in Slot
  BY DEF IInv, TypeOK, IdsAreOwn
<1>2. Finished \in Int  BY <1>1 DEF Finished
<1>3. \A s \in Slot : slots[s].id \in Nat /\ slots[s].done \in BOOLEAN /\ s \in Nat
  BY DEF IInv, TypeOK, Slot
<1>4. collected \in Seq(1 .. MaxTasks)  BY DEF IInv, TypeOK
<1>5. DOMAIN collected = 1 .. Len(collected) /\ Len(collected) \in Nat  BY <1>4, LenProperties
<1>6. \A k \in DOMAIN collected : collected[k] \in Nat /\ collected[k] >= 1
  BY <1>4, <1>5, ElementOfSeq
<1>7. QED  BY <1>1, <1>2, <1>3, <1>4, <1>5, <1>6

LEMMA OrderInit == Init => InOrder
<1> SUFFICES ASSUME Init PROVE InOrder
  OBVIOUS
<1>1. /\ \A s \in Slot : slots[s].id = 0
      /\ \A w \in Workers : worker[w].at = "off"
      /\ collected = <<>> /\ main.at = "idle"
  BY DEF Init, Zero
<1>2. DOMAIN collected = {}
  <2>1. Len(collected) = 0  BY <1>1, EmptySeq
  <2>2. DOMAIN collected = 1 .. Len(collected)  BY AsyncInit, OrderTypes
  <2>3. QED  BY <2>1, <2>2
<1>3. Aged  BY <1>1 DEF Aged
<1>4. TakenLast  BY <1>1 DEF TakenLast
<1>5. CollectedFinished  BY <1>2 DEF CollectedFinished
<1>6. Swept  BY <1>1 DEF Swept
<1>7. CollectedFirst  BY <1>2 DEF CollectedFirst
<1>8. QED  BY <1>3, <1>4, <1>5, <1>6, <1>7 DEF InOrder

\* An occupied slot that is written again holds the task MaxPending before.
LEMMA OverwrittenIsOld ==
  ASSUME IInv, InOrder, slots[head].id # 0
  PROVE  slots[head].id = nextId + 1 - MaxPending
<1>1. head \in Slot /\ head \in Nat /\ MaxPending \in Nat  BY OrderTypes
<1>2. Behind(head) = MaxPending  BY <1>1 DEF Behind
<1>3. QED  BY <1>1, <1>2 DEF InOrder, Aged

\* Distinct numbers below n are n - 1 at most.
LEMMA FewAreBelow ==
  ASSUME NEW n \in Nat, n >= 1, NEW q, NEW l \in Nat, DOMAIN q = 1 .. l,
         \A k \in 1 .. l : q[k] \in 1 .. n - 1, \A j, k \in 1 .. l : q[j] = q[k] => j = k
  PROVE  l <= n - 1
<1> SUFFICES ASSUME l > n - 1 PROVE FALSE
  OBVIOUS
<1>1. IsFiniteSet(1 .. l) /\ Cardinality(1 .. l) = l
  <2>1. IsFiniteSet(1 .. l) /\ Cardinality(1 .. l) = IF 1 > l THEN 0 ELSE l - 1 + 1
    BY FS_Interval
  <2>2. QED  BY <2>1
<1>2. IsFiniteSet(1 .. n - 1) /\ Cardinality(1 .. n - 1) = n - 1
  <2>1. n - 1 \in Int  OBVIOUS
  <2>2. IsFiniteSet(1 .. n - 1) /\ Cardinality(1 .. n - 1) = IF 1 > n - 1 THEN 0 ELSE n - 1 - 1 + 1
    BY <2>1, FS_Interval
  <2>3. QED  BY <2>2
<1> DEFINE f == [k \in 1 .. l |-> q[k]]
<1>3. f \in [1 .. l -> 1 .. n - 1]  OBVIOUS
<1>4. Cardinality(1 .. n - 1) < Cardinality(1 .. l)  BY <1>1, <1>2
<1>5. \E j, k \in 1 .. l : j # k /\ f[j] = f[k]
  <2> HIDE DEF f
  <2>1. QED  BY <1>1, <1>2, <1>3, <1>4, FS_PigeonHole
<1>6. QED  BY <1>5

LEMMA OverrunIsLate ==
  ASSUME IInv, InOrder, NEW c \in Callers, Enqueue(c), lost' # lost
  PROVE  nextId - Len(collected) >= MaxPending
<1>1. slots[head].id # 0 /\ main.at # "reap"  BY DEF Enqueue, MutexIsFree
<1>2. PICK n \in Nat : n = slots[head].id  BY OrderTypes
<1>3. n = nextId + 1 - MaxPending /\ n >= 1
  BY <1>1, <1>2, OverwrittenIsOld
<1>4. \A k \in DOMAIN collected : collected[k] \in 1 .. n - 1
  <2>1. \A k \in DOMAIN collected : collected[k] < n  BY <1>1, <1>2, OrderTypes DEF InOrder, CollectedFirst
  <2>2. QED  BY <1>2, <2>1, OrderTypes
<1>5. \A j, k \in DOMAIN collected : collected[j] = collected[k] => j = k  BY DEF IInv, CollectedOnce
<1>6. DOMAIN collected = 1 .. Len(collected) /\ Len(collected) \in Nat  BY OrderTypes
<1>7. Len(collected) <= n - 1  BY <1>2, <1>3, <1>4, <1>5, <1>6, FewAreBelow
<1>8. nextId \in Nat /\ MaxPending \in Nat  BY OrderTypes
<1>9. QED  BY <1>3, <1>6, <1>7, <1>8

LEMMA EnqueueOrders ==
  ASSUME IInv, IInv', InOrder, NEW c \in Callers, Enqueue(c) PROVE InOrder'
<1>1. /\ head \in Slot /\ nextId' = nextId + 1 /\ pending' = pending + 1 /\ main.at # "reap"
      /\ slots' = [slots EXCEPT ![head] = [id |-> nextId + 1, done |-> FALSE]]
      /\ head' = Next1(head) /\ UNCHANGED <<worker, collected, main>>
  BY OrderTypes DEF Enqueue, MutexIsFree, mainVars, tellVars
<1>2. /\ slots'[head] = [id |-> nextId + 1, done |-> FALSE]
      /\ \A s \in Slot \ {head} : slots'[s] = slots[s]
  BY <1>1 DEF IInv, TypeOK
<1>3. Finished' = Finished
  <2>1. Working' = Working  BY <1>1 DEF Working
  <2>2. nextId' - pending' = nextId - pending  BY <1>1, OrderTypes
  <2>3. QED  BY <2>1, <2>2 DEF Finished
<1>4. head' = IF head + 1 < MaxPending THEN head + 1 ELSE 0
  <2>1. head + 1 \in 0 .. 2 * MaxPending - 1  BY <1>1, OrderTypes DEF Slot
  <2>2. (head + 1) % MaxPending = IF head + 1 < MaxPending THEN head + 1 ELSE head + 1 - MaxPending
    BY <2>1, RingMod, OrderTypes DEF Slot
  <2>3. QED  BY <1>1, <2>2, OrderTypes, SMTT(30) DEF Next1, Slot
<1>5. head \in Nat /\ head < MaxPending /\ MaxPending \in Nat  BY <1>1, OrderTypes DEF Slot
<1>6. Finished <= nextId  BY OrderTypes DEF Finished
<1>7. Aged'
  <2> SUFFICES ASSUME NEW s \in Slot, slots'[s].id # 0
               PROVE  /\ slots'[s].id = nextId' + 1 - Behind(s)'
                      /\ slots'[s].done <=> slots'[s].id <= Finished'
    BY DEF Aged, Behind
  <2>1. s \in Nat /\ s < MaxPending  BY <1>5 DEF Slot
  <2>2. CASE s = head
    <3>1. Behind(s)' = 1  BY <1>4, <1>5, <2>2 DEF Behind
    <3>2. slots'[s].id = nextId + 1 /\ slots'[s].done = FALSE  BY <1>2, <2>2
    <3>3. QED  BY <1>1, <1>3, <1>6, <3>1, <3>2, OrderTypes
  <2>3. CASE s # head
    <3>1. Behind(s)' = Behind(s) + 1 /\ Behind(s) \in Int  BY <1>4, <1>5, <2>1, <2>3 DEF Behind
    <3>2. slots'[s] = slots[s]  BY <1>2, <2>3
    <3>3. /\ slots[s].id = nextId + 1 - Behind(s)
          /\ slots[s].done <=> slots[s].id <= Finished
      BY <3>2 DEF InOrder, Aged
    <3>4. nextId + 1 - Behind(s) = nextId' + 1 - Behind(s)'
      BY <1>1, <3>1, OrderTypes
    <3>5. QED  BY <1>3, <3>2, <3>3, <3>4
  <2>4. QED  BY <2>2, <2>3
<1>8. TakenLast'
  <2>1. nextId' - pending' = nextId - pending  BY <1>1, OrderTypes
  <2>2. QED  BY <1>1, <2>1 DEF InOrder, TakenLast
<1>9. CollectedFinished' /\ Swept'  BY <1>1, <1>3 DEF InOrder, CollectedFinished, Swept
<1>10. CollectedFirst'
  <2> SUFFICES ASSUME NEW k \in DOMAIN collected, NEW s \in Slot, slots'[s].id # 0
               PROVE  collected[k] < slots'[s].id
    BY <1>1 DEF CollectedFirst
  <2>1. CASE s = head
    <3>1. collected[k] <= Finished  BY DEF InOrder, CollectedFinished
    <3>2. QED  BY <1>2, <1>6, <2>1, <3>1, OrderTypes
  <2>2. CASE s # head
    BY <1>1, <1>2, <2>2 DEF InOrder, CollectedFirst
  <2>3. QED  BY <2>1, <2>2
<1>11. QED  BY <1>7, <1>8, <1>9, <1>10 DEF InOrder

\* The hypothesis of one worker: whoever is not off is async->thread.
LEMMA TakingOrders ==
  ASSUME IInv, InOrder, \A v \in Workers : worker[v].at # "off" => v = thread,
         NEW w \in Workers, WorkerTakes(w)
  PROVE  InOrder'
<1>1. /\ worker' = [worker EXCEPT ![w] = [at |-> "work", id |-> slots[tail].id]]
      /\ worker[w].at = "lock" /\ pending > 0 /\ pending' = pending - 1
      /\ UNCHANGED <<slots, head, nextId, collected, main>>
  BY DEF WorkerTakes, mainVars, tellVars
<1>2. /\ worker'[w] = [at |-> "work", id |-> slots[tail].id]
      /\ \A v \in Workers : v # w => worker'[v] = worker[v] /\ worker[v].at = "off"
  BY <1>1 DEF IInv, TypeOK
<1>3. slots[tail].id = nextId - pending + 1
  <2>1. From(0) = tail  BY FromCases DEF IInv, TypeOK
  <2>2. 0 \in 0 .. pending - 1  BY <1>1, OrderTypes
  <2>3. slots[From(0)] = [id |-> nextId - pending + 1 + 0, done |-> FALSE]
    BY <2>2 DEF IInv, QueueIsFifo
  <2>4. QED  BY <2>1, <2>3, OrderTypes
<1>4. nextId' - pending' = nextId - pending + 1  BY <1>1, OrderTypes
<1>5. Finished' = Finished
  <2>1. Finished = nextId - pending  BY <1>1, <1>2, OrderTypes DEF Finished, Working
  <2>2. Working'  BY <1>2 DEF Working
  <2>3. Finished' = nextId' - pending' - 1  BY <2>2 DEF Finished
  <2>4. QED  BY <1>4, <2>1, <2>3, OrderTypes
<1>6. Aged'
  <2>1. \A s \in Slot : Behind(s)' = Behind(s)  BY <1>1 DEF Behind
  <2>2. QED  BY <1>1, <1>5, <2>1 DEF InOrder, Aged
<1>7. TakenLast'
  <2> SUFFICES ASSUME NEW v \in Workers, worker'[v].at = "work"
               PROVE  worker'[v].id = nextId' - pending'
    BY DEF TakenLast
  <2>1. v = w  BY <1>2
  <2>2. QED  BY <1>2, <1>3, <1>4, <2>1
<1>8. CollectedFinished' /\ Swept' /\ CollectedFirst'
  BY <1>1, <1>5 DEF InOrder, CollectedFinished, Swept, CollectedFirst
<1>9. QED  BY <1>6, <1>7, <1>8 DEF InOrder

LEMMA ReportingOrders ==
  ASSUME IInv, InOrder, \A v \in Workers : worker[v].at # "off" => v = thread,
         NEW w \in Workers, WorkerReports(w)
  PROVE  InOrder'
<1>1. /\ worker' = [worker EXCEPT ![w] = [at |-> "loop", id |-> 0]]
      /\ worker[w].at = "work" /\ main.at # "reap"
      /\ UNCHANGED <<pending, head, nextId, collected, main>>
  BY DEF WorkerReports, mainVars, tellVars, MutexIsFree
<1>2. \A s \in Slot : /\ slots'[s].id = slots[s].id
                      /\ slots'[s].done <=> slots[s].done \/ slots[s].id = worker[w].id
  <2>1. \A s \in Slot : slots[s] \in [id : 0 .. MaxTasks, done : BOOLEAN]
    BY DEF IInv, TypeOK
  <2>2. QED  BY <2>1 DEF WorkerReports
<1>3. \A v \in Workers : worker'[v].at # "work"
  <2>1. \A v \in Workers : v # w => worker'[v] = worker[v] /\ worker[v].at = "off"
    BY <1>1 DEF IInv, TypeOK
  <2>2. worker'[w].at = "loop"  BY <1>1 DEF IInv, TypeOK
  <2>3. QED  BY <2>1, <2>2
<1>4. Finished = nextId - pending - 1  BY <1>1 DEF Finished, Working
<1>5. Finished' = nextId - pending  BY <1>1, <1>3, OrderTypes DEF Finished, Working
<1>6. worker[w].id = nextId - pending  BY <1>1 DEF InOrder, TakenLast
<1>7. Aged'
  <2> SUFFICES ASSUME NEW s \in Slot, slots'[s].id # 0
               PROVE  /\ slots'[s].id = nextId' + 1 - Behind(s)'
                      /\ slots'[s].done <=> slots'[s].id <= Finished'
    BY DEF Aged, Behind
  <2>1. Behind(s)' = Behind(s)  BY <1>1 DEF Behind
  <2>2. /\ slots[s].id = nextId + 1 - Behind(s)
        /\ slots[s].done <=> slots[s].id <= Finished
    BY <1>2 DEF InOrder, Aged
  <2>3. slots[s].id <= Finished' <=> slots[s].id <= Finished \/ slots[s].id = worker[w].id
    BY <1>4, <1>5, <1>6, OrderTypes
  <2>4. QED  BY <1>1, <1>2, <2>1, <2>2, <2>3
<1>8. TakenLast'  BY <1>3 DEF TakenLast
<1>9. CollectedFinished'
  <2>1. \A k \in DOMAIN collected : collected[k] <= Finished /\ collected[k] \in Nat
    BY OrderTypes DEF InOrder, CollectedFinished
  <2>2. QED  BY <1>1, <1>4, <1>5, <2>1, OrderTypes DEF CollectedFinished
<1>10. Swept' /\ CollectedFirst'  BY <1>1, <1>2 DEF InOrder, Swept, CollectedFirst
<1>11. QED  BY <1>7, <1>8, <1>9, <1>10 DEF InOrder

LEMMA ReapingOrders == ASSUME IInv, InOrder, ProcessReaps PROVE InOrder'
<1>1. PICK s \in Done(main.i) : /\ \A o \in Done(main.i) : s <= o
                                /\ collected' = Append(collected, slots[s].id)
                                /\ slots' = [slots EXCEPT ![s] = Zero]
                                /\ main' = [main EXCEPT !.i = s + 1]
  BY DEF ProcessReaps
<1>2. s \in Slot /\ slots[s].done /\ main.at = "reap" /\ UNCHANGED <<pending, head, nextId, worker>>
  BY DEF Done, ProcessReaps
<1>3. slots'[s] = Zero /\ \A o \in Slot \ {s} : slots'[o] = slots[o]
  BY <1>1, <1>2 DEF IInv, TypeOK
<1>4. main'.at = "reap" /\ main'.i = s + 1 /\ main.i \in Nat
  BY <1>1, <1>2 DEF IInv, TypeOK
<1>5. Finished' = Finished /\ Working' = Working  BY <1>2 DEF Finished, Working
<1>6. Aged'
  <2> SUFFICES ASSUME NEW o \in Slot, slots'[o].id # 0
               PROVE  /\ slots'[o].id = nextId' + 1 - Behind(o)'
                      /\ slots'[o].done <=> slots'[o].id <= Finished'
    BY DEF Aged, Behind
  <2>1. o # s  BY <1>3 DEF Zero
  <2>2. slots'[o] = slots[o] /\ Behind(o)' = Behind(o)  BY <1>2, <1>3, <2>1 DEF Behind
  <2>3. QED  BY <1>2, <1>5, <2>2 DEF InOrder, Aged
<1>7. TakenLast'  BY <1>2 DEF InOrder, TakenLast
<1>8. CollectedFinished'
  <2>1. slots[s].id # 0 /\ slots[s].id \in 1 .. MaxTasks
    <3>1. slots[s].id \in 0 .. MaxTasks /\ slots[s].id # 0
      BY <1>2 DEF IInv, TypeOK, IdsAreOwn
    <3>2. QED  BY <3>1, AsyncAssumption
  <2>2. slots[s].id <= Finished  BY <1>2, <2>1 DEF InOrder, Aged
  <2>3. DOMAIN collected' = 1 .. Len(collected) + 1 /\ collected'[Len(collected) + 1] = slots[s].id
        /\ \A k \in 1 .. Len(collected) : collected'[k] = collected[k]
    BY <1>1, <2>1, AppendProperties, LenProperties, OrderTypes
  <2>4. ASSUME NEW k \in DOMAIN collected' PROVE collected'[k] <= Finished'
    <3>1. CASE k = Len(collected) + 1  BY <1>5, <2>2, <2>3, <3>1
    <3>2. CASE k # Len(collected) + 1
      <4>1. k \in DOMAIN collected  BY <2>3, <3>2, OrderTypes
      <4>2. QED  BY <1>5, <2>3, <4>1, OrderTypes DEF InOrder, CollectedFinished
    <3>3. QED  BY <3>1, <3>2
  <2>5. QED  BY <2>4 DEF CollectedFinished
<1>9. Swept'
  <2> SUFFICES ASSUME NEW o \in Slot, o < s + 1 PROVE ~ slots'[o].done
    BY <1>4 DEF Swept
  <2>1. CASE o = s  BY <1>3, <2>1 DEF Zero
  <2>2. CASE o # s
    <3>1. o < s  BY <1>2, <2>2, OrderTypes
    <3>2. ~ (s <= o)  BY <1>2, <3>1, OrderTypes
    <3>3. o \notin Done(main.i)  BY <1>1, <3>2
    <3>4. ~ slots[o].done
      BY <1>2, <1>4, <3>3, OrderTypes DEF Done, InOrder, Swept
    <3>5. QED  BY <1>3, <2>2, <3>4
  <2>3. QED  BY <2>1, <2>2
<1>10. CollectedFirst'  BY <1>4 DEF CollectedFirst
<1>11. QED  BY <1>6, <1>7, <1>8, <1>9, <1>10 DEF InOrder

\* After a sweep every task left in the ring is unfinished.
LEMMA SweepingOrders == ASSUME IInv, InOrder, ProcessEnd PROVE InOrder'
<1>1. /\ main.at = "reap" /\ Done(main.i) = {} /\ main'.at = "idle" /\ main.i \in Nat
      /\ UNCHANGED <<slots, pending, head, nextId, worker, collected>>
  BY DEF ProcessEnd, ringVars, tellVars, IInv, TypeOK
<1>2. \A s \in Slot : ~ slots[s].done
  BY <1>1, OrderTypes DEF Done, InOrder, Swept
<1>3. Finished' = Finished  BY <1>1 DEF Finished, Working
<1>4. Aged'
  <2>1. \A s \in Slot : Behind(s)' = Behind(s)  BY <1>1 DEF Behind
  <2>2. QED  BY <1>1, <1>3, <2>1 DEF InOrder, Aged
<1>5. TakenLast' /\ CollectedFinished' /\ Swept'
  BY <1>1, <1>3 DEF InOrder, TakenLast, CollectedFinished, Swept
<1>6. CollectedFirst'
  <2> SUFFICES ASSUME NEW k \in DOMAIN collected, NEW s \in Slot, slots[s].id # 0
               PROVE  collected[k] < slots[s].id
    BY <1>1 DEF CollectedFirst
  <2>1. ~ (slots[s].id <= Finished)  BY <1>2 DEF InOrder, Aged
  <2>2. collected[k] <= Finished  BY DEF InOrder, CollectedFinished
  <2>3. collected[k] \in Nat /\ slots[s].id \in Nat /\ Finished \in Int  BY OrderTypes
  <2>4. QED  BY <2>1, <2>2, <2>3
<1>7. QED  BY <1>4, <1>5, <1>6 DEF InOrder

\* Steps that touch neither the ring nor anybody's task, and begin a sweep at most.
LEMMA OrderStays ==
  ASSUME IInv, InOrder, UNCHANGED <<slots, pending, head, nextId, collected>>,
         \A w \in Workers : /\ worker'[w].at = "work" <=> worker[w].at = "work"
                            /\ worker'[w].at = "work" => worker'[w].id = worker[w].id,
         main' = main \/ (main.at # "reap" /\ main'.at = "reap" => main'.i = 0),
         main.at = "reap" => main' = main
  PROVE  InOrder'
<1>1. Finished' = Finished  BY DEF Finished, Working
<1>2. Aged'
  <2>1. \A s \in Slot : Behind(s)' = Behind(s)  BY DEF Behind
  <2>2. QED  BY <1>1, <2>1 DEF InOrder, Aged
<1>3. TakenLast' /\ CollectedFinished'  BY <1>1 DEF InOrder, TakenLast, CollectedFinished
<1>4. Swept'
  <2>1. \A s \in Slot : ~ (s < 0)  BY OrderTypes
  <2>2. QED  BY <2>1 DEF InOrder, Swept
<1>5. CollectedFirst'  BY DEF InOrder, CollectedFirst
<1>6. QED  BY <1>2, <1>3, <1>4, <1>5 DEF InOrder

LEMMA OrderStep ==
  ASSUME IInv, IInv', InOrder, [Next]_vars, \A w \in Workers : worker[w].at # "off" => w = thread
  PROVE  InOrder'
<1>1. ASSUME NEW c \in Callers, CallGoesOn(c) PROVE InOrder'
  <2>1. UNCHANGED <<slots, pending, head, nextId, collected, main>>
    BY <1>1 DEF CallGoesOn, LookForWorker, CreateWorker, Post, ringVars, mainVars, tellVars
  <2>2. \A w \in Workers : /\ worker'[w].at = "work" <=> worker[w].at = "work"
                           /\ worker'[w].at = "work" => worker'[w].id = worker[w].id
    <3>1. CASE CreateWorker(c)
      <4>1. PICK w \in Workers : worker' = [worker EXCEPT ![w].at = "loop"] /\ worker[w].at = "off"
        BY <3>1 DEF CreateWorker
      <4>2. worker'[w].at = "loop" /\ \A v \in Workers \ {w} : worker'[v] = worker[v]
        BY <4>1 DEF IInv, TypeOK
      <4>3. QED  BY <4>1, <4>2
    <3>2. CASE LookForWorker(c) \/ Post(c)
      BY <3>2 DEF LookForWorker, Post
    <3>3. QED  BY <1>1, <3>1, <3>2 DEF CallGoesOn
  <2>3. QED  BY <2>1, <2>2, OrderStays
<1>2. ASSUME NEW w \in Workers, WorkerSteps(w) PROVE InOrder'
  <2>1. UNCHANGED <<slots, pending, head, nextId, collected, main>>
    BY <1>2 DEF WorkerSteps, WorkerLooks, WorkerWakes, ringVars, mainVars, tellVars
  <2>2. \A v \in Workers : /\ worker'[v].at = "work" <=> worker[v].at = "work"
                           /\ worker'[v].at = "work" => worker'[v].id = worker[v].id
    <3>1. PICK a \in {"loop", "wait", "woken", "lock", "done"} :
            worker' = [worker EXCEPT ![w].at = a]
      <4>1. CASE WorkerLooks(w)  BY <4>1 DEF WorkerLooks
      <4>2. CASE WorkerWakes(w)  BY <4>2 DEF WorkerWakes
      <4>3. QED  BY <1>2, <4>1, <4>2 DEF WorkerSteps
    <3>2. worker[w].at # "work"  BY <1>2 DEF WorkerSteps, WorkerLooks, WorkerWakes
    <3>3. worker'[w].at = a /\ \A v \in Workers \ {w} : worker'[v] = worker[v]
      BY <3>1 DEF IInv, TypeOK
    <3>4. QED  BY <3>2, <3>3
  <2>3. QED  BY <2>1, <2>2, OrderStays
<1>3. ASSUME ProcessBegin \/ StopCall \/ StopReturn \/ FabricDrains \/ SetBlockPolicy PROVE InOrder'
  <2>1. UNCHANGED <<slots, pending, head, nextId, collected, worker>>
    BY <1>3 DEF ProcessBegin, StopCall, StopReturn, FabricDrains, SetBlockPolicy, ringVars, tellVars
  <2>2. /\ main' = main \/ (main.at # "reap" /\ main'.at = "reap" => main'.i = 0)
        /\ main.at = "reap" => main' = main
    <3>1. CASE ProcessBegin  BY <3>1 DEF ProcessBegin
    <3>2. CASE StopCall
      <4>1. main.at = "idle" /\ main'.at \in {"stopping", "stopped"}
        BY <3>2 DEF StopCall, IInv, TypeOK
      <4>2. QED  BY <4>1
    <3>3. CASE StopReturn
      <4>1. main.at = "stopping" /\ main'.at = "stopped"
        BY <3>3 DEF StopReturn, IInv, TypeOK
      <4>2. QED  BY <4>1
    <3>4. CASE FabricDrains \/ SetBlockPolicy  BY <3>4 DEF FabricDrains, SetBlockPolicy
    <3>5. QED  BY <1>3, <3>1, <3>2, <3>3, <3>4
  <2>3. QED  BY <2>1, <2>2, OrderStays
<1>4. CASE UNCHANGED vars
  <2>1. UNCHANGED <<slots, pending, head, nextId, collected, worker, main>>
    BY <1>4 DEF vars, ringVars, mainVars, tellVars
  <2>2. QED  BY <2>1, OrderStays
<1>5. QED
  BY <1>1, <1>2, <1>3, <1>4, EnqueueOrders, TakingOrders, ReportingOrders, ReapingOrders,
     SweepingOrders
  DEF Next, WorkerLocks, ProcessGoesOn

LEMMA StartedStay == ASSUME TypeOK, [Next]_vars PROVE Started \subseteq Started'
<1> SUFFICES ASSUME NEW v \in Workers, worker[v].at # "off" PROVE worker'[v].at # "off"
  BY DEF Started
<1>1. ASSUME NEW c \in Callers, CreateWorker(c) PROVE worker'[v].at # "off"
  <2>1. PICK w \in Workers : worker' = [worker EXCEPT ![w].at = "loop"] /\ worker[w].at = "off"
    BY <1>1 DEF CreateWorker
  <2>2. worker'[v] = worker[v]  BY <2>1 DEF TypeOK
  <2>3. QED  BY <2>2
<1>2. ASSUME NEW w \in Workers, WorkerSteps(w) \/ WorkerLocks(w) PROVE worker'[v].at # "off"
  <2>1. worker'[w].at # "off" /\ \A u \in Workers : u # w => worker'[u] = worker[u]
    BY <1>2 DEF WorkerSteps, WorkerLocks, WorkerLooks, WorkerWakes, WorkerTakes, WorkerReports, TypeOK
  <2>2. QED  BY <2>1
<1>3. ASSUME UNCHANGED worker PROVE worker'[v].at # "off"  BY <1>3
<1>4. QED
  BY <1>1, <1>2, <1>3
  DEF Next, vars, CallGoesOn, Enqueue, LookForWorker, Post, ProcessBegin, ProcessGoesOn, ProcessReaps,
      ProcessEnd, StopCall, StopReturn, FabricDrains, SetBlockPolicy

\* A slot is overwritten before its task was collected only if callers put in
\* MaxPending tasks more than were collected, whether the fabric took the message
\* or not, for any number of callers and every size of the ring, as long as no
\* second worker was started: callers that keep to what they were told never lose
\* a task.
THEOREM AsyncLossNeedsOverrun == Spec => LossNeedsOverrun
<1> DEFINE Ordered == OneWorker => InOrder
<1>1. IInv => TypeOK  BY DEF IInv
<1>2. TypeOK /\ FewWorkers /\ [Next]_vars => FewWorkers'  BY FewWorkersStep
<1>3. FewWorkers /\ OneWorker => \A w \in Workers : worker[w].at # "off" => w = thread
  BY DEF FewWorkers, OneWorker, Started
<1>4. IInv /\ IInv' /\ FewWorkers /\ Ordered /\ [Next]_vars => Ordered'
  <2> SUFFICES ASSUME IInv, IInv', FewWorkers, Ordered, [Next]_vars, OneWorker' PROVE InOrder'
    OBVIOUS
  <2>1. Started \subseteq Started'  BY <1>1, StartedStay
  <2>2. OneWorker  BY <2>1 DEF OneWorker
  <2>3. QED  BY <1>3, <2>2, OrderStep
<1>5. IInv /\ Ordered /\ [Next]_vars
        => [lost' # lost /\ OneWorker => nextId - Len(collected) >= MaxPending]_vars
  <2> SUFFICES ASSUME IInv, InOrder, Next, lost' # lost PROVE nextId - Len(collected) >= MaxPending
    OBVIOUS
  <2>1. PICK c \in Callers : Enqueue(c)
    BY DEF Next, CallGoesOn, LookForWorker, CreateWorker, Post, WorkerSteps, WorkerLooks,
           WorkerWakes, WorkerLocks, WorkerTakes, WorkerReports, ProcessBegin, ProcessGoesOn,
           ProcessReaps, ProcessEnd, StopCall, StopReturn, FabricDrains, SetBlockPolicy, ringVars
  <2>2. QED  BY <2>1, OverrunIsLate
<1>6. Init => Ordered  BY OrderInit
<1> HIDE DEF Ordered
<1>7. QED
  BY <1>1, <1>2, <1>4, <1>5, <1>6, FewWorkersInit, AsyncInvariant, PTL DEF Spec, LossNeedsOverrun
=============================================================================
