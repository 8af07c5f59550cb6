---------------------------- MODULE SubmitQueue -----------------------------
(***************************************************************************)
(* The fallback submit queue of a channel (HSSubmitQueue): a ring of slots *)
(* with a sequence number each, into which any thread may enqueue          *)
(* (hs_submit_enqueue) and from which the step thread dequeues             *)
(* (hs_submit_dequeue).  There is no lock: every load, store and           *)
(* compare-and-swap is a step of its own.                                  *)
(*                                                                         *)
(* Positions and sequence numbers are 32-bit counters (module Ring, Size = *)
(* HS_SUBMIT_SIZE) that the code subtracts as 64-bit integers: Dif does    *)
(* not wrap.                                                               *)
(***************************************************************************)
EXTENDS Ring, Sequences, FiniteSets

CONSTANTS
  Producers,  \* threads that enqueue
  Start,      \* the position at which the behaviours begin
  MaxPush     \* bound: messages enqueued in one behaviour

ASSUME StartAssumption == Start \in Pos
\* In a ring of one slot a published number would be the next lap's free one.
ASSUME RingAssumption == Size >= 2 /\ IsFiniteSet(Producers)
\* No thread sleeps in hs_submit_enqueue while the counter goes round once.
ASSUME MaxPushAssumption == MaxPush \in Nat /\ MaxPush < PosMod - Size

VARIABLES
  seq, data,          \* the slots: sequence number, contents
  enq, deq,           \* enqueue_pos, dequeue_pos
  ppc, ppos, pmsg,    \* each producer: where in hs_submit_enqueue, local pos, message
  cpc, cpos,          \* step thread: where in hs_submit_dequeue, local pos
  hw,                 \* submit_hw: the largest depth the step thread has seen
  out,                \* the last message dequeued
  pushes              \* messages claimed or being enqueued, for the bound

prodVars == <<ppc, ppos, pmsg>>
consVars == <<cpc, cpos, out, hw>>
vars == <<seq, data, enq, deq, prodVars, consVars, pushes>>

\* (intptr_t)seq - (intptr_t)pos: 64 bits wide.
Dif(s, p) == s - p

Init ==
  \* Start messages have gone through: each slot awaits its next position
  \* (hs_init and hs_clear give Start = 0).
  /\ seq = [s \in Slot |->
              CHOOSE p \in Pos : Index(p) = s /\ Dist(p, Start) < Size]
  /\ data = [s \in Slot |-> None]
  /\ enq = Start /\ deq = Start
  /\ ppc = [p \in Producers |-> "idle"]
  /\ ppos = [p \in Producers |-> 0]
  /\ pmsg = [p \in Producers |-> None]
  /\ cpc = "idle" /\ cpos = 0
  /\ hw = 0 /\ out = None /\ pushes = 0

-----------------------------------------------------------------------------
(* hs_submit_enqueue, on thread p.                                         *)

\* Called with a valid opcode and a registered destination; loads enqueue_pos.
EnqLoad(p, m) ==
  /\ ppc[p] = "idle"
  /\ pushes < MaxPush
  /\ pushes' = pushes + 1
  /\ ppos' = [ppos EXCEPT ![p] = enq]
  /\ pmsg' = [pmsg EXCEPT ![p] = m]
  /\ ppc' = [ppc EXCEPT ![p] = "compare"]
  /\ UNCHANGED <<seq, data, enq, deq, consVars>>

\* What the slot's sequence number tells thread p about its position.
EnqDif(p) == Dif(seq[Index(ppos[p])], ppos[p])

\* The slot is free: go and claim it.
EnqFree(p) ==
  /\ ppc[p] = "compare"
  /\ EnqDif(p) = 0
  /\ ppc' = [ppc EXCEPT ![p] = "claim"]
  /\ UNCHANGED <<seq, data, enq, deq, ppos, pmsg, consVars, pushes>>

\* The slot still holds last lap's message: report the queue full.
EnqFull(p) ==
  /\ ppc[p] = "compare"
  /\ EnqDif(p) < 0
  /\ ppc' = [ppc EXCEPT ![p] = "idle"]
  /\ pmsg' = [pmsg EXCEPT ![p] = None]
  /\ pushes' = pushes - 1
  /\ UNCHANGED <<seq, data, enq, deq, ppos, consVars>>

\* Mutant of EnqReload: goes round the loop with the stale position.
EnqReloadStale(p) ==
  /\ ppc[p] = "compare"
  /\ EnqDif(p) > 0
  /\ UNCHANGED vars

\* Somebody else took the position: load enqueue_pos again.
EnqReload(p) ==
  /\ ppc[p] = "compare"
  /\ EnqDif(p) > 0
  /\ ppos' = [ppos EXCEPT ![p] = enq]
  /\ UNCHANGED <<seq, data, enq, deq, ppc, pmsg, consVars, pushes>>

\* Mutant of EnqClaim: a plain store instead of the compare-and-swap.
EnqClaimByStore(p) ==
  /\ ppc[p] = "claim"
  /\ enq' = Plus(ppos[p], 1)
  /\ ppc' = [ppc EXCEPT ![p] = "write"]
  /\ UNCHANGED <<seq, data, deq, ppos, pmsg, consVars, pushes>>

\* Mutant of EnqClaim: the slot is published before it is written.
EnqClaimPublishes(p) ==
  /\ ppc[p] = "claim"
  /\ enq = ppos[p]
  /\ enq' = Plus(enq, 1)
  /\ seq' = [seq EXCEPT ![Index(ppos[p])] = Plus(ppos[p], 1)]
  /\ ppc' = [ppc EXCEPT ![p] = "write"]
  /\ UNCHANGED <<data, deq, ppos, pmsg, consVars, pushes>>

\* The weak compare-and-swap succeeds.
EnqClaim(p) ==
  /\ ppc[p] = "claim"
  /\ enq = ppos[p]
  /\ enq' = Plus(enq, 1)
  /\ ppc' = [ppc EXCEPT ![p] = "write"]
  /\ UNCHANGED <<seq, data, deq, ppos, pmsg, consVars, pushes>>

\* The weak compare-and-swap fails, because enqueue_pos moved or for no
\* reason, and leaves the current value in pos.
EnqClaimFails(p) ==
  /\ ppc[p] = "claim"
  /\ ppos' = [ppos EXCEPT ![p] = enq]
  /\ ppc' = [ppc EXCEPT ![p] = "compare"]
  /\ UNCHANGED <<seq, data, enq, deq, pmsg, consVars, pushes>>

\* Copies message and payload into the claimed slot.
EnqWrite(p) ==
  /\ ppc[p] = "write"
  /\ data' = [data EXCEPT ![Index(ppos[p])] = pmsg[p]]
  /\ ppc' = [ppc EXCEPT ![p] = "publish"]
  /\ UNCHANGED <<seq, enq, deq, ppos, pmsg, consVars, pushes>>

\* Publishes the slot by storing pos + 1 into its sequence number.
EnqPublish(p) ==
  /\ ppc[p] = "publish"
  /\ seq' = [seq EXCEPT ![Index(ppos[p])] = Plus(ppos[p], 1)]
  /\ ppc' = [ppc EXCEPT ![p] = "idle"]
  /\ pmsg' = [pmsg EXCEPT ![p] = None]
  /\ UNCHANGED <<data, enq, deq, ppos, consVars, pushes>>

-----------------------------------------------------------------------------
(* hs_submit_dequeue and hs_submit_note_depth_step, on the step thread.    *)

\* The step notes the depth before it drains the channel.
NoteDepth ==
  /\ cpc = "idle"
  /\ Dist(enq, deq) > hw
  /\ hw' = Dist(enq, deq)
  /\ UNCHANGED <<seq, data, enq, deq, prodVars, cpc, cpos, out, pushes>>

DeqLoad ==
  /\ cpc = "idle"
  /\ cpos' = deq
  /\ cpc' = "compare"
  /\ UNCHANGED <<seq, data, enq, deq, prodVars, hw, out, pushes>>

DeqDif == Dif(seq[Index(cpos)], Plus(cpos, 1))

DeqReady ==
  /\ cpc = "compare"
  /\ DeqDif = 0
  /\ cpc' = "claim"
  /\ UNCHANGED <<seq, data, enq, deq, prodVars, cpos, hw, out, pushes>>

\* return false; /* empty */
DeqEmpty ==
  /\ cpc = "compare"
  /\ DeqDif < 0
  /\ cpc' = "idle"
  /\ UNCHANGED <<seq, data, enq, deq, prodVars, cpos, hw, out, pushes>>

DeqReload ==
  /\ cpc = "compare"
  /\ DeqDif > 0
  /\ cpos' = deq
  /\ UNCHANGED <<seq, data, enq, deq, prodVars, cpc, hw, out, pushes>>

DeqClaim ==
  /\ cpc = "claim"
  /\ deq = cpos
  /\ deq' = Plus(deq, 1)
  /\ cpc' = "copy"
  /\ UNCHANGED <<seq, data, enq, prodVars, cpos, hw, out, pushes>>

DeqClaimFails ==
  /\ cpc = "claim"
  /\ cpos' = deq
  /\ cpc' = "compare"
  /\ UNCHANGED <<seq, data, enq, deq, prodVars, hw, out, pushes>>

DeqCopy ==
  /\ cpc = "copy"
  /\ out' = data[Index(cpos)]
  /\ cpc' = "release"
  /\ UNCHANGED <<seq, data, enq, deq, prodVars, cpos, hw, pushes>>

\* Mutant of DeqRelease: one short of the next lap's position.
DeqReleaseOffByOne ==
  /\ cpc = "release"
  /\ seq' = [seq EXCEPT ![Index(cpos)] = Plus(cpos, Size - 1)]
  /\ cpc' = "idle"
  /\ UNCHANGED <<data, enq, deq, prodVars, cpos, hw, out, pushes>>

\* Hands the slot to the producer of the next lap: seq = pos + HS_SUBMIT_SIZE.
DeqRelease ==
  /\ cpc = "release"
  /\ seq' = [seq EXCEPT ![Index(cpos)] = Plus(cpos, Size)]
  /\ cpc' = "idle"
  /\ UNCHANGED <<data, enq, deq, prodVars, cpos, hw, out, pushes>>

-----------------------------------------------------------------------------
EnqStep(p) ==
  \/ EnqFree(p) \/ EnqFull(p) \/ EnqReload(p)
  \/ EnqClaim(p) \/ EnqWrite(p) \/ EnqPublish(p)

DeqStep ==
  \/ DeqReady \/ DeqEmpty \/ DeqReload
  \/ DeqClaim \/ DeqCopy \/ DeqRelease

Next ==
  \/ \E p \in Producers :
       \/ \E m \in Msg : EnqLoad(p, m)
       \/ EnqStep(p)
       \/ EnqClaimFails(p)
  \/ NoteDepth \/ DeqLoad
  \/ DeqStep
  \/ DeqClaimFails

Spec == Init /\ [][Next]_vars

\* Threads inside the two functions run on; a weak compare-and-swap does not
\* fail for no reason for ever; the step thread comes back to drain.
Fairness ==
  /\ \A p \in Producers :
       WF_vars(EnqStep(p) \/ EnqClaimFails(p)) /\ SF_vars(EnqClaim(p))
  /\ WF_vars(DeqLoad) /\ WF_vars(DeqStep) /\ SF_vars(DeqClaim)

FairSpec == Spec /\ Fairness

-----------------------------------------------------------------------------
(* Properties.                                                             *)

\* A slot belongs to one thread at a time: no two producers write the same
\* slot, and none writes the slot the step thread is copying out of.
SlotOwnedByOne ==
  \A p \in Producers : ppc[p] \in {"write", "publish"} =>
    /\ \A o \in Producers \ {p} :
         ppc[o] \in {"write", "publish"} => Index(ppos[o]) # Index(ppos[p])
    /\ cpc \in {"copy", "release"} => Index(cpos) # Index(ppos[p])

\* The first position whose slot the step thread has not handed back yet.
Released == IF cpc \in {"copy", "release"} THEN cpos ELSE deq

\* The slot's number has gone round the wrap since thread p loaded its position.
GoneRound(p) == EnqDif(p) < -Size

\* hs_submit_enqueue reports full only when every slot really is taken: by a
\* message that waits or by the one being copied out.  The one exception is a
\* thread that loaded its position before the wrap and compares it with a
\* slot released after it.
FullIsHonest ==
  \A p \in Producers :
    ppc[p] = "compare" /\ EnqDif(p) < 0 /\ ~GoneRound(p) => Dist(enq, Released) >= Size

\* The position 2^32 - 1, after which positions start again at 0.
LastPos == PosMod - 1

\* Claimed messages that have not been dequeued, in the order of the claims.
Claimed(pos) == {p \in Producers : ppc[p] \in {"write", "publish"} /\ ppos[p] = pos}
Holds(pos) ==
  IF Claimed(pos) # {} THEN pmsg[CHOOSE p \in Claimed(pos) : TRUE]
  ELSE data[Index(pos)]
Waiting == [k \in 1 .. Dist(enq, deq) |-> Holds(Plus(deq, k - 1))]
Delivered == IF cpc = "copy" THEN data[Index(cpos)] ELSE out

\* The queue is a FIFO channel of Size messages in the order of the claims:
\* nothing enqueued is lost, delivered twice or overwritten.
Chan == INSTANCE FifoChannel WITH queue <- Waiting, out <- Delivered, Capacity <- Size
SubmitIsFifo == Chan!Spec

\* Both functions return: the loops around the compare-and-swaps end.  The one
\* exception: a dequeue that finds the queue empty at the last position does not
\* see it as empty (DeqDif is then positive, not negative) and goes round its
\* loop until somebody enqueues.
RetriesEnd ==
  /\ \A p \in Producers : ppc[p] # "idle" ~> ppc[p] = "idle"
  /\ cpc # "idle" ~> cpc = "idle" \/ (deq = LastPos /\ enq = deq)
=============================================================================
