------------------------------ MODULE MlProofs ------------------------------
(***************************************************************************)
(* Two parts of the ML runtime.                                            *)
(*                                                                         *)
(* The message layer, for any number of producers and channels, every      *)
(* length of the queues and every script: no operation takes effect twice, *)
(* and a fence separates what was dispatched before it from what comes     *)
(* after it; each producer's messages are dispatched in their order, once, *)
(* unless refused.                                                         *)
(*                                                                         *)
(* The tokenizers, for any vocabulary, rules, texts and bounds: a text     *)
(* comes back from its tokens.                                             *)
(***************************************************************************)
EXTENDS MlProps, Tokens, FiniteSetTheorems, SequenceTheorems, WellFoundedInduction, TLAPS

-----------------------------------------------------------------------------
(* Sequences.                                                              *)

LEMMA Appended ==
  ASSUME NEW S, NEW s \in Seq(S), NEW m \in S
  PROVE  /\ Append(s, m) \in Seq(S) /\ Len(Append(s, m)) = Len(s) + 1
         /\ \A i \in 1 .. Len(s) : Append(s, m)[i] = s[i]
         /\ Append(s, m)[Len(s) + 1] = m
         /\ Range(Append(s, m)) = Range(s) \cup {m}
         /\ IsInjective(s) /\ m \notin Range(s) => IsInjective(Append(s, m))
<1> DEFINE q == Append(s, m)
<1>1. /\ q \in Seq(S) /\ Len(q) = Len(s) + 1 /\ Len(s) \in Nat /\ q[Len(s) + 1] = m
      /\ \A i \in 1 .. Len(s) : q[i] = s[i]
      /\ DOMAIN s = 1 .. Len(s) /\ DOMAIN q = 1 .. Len(s) + 1
  OBVIOUS
<1> HIDE DEF q
<1>2. Range(q) = Range(s) \cup {m}
  <2>1. \A x \in Range(q) : x \in Range(s) \cup {m}  BY <1>1 DEF Range
  <2>2. \A x \in Range(s) : x \in Range(q)
    <3>1. ASSUME NEW i \in 1 .. Len(s) PROVE s[i] \in Range(q)
      <4>1. i \in 1 .. Len(s) + 1 /\ q[i] = s[i]  BY <1>1
      <4>2. QED  BY <1>1, <4>1 DEF Range
    <3>2. QED  BY <1>1, <3>1 DEF Range
  <2>3. m \in Range(q)
    <3>1. Len(s) + 1 \in 1 .. Len(s) + 1  BY <1>1
    <3>2. QED  BY <1>1, <3>1 DEF Range
  <2>4. QED  BY <2>1, <2>2, <2>3
<1>3. ASSUME IsInjective(s), m \notin Range(s) PROVE IsInjective(q)
  <2>1. \A i \in 1 .. Len(s) : q[i] = s[i] /\ s[i] # m  BY <1>1, <1>3 DEF Range
  <2>2. \A i \in 1 .. Len(s) + 1 : i \in 1 .. Len(s) \/ i = Len(s) + 1  BY <1>1
  <2>3. \A i, j \in 1 .. Len(s) : s[i] = s[j] => i = j  BY <1>1, <1>3 DEF IsInjective
  <2>4. \A i, j \in 1 .. Len(s) + 1 : q[i] = q[j] => i = j
    BY <1>1, <2>1, <2>2, <2>3
  <2>5. QED  BY <1>1, <2>4 DEF IsInjective
<1>4. QED  BY <1>1, <1>2, <1>3 DEF q

LEMMA Tailed ==
  ASSUME NEW S, NEW s \in Seq(S), s # << >>
  PROVE  /\ Tail(s) \in Seq(S) /\ Head(s) \in S
         /\ Range(s) = Range(Tail(s)) \cup {Head(s)}
         /\ IsInjective(s) => IsInjective(Tail(s)) /\ Head(s) \notin Range(Tail(s))
<1> DEFINE q == Tail(s)
<1>1. /\ q \in Seq(S) /\ Len(q) = Len(s) - 1 /\ Len(s) \in Nat /\ Len(s) > 0
      /\ Head(s) = s[1] /\ Head(s) \in S
      /\ \A i \in 1 .. Len(s) - 1 : q[i] = s[i + 1]
      /\ DOMAIN s = 1 .. Len(s) /\ DOMAIN q = 1 .. Len(s) - 1
  OBVIOUS
<1> HIDE DEF q
<1>2. \A i \in 1 .. Len(s) : i = 1 \/ (i - 1 \in 1 .. Len(s) - 1 /\ q[i - 1] = s[i])
  <2>1. ASSUME NEW i \in 1 .. Len(s), i # 1 PROVE i - 1 \in 1 .. Len(s) - 1 /\ q[i - 1] = s[i]
    <3>1. i - 1 \in 1 .. Len(s) - 1 /\ (i - 1) + 1 = i  BY <1>1, <2>1
    <3>2. q[i - 1] = s[(i - 1) + 1]  BY <1>1, <3>1
    <3>3. QED  BY <3>1, <3>2
  <2>2. QED  BY <2>1
<1>3. \A i \in 1 .. Len(s) - 1 : i + 1 \in 1 .. Len(s) /\ i + 1 # 1  BY <1>1
<1>4. Range(s) = Range(q) \cup {Head(s)}
  <2>1. \A x \in Range(s) : x \in Range(q) \cup {Head(s)}  BY <1>1, <1>2 DEF Range
  <2>2. \A x \in Range(q) : x \in Range(s)  BY <1>1, <1>3 DEF Range
  <2>3. 1 \in 1 .. Len(s)  BY <1>1
  <2>4. Head(s) \in Range(s)  BY <1>1, <2>3 DEF Range
  <2>5. QED  BY <2>1, <2>2, <2>4
<1>5. ASSUME IsInjective(s) PROVE IsInjective(q) /\ Head(s) \notin Range(q)
  <2>1. \A i, j \in 1 .. Len(s) : s[i] = s[j] => i = j  BY <1>1, <1>5 DEF IsInjective
  <2>2. \A i, j \in 1 .. Len(s) - 1 : q[i] = q[j] => i + 1 = j + 1  BY <1>1, <1>3, <2>1
  <2>3. \A i, j \in 1 .. Len(s) - 1 : i + 1 = j + 1 => i = j  BY <1>1
  <2>4. 1 \in 1 .. Len(s)  BY <1>1
  <2>5. \A i \in 1 .. Len(s) - 1 : q[i] # s[1]  BY <1>1, <1>3, <2>1, <2>4
  <2>6. QED  BY <1>1, <2>2, <2>3, <2>5 DEF IsInjective, Range
<1>6. QED  BY <1>1, <1>4, <1>5 DEF q

LEMMA Nth ==
  ASSUME NEW S, NEW s \in Seq(S), NEW i \in 1 .. Len(s)
  PROVE  s[i] \in S
OBVIOUS

-----------------------------------------------------------------------------
(* The invariant.                                                          *)

Message == [op : Ops, ch : Channel, from : Threads, n : Nat \ {0}]
Submitting == {"push", "drop", "dropped", "count", "lock", "check", "wait", "unlock", "uncount", "again"}
StepPhase == {"idle", "drain", "dispatch", "wake", "broadcast"}

\* The threads the system counts.
Registered == {t \in Threads : prod[t].at \notin {"new", "rejected"}}

ProdType == [at : Submitting \cup {"new", "toomany", "rejected", "idle"}, id : Int, n : Nat,
             msg : Message \cup {NoMsg}, seen : Nat]
ExecType == [at : StepPhase \cup {"replay", "replayed", "free", "freed"}, ch : Channel, p : Nat,
             used : Nat, cnt : Int, msg : Message \cup {NoMsg}]

MlTypes ==
  /\ queues \in [Channel -> [Producer -> Seq(Message)]] /\ dropped \in [Channel -> Nat]
  /\ prod \in [Threads -> ProdType] /\ exec \in ExecType /\ exec.cnt <= MaxProducers
  /\ {inbox, order, effects, capture} \subseteq Seq(Message) /\ capturing \in BOOLEAN
  /\ count = Cardinality(Registered)

\* What a thread has in hand is its latest message; a thread that may submit has a
\* queue of its own.
Hands ==
  \A t \in Threads :
    /\ prod[t].at \in Submitting => prod[t].msg \in Message /\ prod[t].msg.from = t /\ prod[t].msg.n = prod[t].n
    /\ prod[t].at \in {"new", "toomany", "rejected"} => prod[t].n = 0
    /\ prod[t].at \in Submitting \cup {"idle"} => prod[t].id \in Producer

\* A message that its thread has let go of.
LetGo(m) == m.n <= prod[m.from].n /\ (prod[m.from].at \in Submitting => m.n < prod[m.from].n)

\* While the executor steps a message is in one place, and there once: in the queue
\* of its channel and its thread, about to be dispatched, or dispatched.
Places ==
  exec.at \in StepPhase =>
    /\ \A c \in Channel, p \in Producer :
         /\ IsInjective(queues[c][p])
         /\ \A m \in Range(queues[c][p]) :
              m.ch = c /\ prod[m.from].id = p /\ LetGo(m) /\ m \notin Range(order)
    /\ \A m \in Range(order) : LetGo(m)
    /\ exec.at = "dispatch" =>
         /\ exec.msg \in Message /\ LetGo(exec.msg) /\ exec.msg \notin Range(order)
         /\ \A c \in Channel, p \in Producer : exec.msg \notin Range(queues[c][p])

\* What is captured was dispatched; a replay dispatches it in the same order.
Captured ==
  /\ IsInjective(capture)
  /\ exec.at \in StepPhase => Range(capture) \subseteq Range(order)
  /\ exec.at = "replay" =>
       /\ ~ capturing /\ Len(order) = exec.used /\ exec.used <= Len(capture)
       /\ \A i \in 1 .. Len(order) : order[i] = capture[i]

\* What was dispatched took effect, or is with the GPU node; nothing that was
\* dispatched before a fence is with the GPU node.
Effects ==
  /\ IsInjective(order) /\ IsInjective(effects) /\ IsInjective(inbox)
  /\ Range(order) = Range(effects) \cup Range(inbox) /\ Range(effects) \cap Range(inbox) = {}
  /\ \A m \in Range(inbox) : ToGpu(m)
  /\ \A i, j \in DOMAIN order : i < j /\ order[j].op = "fence" => order[i] \in Range(effects)
  /\ \A i, j \in DOMAIN order, b \in DOMAIN effects :
       i < j /\ "fence" \in {order[i].op, order[j].op} /\ effects[b] = order[j] =>
         \E a \in DOMAIN effects : a < b /\ effects[a] = order[i]

MInv == MlTypes /\ Hands /\ Places /\ Captured /\ Effects

LEMMA FencesOrder == MlTypes /\ Effects => FenceOrders
<1> SUFFICES ASSUME MlTypes, Effects PROVE FenceOrders
  OBVIOUS
<1>1. \A b \in DOMAIN effects : Position(effects[b]) = b  BY DEF Position, Effects, IsInjective
<1>2. ASSUME NEW i \in DOMAIN order, NEW j \in DOMAIN order,
             i < j, "fence" \in {order[i].op, order[j].op}, order[j] \in Range(effects)
      PROVE  order[i] \in Range(effects) /\ Position(order[i]) < Position(order[j])
  <2>1. PICK b \in DOMAIN effects : effects[b] = order[j]  BY <1>2 DEF Range
  <2>2. PICK a \in DOMAIN effects : a < b /\ effects[a] = order[i]  BY <1>2, <2>1 DEF Effects
  <2>3. QED  BY <1>1, <2>1, <2>2 DEF Range
<1>3. QED  BY <1>2 DEF FenceOrders, Effects

-----------------------------------------------------------------------------
LEMMA MInit == Init => MInv
<1> SUFFICES ASSUME Init PROVE MInv
  OBVIOUS
<1> USE MlAssumption
<1>1. /\ queues = [c \in Channel |-> [p \in Producer |-> << >>]] /\ dropped = [c \in Channel |-> 0]
      /\ prod = [t \in Threads |-> [at |-> "new", id |-> 0, n |-> 0, msg |-> NoMsg, seen |-> 0]]
      /\ exec = Idle /\ inbox = << >> /\ order = << >> /\ effects = << >> /\ capture = << >>
      /\ capturing = FALSE /\ count = 0
  BY DEF Init
<1>2. Registered = {}  BY <1>1 DEF Registered
<1>3. Cardinality({}) = 0  BY FS_EmptySet
<1>4. 1 \in Channel  BY DEF Channel
<1>5. MlTypes
  <2>1. << >> \in Seq(Message)  OBVIOUS
  <2>2. exec \in ExecType  BY <1>1, <1>4 DEF Idle, StepPhase, ExecType
  <2>3. exec.cnt <= MaxProducers  BY <1>1 DEF Idle
  <2>4. prod \in [Threads -> ProdType]  BY <1>1 DEF ProdType
  <2>5. QED  BY <1>1, <1>2, <1>3, <2>1, <2>2, <2>3, <2>4 DEF MlTypes
<1>6. Hands  BY <1>1 DEF Hands, Submitting
<1>7. Range(<< >>) = {} /\ IsInjective(<< >>)  BY DEF Range, IsInjective
<1>8. Places  BY <1>1, <1>7 DEF Places, Idle
<1>9. Captured  BY <1>1, <1>7 DEF Captured, Idle
<1>10. Effects  BY <1>1, <1>7 DEF Effects
<1>11. QED  BY <1>5, <1>6, <1>8, <1>9, <1>10 DEF MInv

-----------------------------------------------------------------------------
(* Steps that move no message.                                             *)

\* No thread begins a message or has a new one in hand, and the executor neither
\* takes a message nor begins to replay.
QuietThreads ==
  \A u \in Threads :
    /\ prod'[u].n = prod[u].n /\ prod'[u].msg = prod[u].msg
    /\ prod'[u].id = prod[u].id \/ prod[u].at = "new"
    /\ prod'[u].at \in Submitting => prod[u].at \in Submitting
    /\ prod'[u].at = "idle" => prod'[u].id \in Producer
    /\ prod'[u].at \in {"new", "toomany", "rejected"} => prod[u].at \in {"new", "toomany"} \/ prod'[u].at = prod[u].at

QuietExec ==
  /\ exec'.at \in StepPhase => exec.at \in StepPhase
  /\ exec'.at = "dispatch" => exec.at = "dispatch" /\ exec'.msg = exec.msg
  /\ exec'.at = "replay" => exec.at = "replay" /\ exec'.used = exec.used /\ capturing' = capturing

LEMMA Quiet ==
  ASSUME MInv, UNCHANGED <<queues, order, effects, inbox, capture>>, QuietThreads, QuietExec
  PROVE  Hands' /\ Places' /\ Captured' /\ Effects'
<1> USE DEF MInv
<1> USE DEF QuietThreads, QuietExec
<1>1. Hands'  BY DEF Hands, Submitting
<1>2. \A m \in Message : LetGo(m) => LetGo(m)' /\ prod'[m.from].id = prod[m.from].id
  BY DEF LetGo, Message, Hands
<1>3. Places'
  <2> SUFFICES ASSUME exec'.at \in StepPhase PROVE Places'
    BY DEF Places
  <2>1. ASSUME NEW c \in Channel, NEW q \in Producer
        PROVE  /\ IsInjective(queues'[c][q])
               /\ \A m \in Range(queues'[c][q]) :
                    m.ch = c /\ prod'[m.from].id = q /\ LetGo(m)' /\ m \notin Range(order')
    <3>1. \A m \in Range(queues[c][q]) : m \in Message  BY DEF MlTypes, Range
    <3>2. \A m \in Message : m.from \in Threads  BY DEF Message
    <3>3. QED  BY <1>2, <3>1, <3>2 DEF Places
  <2>2. \A m \in Range(order') : LetGo(m)'
    <3>1. \A m \in Range(order) : m \in Message  BY DEF MlTypes, Range
    <3>2. QED  BY <1>2, <3>1 DEF Places
  <2>3. ASSUME exec'.at = "dispatch"
        PROVE  /\ exec'.msg \in Message /\ LetGo(exec.msg)' /\ exec'.msg \notin Range(order')
               /\ \A c \in Channel, q \in Producer : exec'.msg \notin Range(queues'[c][q])
    BY <1>2, <2>3 DEF Places
  <2>4. QED
    BY <2>1, <2>2, <2>3 DEF Places
<1>4. Captured'  BY DEF Captured
<1>5. Effects'  BY DEF Effects, ToGpu
<1>6. QED  BY <1>1, <1>3, <1>4, <1>5

-----------------------------------------------------------------------------
(* Dispatching, and the GPU node.                                          *)

LEMMA Dispatched ==
  ASSUME MlTypes, Effects, NEW m \in Message, m \notin Range(order), Dispatch(m)
  PROVE  /\ Effects' /\ order' = Append(order, m)
         /\ {inbox', order', effects'} \subseteq Seq(Message)
<1> DEFINE L == Len(order)
           E == Len(effects)
<1>1. /\ order \in Seq(Message) /\ effects \in Seq(Message) /\ inbox \in Seq(Message)
      /\ L \in Nat /\ E \in Nat /\ DOMAIN order = 1 .. L /\ DOMAIN effects = 1 .. E
  BY DEF MlTypes
<1>2. /\ order' = Append(order, m) /\ order' \in Seq(Message) /\ DOMAIN order' = 1 .. L + 1
      /\ \A i \in 1 .. L : order'[i] = order[i]
      /\ order'[L + 1] = m /\ Range(order') = Range(order) \cup {m} /\ IsInjective(order')
  BY <1>1, Appended DEF Dispatch, Effects
<1>3. \A i, j \in 1 .. L + 1 : i < j => i \in 1 .. L /\ (j \in 1 .. L \/ j = L + 1)
  BY <1>1
<1>4. \A i \in 1 .. L : order[i] \in Range(order) /\ order[i] # m
  BY <1>1 DEF Range
<1>5. CASE ToGpu(m)
  <2>1. m.op = "small" /\ effects' = effects /\ inbox' = Append(inbox, m)
    BY <1>5 DEF ToGpu, Dispatch
  <2>2. m \notin Range(inbox) /\ m \notin Range(effects)  BY DEF Effects
  <2>3. inbox' \in Seq(Message) /\ Range(inbox') = Range(inbox) \cup {m} /\ IsInjective(inbox')
    BY <1>1, <2>1, <2>2, Appended DEF Effects
  <2>4. \A n \in Range(inbox') : ToGpu(n)'  BY <1>5, <2>3 DEF Effects, ToGpu
  <2>5. \A i, j \in DOMAIN order' : i < j /\ order'[j].op = "fence" => order'[i] \in Range(effects')
    <3>1. ASSUME NEW i \in 1 .. L + 1, NEW j \in 1 .. L + 1, i < j, order'[j].op = "fence"
          PROVE  order'[i] \in Range(effects')
      <4>1. i \in 1 .. L /\ j \in 1 .. L  BY <1>2, <1>3, <2>1, <3>1
      <4>2. QED  BY <1>1, <1>2, <2>1, <3>1, <4>1 DEF Effects
    <3>2. QED  BY <1>2, <3>1
  <2>6. \A i, j \in DOMAIN order', b \in DOMAIN effects' :
          i < j /\ "fence" \in {order'[i].op, order'[j].op} /\ effects'[b] = order'[j] =>
            \E a \in DOMAIN effects' : a < b /\ effects'[a] = order'[i]
    <3>1. ASSUME NEW i \in DOMAIN order', NEW j \in DOMAIN order', NEW b \in DOMAIN effects', i < j,
                 "fence" \in {order'[i].op, order'[j].op}, effects'[b] = order'[j]
          PROVE  \E a \in DOMAIN effects' : a < b /\ effects'[a] = order'[i]
      <4>1. i \in 1 .. L /\ j \in 1 .. L
        <5>1. effects[b] \in Range(effects)  BY <1>1, <2>1 DEF Range
        <5>2. QED  BY <1>2, <1>3, <2>1, <2>2, <3>1, <5>1
      <4>2. order'[i] = order[i] /\ order'[j] = order[j]  BY <1>2, <4>1
      <4>3. QED  BY <1>1, <2>1, <3>1, <4>1, <4>2 DEF Effects
    <3>2. QED  BY <3>1
  <2>7. QED  BY <1>1, <1>2, <2>1, <2>2, <2>3, <2>4, <2>5, <2>6 DEF Effects
<1>6. CASE ~ ToGpu(m)
  <2>1. effects' = Append(effects, m) /\ inbox' = inbox
    BY <1>6 DEF Dispatch
  <2>2. m \notin Range(inbox) /\ m \notin Range(effects)  BY DEF Effects
  <2>3. /\ effects' \in Seq(Message) /\ DOMAIN effects' = 1 .. E + 1
        /\ \A a \in 1 .. E : effects'[a] = effects[a]
        /\ effects'[E + 1] = m /\ Range(effects') = Range(effects) \cup {m} /\ IsInjective(effects')
    BY <1>1, <2>1, <2>2, Appended DEF Effects
  <2>4. \A n \in Range(inbox') : ToGpu(n)'  BY <2>1 DEF Effects, ToGpu
  <2>5. \A n \in Range(inbox) : n.op = "small" /\ GpuActive  BY DEF Effects, ToGpu
  <2>6. m.op = "fence" => Range(order) \subseteq Range(effects)
    <3>1. m.op = "fence" => Range(inbox) = {}
      <4>1. inbox = << >> => Range(inbox) = {}  BY DEF Range
      <4>2. QED  BY <2>5, <4>1 DEF Dispatch
    <3>2. QED  BY <3>1 DEF Effects
  <2>7. \A n \in Range(order) : n.op = "fence" => n \in Range(effects)  BY <2>5 DEF Effects
  <2>8. \A i, j \in DOMAIN order' : i < j /\ order'[j].op = "fence" => order'[i] \in Range(effects')
    <3>1. ASSUME NEW i \in 1 .. L + 1, NEW j \in 1 .. L + 1, i < j, order'[j].op = "fence"
          PROVE  order'[i] \in Range(effects')
      <4>1. i \in 1 .. L /\ order'[i] = order[i] /\ order[i] \in Range(order)  BY <1>2, <1>3, <1>4, <3>1
      <4>2. CASE j \in 1 .. L  BY <1>1, <1>2, <2>3, <3>1, <4>1, <4>2 DEF Effects
      <4>3. CASE j = L + 1  BY <1>2, <2>3, <2>6, <3>1, <4>1, <4>3
      <4>4. QED  BY <1>3, <3>1, <4>2, <4>3
    <3>2. QED  BY <1>2, <3>1
  <2>9. \A i, j \in DOMAIN order', b \in DOMAIN effects' :
          i < j /\ "fence" \in {order'[i].op, order'[j].op} /\ effects'[b] = order'[j] =>
            \E a \in DOMAIN effects' : a < b /\ effects'[a] = order'[i]
    <3>1. ASSUME NEW i \in DOMAIN order', NEW j \in DOMAIN order', NEW b \in DOMAIN effects', i < j,
                 "fence" \in {order'[i].op, order'[j].op}, effects'[b] = order'[j]
          PROVE  \E a \in DOMAIN effects' : a < b /\ effects'[a] = order'[i]
      <4>1. i \in 1 .. L /\ order'[i] = order[i] /\ order[i] \in Range(order)  BY <1>2, <1>3, <1>4, <3>1
      <4>2. \A a \in 1 .. E : a \in DOMAIN effects' /\ effects'[a] = effects[a]
        BY <1>1, <2>3
      <4>3. b \in 1 .. E \/ b = E + 1  BY <1>1, <2>3
      <4>4. CASE j \in 1 .. L
        <5>1. order'[j] = order[j] /\ order[j] # m  BY <1>2, <1>4, <4>4
        <5>2. b \in 1 .. E /\ effects[b] = order[j]  BY <2>3, <3>1, <4>2, <4>3, <5>1
        <5>3. \E a \in 1 .. E : a < b /\ effects[a] = order[i]
          BY <1>1, <3>1, <4>1, <4>4, <5>1, <5>2 DEF Effects
        <5>4. QED  BY <4>1, <4>2, <5>3
      <4>5. CASE j = L + 1
        <5>1. effects'[b] = m  BY <1>2, <3>1, <4>5
        <5>2. b = E + 1
          <6>1. \A a \in 1 .. E : effects[a] \in Range(effects)  BY <1>1 DEF Range
          <6>2. QED  BY <2>2, <4>2, <4>3, <5>1, <6>1
        <5>3. order[i] \in Range(effects)  BY <1>2, <2>6, <2>7, <3>1, <4>1, <4>5
        <5>4. PICK a \in 1 .. E : effects[a] = order[i]  BY <1>1, <5>3 DEF Range
        <5>5. a < b  BY <1>1, <5>2, <5>4
        <5>6. QED  BY <4>1, <4>2, <5>4, <5>5
      <4>6. QED  BY <1>2, <1>3, <3>1, <4>4, <4>5
    <3>2. QED  BY <3>1
  <2>10. /\ Range(order') = Range(effects') \cup Range(inbox')
         /\ Range(effects') \cap Range(inbox') = {} /\ IsInjective(inbox')
    BY <1>2, <2>1, <2>2, <2>3 DEF Effects
  <2>11. QED  BY <1>1, <1>2, <2>1, <2>3, <2>4, <2>8, <2>9, <2>10 DEF Effects
<1>7. QED  BY <1>5, <1>6

LEMMA GpuRan ==
  ASSUME MlTypes, Effects, GpuRuns
  PROVE  Effects' /\ {inbox', order', effects'} \subseteq Seq(Message)
<1> DEFINE m == Head(inbox)
           E == Len(effects)
<1>1. /\ order \in Seq(Message) /\ effects \in Seq(Message) /\ inbox \in Seq(Message) /\ inbox # << >>
      /\ E \in Nat /\ DOMAIN effects = 1 .. E
      /\ effects' = Append(effects, m) /\ inbox' = Tail(inbox) /\ order' = order
  BY DEF MlTypes, GpuRuns, captVars
<1>2. /\ inbox' \in Seq(Message) /\ m \in Message /\ Range(inbox) = Range(inbox') \cup {m}
      /\ IsInjective(inbox') /\ m \notin Range(inbox')
  BY <1>1, Tailed DEF Effects
<1>3. m \notin Range(effects) /\ m.op = "small"  BY <1>2 DEF Effects, ToGpu
<1>4. /\ effects' \in Seq(Message) /\ DOMAIN effects' = 1 .. E + 1
      /\ \A a \in 1 .. E : a \in 1 .. E + 1 /\ effects'[a] = effects[a]
      /\ effects'[E + 1] = m /\ Range(effects') = Range(effects) \cup {m} /\ IsInjective(effects')
  <2>1. \A a \in 1 .. E : a \in 1 .. E + 1  BY <1>1
  <2>2. QED  BY <1>1, <1>2, <1>3, <2>1, Appended DEF Effects
<1>5. \A n \in Range(order) : n.op = "fence" => n \in Range(effects)  BY DEF Effects, ToGpu
<1>6. ASSUME NEW i \in DOMAIN order', NEW j \in DOMAIN order', NEW b \in DOMAIN effects', i < j,
             "fence" \in {order'[i].op, order'[j].op}, effects'[b] = order'[j]
      PROVE  \E a \in DOMAIN effects' : a < b /\ effects'[a] = order'[i]
  <2>1. CASE b \in 1 .. E
    <3>1. effects[b] = order[j]  BY <1>1, <1>4, <1>6, <2>1
    <3>2. \E a \in 1 .. E : a < b /\ effects[a] = order[i]  BY <1>1, <1>6, <2>1, <3>1 DEF Effects
    <3>3. QED  BY <1>1, <1>4, <3>2
  <2>2. CASE b = E + 1
    <3>1. order[i].op = "fence"  BY <1>1, <1>3, <1>4, <1>6, <2>2
    <3>2. order[i] \in Range(effects)  BY <1>1, <1>5, <1>6, <3>1 DEF Range
    <3>3. PICK a \in 1 .. E : effects[a] = order[i]  BY <1>1, <3>2 DEF Range
    <3>4. a < b  BY <1>1, <2>2, <3>3
    <3>5. QED  BY <1>1, <1>4, <3>3, <3>4
  <2>3. b \in 1 .. E \/ b = E + 1  BY <1>1, <1>4, <1>6
  <2>4. QED  BY <2>1, <2>2, <2>3
<1>7. \A n \in Range(inbox') : ToGpu(n)'  BY <1>2 DEF Effects, ToGpu
<1>8. /\ Range(order') = Range(effects') \cup Range(inbox')
      /\ Range(effects') \cap Range(inbox') = {}
  BY <1>1, <1>2, <1>3, <1>4 DEF Effects
<1>9. \A i, j \in DOMAIN order' : i < j /\ order'[j].op = "fence" => order'[i] \in Range(effects')
  BY <1>1, <1>4 DEF Effects
<1>10. IsInjective(order') /\ {inbox', order', effects'} \subseteq Seq(Message)
  BY <1>1, <1>2, <1>4 DEF Effects
<1>11. Effects'  BY <1>2, <1>4, <1>6, <1>7, <1>8, <1>9, <1>10 DEF Effects
<1>12. QED  BY <1>10, <1>11

-----------------------------------------------------------------------------
(* The steps of the threads.                                               *)

LEMMA Counted ==
  ASSUME MlTypes, count' = count,
         \A u \in Threads : prod'[u].at \in {"new", "rejected"} <=> prod[u].at \in {"new", "rejected"}
  PROVE  count' = Cardinality(Registered')
<1>1. Registered' = Registered  BY DEF Registered
<1>2. QED  BY <1>1 DEF MlTypes

\* A thread that submits goes on to where.
LEMMA Goes ==
  ASSUME MInv, NEW t \in Threads, NEW where \in Submitting \cup {"idle"}, NEW s \in Nat,
         prod[t].at \in Submitting,
         prod' = [prod EXCEPT ![t] = [@ EXCEPT !.at = where, !.seen = s]],
         dropped' \in [Channel -> Nat],
         UNCHANGED <<count, exec, queues, order, effects, inbox, capturing, capture>>
  PROVE  MInv'
<1> USE DEF MInv
<1>1. prod' \in [Threads -> ProdType]
  <2>1. [prod[t] EXCEPT !.at = where, !.seen = s] \in ProdType  BY DEF MlTypes, ProdType
  <2>2. QED  BY <2>1 DEF MlTypes
<1>2. /\ \A u \in Threads : u # t => prod'[u] = prod[u]
      /\ prod'[t].at = where /\ prod'[t].n = prod[t].n /\ prod'[t].msg = prod[t].msg /\ prod'[t].id = prod[t].id
  BY DEF MlTypes, ProdType
<1>3. count' = Cardinality(Registered')
  <2>1. \A u \in Threads : prod'[u].at \in {"new", "rejected"} <=> prod[u].at \in {"new", "rejected"}
    BY <1>2 DEF Submitting
  <2>2. QED  BY <2>1, Counted
<1>4. MlTypes'  BY <1>1, <1>3 DEF MlTypes, StepPhase
<1>5. QuietThreads  BY <1>2 DEF QuietThreads, Hands, Submitting
<1>6. QuietExec  BY DEF QuietExec
<1>7. QED  BY <1>4, <1>5, <1>6, Quiet

LEMMA Submits ==
  ASSUME MInv, NEW t \in Threads,
         PushFull(t) \/ DropLoads(t) \/ DropStores(t) \/ Waiting(t) \/ SubmitFails(t) \/ WaitLocks(t) \/ WaitWakes(t)
  PROVE  MInv'
<1> USE DEF prodFrame, sysVars, captVars, histVars, ProdGoes
<1>0. /\ prod[t] \in ProdType /\ prod \in [Threads -> ProdType]
      /\ prod[t].at \in Submitting => prod[t].msg.ch \in Channel
  BY DEF MInv, MlTypes, Hands, Message
<1>1. \A w : prod' = [prod EXCEPT ![t].at = w] =>
               prod' = [prod EXCEPT ![t] = [@ EXCEPT !.at = w, !.seen = prod[t].seen]]
  BY <1>0 DEF ProdType
<1>2. prod[t].seen \in Nat /\ dropped \in [Channel -> Nat]  BY <1>0 DEF ProdType, MInv, MlTypes
<1>3. ASSUME NEW w \in Submitting \cup {"idle"},
             prod[t].at \in Submitting, prod' = [prod EXCEPT ![t].at = w], dropped' = dropped,
             UNCHANGED <<count, exec, queues, order, effects, inbox, capturing, capture>>
      PROVE  MInv'
  <2>1. prod' = [prod EXCEPT ![t] = [@ EXCEPT !.at = w, !.seen = prod[t].seen]]
    BY <1>1, <1>3
  <2>2. dropped' \in [Channel -> Nat]  BY <1>2, <1>3
  <2>3. QED  BY <1>2, <1>3, <2>1, <2>2, Goes
<1>4. CASE PushFull(t)
  BY <1>3, <1>4 DEF PushFull, Submitting
<1>5. CASE DropLoads(t)
  <2>1. prod[t].at \in Submitting /\ "dropped" \in Submitting /\ dropped[prod[t].msg.ch] \in Nat
    BY <1>0, <1>2, <1>5 DEF DropLoads, Submitting
  <2>2. prod' = [prod EXCEPT ![t] = [@ EXCEPT !.at = "dropped", !.seen = dropped[prod[t].msg.ch]]]
    BY <1>5 DEF DropLoads
  <2>3. QED  BY <1>2, <1>5, <2>1, <2>2, Goes DEF DropLoads
<1>6. CASE DropStores(t)
  <2>1. prod[t].at \in Submitting /\ prod[t].msg.ch \in Channel
    BY <1>0, <1>6 DEF DropStores, Submitting
  <2>2. dropped' \in [Channel -> Nat]  BY <1>2, <1>6, <2>1 DEF DropStores
  <2>3. prod' = [prod EXCEPT ![t] = [@ EXCEPT !.at = "idle", !.seen = 0]]
    BY <1>6 DEF DropStores
  <2>4. QED  BY <1>6, <2>1, <2>2, <2>3, Goes DEF DropStores
<1>7. CASE Waiting(t)
  BY <1>3, <1>7 DEF Waiting, WaitCounts, WaitChecks, WaitUnlocks, WaitUncounts, Submitting
<1>8. CASE SubmitFails(t)  BY <1>3, <1>8 DEF SubmitFails, Submitting
<1>9. CASE WaitLocks(t)  BY <1>3, <1>9 DEF WaitLocks, Submitting
<1>10. CASE WaitWakes(t)  BY <1>3, <1>10 DEF WaitWakes, Submitting
<1>11. QED  BY <1>4, <1>5, <1>6, <1>7, <1>8, <1>9, <1>10

\* A thread gets a number that no thread before it has, or gives it back.
LEMMA Registers ==
  ASSUME MInv, NEW t \in Threads, Register(t) \/ RegisterFails(t)
  PROVE  MInv'
<1> USE MlAssumption DEF prodFrame, captVars, histVars, ProdGoes
<1>0. /\ prod[t] \in ProdType /\ prod \in [Threads -> ProdType] /\ count = Cardinality(Registered)
      /\ Registered \subseteq Threads
  BY DEF MInv, MlTypes, Registered
<1>1. IsFiniteSet(Registered) /\ count \in Nat
  <2>1. IsFiniteSet(Threads)  BY FS_Interval DEF Threads
  <2>2. IsFiniteSet(Registered)  BY <1>0, <2>1, FS_Subset
  <2>3. QED  BY <1>0, <2>2, FS_CardinalityType
<1>2. CASE Register(t)
  <2>1. /\ prod[t].at = "new" /\ count' = count + 1
        /\ prod'[t].at = (IF count < MaxProducers THEN "idle" ELSE "toomany")
        /\ prod'[t].id = count /\ prod'[t].n = prod[t].n /\ prod'[t].msg = prod[t].msg
        /\ \A u \in Threads : u # t => prod'[u] = prod[u]
        /\ prod' \in [Threads -> ProdType]
    BY <1>0, <1>1, <1>2 DEF Register, ProdType
  <2>2. count' = Cardinality(Registered')
    <3>1. t \notin Registered /\ Registered' = Registered \cup {t}  BY <2>1 DEF Registered
    <3>2. Cardinality(Registered \cup {t}) = Cardinality(Registered) + 1  BY <1>1, <3>1, FS_AddElement
    <3>3. QED  BY <1>0, <2>1, <3>1, <3>2
  <2>3. MlTypes'  BY <1>2, <2>1, <2>2 DEF MInv, MlTypes, Register
  <2>4. QuietThreads
    <3>1. prod'[t].at = "idle" => prod'[t].id \in Producer  BY <1>1, <2>1 DEF Producer
    <3>2. QED  BY <2>1, <3>1 DEF QuietThreads, MInv, Hands, Submitting
  <2>5. QuietExec  BY <1>2 DEF Register, QuietExec
  <2>6. QED  BY <1>2, <2>3, <2>4, <2>5, Quiet DEF MInv, Register
<1>3. CASE RegisterFails(t)
  <2>1. /\ prod[t].at = "toomany" /\ count' = count - 1
        /\ prod'[t].at = "rejected" /\ prod'[t].id = prod[t].id
        /\ prod'[t].n = prod[t].n /\ prod'[t].msg = prod[t].msg
        /\ \A u \in Threads : u # t => prod'[u] = prod[u]
        /\ prod' \in [Threads -> ProdType]
    BY <1>0, <1>3 DEF RegisterFails, ProdType
  <2>2. count' = Cardinality(Registered')
    <3>1. t \in Registered /\ Registered' = Registered \ {t}  BY <2>1 DEF Registered
    <3>2. Cardinality(Registered \ {t}) = Cardinality(Registered) - 1  BY <1>1, <3>1, FS_RemoveElement
    <3>3. QED  BY <1>0, <2>1, <3>1, <3>2
  <2>3. MlTypes'  BY <1>3, <2>1, <2>2 DEF MInv, MlTypes, RegisterFails
  <2>4. QuietThreads  BY <2>1, ZenonT(30) DEF QuietThreads, MInv, Hands, Submitting
  <2>5. QuietExec  BY <1>3 DEF RegisterFails, QuietExec
  <2>6. QED  BY <1>3, <2>3, <2>4, <2>5, Quiet DEF MInv, RegisterFails
<1>4. QED  BY <1>2, <1>3

LEMMA CallBegins ==
  ASSUME MInv, NEW t \in Threads, SubmitCall(t)
  PROVE  MInv'
<1> USE MlAssumption DEF MInv, prodFrame, sysVars, captVars, histVars
<1>1. /\ prod[t] \in ProdType /\ prod \in [Threads -> ProdType] /\ prod[t].n \in Nat
      /\ prod[t].at = "idle" /\ prod[t].id \in Producer
  BY DEF MlTypes, ProdType, SubmitCall, Hands
<1>2. PICK n \in Nat \ {0}, m \in Message :
        /\ n = prod[t].n + 1 /\ m.from = t /\ m.n = n
        /\ prod' = [prod EXCEPT ![t].at = "push", ![t].n = n, ![t].msg = m]
  <2> DEFINE n == prod[t].n + 1
             m == [op |-> Script[t][n].op, ch |-> Script[t][n].ch, from |-> t, n |-> n]
  <2>1. Script[t] \in Seq([op : Ops, ch : Channel])  BY DEF Threads, Ops, Channel
  <2>2. n \in 1 .. Len(Script[t])  BY <1>1, <2>1 DEF SubmitCall
  <2>3. Script[t][n] \in [op : Ops, ch : Channel]  BY <2>1, <2>2, Nth
  <2>4. n \in Nat \ {0}  BY <1>1
  <2>5. prod' = [prod EXCEPT ![t].at = "push", ![t].n = n, ![t].msg = m]  BY DEF SubmitCall
  <2> HIDE DEF n
  <2>6. m \in Message /\ m.from = t /\ m.n = n  BY <2>3, <2>4 DEF Message
  <2> HIDE DEF m
  <2>7. n = prod[t].n + 1  BY DEF n
  <2>8. QED  BY <2>4, <2>5, <2>6, <2>7
<1>3. /\ prod'[t].at = "push" /\ prod'[t].n = n /\ prod'[t].msg = m /\ prod'[t].id = prod[t].id
      /\ \A u \in Threads : u # t => prod'[u] = prod[u]
      /\ prod' \in [Threads -> ProdType]
  <2>1. prod' = [prod EXCEPT ![t] = [@ EXCEPT !.at = "push", !.n = n, !.msg = m]]
    BY <1>1, <1>2 DEF ProdType
  <2>2. [prod[t] EXCEPT !.at = "push", !.n = n, !.msg = m] \in ProdType
    BY <1>1, <1>2 DEF ProdType, Submitting
  <2>3. QED  BY <1>1, <2>1, <2>2 DEF ProdType
<1>4. MlTypes'
  <2>1. \A u \in Threads : prod'[u].at \in {"new", "rejected"} <=> prod[u].at \in {"new", "rejected"}
    BY <1>1, <1>3
  <2>2. count' = Cardinality(Registered')  BY <2>1, Counted DEF SubmitCall
  <2>3. QED  BY <1>3, <2>2 DEF MlTypes, SubmitCall
<1>5. Hands'  BY <1>1, <1>2, <1>3 DEF Hands, Submitting
<1>6. \A k \in Message : LetGo(k) => LetGo(k)' /\ prod'[k.from].id = prod[k.from].id
  <2>1. \A k \in Message : k.from \in Threads  BY DEF Message
  <2>2. \A k \in Message : k.from # t => LetGo(k)' = LetGo(k)  BY <1>3, <2>1 DEF LetGo
  <2>3. \A k \in Message : k.from = t /\ LetGo(k) => LetGo(k)'
    BY <1>1, <1>2, <1>3 DEF LetGo, Message, Submitting
  <2>4. QED  BY <1>3, <2>1, <2>2, <2>3
<1>7. Places'
  <2> SUFFICES ASSUME exec'.at \in StepPhase PROVE Places'
    BY DEF Places
  <2>1. exec' = exec /\ queues' = queues /\ order' = order  BY DEF SubmitCall
  <2>2. ASSUME NEW c \in Channel, NEW q \in Producer
        PROVE  /\ IsInjective(queues'[c][q])
               /\ \A k \in Range(queues'[c][q]) :
                    k.ch = c /\ prod'[k.from].id = q /\ LetGo(k)' /\ k \notin Range(order')
    <3>1. \A k \in Range(queues[c][q]) : k \in Message  BY DEF MlTypes, Range
    <3>2. /\ IsInjective(queues[c][q])
          /\ \A k \in Range(queues[c][q]) : k.ch = c /\ prod[k.from].id = q /\ LetGo(k) /\ k \notin Range(order)
      BY <2>1 DEF Places
    <3>3. QED  BY <1>6, <2>1, <3>1, <3>2
  <2>3. \A k \in Range(order') : LetGo(k)'
    <3>1. \A k \in Range(order) : k \in Message  BY DEF MlTypes, Range
    <3>2. QED  BY <1>6, <2>1, <3>1 DEF Places
  <2>4. ASSUME exec'.at = "dispatch"
        PROVE  /\ exec'.msg \in Message /\ LetGo(exec.msg)' /\ exec'.msg \notin Range(order')
               /\ \A c \in Channel, q \in Producer : exec'.msg \notin Range(queues'[c][q])
    BY <1>6, <2>1, <2>4 DEF Places
  <2>5. QED  BY <2>2, <2>3, <2>4 DEF Places
<1>8. Captured'  BY DEF Captured, SubmitCall
<1>9. Effects'  BY DEF Effects, ToGpu, SubmitCall
<1>10. QED  BY <1>4, <1>5, <1>7, <1>8, <1>9

LEMMA Pushes ==
  ASSUME MInv, NEW t \in Threads, Push(t)
  PROVE  MInv'
<1> USE DEF MInv, prodFrame, sysVars, captVars, histVars, ProdGoes
<1>0. /\ prod[t] \in ProdType /\ prod \in [Threads -> ProdType] /\ prod[t].at \in Submitting
      /\ prod[t].msg \in Message
  BY DEF MlTypes, Push, Submitting, Hands
<1>1. PICK m \in Message, CH \in Channel, P \in Producer :
        /\ m = prod[t].msg /\ m.from = t /\ m.n = prod[t].n /\ m.ch = CH /\ prod[t].id = P
        /\ prod[t].n \in Nat
  BY <1>0 DEF Hands, Message, ProdType
<1>2. /\ prod'[t].at = "idle" /\ prod'[t].n = prod[t].n /\ prod'[t].msg = m /\ prod'[t].id = P
      /\ \A u \in Threads : u # t => prod'[u] = prod[u]
      /\ prod' \in [Threads -> ProdType]
  BY <1>0, <1>1 DEF Push, ProdType
<1>3. ~ LetGo(m)  BY <1>0, <1>1 DEF LetGo
<1>4. \A k \in Message : LetGo(k) => LetGo(k)' /\ k # m /\ prod'[k.from].id = prod[k.from].id
  <2>1. \A k \in Message : LetGo(k) => LetGo(k)' /\ prod'[k.from].id = prod[k.from].id
    BY <1>0, <1>1, <1>2 DEF LetGo, Message, Submitting
  <2>2. QED  BY <1>3, <2>1
<1>5. LetGo(m)'
  BY <1>0, <1>1, <1>2 DEF LetGo, Submitting
<1>6. /\ queues' = [queues EXCEPT ![CH][P] = Append(@, m)]
      /\ queues[CH][P] \in Seq(Message) /\ queues \in [Channel -> [Producer -> Seq(Message)]]
      /\ exec' = exec /\ order' = order
  BY <1>1 DEF MlTypes, Push
<1>7. /\ \A c \in Channel, q \in Producer : c # CH \/ q # P => queues'[c][q] = queues[c][q]
      /\ queues'[CH][P] = Append(queues[CH][P], m)
  BY <1>1, <1>6
<1>8. MlTypes'
  <2>1. \A u \in Threads : prod'[u].at \in {"new", "rejected"} <=> prod[u].at \in {"new", "rejected"}
    BY <1>0, <1>1, <1>2 DEF Submitting
  <2>2. count' = Cardinality(Registered')  BY <2>1, Counted DEF Push
  <2>3. queues' \in [Channel -> [Producer -> Seq(Message)]]
    <3>1. Append(queues[CH][P], m) \in Seq(Message)  BY <1>1, <1>6, Appended
    <3>2. QED  BY <1>1, <1>6, <3>1
  <2>4. QED  BY <1>2, <2>2, <2>3 DEF MlTypes, Push
<1>9. Hands'
  BY <1>0, <1>1, <1>2 DEF Hands, Submitting
<1>10. Places'
  <2> SUFFICES ASSUME exec'.at \in StepPhase PROVE Places'
    BY DEF Places
  <2>0. exec.at \in StepPhase  BY <1>6
  <2>1. \A k \in Range(order) : k \in Message /\ LetGo(k)
    BY <2>0 DEF Places, MlTypes, Range
  <2>2. \A c \in Channel, q \in Producer : \A k \in Range(queues[c][q]) : k \in Message /\ LetGo(k)
    BY <2>0 DEF Places, MlTypes, Range
  <2>3. m \notin Range(order) /\ \A c \in Channel, q \in Producer : m \notin Range(queues[c][q])
    BY <1>4, <2>1, <2>2
  <2>4. /\ Range(queues'[CH][P]) = Range(queues[CH][P]) \cup {m}
        /\ IsInjective(queues'[CH][P])
    <3>1. IsInjective(queues[CH][P])  BY <1>1, <2>0 DEF Places
    <3>2. QED  BY <1>1, <1>6, <1>7, <2>3, <3>1, Appended
  <2>5. ASSUME NEW c \in Channel, NEW q \in Producer
        PROVE  /\ IsInjective(queues'[c][q])
               /\ \A k \in Range(queues'[c][q]) :
                    k.ch = c /\ prod'[k.from].id = q /\ LetGo(k)' /\ k \notin Range(order')
    <3>0. /\ IsInjective(queues[c][q])
          /\ \A k \in Range(queues[c][q]) : k.ch = c /\ prod[k.from].id = q /\ k \notin Range(order)
      BY <2>0 DEF Places
    <3>1. CASE c # CH \/ q # P
      <4>1. queues'[c][q] = queues[c][q]  BY <1>7, <3>1
      <4>2. QED  BY <1>4, <1>6, <2>2, <3>0, <4>1
    <3>2. CASE c = CH /\ q = P
      <4>1. \A k \in Range(queues[c][q]) :
              k.ch = c /\ prod'[k.from].id = q /\ LetGo(k)' /\ k \notin Range(order')
        BY <1>4, <1>6, <2>2, <3>0
      <4>2. m.ch = CH /\ prod'[m.from].id = P  BY <1>1, <1>2
      <4>3. QED  BY <1>5, <1>6, <2>3, <2>4, <3>2, <4>1, <4>2
    <3>3. QED  BY <3>1, <3>2
  <2>6. \A k \in Range(order') : LetGo(k)'  BY <1>4, <1>6, <2>1
  <2>7. ASSUME exec'.at = "dispatch"
        PROVE  /\ exec'.msg \in Message /\ LetGo(exec.msg)' /\ exec'.msg \notin Range(order')
               /\ \A c \in Channel, q \in Producer : exec'.msg \notin Range(queues'[c][q])
    <3>1. /\ exec.msg \in Message /\ LetGo(exec.msg) /\ exec.msg \notin Range(order)
          /\ \A c \in Channel, q \in Producer : exec.msg \notin Range(queues[c][q])
      BY <1>6, <2>0, <2>7 DEF Places
    <3>2. LetGo(exec.msg)' /\ exec.msg # m  BY <1>4, <1>6, <3>1
    <3>3. ASSUME NEW c \in Channel, NEW q \in Producer PROVE exec'.msg \notin Range(queues'[c][q])
      BY <1>6, <1>7, <2>4, <3>1, <3>2
    <3>4. QED  BY <1>6, <3>1, <3>2, <3>3
  <2>8. QED  BY <2>5, <2>6, <2>7 DEF Places
<1>11. Captured'  BY DEF Captured, Push
<1>12. Effects'  BY DEF Effects, ToGpu, Push
<1>13. QED  BY <1>8, <1>9, <1>10, <1>11, <1>12

-----------------------------------------------------------------------------
(* The steps of the executor, and the GPU node.                            *)

LEMMA ExecGoes ==
  ASSUME MInv, exec' \in ExecType, exec'.cnt <= MaxProducers, QuietExec, capturing' \in BOOLEAN,
         UNCHANGED <<count, queues, dropped, prod, inbox, order, effects, capture>>
  PROVE  MInv'
<1> USE DEF MInv
<1>1. MlTypes'
  <2>1. count' = Cardinality(Registered')  BY Counted
  <2>2. QED  BY <2>1 DEF MlTypes
<1>2. QuietThreads  BY DEF QuietThreads, Hands
<1>3. QED  BY <1>1, <1>2, Quiet

LEMMA ExecQuiet ==
  ASSUME MInv,
         \/ StepBegin \/ StepNextProducer \/ StepNextChannel \/ StepLooks
         \/ ReplayEnd \/ CaptureStart \/ CaptureStop \/ FreeCall
  PROVE  MInv'
<1> USE MlAssumption DEF sysVars, captVars, histVars, execFrame
<1>0. exec \in ExecType /\ exec.cnt <= MaxProducers /\ capturing \in BOOLEAN /\ count = Cardinality(Registered)
  BY DEF MInv, MlTypes
<1>1. CASE StepBegin
  <2>1. count \in Int
    <3>1. IsFiniteSet(Threads)  BY FS_Interval DEF Threads
    <3>2. IsFiniteSet(Registered)  BY <3>1, FS_Subset DEF Registered
    <3>3. QED  BY <1>0, <3>2, FS_CardinalityType
  <2>2. 1 \in Channel  BY DEF Channel
  <2>3. PICK c \in Int : c <= MaxProducers /\
          exec' = [exec EXCEPT !.at = "drain", !.ch = 1, !.p = 0, !.used = 0, !.cnt = c]
    <3> DEFINE c == IF count < MaxProducers THEN count ELSE MaxProducers
    <3>1. c \in Int /\ c <= MaxProducers  BY <2>1
    <3>2. exec' = [exec EXCEPT !.at = "drain", !.ch = 1, !.p = 0, !.used = 0, !.cnt = c]
      BY <1>1 DEF StepBegin
    <3> HIDE DEF c
    <3>3. QED  BY <3>1, <3>2
  <2>4. exec' \in ExecType /\ exec'.cnt <= MaxProducers /\ exec'.at = "drain"
    BY <1>0, <2>2, <2>3 DEF ExecType, StepPhase
  <2>5. QuietExec  BY <1>1, <2>4 DEF QuietExec, StepBegin, StepPhase
  <2>6. QED  BY <1>0, <1>1, <2>4, <2>5, ExecGoes DEF StepBegin
<1>2. CASE StepNextProducer
  <2>1. exec' \in ExecType /\ exec'.cnt <= MaxProducers
    <3>1. exec.p + 1 \in Nat /\ exec' = [exec EXCEPT !.p = exec.p + 1]
      BY <1>0, <1>2 DEF StepNextProducer, ExecType
    <3>2. QED  BY <1>0, <3>1 DEF ExecType
  <2>2. QuietExec
    <3>1. exec'.at = "drain" /\ exec.at = "drain"  BY <1>0, <1>2 DEF StepNextProducer, ExecType
    <3>2. QED  BY <3>1 DEF QuietExec, StepPhase
  <2>3. QED  BY <1>0, <1>2, <2>1, <2>2, ExecGoes DEF StepNextProducer
<1>3. CASE StepNextChannel
  <2>1. /\ exec' \in ExecType /\ exec'.cnt <= MaxProducers
        /\ exec'.at \in {"drain", "wake"}
    <3>1. CASE exec.ch < Channels
      <4>1. exec' = [exec EXCEPT !.ch = @ + 1, !.p = 0, !.used = 0] /\ exec.at = "drain"
        BY <1>3, <3>1 DEF StepNextChannel
      <4>2. exec.ch + 1 \in Channel  BY <1>0, <3>1 DEF ExecType, Channel
      <4>3. QED  BY <1>0, <4>1, <4>2 DEF ExecType
    <3>2. CASE ~ (exec.ch < Channels)
      <4>1. exec' = [Idle EXCEPT !.at = "wake"]  BY <1>3, <3>2 DEF StepNextChannel
      <4>2. 1 \in Channel  BY DEF Channel
      <4>3. QED  BY <4>1, <4>2, SMTT(30) DEF ExecType, Idle, StepPhase
    <3>3. QED  BY <3>1, <3>2
  <2>2. QuietExec  BY <1>3, <2>1 DEF QuietExec, StepNextChannel, StepPhase
  <2>3. QED  BY <1>0, <1>3, <2>1, <2>2, ExecGoes DEF StepNextChannel
<1>4. CASE StepLooks
  <2>1. exec' \in ExecType /\ exec'.cnt <= MaxProducers /\ exec'.at \in {"idle", "broadcast"}
    BY <1>0, <1>4 DEF StepLooks, ExecType, StepPhase
  <2>2. QuietExec  BY <1>4, <2>1 DEF QuietExec, StepLooks, StepPhase
  <2>3. QED  BY <1>0, <1>4, <2>1, <2>2, ExecGoes DEF StepLooks
<1>5. CASE ReplayEnd
  <2>1. exec' \in ExecType /\ exec'.cnt <= MaxProducers /\ exec'.at = "replayed"
    BY <1>0, <1>5 DEF ReplayEnd, ExecType
  <2>2. QuietExec  BY <2>1 DEF QuietExec, StepPhase
  <2>3. QED  BY <1>0, <1>5, <2>1, <2>2, ExecGoes DEF ReplayEnd
<1>6. CASE CaptureStart
  <2>1. QuietExec  BY <1>6 DEF QuietExec, CaptureStart
  <2>2. QED  BY <1>0, <1>6, <2>1, ExecGoes DEF CaptureStart
<1>7. CASE CaptureStop
  <2>1. QuietExec  BY <1>7 DEF QuietExec, CaptureStop
  <2>2. QED  BY <1>0, <1>7, <2>1, ExecGoes DEF CaptureStop
<1>8. CASE FreeCall
  <2>1. exec' \in ExecType /\ exec'.cnt <= MaxProducers /\ exec'.at = "free"
    BY <1>0, <1>8 DEF FreeCall, ExecType
  <2>2. QuietExec  BY <2>1 DEF QuietExec, StepPhase
  <2>3. QED  BY <1>0, <1>8, <2>1, <2>2, ExecGoes DEF FreeCall
<1>9. QED  BY <1>1, <1>2, <1>3, <1>4, <1>5, <1>6, <1>7, <1>8

LEMMA Wakes ==
  ASSUME MInv, StepWakes \/ FreeWakes
  PROVE  MInv'
<1> USE DEF sysVars, captVars
<1>0. /\ exec \in ExecType /\ exec.cnt <= MaxProducers /\ capturing \in BOOLEAN
      /\ prod \in [Threads -> ProdType]
  BY DEF MInv, MlTypes
<1>1. Broadcast /\ exec' \in ExecType /\ exec'.cnt <= MaxProducers
      /\ UNCHANGED <<count, queues, dropped, inbox, order, effects, capturing, capture>>
  <2>1. PICK w \in {"idle", "freed"} : exec' = [exec EXCEPT !.at = w]  BY DEF StepWakes, FreeWakes
  <2>2. exec' \in ExecType /\ exec'.cnt <= MaxProducers  BY <1>0, <2>1 DEF ExecType, StepPhase
  <2>3. QED  BY <2>2 DEF StepWakes, FreeWakes
<1>2. \A u \in Threads : prod'[u] = IF prod[u].at = "wait" THEN [prod[u] EXCEPT !.at = "lock"] ELSE prod[u]
  BY <1>1 DEF Broadcast
<1>3. \A u \in Threads :
        /\ prod'[u] \in ProdType /\ prod'[u].n = prod[u].n /\ prod'[u].msg = prod[u].msg /\ prod'[u].id = prod[u].id
        /\ prod'[u].at = prod[u].at \/ (prod[u].at = "wait" /\ prod'[u].at = "lock")
  BY <1>0, <1>2 DEF ProdType, Submitting
<1>4. prod' \in [Threads -> ProdType]
  <2>1. prod' = [u \in Threads |-> prod'[u]]  BY <1>1 DEF Broadcast
  <2>2. QED  BY <1>3, <2>1
<1>5. count' = Cardinality(Registered')
  <2>1. \A u \in Threads : prod'[u].at \in {"new", "rejected"} <=> prod[u].at \in {"new", "rejected"}
    BY <1>3
  <2>2. QED  BY <1>1, <2>1, Counted DEF MInv
<1>6. MlTypes'  BY <1>1, <1>4, <1>5 DEF MInv, MlTypes
<1>7. QuietThreads  BY <1>3 DEF QuietThreads, MInv, Hands, Submitting
<1>8. QuietExec
  <2>1. (exec.at = "broadcast" /\ exec'.at = "idle") \/ exec'.at = "freed"
    BY <1>0 DEF StepWakes, FreeWakes, ExecType
  <2>2. QED  BY <2>1 DEF QuietExec, StepPhase
<1>9. QED  BY <1>1, <1>6, <1>7, <1>8, Quiet DEF MInv

LEMMA Runs ==
  ASSUME MInv, GpuRuns
  PROVE  MInv'
<1> USE DEF MInv, sysVars, captVars
<1>1. Effects' /\ {inbox', order', effects'} \subseteq Seq(Message)  BY GpuRan
<1>2. MlTypes'
  <2>1. count' = Cardinality(Registered')  BY Counted DEF GpuRuns
  <2>2. QED  BY <1>1, <2>1 DEF MlTypes, GpuRuns
<1>3. Hands'  BY DEF Hands, GpuRuns
<1>4. Places'
  <2>1. \A m : LetGo(m)' = LetGo(m)  BY DEF LetGo, GpuRuns
  <2>2. /\ queues' = queues /\ prod' = prod /\ order' = order /\ exec' = exec
    BY DEF GpuRuns
  <2>3. LetGo(exec.msg)' = LetGo(exec.msg)  BY <2>2 DEF LetGo
  <2>4. QED  BY <2>1, <2>2, <2>3 DEF Places
<1>5. Captured'  BY DEF Captured, GpuRuns
<1>6. QED  BY <1>1, <1>2, <1>3, <1>4, <1>5

LEMMA Pops ==
  ASSUME MInv, StepPops
  PROVE  MInv'
<1> USE MlAssumption DEF MInv, captVars, execFrame
<1>1. PICK CH \in Channel, P \in Producer :
        exec.ch = CH /\ exec.p = P
  BY DEF MlTypes, ExecType, StepPops, Producer
<1>2. queues[CH][P] \in Seq(Message) /\ queues[CH][P] # << >>
  BY <1>1 DEF MlTypes, StepPops, Source
<1>3. PICK m \in Message :
        /\ m = Head(queues[CH][P])
        /\ queues' = [queues EXCEPT ![CH][P] = Tail(@)]
        /\ exec' = [exec EXCEPT !.at = "dispatch", !.msg = m, !.used = @ + 1]
  <2>1. Head(queues[CH][P]) \in Message  BY <1>2, Tailed
  <2>2. /\ queues' = [queues EXCEPT ![CH][P] = Tail(@)]
        /\ exec' = [exec EXCEPT !.at = "dispatch", !.msg = Head(queues[CH][P]), !.used = @ + 1]
    BY <1>1 DEF StepPops, Source
  <2>3. QED  BY <2>1, <2>2
<1>4. /\ Tail(queues[CH][P]) \in Seq(Message)
      /\ Range(queues[CH][P]) = Range(Tail(queues[CH][P])) \cup {m}
      /\ IsInjective(queues[CH][P]) =>
           IsInjective(Tail(queues[CH][P])) /\ m \notin Range(Tail(queues[CH][P]))
  BY <1>2, <1>3, Tailed
<1>5. /\ queues' \in [Channel -> [Producer -> Seq(Message)]]
      /\ queues'[CH][P] = Tail(queues[CH][P])
      /\ \A c \in Channel, q \in Producer : c # CH \/ q # P => queues'[c][q] = queues[c][q]
  BY <1>3, <1>4 DEF MlTypes
<1>6. exec.at = "drain" /\ exec \in ExecType /\ exec.cnt <= MaxProducers  BY DEF StepPops, MlTypes
<1>7. exec' \in ExecType /\ exec'.cnt <= MaxProducers /\ exec'.at = "dispatch" /\ exec'.msg = m
  <2>1. exec.used + 1 \in Nat  BY <1>6 DEF ExecType
  <2>2. QED  BY <1>3, <1>6, <2>1 DEF ExecType, StepPhase
<1>8. order' = order /\ prod' = prod  BY DEF StepPops
<1>9. MlTypes'
  <2>1. count' = Cardinality(Registered')  BY Counted DEF StepPops
  <2>2. QED  BY <1>5, <1>7, <2>1 DEF MlTypes, StepPops
<1>10. Hands'  BY <1>8 DEF Hands
<1>11. Places'
  <2>1. \A k : LetGo(k)' = LetGo(k)  BY <1>8 DEF LetGo
  <2>2. exec.at \in StepPhase  BY <1>6 DEF StepPhase
  <2>3. \A c \in Channel, q \in Producer :
          /\ IsInjective(queues[c][q])
          /\ \A k \in Range(queues[c][q]) :
               k.ch = c /\ prod[k.from].id = q /\ LetGo(k) /\ k \notin Range(order)
    BY <2>2 DEF Places
  <2>4. m.ch = CH /\ prod[m.from].id = P /\ LetGo(m) /\ m \notin Range(order)
    BY <1>4, <2>3
  <2>5. ASSUME NEW c \in Channel, NEW q \in Producer
        PROVE  /\ IsInjective(queues'[c][q]) /\ m \notin Range(queues'[c][q])
               /\ Range(queues'[c][q]) \subseteq Range(queues[c][q])
    <3>1. CASE c = CH /\ q = P  BY <1>4, <1>5, <2>3, <3>1
    <3>2. CASE c # CH \/ q # P  BY <1>5, <2>3, <2>4, <3>2
    <3>3. QED  BY <3>1, <3>2
  <2>6. ASSUME NEW c \in Channel, NEW q \in Producer
        PROVE  /\ IsInjective(queues'[c][q])
               /\ \A k \in Range(queues'[c][q]) :
                    k.ch = c /\ prod'[k.from].id = q /\ LetGo(k)' /\ k \notin Range(order')
    <3>1. \A k \in Range(queues[c][q]) :
            k.ch = c /\ prod[k.from].id = q /\ LetGo(k) /\ k \notin Range(order)
      BY <2>3
    <3>2. QED  BY <1>8, <2>1, <2>5, <3>1
  <2>7. \A k \in Range(order') : LetGo(k)'  BY <1>8, <2>1, <2>2 DEF Places
  <2>8. /\ exec'.msg \in Message /\ LetGo(exec.msg)' /\ exec'.msg \notin Range(order')
        /\ \A c \in Channel, q \in Producer : exec'.msg \notin Range(queues'[c][q])
    <3>1. LetGo(exec.msg)'  BY <1>7, <1>8, <2>4 DEF LetGo
    <3>2. QED  BY <1>7, <1>8, <2>4, <2>5, <3>1
  <2>9. QED  BY <2>6, <2>7, <2>8 DEF Places
<1>12. Captured'  BY <1>6, <1>7, <1>8 DEF Captured, StepPops, StepPhase
<1>13. Effects'  BY DEF Effects, ToGpu, StepPops
<1>14. QED  BY <1>9, <1>10, <1>11, <1>12, <1>13

LEMMA Dispatches ==
  ASSUME MInv, StepDispatches
  PROVE  MInv'
<1> USE DEF MInv, captVars, execFrame
<1>1. PICK m \in Message :
        m = exec.msg /\ LetGo(m) /\ m \notin Range(order)
        /\ \A c \in Channel, q \in Producer : m \notin Range(queues[c][q])
  BY DEF StepDispatches, Places, StepPhase
<1>2. /\ Dispatch(m) /\ queues' = queues /\ prod' = prod /\ exec.at = "dispatch"
      /\ exec \in ExecType /\ exec.cnt <= MaxProducers
  BY <1>1 DEF StepDispatches, MlTypes
<1>3. exec' \in ExecType /\ exec'.cnt <= MaxProducers /\ exec'.at = "drain"
  BY <1>2 DEF StepDispatches, ExecType, StepPhase
<1>4. /\ Effects' /\ order' = Append(order, m)
      /\ {inbox', order', effects'} \subseteq Seq(Message)
  BY <1>1, <1>2, Dispatched
<1>5. Range(order') = Range(order) \cup {m}
  BY <1>4, Appended DEF MlTypes
<1>6. /\ capture' \in Seq(Message) /\ IsInjective(capture')
      /\ Range(capture') \subseteq Range(order')
  <2>1. capture \in Seq(Message) /\ IsInjective(capture) /\ Range(capture) \subseteq Range(order)
    BY <1>2 DEF MlTypes, Captured, StepPhase
  <2>2. CASE capture' = capture  BY <1>5, <2>1, <2>2
  <2>3. CASE capture' = Append(capture, m)
    <3>1. m \notin Range(capture)  BY <1>1, <2>1
    <3>2. QED  BY <1>5, <2>1, <2>3, <3>1, Appended
  <2>4. QED  BY <1>2, <2>2, <2>3 DEF Dispatch
<1>7. MlTypes'
  <2>1. count' = Cardinality(Registered')  BY <1>2, Counted DEF StepDispatches
  <2>2. QED  BY <1>3, <1>4, <1>6, <2>1 DEF MlTypes, StepDispatches
<1>8. Hands'  BY <1>2 DEF Hands
<1>9. Places'
  <2>1. \A k : LetGo(k)' = LetGo(k)  BY <1>2 DEF LetGo
  <2>2. ASSUME NEW c \in Channel, NEW q \in Producer
        PROVE  /\ IsInjective(queues'[c][q])
               /\ \A k \in Range(queues'[c][q]) :
                    k.ch = c /\ prod'[k.from].id = q /\ LetGo(k)' /\ k \notin Range(order')
    <3>1. /\ IsInjective(queues[c][q])
          /\ \A k \in Range(queues[c][q]) : k.ch = c /\ prod[k.from].id = q /\ LetGo(k) /\ k \notin Range(order)
      BY <1>2 DEF Places, StepPhase
    <3>2. QED  BY <1>1, <1>2, <1>5, <2>1, <3>1
  <2>3. \A k \in Range(order') : LetGo(k)'
    <3>1. \A k \in Range(order) : LetGo(k)  BY <1>2 DEF Places, StepPhase
    <3>2. QED  BY <1>1, <1>5, <2>1, <3>1
  <2>4. QED  BY <1>3, <2>2, <2>3 DEF Places
<1>10. Captured'  BY <1>3, <1>6 DEF Captured, StepPhase
<1>11. QED  BY <1>4, <1>7, <1>8, <1>9, <1>10

LEMMA BeginsReplay ==
  ASSUME MInv, ReplayBegin
  PROVE  MInv'
<1> USE DEF MInv, captVars, execFrame
<1>1. exec' \in ExecType /\ exec'.cnt <= MaxProducers /\ exec'.at = "replay" /\ exec'.used = 0
  <2>1. exec \in ExecType /\ exec.cnt <= MaxProducers  BY DEF MlTypes
  <2>2. exec' = [exec EXCEPT !.at = "replay", !.used = 0]  BY DEF ReplayBegin
  <2>3. QED  BY <2>1, <2>2 DEF ExecType
<1>2. order' = << >> /\ effects' = << >> /\ inbox' = << >> /\ capture' = capture /\ ~ capturing'
  BY DEF ReplayBegin
<1>3. MlTypes'
  <2>1. count' = Cardinality(Registered')  BY Counted DEF ReplayBegin
  <2>2. dropped' \in [Channel -> Nat]  BY DEF ReplayBegin
  <2>3. << >> \in Seq(Message)  OBVIOUS
  <2>4. QED  BY <1>1, <1>2, <2>1, <2>2, <2>3 DEF MlTypes, ReplayBegin
<1>4. Hands'  BY DEF Hands, ReplayBegin
<1>5. Places'  BY <1>1 DEF Places, StepPhase
<1>6. Captured'
  <2>1. Len(capture) \in Nat  BY DEF MlTypes
  <2>2. QED  BY <1>1, <1>2, <2>1 DEF Captured, StepPhase
<1>7. Effects'
  <2>1. Range(<< >>) = {} /\ IsInjective(<< >>) /\ DOMAIN << >> = {}  BY DEF Range, IsInjective
  <2>2. QED  BY <1>2, <2>1 DEF Effects
<1>8. QED  BY <1>3, <1>4, <1>5, <1>6, <1>7

LEMMA Replays ==
  ASSUME MInv, ReplayNext
  PROVE  MInv'
<1> USE DEF MInv, captVars, execFrame
<1>1. /\ exec.at = "replay" /\ exec \in ExecType /\ exec.used \in Nat /\ exec.used < Len(capture)
      /\ capture \in Seq(Message) /\ order \in Seq(Message) /\ Len(order) = exec.used
      /\ exec.cnt <= MaxProducers /\ ~ capturing
  BY DEF ReplayNext, MlTypes, ExecType, Captured
<1>2. exec.used + 1 \in 1 .. Len(capture)  BY <1>1
<1>3. PICK m \in Message : m = capture[exec.used + 1] /\ Dispatch(m)
  BY <1>1, <1>2, Nth DEF ReplayNext
<1>4. m \notin Range(order)
  <2>1. \A i \in 1 .. Len(order) : i \in DOMAIN capture /\ i # exec.used + 1 /\ order[i] = capture[i]
    BY <1>1 DEF Captured
  <2>2. \A i \in DOMAIN capture : capture[i] = m => i = exec.used + 1
    BY <1>1, <1>2, <1>3 DEF Captured, IsInjective
  <2>3. QED  BY <1>1, <2>1, <2>2 DEF Range
<1>5. /\ Effects' /\ order' = Append(order, m)
      /\ {inbox', order', effects'} \subseteq Seq(Message)
  BY <1>3, <1>4, Dispatched
<1>6. capture' = capture /\ ~ capturing'  BY <1>1, <1>3 DEF Dispatch, ReplayNext
<1>7. exec' \in ExecType /\ exec'.cnt <= MaxProducers /\ exec'.at = "replay" /\ exec'.used = exec.used + 1
  BY <1>1 DEF ReplayNext, ExecType
<1>8. MlTypes'
  <2>1. count' = Cardinality(Registered')  BY Counted DEF ReplayNext
  <2>2. QED  BY <1>5, <1>6, <1>7, <2>1 DEF MlTypes, ReplayNext
<1>9. Hands'  BY DEF Hands, ReplayNext
<1>10. Places'  BY <1>7 DEF Places, StepPhase
<1>11. Captured'
  <2>1. Len(order') = exec'.used /\ exec'.used <= Len(capture')  BY <1>1, <1>5, <1>6, <1>7, Appended
  <2>2. ASSUME NEW i \in 1 .. Len(order') PROVE order'[i] = capture'[i]
    <3>1. i \in 1 .. Len(order) \/ i = Len(order) + 1  BY <1>1, <1>7, <2>1
    <3>2. CASE i \in 1 .. Len(order)  BY <1>1, <1>5, <1>6, <3>2, Appended DEF Captured
    <3>3. CASE i = Len(order) + 1  BY <1>1, <1>3, <1>5, <1>6, <3>3, Appended
    <3>4. QED  BY <3>1, <3>2, <3>3
  <2>3. IsInjective(capture') /\ ~ capturing'  BY <1>6 DEF Captured
  <2>4. QED  BY <1>7, <2>1, <2>2, <2>3 DEF Captured, StepPhase
<1>12. QED  BY <1>5, <1>8, <1>9, <1>10, <1>11

-----------------------------------------------------------------------------
LEMMA MStep == MInv /\ [Next]_vars => MInv'
<1> SUFFICES ASSUME MInv, [Next]_vars PROVE MInv'
  OBVIOUS
<1>1. ASSUME NEW t \in Threads, SubmitCall(t) \/ SubmitGoesOn(t) \/ WaitLocks(t) \/ WaitWakes(t)
      PROVE  MInv'
  BY <1>1, CallBegins, Pushes, Registers, Submits DEF SubmitGoesOn
<1>2. CASE StepBegin \/ Stepping \/ Replaying \/ Waking
  BY <1>2, ExecQuiet, Pops, Dispatches, Replays, Wakes DEF Stepping, Replaying, Waking
<1>3. CASE GpuRuns  BY <1>3, Runs
<1>4. CASE CaptureStart \/ CaptureStop \/ ReplayBegin \/ FreeCall
  BY <1>4, ExecQuiet, BeginsReplay
<1>5. CASE UNCHANGED vars
  <2> USE <1>5 DEF MInv, vars, sysVars, captVars, histVars
  <2>1. MlTypes'
    <3>1. count' = Cardinality(Registered')  BY Counted
    <3>2. QED  BY <3>1 DEF MlTypes
  <2>2. QuietThreads  BY DEF QuietThreads, Hands
  <2>3. QuietExec  BY DEF QuietExec
  <2>4. QED  BY <2>1, <2>2, <2>3, Quiet
<1>6. QED  BY <1>1, <1>2, <1>3, <1>4, <1>5 DEF Next

\* No operation takes effect twice, and a fence separates the operations that were
\* dispatched before it, those the GPU node runs too, from those that come after
\* it (ml_sys_dispatch, ml_sys_replay, the GPU node's thread).
THEOREM MlFenceOrders == Spec => []FenceOrders
<1>1. MInv => FenceOrders  BY FencesOrder DEF MInv
<1>2. QED  BY MInit, MStep, <1>1, PTL DEF Spec

-----------------------------------------------------------------------------
(* Accepted in order: sequences of messages.                               *)

\* Every message of s may come before every message of q.
Leads(s, q) == \A a \in Range(s), b \in Range(q) : Precedes(a, b)

LEMMA AppendOrders ==
  ASSUME NEW s \in Seq(Message), NEW m \in Message, Ordered(s),
         \A a \in Range(s) : Precedes(a, m)
  PROVE  Ordered(Append(s, m))
<1> DEFINE q == Append(s, m)
<1>1. /\ Len(s) \in Nat /\ DOMAIN s = 1 .. Len(s) /\ DOMAIN q = 1 .. Len(s) + 1
      /\ q[Len(s) + 1] = m /\ \A i \in 1 .. Len(s) : q[i] = s[i]
  OBVIOUS
<1> HIDE DEF q
<1>2. ASSUME NEW i \in 1 .. Len(s) + 1, NEW j \in 1 .. Len(s) + 1, i < j
      PROVE  Precedes(q[i], q[j])
  <2>1. i \in 1 .. Len(s) /\ q[i] = s[i] /\ s[i] \in Range(s)  BY <1>1, <1>2 DEF Range
  <2>2. CASE j = Len(s) + 1  BY <1>1, <2>1, <2>2
  <2>3. CASE j \in 1 .. Len(s)
    <3>1. Precedes(s[i], s[j])  BY <1>1, <1>2, <2>1, <2>3 DEF Ordered
    <3>2. QED  BY <1>1, <2>1, <2>3, <3>1
  <2>4. QED  BY <1>1, <2>2, <2>3
<1>3. Ordered(q)  BY <1>1, <1>2 DEF Ordered
<1>4. QED  BY <1>3 DEF q

LEMMA TailOrders ==
  ASSUME NEW s \in Seq(Message), s # << >>, Ordered(s)
  PROVE  Ordered(Tail(s)) /\ \A b \in Range(Tail(s)) : Precedes(Head(s), b)
<1> DEFINE q == Tail(s)
<1>1. /\ Len(s) \in Nat /\ Len(s) > 0 /\ DOMAIN s = 1 .. Len(s) /\ DOMAIN q = 1 .. Len(s) - 1
      /\ Head(s) = s[1] /\ \A i \in 1 .. Len(s) - 1 : q[i] = s[i + 1]
  OBVIOUS
<1> HIDE DEF q
<1>2. \A i \in 1 .. Len(s) - 1 : 1 \in DOMAIN s /\ i + 1 \in DOMAIN s /\ 1 < i + 1  BY <1>1
<1>3. ASSUME NEW i \in 1 .. Len(s) - 1, NEW j \in 1 .. Len(s) - 1, i < j
      PROVE  Precedes(q[i], q[j])
  <2>1. i + 1 < j + 1  BY <1>3
  <2>2. Precedes(s[i + 1], s[j + 1])  BY <1>2, <2>1 DEF Ordered
  <2>3. QED  BY <1>1, <2>2
<1>4. \A i \in 1 .. Len(s) - 1 : Precedes(s[1], q[i])
  <2>1. \A i \in 1 .. Len(s) - 1 : Precedes(s[1], s[i + 1])  BY <1>2 DEF Ordered
  <2>2. QED  BY <1>1, <2>1
<1>5. Ordered(q) /\ \A b \in Range(q) : Precedes(Head(s), b)
  BY <1>1, <1>3, <1>4 DEF Ordered, Range
<1>6. QED  BY <1>5 DEF q

LEMMA ConcatOrders ==
  ASSUME NEW s \in Seq(Message), NEW q \in Seq(Message), Ordered(s), Ordered(q), Leads(s, q)
  PROVE  Ordered(s \o q)
<1> DEFINE r == s \o q
           L == Len(s)
           M == Len(q)
<1>1. /\ L \in Nat /\ M \in Nat /\ DOMAIN s = 1 .. L /\ DOMAIN q = 1 .. M /\ DOMAIN r = 1 .. L + M
      /\ \A i \in 1 .. L + M : r[i] = IF i <= L THEN s[i] ELSE q[i - L]
  OBVIOUS
<1> HIDE DEF r, L, M
<1>2. ASSUME NEW i \in 1 .. L + M, NEW j \in 1 .. L + M, i < j
      PROVE  Precedes(r[i], r[j])
  <2>1. CASE j <= L
    <3>1. i \in 1 .. L /\ j \in 1 .. L  BY <1>1, <1>2, <2>1
    <3>2. Precedes(s[i], s[j])  BY <1>1, <1>2, <3>1 DEF Ordered
    <3>3. r[i] = s[i] /\ r[j] = s[j]  BY <1>1, <3>1
    <3>4. QED  BY <3>2, <3>3
  <2>2. CASE i <= L /\ ~ (j <= L)
    <3>1. i \in 1 .. L /\ j - L \in 1 .. M  BY <1>1, <1>2, <2>2
    <3>2. s[i] \in Range(s) /\ q[j - L] \in Range(q)  BY <1>1, <3>1 DEF Range
    <3>3. r[i] = s[i] /\ r[j] = q[j - L]  BY <1>1, <2>2
    <3>4. QED  BY <3>2, <3>3 DEF Leads
  <2>3. CASE ~ (i <= L)
    <3>1. i - L \in 1 .. M /\ j - L \in 1 .. M /\ i - L < j - L /\ ~ (j <= L)  BY <1>1, <1>2, <2>3
    <3>2. Precedes(q[i - L], q[j - L])  BY <1>1, <3>1 DEF Ordered
    <3>3. r[i] = q[i - L] /\ r[j] = q[j - L]  BY <1>1, <2>3, <3>1
    <3>4. QED  BY <3>2, <3>3
  <2>4. QED  BY <2>1, <2>2, <2>3
<1>3. Ordered(r)  BY <1>1, <1>2 DEF Ordered
<1>4. QED  BY <1>3 DEF r

-----------------------------------------------------------------------------
(* The invariant.                                                          *)

\* The threads that may submit.
Able == {t \in Threads : prod[t].at \in Submitting \cup {"idle"}}

\* Each has a number of its own, and who is refused one is refused for good: the
\* numbers are given back only by threads that came too late for one.
OwnQueues ==
  /\ \A t, u \in Able : prod[t].id = prod[u].id => t = u
  /\ \A t \in Able : prod[t].id < Cardinality(Able)
  /\ (\E t \in Threads : prod[t].at = "toomany") => Cardinality(Able) >= MaxProducers

\* What was popped is in order, so is each queue, and what was popped comes before
\* what waits.
Streams ==
  exec.at \in StepPhase =>
    /\ Ordered(Popped)
    /\ \A c \in Channel, p \in Producer : Ordered(queues[c][p]) /\ Leads(Popped, queues[c][p])

Held == Range(Popped) \cup UNION {Range(queues[c][p]) : c \in Channel, p \in Producer}

\* No message is lost, and none that was refused was taken.
Accounted ==
  exec.at \in StepPhase =>
    /\ \A m \in failed : m \in Message /\ LetGo(m)
    /\ failed \cap Held = {}
    /\ \A t \in Threads : \A n \in 1 .. prod[t].n :
         \E m \in Held \cup failed \cup InHand : m.from = t /\ m.n = n

Stops == exec.at \in {"free", "freed"} => ~ running

OInv == OwnQueues /\ Streams /\ Accounted /\ Stops

\* What the places of MInv say of every message that is held.
LEMMA AllHeld ==
  ASSUME MInv, exec.at \in StepPhase
  PROVE  /\ Popped \in Seq(Message) /\ order \in Seq(Message)
         /\ \A m \in Range(Popped) : m \in Message /\ LetGo(m)
         /\ \A c \in Channel, p \in Producer :
              /\ queues[c][p] \in Seq(Message)
              /\ \A m \in Range(queues[c][p]) :
                   m \in Message /\ LetGo(m) /\ m.ch = c /\ prod[m.from].id = p
         /\ \A m \in Held : m \in Message /\ LetGo(m)
<1> USE DEF MInv
<1>1. order \in Seq(Message) /\ \A m \in Range(order) : m \in Message /\ LetGo(m)
  BY DEF MlTypes, Places, Range
<1>2. Popped \in Seq(Message) /\ \A m \in Range(Popped) : m \in Message /\ LetGo(m)
  <2>1. CASE exec.at = "dispatch"
    <3>1. exec.msg \in Message /\ LetGo(exec.msg) /\ Popped = Append(order, exec.msg)
      BY <2>1 DEF Places, Popped
    <3>2. Popped \in Seq(Message) /\ Range(Popped) = Range(order) \cup {exec.msg}
      BY <1>1, <3>1, Appended
    <3>3. QED  BY <1>1, <3>1, <3>2
  <2>2. CASE exec.at # "dispatch"  BY <1>1, <2>2 DEF Popped
  <2>3. QED  BY <2>1, <2>2
<1>3. ASSUME NEW c \in Channel, NEW p \in Producer
      PROVE  /\ queues[c][p] \in Seq(Message)
             /\ \A m \in Range(queues[c][p]) :
                  m \in Message /\ LetGo(m) /\ m.ch = c /\ prod[m.from].id = p
  <2>1. queues[c][p] \in Seq(Message)  BY DEF MlTypes
  <2>2. \A m \in Range(queues[c][p]) : m \in Message  BY <2>1 DEF Range
  <2>3. QED  BY <2>1, <2>2 DEF Places
<1>4. \A m \in Held : m \in Message /\ LetGo(m)  BY <1>2, <1>3 DEF Held
<1>5. QED  BY <1>1, <1>2, <1>3, <1>4

\* A message that its thread has let go of is of a thread that may submit, and is
\* not in hand.
LEMMA LetGoIsAble ==
  ASSUME MInv, NEW m \in Message, LetGo(m)
  PROVE  m.from \in Able /\ m \notin InHand
<1>1. m.from \in Threads /\ m.n \in Nat \ {0}  BY DEF Message
<1>2. prod[m.from] \in ProdType  BY <1>1 DEF MInv, MlTypes
<1>3. m.from \in Able
  <2>1. prod[m.from].n # 0  BY <1>1, <1>2 DEF LetGo, ProdType
  <2>2. prod[m.from].at \notin {"new", "toomany", "rejected"}  BY <1>1, <2>1 DEF MInv, Hands
  <2>3. QED  BY <1>1, <1>2, <2>2 DEF Able, ProdType
<1>4. m \notin InHand
  <2>1. SUFFICES ASSUME NEW u \in Threads, m = prod[u].msg,
                        prod[u].at \notin {"new", "toomany", "rejected", "idle"}
                 PROVE  FALSE
    BY DEF InHand
  <2>2. prod[u].at \in Submitting  BY <2>1 DEF MInv, MlTypes, ProdType
  <2>3. m.from = u /\ m.n = prod[u].n  BY <2>1, <2>2 DEF MInv, Hands
  <2>4. QED  BY <1>1, <1>2, <2>2, <2>3 DEF LetGo, ProdType
<1>5. QED  BY <1>3, <1>4

LEMMA OrderIsKept == MInv /\ OInv => AcceptedInOrder
<1> SUFFICES ASSUME MInv, OInv, exec.at \notin {"replay", "replayed"}, running
             PROVE  AcceptedInOrder
  BY DEF AcceptedInOrder
<1>1. exec.at \in StepPhase
  BY DEF MInv, MlTypes, ExecType, OInv, Stops
<1> DEFINE all == Range(Popped) \cup UNION {Range(Waits(t, ch)) : t \in Threads, ch \in Channel}
<1>2. \A t \in Threads, c \in Channel :
        /\ t \in Able => Waits(t, c) = queues[c][prod[t].id] /\ prod[t].id \in Producer
        /\ t \notin Able => Waits(t, c) = << >>
  BY DEF Waits, Able, MInv, Hands, MlTypes, ProdType, Submitting
<1>3. Range(<< >>) = {}  BY DEF Range
<1>4. \A c \in Channel, p \in Producer : \A m \in Range(queues[c][p]) :
        m \in Message /\ LetGo(m) /\ m.ch = c /\ prod[m.from].id = p /\ m.from \in Able
  BY <1>1, AllHeld, LetGoIsAble
<1>5. all = Held
  <2>1. ASSUME NEW c \in Channel, NEW p \in Producer, NEW m \in Range(queues[c][p])
        PROVE  m \in all
    <3>1. m.from \in Able /\ prod[m.from].id = p  BY <1>4
    <3>2. m.from \in Threads /\ Waits(m.from, c) = queues[c][p]  BY <1>2, <3>1 DEF Able
    <3>3. QED  BY <3>2
  <2>2. ASSUME NEW t \in Threads, NEW c \in Channel, NEW m \in Range(Waits(t, c))
        PROVE  m \in Held
    <3>1. t \in Able  BY <1>2, <1>3
    <3>2. QED  BY <1>2, <3>1 DEF Held
  <2>3. QED  BY <2>1, <2>2 DEF Held
<1> HIDE DEF all
<1>6. \A m \in Held : m \in Message /\ LetGo(m) /\ m \notin InHand
  BY <1>1, AllHeld, LetGoIsAble
<1>7. \A m \in failed : m \in Message /\ LetGo(m)
  BY <1>1 DEF OInv, Accounted
<1>8. ASSUME NEW t \in Threads
      PROVE  {m.n : m \in {k \in all \cup failed \cup InHand : k.from = t}} = 1 .. prod[t].n
  <2>0. prod[t].n \in Nat  BY DEF MInv, MlTypes, ProdType
  <2>1. ASSUME NEW m \in all \cup failed \cup InHand, m.from = t
        PROVE  m.n \in 1 .. prod[t].n
    <3>1. CASE m \in InHand
      <4>1. PICK u \in Threads : m = prod[u].msg /\ prod[u].at \notin {"new", "toomany", "rejected", "idle"}
        BY <3>1 DEF InHand
      <4>2. prod[u].at \in Submitting  BY <4>1 DEF MInv, MlTypes, ProdType
      <4>3. m.from = u /\ m.n = prod[u].n /\ m \in Message  BY <4>1, <4>2 DEF MInv, Hands
      <4>4. QED  BY <2>0, <2>1, <4>3 DEF Message
    <3>2. CASE m \in Held \cup failed
      <4>1. m \in Message /\ LetGo(m)  BY <1>6, <1>7, <3>2
      <4>2. QED  BY <2>0, <2>1, <4>1 DEF LetGo, Message
    <3>3. QED  BY <1>5, <2>1, <3>1, <3>2
  <2>2. ASSUME NEW n \in 1 .. prod[t].n
        PROVE  \E m \in all \cup failed \cup InHand : m.from = t /\ m.n = n
    BY <1>1, <1>5 DEF OInv, Accounted
  <2>3. QED  BY <2>1, <2>2
<1>9. all \cap (failed \cup InHand) = {}
  BY <1>1, <1>5, <1>6 DEF OInv, Accounted
<1>10. ASSUME NEW t \in Threads, NEW c \in Channel
       PROVE  /\ Ordered(Popped \o Waits(t, c))
              /\ \A m \in Range(Waits(t, c)) : m.from = t /\ m.ch = c
  <2>0. Popped \in Seq(Message) /\ Ordered(Popped)  BY <1>1, AllHeld DEF OInv, Streams
  <2>1. CASE t \in Able
    <3>1. Waits(t, c) = queues[c][prod[t].id] /\ prod[t].id \in Producer  BY <1>2, <2>1
    <3>2. /\ queues[c][prod[t].id] \in Seq(Message) /\ Ordered(queues[c][prod[t].id])
          /\ Leads(Popped, queues[c][prod[t].id])
      BY <1>1, <3>1, AllHeld DEF OInv, Streams
    <3>3. Ordered(Popped \o Waits(t, c))  BY <2>0, <3>1, <3>2, ConcatOrders
    <3>4. ASSUME NEW m \in Range(Waits(t, c)) PROVE m.from = t /\ m.ch = c
      <4>1. m.ch = c /\ prod[m.from].id = prod[t].id /\ m.from \in Able  BY <1>4, <3>1
      <4>2. QED  BY <2>1, <4>1 DEF OInv, OwnQueues
    <3>5. QED  BY <3>3, <3>4
  <2>2. CASE t \notin Able
    <3>1. Waits(t, c) = << >>  BY <1>2, <2>2
    <3>2. << >> \in Seq(Message) /\ Ordered(<< >>) /\ Leads(Popped, << >>)
      BY <1>3 DEF Ordered, Leads
    <3>3. QED  BY <1>3, <2>0, <3>1, <3>2, ConcatOrders
  <2>3. QED  BY <2>1, <2>2
<1>11. QED  BY <1>8, <1>9, <1>10 DEF AcceptedInOrder, all

-----------------------------------------------------------------------------
(* The steps.                                                              *)

\* The executor takes nothing, and does not come back from a replay or the end.
KeepsPopped == exec'.at \in StepPhase => exec.at \in StepPhase /\ Popped' = Popped

LEMMA StreamsStill ==
  ASSUME Streams, KeepsPopped, queues' = queues
  PROVE  Streams'
<1> SUFFICES ASSUME exec'.at \in StepPhase
             PROVE  /\ Ordered(Popped')
                    /\ \A c \in Channel, p \in Producer :
                         Ordered(queues'[c][p]) /\ Leads(Popped', queues'[c][p])
  BY DEF Streams
<1>1. QED  BY DEF Streams, KeepsPopped

\* No thread begins or ends a message.
SameHands ==
  \A u \in Threads :
    /\ prod'[u].n = prod[u].n /\ prod'[u].msg = prod[u].msg
    /\ prod'[u].at \in Submitting <=> prod[u].at \in Submitting

LEMMA SameHandsHold ==
  ASSUME MlTypes, MlTypes', SameHands
  PROVE  /\ InHand' = InHand
         /\ \A m \in Message : LetGo(m)' <=> LetGo(m)
<1>1. \A u \in Threads : prod[u].at \in Submitting <=> prod[u].at \notin {"new", "toomany", "rejected", "idle"}
  BY DEF MlTypes, ProdType, Submitting
<1>2. \A u \in Threads : prod'[u].at \in Submitting <=> prod'[u].at \notin {"new", "toomany", "rejected", "idle"}
  BY DEF MlTypes, ProdType, Submitting
<1>3. InHand' = {prod'[t].msg : t \in {u \in Threads : prod'[u].at \in Submitting}}
  BY <1>2 DEF InHand
<1>4. InHand = {prod[t].msg : t \in {u \in Threads : prod[u].at \in Submitting}}
  BY <1>1 DEF InHand
<1>5. InHand' = InHand  BY <1>3, <1>4 DEF SameHands
<1>6. \A m \in Message : LetGo(m)' <=> LetGo(m)  BY DEF LetGo, Message, SameHands
<1>7. QED  BY <1>5, <1>6

LEMMA AccountedStill ==
  ASSUME MlTypes, MlTypes', Accounted, KeepsPopped, SameHands, UNCHANGED <<queues, failed>>
  PROVE  Accounted'
<1> SUFFICES ASSUME exec'.at \in StepPhase
             PROVE  /\ \A m \in failed' : m \in Message /\ LetGo(m)'
                    /\ failed' \cap Held' = {}
                    /\ \A t \in Threads : \A n \in 1 .. prod'[t].n :
                         \E m \in Held' \cup failed' \cup InHand' : m.from = t /\ m.n = n
  BY DEF Accounted
<1>1. exec.at \in StepPhase /\ Popped' = Popped /\ queues' = queues /\ failed' = failed
  BY DEF KeepsPopped
<1>2. Held' = Held  BY <1>1 DEF Held
<1>3. InHand' = InHand /\ \A m \in Message : LetGo(m)' <=> LetGo(m)  BY SameHandsHold
<1>4. \A t \in Threads : prod'[t].n = prod[t].n  BY DEF SameHands
<1>5. QED  BY <1>1, <1>2, <1>3, <1>4 DEF Accounted

\* No thread gets a number or loses it.
SameNumbers ==
  \A u \in Threads :
    /\ prod'[u].id = prod[u].id
    /\ prod'[u].at \in Submitting \cup {"idle"} <=> prod[u].at \in Submitting \cup {"idle"}
    /\ prod'[u].at = "toomany" => prod[u].at = "toomany"

LEMMA OwnStill ==
  ASSUME OwnQueues, SameNumbers
  PROVE  OwnQueues'
<1>1. Able' = Able  BY DEF Able, SameNumbers
<1>2. Able \subseteq Threads  BY DEF Able
<1>3. QED  BY <1>1, <1>2 DEF OwnQueues, SameNumbers

LEMMA OInitial == Init => OInv
<1> SUFFICES ASSUME Init PROVE OInv
  OBVIOUS
<1>1. /\ queues = [c \in Channel |-> [p \in Producer |-> << >>]]
      /\ prod = [t \in Threads |-> [at |-> "new", id |-> 0, n |-> 0, msg |-> NoMsg, seen |-> 0]]
      /\ exec.at = "idle" /\ order = << >> /\ failed = {}
  BY DEF Init, Idle
<1>2. Range(<< >>) = {} /\ Ordered(<< >>)  BY DEF Range, Ordered
<1>3. Popped = << >>  BY <1>1 DEF Popped
<1>4. Able = {}  BY <1>1 DEF Able, Submitting
<1>5. OwnQueues  BY <1>1, <1>4 DEF OwnQueues
<1>6. Streams  BY <1>1, <1>2, <1>3 DEF Streams, Leads
<1>7. Accounted
  <2>1. \A t \in Threads : 1 .. prod[t].n = {}  BY <1>1
  <2>2. QED  BY <1>1, <2>1 DEF Accounted
<1>8. Stops  BY <1>1 DEF Stops
<1>9. QED  BY <1>5, <1>6, <1>7, <1>8 DEF OInv

\* A thread that goes on inside ml_sys_submit.
LEMMA GoesOn ==
  ASSUME MInv, MInv', OInv, NEW t \in Threads,
         PushFull(t) \/ DropLoads(t) \/ Waiting(t) \/ WaitLocks(t) \/ WaitWakes(t)
  PROVE  OInv'
<1> USE DEF prodFrame, sysVars, captVars, histVars, ProdGoes
<1>0. prod \in [Threads -> ProdType]  BY DEF MInv, MlTypes
<1>1. /\ prod[t].at \in Submitting /\ prod'[t].at \in Submitting
      /\ prod'[t].n = prod[t].n /\ prod'[t].msg = prod[t].msg /\ prod'[t].id = prod[t].id
      /\ \A u \in Threads : u # t => prod'[u] = prod[u]
  <2>1. CASE DropLoads(t)  BY <1>0, <2>1 DEF DropLoads, ProdType, Submitting
  <2>2. CASE ~ DropLoads(t)
    <3>1. PICK w \in Submitting : prod' = [prod EXCEPT ![t].at = w] /\ prod[t].at \in Submitting
      BY <2>2 DEF PushFull, Waiting, WaitCounts, WaitChecks, WaitUnlocks, WaitUncounts,
                  WaitLocks, WaitWakes, Submitting
    <3>2. QED  BY <1>0, <3>1 DEF ProdType
  <2>3. QED  BY <2>1, <2>2
<1>2. UNCHANGED <<queues, exec, order, failed, running>>
  BY DEF PushFull, DropLoads, Waiting, WaitCounts, WaitChecks, WaitUnlocks, WaitUncounts,
         WaitLocks, WaitWakes
<1>3. KeepsPopped  BY <1>2 DEF KeepsPopped, Popped
<1>4. SameHands  BY <1>1 DEF SameHands
<1>5. SameNumbers
  <2>1. "toomany" \notin Submitting  BY DEF Submitting
  <2>2. QED  BY <1>1, <2>1 DEF SameNumbers
<1>6. Stops'  BY <1>2 DEF OInv, Stops
<1>7. QED  BY <1>2, <1>3, <1>4, <1>5, <1>6, StreamsStill, AccountedStill, OwnStill DEF OInv, MInv

\* ml_sys_submit returns false.
LEMMA Refuses ==
  ASSUME MInv, MInv', OInv, NEW t \in Threads, DropStores(t) \/ SubmitFails(t)
  PROVE  OInv'
<1> USE DEF captVars, sysVars, ProdGoes
<1>0. prod \in [Threads -> ProdType]  BY DEF MInv, MlTypes
<1>1. /\ prod[t].at \in Submitting /\ prod'[t].at = "idle"
      /\ prod'[t].n = prod[t].n /\ prod'[t].msg = prod[t].msg /\ prod'[t].id = prod[t].id
      /\ \A u \in Threads : u # t => prod'[u] = prod[u]
  BY <1>0 DEF DropStores, SubmitFails, ProdType, Submitting
<1>2. PICK m \in Message : m = prod[t].msg /\ m.from = t /\ m.n = prod[t].n
  BY <1>1 DEF MInv, Hands
<1>3. UNCHANGED <<queues, exec, order, running>> /\ failed' = failed \cup {m}
  BY <1>2 DEF DropStores, SubmitFails
<1>4. KeepsPopped  BY <1>3 DEF KeepsPopped, Popped
<1>5. SameNumbers
  <2>1. "toomany" # "idle"  OBVIOUS
  <2>2. QED  BY <1>1, <2>1 DEF SameNumbers
<1>6. Stops'  BY <1>3 DEF OInv, Stops
<1>7. Accounted'
  <2> SUFFICES ASSUME exec'.at \in StepPhase
               PROVE  /\ \A k \in failed' : k \in Message /\ LetGo(k)'
                      /\ failed' \cap Held' = {}
                      /\ \A u \in Threads : \A n \in 1 .. prod'[u].n :
                           \E k \in Held' \cup failed' \cup InHand' : k.from = u /\ k.n = n
    BY DEF Accounted
  <2>1. exec.at \in StepPhase /\ Held' = Held  BY <1>3, <1>4 DEF KeepsPopped, Held
  <2>2. \A k \in Message : LetGo(k) => LetGo(k)'
    BY <1>1 DEF LetGo, Message
  <2>3. LetGo(m)' /\ ~ LetGo(m)
    <3>1. prod[t].n \in Nat /\ "idle" \notin Submitting  BY <1>0 DEF ProdType, Submitting
    <3>2. QED  BY <1>1, <1>2, <3>1 DEF LetGo
  <2>4. m \notin Held  BY <2>1, <2>3, AllHeld
  <2>5. InHand \subseteq InHand' \cup {m}
    <3>1. ASSUME NEW u \in Threads, prod[u].at \notin {"new", "toomany", "rejected", "idle"}
          PROVE  prod[u].msg \in InHand' \cup {m}
      <4>1. CASE u = t  BY <1>2, <4>1
      <4>2. CASE u # t
        <5>1. prod'[u] = prod[u]  BY <1>1, <4>2
        <5>2. QED  BY <3>1, <5>1 DEF InHand
      <4>3. QED  BY <4>1, <4>2
    <3>2. QED  BY <3>1 DEF InHand
  <2>6. ASSUME NEW u \in Threads, NEW n \in 1 .. prod'[u].n
        PROVE  \E k \in Held' \cup failed' \cup InHand' : k.from = u /\ k.n = n
    <3>1. n \in 1 .. prod[u].n  BY <1>1
    <3>2. PICK k \in Held \cup failed \cup InHand : k.from = u /\ k.n = n
      BY <2>1, <3>1 DEF OInv, Accounted
    <3>3. k \in Held' \cup failed' \cup InHand'  BY <1>3, <2>1, <2>5, <3>2
    <3>4. QED  BY <3>2, <3>3
  <2>7. ASSUME NEW k \in failed' PROVE k \in Message /\ LetGo(k)'
    <3>1. CASE k = m  BY <1>2, <2>3, <3>1
    <3>2. CASE k \in failed
      <4>1. k \in Message /\ LetGo(k)  BY <2>1, <3>2 DEF OInv, Accounted
      <4>2. QED  BY <2>2, <4>1
    <3>3. QED  BY <1>3, <3>1, <3>2
  <2>8. failed' \cap Held' = {}  BY <1>3, <2>1, <2>4 DEF OInv, Accounted
  <2>9. QED  BY <2>6, <2>7, <2>8
<1>8. QED  BY <1>3, <1>4, <1>5, <1>6, <1>7, StreamsStill, OwnStill DEF OInv

\* Who registers in time gets a number no thread has; who comes too late leaves the
\* numbers as they are.
LEMMA RegistersOwn ==
  ASSUME MInv, MInv', OInv, NEW t \in Threads, Register(t) \/ RegisterFails(t)
  PROVE  OInv'
<1> USE MlAssumption DEF prodFrame, captVars, histVars, ProdGoes
<1>0. prod \in [Threads -> ProdType] /\ count = Cardinality(Registered)  BY DEF MInv, MlTypes
<1>1. UNCHANGED <<queues, exec, order, failed, running>>  BY DEF Register, RegisterFails
<1>2. /\ prod'[t].n = prod[t].n /\ prod'[t].msg = prod[t].msg
      /\ prod[t].at \in {"new", "toomany"} /\ prod'[t].at \in {"idle", "toomany", "rejected"}
      /\ \A u \in Threads : u # t => prod'[u] = prod[u]
  BY <1>0 DEF Register, RegisterFails, ProdType
<1>3. KeepsPopped  BY <1>1 DEF KeepsPopped, Popped
<1>4. SameHands  BY <1>2 DEF SameHands, Submitting
<1>5. Stops'  BY <1>1 DEF OInv, Stops
<1>6. IsFiniteSet(Able) /\ IsFiniteSet(Registered) /\ Cardinality(Able) \in Nat /\ Cardinality(Registered) \in Nat
  <2>1. IsFiniteSet(Threads)  BY FS_Interval DEF Threads
  <2>2. Able \subseteq Threads /\ Registered \subseteq Threads  BY DEF Able, Registered
  <2>3. IsFiniteSet(Able) /\ IsFiniteSet(Registered)  BY <2>1, <2>2, FS_Subset
  <2>4. QED  BY <2>3, FS_CardinalityType
<1>7. (\A u \in Threads : prod[u].at # "toomany") => Registered = Able
  BY <1>0 DEF Registered, Able, ProdType, Submitting
<1>8. t \notin Able  BY <1>2 DEF Able, Submitting
<1>9. OwnQueues'
  <2>1. CASE Register(t) /\ count < MaxProducers
    <3>1. prod'[t].at = "idle" /\ prod'[t].id = count  BY <1>0, <2>1 DEF Register, ProdType
    <3>2. Cardinality(Able) <= count
      <4>1. Able \subseteq Registered  BY DEF Able, Registered, Submitting
      <4>2. QED  BY <1>0, <1>6, <4>1, FS_Subset
    <3>3. \A u \in Threads : prod[u].at # "toomany"
      BY <1>0, <1>6, <2>1, <3>2 DEF OInv, OwnQueues
    <3>4. count = Cardinality(Able)  BY <1>0, <1>7, <3>3
    <3>5. Able' = Able \cup {t}  BY <1>2, <3>1 DEF Able
    <3>6. Cardinality(Able') = Cardinality(Able) + 1  BY <1>6, <1>8, <3>5, FS_AddElement
    <3>7. \A u \in Able : prod'[u].id = prod[u].id /\ prod[u].id < count /\ prod[u].id # count
      <4>1. \A u \in Able : u \in Threads /\ u # t  BY <1>8 DEF Able
      <4>2. \A u \in Able : prod[u].id < count /\ prod[u].id \in Int
        BY <1>0, <3>4, <4>1 DEF OInv, OwnQueues, ProdType
      <4>3. \A u \in Able : prod[u].id # count  BY <1>0, <1>6, <4>2
      <4>4. QED  BY <1>2, <4>1, <4>2, <4>3
    <3>8. \A u, v \in Able' : prod'[u].id = prod'[v].id => u = v
      <4>1. \A u, v \in Able : prod[u].id = prod[v].id => u = v  BY DEF OInv, OwnQueues
      <4>2. SUFFICES ASSUME NEW u \in Able', NEW v \in Able', prod'[u].id = prod'[v].id PROVE u = v
        OBVIOUS
      <4>3. CASE u = t \/ v = t  BY <3>1, <3>5, <3>7, <4>2, <4>3
      <4>4. CASE u # t /\ v # t  BY <3>5, <3>7, <4>1, <4>2, <4>4
      <4>5. QED  BY <4>3, <4>4
    <3>9. \A u \in Able' : prod'[u].id < Cardinality(Able')
      <4>1. \A u \in Able : prod[u].id \in Int  BY <1>0 DEF Able, ProdType
      <4>2. QED  BY <1>0, <1>6, <3>1, <3>4, <3>5, <3>6, <3>7, <4>1, SMTT(30)
    <3>10. \A u \in Threads : prod'[u].at # "toomany"  BY <1>2, <3>1, <3>3
    <3>11. QED  BY <3>8, <3>9, <3>10 DEF OwnQueues
  <2>2. CASE ~ (Register(t) /\ count < MaxProducers)
    <3>1. prod'[t].at \in {"toomany", "rejected"}
      <4>1. CASE Register(t)  BY <1>0, <2>2, <4>1 DEF Register, ProdType
      <4>2. CASE RegisterFails(t)  BY <1>0, <4>2 DEF RegisterFails, ProdType
      <4>3. QED  BY <4>1, <4>2
    <3>2. Able' = Able  BY <1>2, <1>8, <3>1 DEF Able, Submitting
    <3>3. \A u \in Able : prod'[u] = prod[u]  BY <1>2, <1>8 DEF Able
    <3>4. (\E u \in Threads : prod'[u].at = "toomany") => Cardinality(Able) >= MaxProducers
      <4>1. CASE \E u \in Threads : prod[u].at = "toomany"  BY <4>1 DEF OInv, OwnQueues
      <4>2. CASE ~ \E u \in Threads : prod[u].at = "toomany"
        <5>1. count = Cardinality(Able)  BY <1>0, <1>7, <4>2
        <5>2. RegisterFails(t) => FALSE  BY <4>2 DEF RegisterFails
        <5>3. ~ (count < MaxProducers)  BY <2>2, <5>2
        <5>4. QED  BY <1>6, <5>1, <5>3
      <4>3. QED  BY <4>1, <4>2
    <3>5. \A u, v \in Able' : prod'[u].id = prod'[v].id => u = v  BY <3>2, <3>3 DEF OInv, OwnQueues
    <3>6. \A u \in Able' : prod'[u].id < Cardinality(Able')  BY <3>2, <3>3 DEF OInv, OwnQueues
    <3>7. (\E u \in Threads : prod'[u].at = "toomany") => Cardinality(Able') >= MaxProducers
      BY <3>2, <3>4
    <3>8. QED  BY <3>5, <3>6, <3>7 DEF OwnQueues
  <2>3. QED  BY <2>1, <2>2
<1>10. QED  BY <1>1, <1>3, <1>4, <1>5, <1>9, StreamsStill, AccountedStill DEF OInv, MInv

\* ml_sys_submit begins: its message is in hand.
LEMMA CallsAccounted ==
  ASSUME MInv, MInv', OInv, NEW t \in Threads, SubmitCall(t)
  PROVE  OInv'
<1> USE DEF prodFrame, sysVars, captVars, histVars
<1>0. prod \in [Threads -> ProdType] /\ prod' \in [Threads -> ProdType]  BY DEF MInv, MlTypes
<1>1. PICK m : prod' = [prod EXCEPT ![t].at = "push", ![t].n = prod[t].n + 1, ![t].msg = m]
  BY DEF SubmitCall
<1>2. /\ prod[t].at = "idle" /\ prod'[t].at = "push" /\ prod'[t].id = prod[t].id
      /\ prod'[t].n = prod[t].n + 1 /\ prod[t].n \in Nat
      /\ \A u \in Threads : u # t => prod'[u] = prod[u]
  <2>1. prod[t].at = "idle"  BY DEF SubmitCall
  <2>2. prod'[t] = [prod[t] EXCEPT !.at = "push", !.n = prod[t].n + 1, !.msg = m]  BY <1>0, <1>1, Zenon
  <2>3. \A u \in Threads : u # t => prod'[u] = prod[u]  BY <1>0, <1>1
  <2>4. prod[t] \in ProdType  BY <1>0
  <2>5. QED  BY <2>1, <2>2, <2>3, <2>4 DEF ProdType
<1>3. UNCHANGED <<queues, exec, order, failed, running>>  BY DEF SubmitCall
<1>4. KeepsPopped  BY <1>3 DEF KeepsPopped, Popped
<1>5. SameNumbers
  <2>1. "push" \in Submitting  BY DEF Submitting
  <2>2. QED  BY <1>2, <2>1 DEF SameNumbers
<1>6. Stops'  BY <1>3 DEF OInv, Stops
<1>7. Accounted'
  <2> SUFFICES ASSUME exec'.at \in StepPhase
               PROVE  /\ \A k \in failed' : k \in Message /\ LetGo(k)'
                      /\ failed' \cap Held' = {}
                      /\ \A u \in Threads : \A n \in 1 .. prod'[u].n :
                           \E k \in Held' \cup failed' \cup InHand' : k.from = u /\ k.n = n
    BY DEF Accounted
  <2>1. exec.at \in StepPhase /\ Held' = Held  BY <1>3, <1>4 DEF KeepsPopped, Held
  <2>2. ASSUME NEW k \in Message, LetGo(k) PROVE LetGo(k)'
    <3>1. k.from \in Threads /\ k.n \in Nat  BY DEF Message
    <3>2. CASE k.from = t  BY <1>2, <2>2, <3>1, <3>2 DEF LetGo
    <3>3. CASE k.from # t  BY <1>2, <2>2, <3>1, <3>3 DEF LetGo
    <3>4. QED  BY <3>2, <3>3
  <2>3. InHand \subseteq InHand'
    <3>1. ASSUME NEW u \in Threads, prod[u].at \notin {"new", "toomany", "rejected", "idle"}
          PROVE  prod[u].msg \in InHand'
      <4>1. u # t /\ prod'[u] = prod[u]  BY <1>2, <3>1
      <4>2. QED  BY <3>1, <4>1 DEF InHand
    <3>2. QED  BY <3>1 DEF InHand
  <2>4. prod'[t].msg \in InHand' /\ prod'[t].msg.from = t /\ prod'[t].msg.n = prod[t].n + 1
    <3>1. prod'[t].at \in Submitting  BY <1>2 DEF Submitting
    <3>2. prod'[t].msg.from = t /\ prod'[t].msg.n = prod'[t].n  BY <3>1 DEF MInv, Hands
    <3>3. QED  BY <1>2, <3>2 DEF InHand
  <2>5. ASSUME NEW u \in Threads, NEW n \in 1 .. prod'[u].n
        PROVE  \E k \in Held' \cup failed' \cup InHand' : k.from = u /\ k.n = n
    <3>1. CASE u = t /\ n = prod[t].n + 1  BY <2>4, <3>1
    <3>2. CASE ~ (u = t /\ n = prod[t].n + 1)
      <4>1. n \in 1 .. prod[u].n
        <5>1. CASE u = t  BY <1>2, <3>2, <5>1
        <5>2. CASE u # t  BY <1>2, <5>2
        <5>3. QED  BY <5>1, <5>2
      <4>2. PICK k \in Held \cup failed \cup InHand : k.from = u /\ k.n = n
        BY <2>1, <4>1 DEF OInv, Accounted
      <4>3. k \in Held' \cup failed' \cup InHand'  BY <1>3, <2>1, <2>3, <4>2
      <4>4. QED  BY <4>2, <4>3
    <3>3. QED  BY <3>1, <3>2
  <2>6. \A k \in failed' : k \in Message /\ LetGo(k)'
    BY <1>3, <2>1, <2>2 DEF OInv, Accounted
  <2>7. failed' \cap Held' = {}  BY <1>3, <2>1 DEF OInv, Accounted
  <2>8. QED  BY <2>5, <2>6, <2>7
<1>8. QED  BY <1>3, <1>4, <1>5, <1>6, <1>7, StreamsStill, OwnStill DEF OInv

\* A message is put at the end of its thread's queue: what was popped of that thread
\* and what waits there came before.
LEMMA PushesInOrder ==
  ASSUME MInv, MInv', OInv, NEW t \in Threads, Push(t)
  PROVE  OInv'
<1> USE DEF prodFrame, sysVars, captVars, histVars, ProdGoes
<1>0. prod \in [Threads -> ProdType] /\ queues \in [Channel -> [Producer -> Seq(Message)]]
  BY DEF MInv, MlTypes
<1>1. /\ prod[t].at \in Submitting /\ prod'[t].at = "idle"
      /\ prod'[t].n = prod[t].n /\ prod'[t].msg = prod[t].msg /\ prod'[t].id = prod[t].id
      /\ \A u \in Threads : u # t => prod'[u] = prod[u]
  BY <1>0 DEF Push, ProdType, Submitting
<1>2. PICK m \in Message, CH \in Channel, P \in Producer :
        /\ m = prod[t].msg /\ m.from = t /\ m.n = prod[t].n /\ m.ch = CH /\ prod[t].id = P
        /\ prod[t].n \in Nat
  BY <1>0, <1>1 DEF MInv, Hands, Message, ProdType
<1>3. /\ UNCHANGED <<exec, order, failed, running>>
      /\ queues' = [queues EXCEPT ![CH][P] = Append(@, m)]
  BY <1>2 DEF Push
<1>4. /\ queues'[CH][P] = Append(queues[CH][P], m)
      /\ \A c \in Channel, q \in Producer : c # CH \/ q # P => queues'[c][q] = queues[c][q]
  BY <1>0, <1>2, <1>3
<1>5. Popped' = Popped  BY <1>3 DEF Popped
<1>6. ~ LetGo(m)  BY <1>1, <1>2 DEF LetGo
<1>7. ASSUME NEW k \in Message, LetGo(k) PROVE Precedes(k, m)
  <2>1. k.from = t => k.n < prod[t].n  BY <1>1, <1>7 DEF LetGo
  <2>2. QED  BY <1>2, <2>1 DEF Precedes
<1>8. Range(queues'[CH][P]) = Range(queues[CH][P]) \cup {m}
  BY <1>0, <1>2, <1>4, Appended
<1>9. Streams'
  <2> SUFFICES ASSUME exec'.at \in StepPhase
               PROVE  /\ Ordered(Popped')
                      /\ \A c \in Channel, q \in Producer :
                           Ordered(queues'[c][q]) /\ Leads(Popped', queues'[c][q])
    BY DEF Streams
  <2>1. exec.at \in StepPhase  BY <1>3
  <2>2. Ordered(Popped')  BY <1>5, <2>1 DEF OInv, Streams
  <2>3. ASSUME NEW c \in Channel, NEW q \in Producer
        PROVE  Ordered(queues'[c][q]) /\ Leads(Popped', queues'[c][q])
    <3>1. Ordered(queues[c][q]) /\ Leads(Popped, queues[c][q])  BY <2>1 DEF OInv, Streams
    <3>2. CASE c = CH /\ q = P
      <4>1. \A k \in Range(queues[CH][P]) : Precedes(k, m)  BY <1>7, <2>1, AllHeld
      <4>2. Ordered(queues'[c][q])
        <5>1. queues[CH][P] \in Seq(Message)  BY <1>0, <1>2
        <5>2. m \in Message /\ Ordered(queues[CH][P])  BY <1>2, <3>1, <3>2
        <5>3. Ordered(Append(queues[CH][P], m))
          <6> DEFINE s == queues[CH][P]
          <6> HIDE DEF s
          <6>1. s \in Seq(Message) /\ Ordered(s) /\ \A k \in Range(s) : Precedes(k, m)
            BY <4>1, <5>1, <5>2 DEF s
          <6>2. Ordered(Append(s, m))  BY <5>2, <6>1, AppendOrders
          <6>3. QED  BY <6>2 DEF s
        <5>4. QED  BY <1>4, <3>2, <5>3
      <4>3. \A k \in Range(Popped) : Precedes(k, m)  BY <1>7, <2>1, AllHeld
      <4>4. Leads(Popped', queues'[c][q])  BY <1>5, <1>8, <3>1, <3>2, <4>3 DEF Leads
      <4>5. QED  BY <4>2, <4>4
    <3>3. CASE ~ (c = CH /\ q = P)
      <4>1. queues'[c][q] = queues[c][q]  BY <1>4, <3>3
      <4>2. QED  BY <1>5, <3>1, <4>1
    <3>4. QED  BY <3>2, <3>3
  <2>4. QED  BY <2>2, <2>3
<1>10. Accounted'
  <2> SUFFICES ASSUME exec'.at \in StepPhase
               PROVE  /\ \A k \in failed' : k \in Message /\ LetGo(k)'
                      /\ failed' \cap Held' = {}
                      /\ \A u \in Threads : \A n \in 1 .. prod'[u].n :
                           \E k \in Held' \cup failed' \cup InHand' : k.from = u /\ k.n = n
    BY DEF Accounted
  <2>1. exec.at \in StepPhase  BY <1>3
  <2>2. Held' = Held \cup {m}
    <3>1. ASSUME NEW c \in Channel, NEW q \in Producer
          PROVE  /\ Range(queues[c][q]) \subseteq Range(queues'[c][q])
                 /\ Range(queues'[c][q]) \subseteq Range(queues[c][q]) \cup {m}
      <4>1. CASE c = CH /\ q = P  BY <1>8, <4>1
      <4>2. CASE ~ (c = CH /\ q = P)  BY <1>4, <4>2
      <4>3. QED  BY <4>1, <4>2
    <3>2. Held' = Range(Popped) \cup UNION {Range(queues'[c][q]) : c \in Channel, q \in Producer}
      BY <1>5 DEF Held
    <3>3. Held' \subseteq Held \cup {m}  BY <3>1, <3>2 DEF Held
    <3>4. Held \subseteq Held'  BY <3>1, <3>2 DEF Held
    <3>5. m \in Held'  BY <1>2, <1>8, <3>2
    <3>6. QED  BY <3>3, <3>4, <3>5
  <2>3. \A k \in Message : LetGo(k) => LetGo(k)'
    <3>1. "idle" \notin Submitting  BY DEF Submitting
    <3>2. QED  BY <1>1, <3>1 DEF LetGo, Message
  <2>4. InHand \subseteq InHand' \cup {m}
    <3>1. ASSUME NEW u \in Threads, prod[u].at \notin {"new", "toomany", "rejected", "idle"}
          PROVE  prod[u].msg \in InHand' \cup {m}
      <4>1. CASE u = t  BY <1>2, <4>1
      <4>2. CASE u # t
        <5>1. prod'[u] = prod[u]  BY <1>1, <4>2
        <5>2. QED  BY <3>1, <5>1 DEF InHand
      <4>3. QED  BY <4>1, <4>2
    <3>2. QED  BY <3>1 DEF InHand
  <2>5. ASSUME NEW u \in Threads, NEW n \in 1 .. prod'[u].n
        PROVE  \E k \in Held' \cup failed' \cup InHand' : k.from = u /\ k.n = n
    <3>1. n \in 1 .. prod[u].n  BY <1>1
    <3>2. PICK k \in Held \cup failed \cup InHand : k.from = u /\ k.n = n
      BY <2>1, <3>1 DEF OInv, Accounted
    <3>3. k \in Held' \cup failed' \cup InHand'  BY <1>3, <2>2, <2>4, <3>2
    <3>4. QED  BY <3>2, <3>3
  <2>6. \A k \in failed : k \in Message /\ LetGo(k)  BY <2>1 DEF OInv, Accounted
  <2>7. \A k \in failed' : k \in Message /\ LetGo(k)'  BY <1>3, <2>3, <2>6
  <2>8. failed' \cap Held' = {}  BY <1>3, <1>6, <2>1, <2>2, <2>6 DEF OInv, Accounted
  <2>9. QED  BY <2>5, <2>7, <2>8
<1>11. OwnQueues'
  <2>1. SameNumbers  BY <1>1 DEF SameNumbers
  <2>2. QED  BY <2>1, OwnStill DEF OInv
<1>12. Stops'  BY <1>3 DEF OInv, Stops
<1>13. QED  BY <1>9, <1>10, <1>11, <1>12 DEF OInv

\* The head of a queue goes to the executor: it came before the rest of its queue,
\* and the other queues are of other threads or channels.
LEMMA PopsInOrder ==
  ASSUME MInv, MInv', OInv, StepPops
  PROVE  OInv'
<1> USE MlAssumption DEF captVars, execFrame
<1>0. exec.at = "drain" /\ exec.at \in StepPhase /\ exec \in ExecType
  BY DEF MInv, MlTypes, StepPops, StepPhase
<1>1. PICK CH \in Channel, P \in Producer : exec.ch = CH /\ exec.p = P
  BY DEF MInv, MlTypes, ExecType, StepPops, Producer
<1>2. queues[CH][P] \in Seq(Message) /\ queues[CH][P] # << >>
  BY <1>1 DEF MInv, MlTypes, StepPops, Source
<1>3. PICK m \in Message :
        /\ m = Head(queues[CH][P])
        /\ queues' = [queues EXCEPT ![CH][P] = Tail(@)]
        /\ exec' = [exec EXCEPT !.at = "dispatch", !.msg = m, !.used = @ + 1]
  <2>1. Head(queues[CH][P]) \in Message  BY <1>2, Tailed
  <2>2. /\ queues' = [queues EXCEPT ![CH][P] = Tail(@)]
        /\ exec' = [exec EXCEPT !.at = "dispatch", !.msg = Head(queues[CH][P]), !.used = @ + 1]
    BY <1>1 DEF StepPops, Source
  <2>3. QED  BY <2>1, <2>2
<1>4. /\ queues'[CH][P] = Tail(queues[CH][P])
      /\ \A c \in Channel, q \in Producer : c # CH \/ q # P => queues'[c][q] = queues[c][q]
  BY <1>1, <1>3 DEF MInv, MlTypes
<1>5. Range(queues[CH][P]) = Range(Tail(queues[CH][P])) \cup {m}
  BY <1>2, <1>3, Tailed
<1>6. UNCHANGED <<order, prod, failed, running>>  BY DEF StepPops
<1>7. exec'.at = "dispatch" /\ exec'.msg = m  BY <1>0, <1>3 DEF ExecType
<1>8. order \in Seq(Message) /\ Popped = order /\ Popped' = Append(order, m)
  <2>1. Popped = order /\ order \in Seq(Message)  BY <1>0 DEF Popped, MInv, MlTypes
  <2>2. Popped' = Append(order', exec'.msg)  BY <1>7 DEF Popped
  <2>3. QED  BY <1>6, <1>7, <2>1, <2>2
<1>9. Range(Popped') = Range(Popped) \cup {m}  BY <1>8, Appended
<1>10. Streams'
  <2>1. /\ Ordered(Popped)
        /\ \A c \in Channel, q \in Producer : Ordered(queues[c][q]) /\ Leads(Popped, queues[c][q])
    BY <1>0 DEF OInv, Streams
  <2>2. \A a \in Range(Popped) : Precedes(a, m)  BY <1>1, <1>5, <2>1 DEF Leads
  <2>3. Ordered(Popped')  BY <1>8, <2>1, <2>2, AppendOrders
  <2>4. Ordered(Tail(queues[CH][P])) /\ \A b \in Range(Tail(queues[CH][P])) : Precedes(m, b)
    BY <1>1, <1>2, <1>3, <2>1, TailOrders
  <2>5. ASSUME NEW c \in Channel, NEW q \in Producer
        PROVE  Ordered(queues'[c][q]) /\ Leads(Popped', queues'[c][q])
    <3>1. CASE c = CH /\ q = P
      <4>1. Leads(Popped, Tail(queues[CH][P]))  BY <1>1, <1>5, <2>1 DEF Leads
      <4>2. Leads(Popped', Tail(queues[CH][P]))  BY <1>9, <2>4, <4>1 DEF Leads
      <4>3. QED  BY <1>4, <2>4, <3>1, <4>2
    <3>2. CASE ~ (c = CH /\ q = P)
      <4>1. queues'[c][q] = queues[c][q]  BY <1>4, <3>2
      <4>2. m.ch = CH /\ prod[m.from].id = P  BY <1>0, <1>1, <1>5, AllHeld
      <4>3. \A b \in Range(queues[c][q]) : b.ch = c /\ prod[b.from].id = q  BY <1>0, AllHeld
      <4>4. \A b \in Range(queues[c][q]) : Precedes(m, b)  BY <3>2, <4>2, <4>3 DEF Precedes
      <4>5. Leads(Popped', queues[c][q])  BY <1>9, <2>1, <4>4 DEF Leads
      <4>6. QED  BY <2>1, <4>1, <4>5
    <3>3. QED  BY <3>1, <3>2
  <2>6. QED  BY <2>3, <2>5 DEF Streams
<1>11. Accounted'
  <2>1. Held' = Held
    <3>1. ASSUME NEW c \in Channel, NEW q \in Producer
          PROVE  /\ Range(queues'[c][q]) \subseteq Range(queues[c][q])
                 /\ Range(queues[c][q]) \subseteq Range(queues'[c][q]) \cup {m}
      <4>1. CASE c = CH /\ q = P  BY <1>4, <1>5, <4>1
      <4>2. CASE ~ (c = CH /\ q = P)  BY <1>4, <4>2
      <4>3. QED  BY <4>1, <4>2
    <3>2. Held' = Range(Popped) \cup {m} \cup UNION {Range(queues'[c][q]) : c \in Channel, q \in Producer}
      BY <1>9 DEF Held
    <3>3. \A c \in Channel, q \in Producer : Range(queues[c][q]) \subseteq Held
      BY DEF Held
    <3>4. \A c \in Channel, q \in Producer : Range(queues'[c][q]) \subseteq Held'
      BY <3>2
    <3>5. Held' \subseteq Held
      <4>1. m \in Range(queues[CH][P])  BY <1>5
      <4>2. m \in Held  BY <1>1, <3>3, <4>1
      <4>3. ASSUME NEW c \in Channel, NEW q \in Producer PROVE Range(queues'[c][q]) \subseteq Held
        BY <3>1, <3>3
      <4>4. Range(Popped) \subseteq Held  BY DEF Held
      <4>5. QED  BY <3>2, <4>2, <4>3, <4>4
    <3>6. Held \subseteq Held'
      <4>1. m \in Held' /\ Range(Popped) \subseteq Held'  BY <3>2
      <4>2. ASSUME NEW c \in Channel, NEW q \in Producer PROVE Range(queues[c][q]) \subseteq Held'
        <5>1. Range(queues[c][q]) \subseteq Range(queues'[c][q]) \cup {m}  BY <3>1
        <5>2. Range(queues'[c][q]) \subseteq Held'  BY <3>4
        <5>3. QED  BY <4>1, <5>1, <5>2
      <4>3. QED  BY <4>1, <4>2 DEF Held
    <3>7. QED  BY <3>5, <3>6
  <2>2. \A k : LetGo(k)' = LetGo(k)  BY <1>6 DEF LetGo
  <2>3. InHand' = InHand  BY <1>6 DEF InHand
  <2>4. /\ \A k \in failed : k \in Message /\ LetGo(k)
        /\ failed \cap Held = {}
        /\ \A u \in Threads : \A n \in 1 .. prod[u].n :
             \E k \in Held \cup failed \cup InHand : k.from = u /\ k.n = n
    BY <1>0 DEF OInv, Accounted
  <2>5. \A k \in failed' : k \in Message /\ LetGo(k)'  BY <1>6, <2>2, <2>4
  <2>6. failed' \cap Held' = {}  BY <1>6, <2>1, <2>4
  <2>7. \A u \in Threads : \A n \in 1 .. prod'[u].n :
          \E k \in Held' \cup failed' \cup InHand' : k.from = u /\ k.n = n
    BY <1>6, <2>1, <2>3, <2>4
  <2>8. QED  BY <2>5, <2>6, <2>7 DEF Accounted
<1>12. OwnQueues'
  <2>1. SameNumbers  BY <1>6 DEF SameNumbers
  <2>2. QED  BY <2>1, OwnStill DEF OInv
<1>13. Stops'  BY <1>7 DEF Stops
<1>14. QED  BY <1>10, <1>11, <1>12, <1>13 DEF OInv

\* The executor's other steps, and the GPU node's, move no message out of line.
LEMMA OthersKeepOrder ==
  ASSUME MInv, MInv', OInv,
         \/ StepBegin \/ StepNextProducer \/ StepNextChannel \/ StepDispatches \/ StepLooks
         \/ Replaying \/ Waking \/ GpuRuns \/ CaptureStart \/ CaptureStop \/ ReplayBegin \/ FreeCall
         \/ UNCHANGED vars
  PROVE  OInv'
<1> USE DEF sysVars, captVars, histVars, execFrame
<1>0. exec \in ExecType /\ exec' \in ExecType /\ prod \in [Threads -> ProdType]
  BY DEF MInv, MlTypes
<1>1. UNCHANGED <<queues, failed>>
  BY DEF StepBegin, StepNextProducer, StepNextChannel, StepDispatches, StepLooks, Replaying,
         ReplayNext, ReplayEnd, Waking, StepWakes, FreeWakes, GpuRuns, CaptureStart, CaptureStop,
         ReplayBegin, FreeCall, vars
<1>2. \A u \in Threads :
        /\ prod'[u].n = prod[u].n /\ prod'[u].msg = prod[u].msg /\ prod'[u].id = prod[u].id
        /\ prod'[u].at = prod[u].at \/ (prod[u].at = "wait" /\ prod'[u].at = "lock")
  <2>1. CASE Waking
    <3>1. prod' = [u \in Threads |-> IF prod[u].at = "wait" THEN [prod[u] EXCEPT !.at = "lock"] ELSE prod[u]]
      BY <2>1 DEF Waking, StepWakes, FreeWakes, Broadcast
    <3>2. QED  BY <1>0, <3>1 DEF ProdType
  <2>2. CASE ~ Waking
    BY <2>2 DEF StepBegin, StepNextProducer, StepNextChannel, StepDispatches, StepLooks, Replaying,
                ReplayNext, ReplayEnd, GpuRuns, CaptureStart, CaptureStop, ReplayBegin, FreeCall, vars
  <2>3. QED  BY <2>1, <2>2
<1>3. SameHands /\ SameNumbers
  <2>1. "wait" \in Submitting /\ "lock" \in Submitting  BY DEF Submitting
  <2>2. QED  BY <1>2, <2>1 DEF SameHands, SameNumbers
<1>4. KeepsPopped
  <2> SUFFICES ASSUME exec'.at \in StepPhase PROVE exec.at \in StepPhase /\ Popped' = Popped
    BY DEF KeepsPopped
  <2>1. CASE StepBegin \/ StepNextProducer \/ StepNextChannel \/ StepLooks
    <3>1. order' = order /\ exec.at \in {"idle", "drain", "wake"} /\ exec'.at # "dispatch"
      BY <1>0, <2>1 DEF StepBegin, StepNextProducer, StepNextChannel, StepLooks, ExecType, Idle
    <3>2. QED  BY <3>1 DEF Popped, StepPhase
  <2>2. CASE StepDispatches
    <3>1. exec.at = "dispatch" /\ exec'.at = "drain" /\ order' = Append(order, exec.msg)
      BY <1>0, <2>2 DEF StepDispatches, Dispatch, ExecType
    <3>2. QED  BY <3>1 DEF Popped, StepPhase
  <2>3. CASE Replaying
    <3>1. exec'.at \in {"replay", "replayed"}  BY <1>0, <2>3 DEF Replaying, ReplayNext, ReplayEnd, ExecType
    <3>2. QED  BY <3>1 DEF StepPhase
  <2>4. CASE ReplayBegin \/ FreeCall
    <3>1. exec'.at \in {"replay", "free"}  BY <1>0, <2>4 DEF ReplayBegin, FreeCall, ExecType
    <3>2. QED  BY <3>1 DEF StepPhase
  <2>5. CASE Waking
    <3>1. order' = order /\ ((exec.at = "broadcast" /\ exec'.at = "idle") \/ exec'.at = "freed")
      BY <1>0, <2>5 DEF Waking, StepWakes, FreeWakes, ExecType
    <3>2. QED  BY <3>1 DEF Popped, StepPhase
  <2>6. CASE GpuRuns \/ CaptureStart \/ CaptureStop \/ UNCHANGED vars
    <3>1. order' = order /\ exec' = exec  BY <2>6 DEF GpuRuns, CaptureStart, CaptureStop, vars
    <3>2. QED  BY <3>1 DEF Popped
  <2>7. QED  BY <2>1, <2>2, <2>3, <2>4, <2>5, <2>6
<1>5. Stops'
  <2>1. CASE FreeCall  BY <2>1 DEF FreeCall, Stops
  <2>2. CASE FreeWakes
    <3>1. exec.at = "free" /\ running' = running  BY <2>2 DEF FreeWakes
    <3>2. QED  BY <3>1 DEF OInv, Stops
  <2>3. CASE ~ FreeCall /\ ~ FreeWakes
    <3>1. running' = running
      BY <2>3 DEF StepBegin, StepNextProducer, StepNextChannel, StepDispatches, StepLooks, Replaying,
           ReplayNext, ReplayEnd, Waking, StepWakes, GpuRuns, CaptureStart, CaptureStop, ReplayBegin, vars
    <3>2. exec'.at \in {"free", "freed"} => exec.at = exec'.at
      BY <1>0, <2>3 DEF StepBegin, StepNextProducer, StepNextChannel, StepDispatches, StepLooks, Replaying,
           ReplayNext, ReplayEnd, Waking, StepWakes, GpuRuns, CaptureStart, CaptureStop, ReplayBegin, vars,
           ExecType, Idle
    <3>3. QED  BY <3>1, <3>2 DEF OInv, Stops
  <2>4. QED  BY <2>1, <2>2, <2>3
<1>6. QED  BY <1>1, <1>3, <1>4, <1>5, StreamsStill, AccountedStill, OwnStill DEF OInv, MInv

LEMMA OStep == MInv /\ MInv' /\ OInv /\ [Next]_vars => OInv'
<1> SUFFICES ASSUME MInv, MInv', OInv, [Next]_vars PROVE OInv'
  OBVIOUS
<1>1. ASSUME NEW t \in Threads, SubmitCall(t) \/ SubmitGoesOn(t) \/ WaitLocks(t) \/ WaitWakes(t)
      PROVE  OInv'
  BY <1>1, CallsAccounted, RegistersOwn, PushesInOrder, GoesOn, Refuses DEF SubmitGoesOn
<1>2. CASE StepBegin \/ Stepping \/ Replaying \/ Waking
  BY <1>2, PopsInOrder, OthersKeepOrder DEF Stepping
<1>3. CASE GpuRuns \/ CaptureStart \/ CaptureStop \/ ReplayBegin \/ FreeCall \/ UNCHANGED vars
  BY <1>3, OthersKeepOrder
<1>4. QED  BY <1>1, <1>2, <1>3 DEF Next

\* Until a replay, every message submitted is dispatched once, waits in a queue that
\* is its producer's alone, is in its producer's hands, or was refused with false,
\* and each producer's messages of a channel are dispatched in the order it
\* submitted them (ml_sys_register_producer, ml_sys_submit, ml_sys_step).
THEOREM MlAcceptedInOrder == Spec => []AcceptedInOrder
<1>1. Init => MInv /\ OInv  BY MInit, OInitial
<1>2. MInv /\ OInv /\ [Next]_vars => MInv' /\ OInv'  BY MStep, OStep
<1>3. MInv /\ OInv => AcceptedInOrder  BY OrderIsKept
<1>4. QED  BY <1>1, <1>2, <1>3, PTL DEF Spec

-----------------------------------------------------------------------------
(* Tokens: the least of numbers, and what is built step by step.           *)

\* A set of numbers has one whose predecessor is not in it.
LEMMA FirstOfNat ==
  ASSUME NEW T, T \subseteq Nat, T # {}
  PROVE  \E n \in T : n = 0 \/ (n - 1 \in Nat /\ n - 1 \notin T)
<1>1. PICK n \in T : \A k \in T : ~ (<<k, n>> \in OpToRel(<, Nat))
  BY NatLessThanWellFounded, WFMin
<1>2. \A k \in T : ~ (k < n)
  <2>1. SUFFICES ASSUME NEW k \in T, k < n PROVE <<k, n>> \in OpToRel(<, Nat)
    BY <1>1
  <2>2. QED  BY <2>1 DEF OpToRel
<1>3. CASE n = 0  BY <1>3
<1>4. CASE n # 0
  <2>1. n \in Nat /\ n - 1 \in Nat /\ n - 1 < n  BY <1>4
  <2>2. n - 1 \notin T  BY <1>2, <2>1
  <2>3. QED  BY <2>1, <2>2
<1>5. QED  BY <1>3, <1>4

\* A set of numbers has a least one.
LEMMA LeastOfNat ==
  ASSUME NEW T, T \subseteq Nat, T # {}
  PROVE  \E n \in T : \A k \in T : n <= k
<1>1. PICK n \in T : \A k \in T : ~ (<<k, n>> \in OpToRel(<, Nat))
  BY NatLessThanWellFounded, WFMin
<1>2. \A k \in T : ~ (k < n)
  <2>1. SUFFICES ASSUME NEW k \in T, k < n PROVE <<k, n>> \in OpToRel(<, Nat)
    BY <1>1
  <2>2. QED  BY <2>1 DEF OpToRel
<1>3. \A k \in T : n <= k  BY <1>2
<1>4. QED  BY <1>3

\* A bounded set of numbers has a greatest one.
LEMMA GreatestOfNat ==
  ASSUME NEW T, NEW b \in Nat, T \subseteq 0 .. b, T # {}
  PROVE  \E n \in T : \A k \in T : k <= n
<1> DEFINE D == {b - k : k \in T}
<1>0. \A k \in T : k \in Int /\ b - k \in Nat  OBVIOUS
<1>1. D \subseteq Nat /\ D # {}  BY <1>0
<1>2. PICK d \in D : \A e \in D : d <= e  BY <1>1, LeastOfNat
<1>3. PICK n \in T : d = b - n  BY <1>2
<1>4. \A k \in T : b - k \in D  OBVIOUS
<1>5. ASSUME NEW k \in T PROVE k <= n
  <2>1. b - n <= b - k  BY <1>2, <1>3, <1>4
  <2>2. QED  BY <1>0, <2>1
<1>6. QED  BY <1>5

\* The sizes tried for a table.
InSizes(S, number) ==
  /\ S[0] = 1
  /\ \A n \in 1 .. 2 * number : S[n] = 2 * S[n - 1]
LEMMA SizesAre ==
  ASSUME NEW number \in Nat
  PROVE  InSizes(Sizes(number), number)
<1> DEFINE Top == 2 * number
           Zero == 1
           Is(S, n) == S = [l \in 0 .. n |-> IF l = 0 THEN Zero ELSE 2 * S[l - 1]]
           Bad == {n \in Nat : ~ \E S : Is(S, n)}
<1>0. Top \in Nat  OBVIOUS
<1>1. Sizes(number) = CHOOSE S : Is(S, Top)  BY DEF Sizes
<1> HIDE DEF Zero, Top
<1>2. Bad = {}
  <2>1. SUFFICES ASSUME Bad # {} PROVE FALSE  OBVIOUS
  <2>2. PICK n \in Bad : n = 0 \/ (n - 1 \in Nat /\ n - 1 \notin Bad)  BY <2>1, FirstOfNat
  <2>3. CASE n = 0
    <3> DEFINE S == [l \in 0 .. 0 |-> Zero]
    <3>1. Is(S, 0)  OBVIOUS
    <3>2. QED  BY <2>3, <3>1
  <2>4. CASE n # 0
    <3>1. n \in Nat /\ n - 1 \in Nat  BY <2>2, <2>4
    <3>2. PICK G : Is(G, n - 1)  BY <2>2, <2>4
    <3> DEFINE S == [l \in 0 .. n |-> IF l = n THEN 2 * G[n - 1] ELSE G[l]]
    <3>3. ASSUME NEW l \in 0 .. n
          PROVE  S[l] = IF l = 0 THEN Zero ELSE 2 * S[l - 1]
      <4>1. CASE l = n
        <5>1. n - 1 \in 0 .. n /\ n - 1 # n /\ l # 0  BY <3>1, <2>4, <4>1
        <5>2. S[n - 1] = G[n - 1]  BY <5>1
        <5>3. QED  BY <4>1, <5>1, <5>2
      <4>2. CASE l # n
        <5>1. l \in 0 .. n - 1  BY <3>1, <4>2
        <5>2. G[l] = IF l = 0 THEN Zero ELSE 2 * G[l - 1]  BY <3>2, <5>1
        <5>3. CASE l = 0  BY <4>2, <5>2, <5>3
        <5>4. CASE l # 0
          <6>1. l - 1 \in 0 .. n /\ l - 1 # n  BY <3>1, <5>1, <5>4
          <6>2. S[l - 1] = G[l - 1]  BY <6>1
          <6>3. QED  BY <4>2, <5>2, <6>2
        <5>5. QED  BY <5>3, <5>4
      <4>3. QED  BY <4>1, <4>2
    <3>4. S = [l \in 0 .. n |-> S[l]]  OBVIOUS
    <3> HIDE DEF S
    <3>5. Is(S, n)  BY <3>3, <3>4
    <3>6. QED  BY <3>5
  <2>5. QED  BY <2>3, <2>4
<1> DEFINE F == Sizes(number)
<1> HIDE DEF F
<1>4. Is(F, Top)  BY <1>0, <1>1, <1>2 DEF F
<1>5. F[0] = Zero  BY <1>0, <1>4
<1>6. ASSUME NEW n \in 1 .. Top
      PROVE  F[n] = 2 * F[n - 1]
  <2>1. n \in 0 .. Top /\ n # 0  BY <1>0
  <2>2. QED  BY <1>4, <2>1
<1>7. QED  BY <1>5, <1>6 DEF Zero, Top, F, InSizes

\* The hash, letter by letter.
InHash(S, str) ==
  /\ S[0] = 7
  /\ \A n \in 1 .. Len(str) : S[n] = HashWith(S[n - 1], str[n])
LEMMA HashStatesAre ==
  ASSUME NEW str, Len(str) \in Nat
  PROVE  InHash(HashStates(str), str)
<1> DEFINE Top == Len(str)
           Zero == 7
           Is(S, n) == S = [l \in 0 .. n |-> IF l = 0 THEN Zero ELSE HashWith(S[l - 1], str[l])]
           Bad == {n \in Nat : ~ \E S : Is(S, n)}
<1>0. Top \in Nat  OBVIOUS
<1>1. HashStates(str) = CHOOSE S : Is(S, Top)  BY DEF HashStates
<1> HIDE DEF Zero, Top
<1>2. Bad = {}
  <2>1. SUFFICES ASSUME Bad # {} PROVE FALSE  OBVIOUS
  <2>2. PICK n \in Bad : n = 0 \/ (n - 1 \in Nat /\ n - 1 \notin Bad)  BY <2>1, FirstOfNat
  <2>3. CASE n = 0
    <3> DEFINE S == [l \in 0 .. 0 |-> Zero]
    <3>1. Is(S, 0)  OBVIOUS
    <3>2. QED  BY <2>3, <3>1
  <2>4. CASE n # 0
    <3>1. n \in Nat /\ n - 1 \in Nat  BY <2>2, <2>4
    <3>2. PICK G : Is(G, n - 1)  BY <2>2, <2>4
    <3> DEFINE S == [l \in 0 .. n |-> IF l = n THEN HashWith(G[n - 1], str[n]) ELSE G[l]]
    <3>3. ASSUME NEW l \in 0 .. n
          PROVE  S[l] = IF l = 0 THEN Zero ELSE HashWith(S[l - 1], str[l])
      <4>1. CASE l = n
        <5>1. n - 1 \in 0 .. n /\ n - 1 # n /\ l # 0  BY <3>1, <2>4, <4>1
        <5>2. S[n - 1] = G[n - 1]  BY <5>1
        <5>3. QED  BY <4>1, <5>1, <5>2
      <4>2. CASE l # n
        <5>1. l \in 0 .. n - 1  BY <3>1, <4>2
        <5>2. G[l] = IF l = 0 THEN Zero ELSE HashWith(G[l - 1], str[l])  BY <3>2, <5>1
        <5>3. CASE l = 0  BY <4>2, <5>2, <5>3
        <5>4. CASE l # 0
          <6>1. l - 1 \in 0 .. n /\ l - 1 # n  BY <3>1, <5>1, <5>4
          <6>2. S[l - 1] = G[l - 1]  BY <6>1
          <6>3. QED  BY <4>2, <5>2, <6>2
        <5>5. QED  BY <5>3, <5>4
      <4>3. QED  BY <4>1, <4>2
    <3>4. S = [l \in 0 .. n |-> S[l]]  OBVIOUS
    <3> HIDE DEF S
    <3>5. Is(S, n)  BY <3>3, <3>4
    <3>6. QED  BY <3>5
  <2>5. QED  BY <2>3, <2>4
<1> DEFINE F == HashStates(str)
<1> HIDE DEF F
<1>4. Is(F, Top)  BY <1>0, <1>1, <1>2 DEF F
<1>5. F[0] = Zero  BY <1>0, <1>4
<1>6. ASSUME NEW n \in 1 .. Top
      PROVE  F[n] = HashWith(F[n - 1], str[n])
  <2>1. n \in 0 .. Top /\ n # 0  BY <1>0
  <2>2. QED  BY <1>4, <2>1
<1>7. QED  BY <1>5, <1>6 DEF Zero, Top, F, InHash

\* A table, entry by entry.
InBuilt(S, strings, size) ==
  /\ S[0] = [s \in 0 .. size - 1 |-> 0]
  /\ \A n \in 1 .. Len(strings) : S[n] = Inserted(S[n - 1], size, strings[n], n)
LEMMA BuiltStatesAre ==
  ASSUME NEW strings, NEW size, Len(strings) \in Nat
  PROVE  InBuilt(BuiltStates(strings, size), strings, size)
<1> DEFINE Top == Len(strings)
           Zero == [s \in 0 .. size - 1 |-> 0]
           Is(S, n) == S = [l \in 0 .. n |-> IF l = 0 THEN Zero ELSE Inserted(S[l - 1], size, strings[l], l)]
           Bad == {n \in Nat : ~ \E S : Is(S, n)}
<1>0. Top \in Nat  OBVIOUS
<1>1. BuiltStates(strings, size) = CHOOSE S : Is(S, Top)  BY DEF BuiltStates
<1> HIDE DEF Zero, Top
<1>2. Bad = {}
  <2>1. SUFFICES ASSUME Bad # {} PROVE FALSE  OBVIOUS
  <2>2. PICK n \in Bad : n = 0 \/ (n - 1 \in Nat /\ n - 1 \notin Bad)  BY <2>1, FirstOfNat
  <2>3. CASE n = 0
    <3> DEFINE S == [l \in 0 .. 0 |-> Zero]
    <3>1. Is(S, 0)  OBVIOUS
    <3>2. QED  BY <2>3, <3>1
  <2>4. CASE n # 0
    <3>1. n \in Nat /\ n - 1 \in Nat  BY <2>2, <2>4
    <3>2. PICK G : Is(G, n - 1)  BY <2>2, <2>4
    <3> DEFINE S == [l \in 0 .. n |-> IF l = n THEN Inserted(G[n - 1], size, strings[n], n) ELSE G[l]]
    <3>3. ASSUME NEW l \in 0 .. n
          PROVE  S[l] = IF l = 0 THEN Zero ELSE Inserted(S[l - 1], size, strings[l], l)
      <4>1. CASE l = n
        <5>1. n - 1 \in 0 .. n /\ n - 1 # n /\ l # 0  BY <3>1, <2>4, <4>1
        <5>2. S[n - 1] = G[n - 1]  BY <5>1
        <5>3. QED  BY <4>1, <5>1, <5>2
      <4>2. CASE l # n
        <5>1. l \in 0 .. n - 1  BY <3>1, <4>2
        <5>2. G[l] = IF l = 0 THEN Zero ELSE Inserted(G[l - 1], size, strings[l], l)  BY <3>2, <5>1
        <5>3. CASE l = 0  BY <4>2, <5>2, <5>3
        <5>4. CASE l # 0
          <6>1. l - 1 \in 0 .. n /\ l - 1 # n  BY <3>1, <5>1, <5>4
          <6>2. S[l - 1] = G[l - 1]  BY <6>1
          <6>3. QED  BY <4>2, <5>2, <6>2
        <5>5. QED  BY <5>3, <5>4
      <4>3. QED  BY <4>1, <4>2
    <3>4. S = [l \in 0 .. n |-> S[l]]  OBVIOUS
    <3> HIDE DEF S
    <3>5. Is(S, n)  BY <3>3, <3>4
    <3>6. QED  BY <3>5
  <2>5. QED  BY <2>3, <2>4
<1> DEFINE F == BuiltStates(strings, size)
<1> HIDE DEF F
<1>4. Is(F, Top)  BY <1>0, <1>1, <1>2 DEF F
<1>5. F[0] = Zero  BY <1>0, <1>4
<1>6. ASSUME NEW n \in 1 .. Top
      PROVE  F[n] = Inserted(F[n - 1], size, strings[n], n)
  <2>1. n \in 0 .. Top /\ n # 0  BY <1>0
  <2>2. QED  BY <1>4, <2>1
<1>7. QED  BY <1>5, <1>6 DEF Zero, Top, F, InBuilt

\* Sequences behind one another, one by one.
InJoin(S, seqs) ==
  /\ S[0] = <<>>
  /\ \A n \in 1 .. Len(seqs) : S[n] = S[n - 1] \o seqs[n]
LEMMA JoinStatesAre ==
  ASSUME NEW seqs, Len(seqs) \in Nat
  PROVE  InJoin(JoinStates(seqs), seqs)
<1> DEFINE Top == Len(seqs)
           Zero == <<>>
           Is(S, n) == S = [l \in 0 .. n |-> IF l = 0 THEN Zero ELSE S[l - 1] \o seqs[l]]
           Bad == {n \in Nat : ~ \E S : Is(S, n)}
<1>0. Top \in Nat  OBVIOUS
<1>1. JoinStates(seqs) = CHOOSE S : Is(S, Top)  BY DEF JoinStates
<1> HIDE DEF Zero, Top
<1>2. Bad = {}
  <2>1. SUFFICES ASSUME Bad # {} PROVE FALSE  OBVIOUS
  <2>2. PICK n \in Bad : n = 0 \/ (n - 1 \in Nat /\ n - 1 \notin Bad)  BY <2>1, FirstOfNat
  <2>3. CASE n = 0
    <3> DEFINE S == [l \in 0 .. 0 |-> Zero]
    <3>1. Is(S, 0)  OBVIOUS
    <3>2. QED  BY <2>3, <3>1
  <2>4. CASE n # 0
    <3>1. n \in Nat /\ n - 1 \in Nat  BY <2>2, <2>4
    <3>2. PICK G : Is(G, n - 1)  BY <2>2, <2>4
    <3> DEFINE S == [l \in 0 .. n |-> IF l = n THEN G[n - 1] \o seqs[n] ELSE G[l]]
    <3>3. ASSUME NEW l \in 0 .. n
          PROVE  S[l] = IF l = 0 THEN Zero ELSE S[l - 1] \o seqs[l]
      <4>1. CASE l = n
        <5>1. n - 1 \in 0 .. n /\ n - 1 # n /\ l # 0  BY <3>1, <2>4, <4>1
        <5>2. S[n - 1] = G[n - 1]  BY <5>1
        <5>3. QED  BY <4>1, <5>1, <5>2
      <4>2. CASE l # n
        <5>1. l \in 0 .. n - 1  BY <3>1, <4>2
        <5>2. G[l] = IF l = 0 THEN Zero ELSE G[l - 1] \o seqs[l]  BY <3>2, <5>1
        <5>3. CASE l = 0  BY <4>2, <5>2, <5>3
        <5>4. CASE l # 0
          <6>1. l - 1 \in 0 .. n /\ l - 1 # n  BY <3>1, <5>1, <5>4
          <6>2. S[l - 1] = G[l - 1]  BY <6>1
          <6>3. QED  BY <4>2, <5>2, <6>2
        <5>5. QED  BY <5>3, <5>4
      <4>3. QED  BY <4>1, <4>2
    <3>4. S = [l \in 0 .. n |-> S[l]]  OBVIOUS
    <3> HIDE DEF S
    <3>5. Is(S, n)  BY <3>3, <3>4
    <3>6. QED  BY <3>5
  <2>5. QED  BY <2>3, <2>4
<1> DEFINE F == JoinStates(seqs)
<1> HIDE DEF F
<1>4. Is(F, Top)  BY <1>0, <1>1, <1>2 DEF F
<1>5. F[0] = Zero  BY <1>0, <1>4
<1>6. ASSUME NEW n \in 1 .. Top
      PROVE  F[n] = F[n - 1] \o seqs[n]
  <2>1. n \in 0 .. Top /\ n # 0  BY <1>0
  <2>2. QED  BY <1>4, <2>1
<1>7. QED  BY <1>5, <1>6 DEF Zero, Top, F, InJoin

-----------------------------------------------------------------------------
(* Tables: every entry is found from its string, and nothing else is.       *)

\* A table has room for twice as many entries.
LEMMA TableSizeIs ==
  ASSUME NEW n \in Nat
  PROVE  TableSize(n) \in Nat \ {0} /\ TableSize(n) >= 2 * n
<1> DEFINE S == Sizes(n)
           N == 2 * n
<1>0. N \in Nat  OBVIOUS
<1>1. S[0] = 1 /\ \A k \in 1 .. N : S[k] = 2 * S[k - 1]  BY SizesAre DEF InSizes
<1> DEFINE Bad == {k \in 0 .. N : ~ (S[k] \in Nat /\ S[k] >= k + 1)}
<1> HIDE DEF S, N
<1>2. Bad = {}
  <2>1. SUFFICES ASSUME Bad # {} PROVE FALSE  OBVIOUS
  <2>2. PICK k \in Bad : k = 0 \/ (k - 1 \in Nat /\ k - 1 \notin Bad)
    <3>1. Bad \subseteq Nat  BY <1>0
    <3>2. QED  BY <2>1, <3>1, FirstOfNat
  <2>3. CASE k = 0  BY <1>1, <2>2, <2>3
  <2>4. CASE k # 0
    <3>1. k \in 1 .. N /\ k - 1 \in 0 .. N  BY <1>0, <2>2, <2>4
    <3>2. S[k - 1] \in Nat /\ S[k - 1] >= k  BY <2>2, <2>4, <3>1
    <3>3. S[k] = 2 * S[k - 1]  BY <1>1, <3>1
    <3>4. S[k] \in Nat /\ S[k] >= k + 1  BY <3>1, <3>2, <3>3
    <3>5. QED  BY <2>2, <3>4
  <2>5. QED  BY <2>3, <2>4
<1> DEFINE Big == {k \in 0 .. N : S[k] >= N}
<1>3. N \in Big  BY <1>0, <1>2
<1>4. PICK k \in Big : \A i \in Big : k <= i
  <2>1. Big \subseteq Nat  BY <1>0
  <2>2. QED  BY <1>3, <2>1, LeastOfNat
<1> DEFINE Enough(j) == S[j] >= N /\ \A i \in 0 .. j - 1 : S[i] < N
<1>5. k \in 0 .. N /\ Enough(k)
  <2>1. \A i \in 0 .. k - 1 : i \in 0 .. N /\ i \notin Big  BY <1>0, <1>4
  <2>2. \A i \in 0 .. k - 1 : S[i] < N  BY <1>0, <1>2, <2>1
  <2>3. QED  BY <1>4, <2>2
<1> DEFINE c == CHOOSE j \in 0 .. N : Enough(j)
<1>6. c \in 0 .. N /\ Enough(c)  BY <1>5
<1>7. TableSize(n) = S[c]  BY DEF TableSize, S, N
<1> HIDE DEF c
<1>8. S[c] \in Nat /\ S[c] >= c + 1 /\ S[c] >= N  BY <1>2, <1>6
<1>9. QED  BY <1>6, <1>7, <1>8 DEF N

\* The offsets from a hash are places of the table, and reach each of them.
LEMMA ProbeIs ==
  ASSUME NEW size \in Nat \ {0}, NEW h \in 0 .. size - 1
  PROVE  /\ \A i \in 0 .. size - 1 : Probe(h, i, size) = IF h + i < size THEN h + i ELSE h + i - size
         /\ \A i \in 0 .. size - 1 : Probe(h, i, size) \in 0 .. size - 1
         /\ \A s \in 0 .. size - 1 : \E i \in 0 .. size - 1 : Probe(h, i, size) = s
<1>1. ASSUME NEW i \in 0 .. size - 1
      PROVE  Probe(h, i, size) = IF h + i < size THEN h + i ELSE h + i - size
  <2>1. CASE h + i < size
    <3>1. (h + i) % size = h + i  BY <2>1, SMT
    <3>2. QED  BY <2>1, <3>1 DEF Probe
  <2>2. CASE h + i >= size
    <3>1. (h + i) % size = h + i - size  BY <2>2, SMT
    <3>2. QED  BY <2>2, <3>1 DEF Probe
  <2>3. QED  BY <2>1, <2>2
<1>2. \A i \in 0 .. size - 1 : Probe(h, i, size) \in 0 .. size - 1  BY <1>1
<1>3. ASSUME NEW s \in 0 .. size - 1
      PROVE  \E i \in 0 .. size - 1 : Probe(h, i, size) = s
  <2> DEFINE i == IF s >= h THEN s - h ELSE s - h + size
  <2>1. i \in 0 .. size - 1  OBVIOUS
  <2>2. (IF h + i < size THEN h + i ELSE h + i - size) = s  OBVIOUS
  <2> HIDE DEF i
  <2>3. QED  BY <1>1, <2>1, <2>2
<1>4. QED  BY <1>1, <1>2, <1>3

LEMMA HashIs ==
  ASSUME NEW str \in Seq(Letters), NEW size \in Nat \ {0}
  PROVE  HashOf(str, size) \in 0 .. size - 1
<1> DEFINE S == HashStates(str)
           N == Len(str)
           Bad == {k \in 0 .. N : S[k] \notin Nat}
<1>0. N \in Nat /\ \A k \in 1 .. N : str[k] \in Nat
  <2>1. Letters \subseteq Nat  BY TokensAssumption
  <2>2. N \in Nat /\ \A k \in 1 .. N : str[k] \in Letters  OBVIOUS
  <2>3. QED  BY <2>1, <2>2
<1>1. S[0] = 7 /\ \A k \in 1 .. N : S[k] = HashWith(S[k - 1], str[k])
  BY HashStatesAre DEF InHash
<1> HIDE DEF S, N
<1>2. Bad = {}
  <2>1. SUFFICES ASSUME Bad # {} PROVE FALSE  OBVIOUS
  <2>2. PICK k \in Bad : k = 0 \/ (k - 1 \in Nat /\ k - 1 \notin Bad)
    <3>1. Bad \subseteq Nat  BY <1>0
    <3>2. QED  BY <2>1, <3>1, FirstOfNat
  <2>3. CASE k = 0  BY <1>1, <2>2, <2>3
  <2>4. CASE k # 0
    <3>1. k \in 1 .. N /\ k - 1 \in 0 .. N  BY <1>0, <2>2, <2>4
    <3>2. S[k - 1] \in Nat /\ str[k] \in Nat  BY <1>0, <2>2, <2>4, <3>1
    <3>3. HashWith(S[k - 1], str[k]) \in Nat  BY <3>2 DEF HashWith
    <3>4. QED  BY <1>1, <2>2, <3>1, <3>3
  <2>5. QED  BY <2>3, <2>4
<1>3. S[N] \in Nat  BY <1>0, <1>2
<1> DEFINE h == S[N]
<1>4. HashOf(str, size) = h % size  BY DEF HashOf, S, N
<1>5. h \in Nat  BY <1>3
<1> HIDE DEF h
<1>6. h % size \in 0 .. size - 1  BY <1>5, SMT
<1>7. QED  BY <1>4, <1>6

\* A table of the first n strings: every cell is empty or holds an entry of its own, and
\* the probes for an entry's string reach it before an empty cell.
TableOk(table, strings, size, n) ==
  /\ table \in [0 .. size - 1 -> 0 .. n]
  /\ \A s, t \in 0 .. size - 1 : table[s] # 0 /\ table[s] = table[t] => s = t
  /\ \A j \in 1 .. n : \E i \in 0 .. size - 1 :
        /\ table[Probe(HashOf(strings[j], size), i, size)] = j
        /\ \A k \in 0 .. i - 1 : table[Probe(HashOf(strings[j], size), k, size)] # 0

\* A table with more cells than entries has an empty one.
LEMMA EmptyCell ==
  ASSUME NEW size \in Nat \ {0}, NEW n \in Nat, n < size, NEW table, NEW strings,
         TableOk(table, strings, size, n)
  PROVE  \E s \in 0 .. size - 1 : table[s] = 0
<1>1. SUFFICES ASSUME \A s \in 0 .. size - 1 : table[s] # 0 PROVE FALSE  OBVIOUS
<1>2. table \in [0 .. size - 1 -> 1 .. n]
  <2>1. table \in [0 .. size - 1 -> 0 .. n]  BY DEF TableOk
  <2>2. \A s \in 0 .. size - 1 : table[s] \in 1 .. n  BY <1>1, <2>1
  <2> DEFINE P == 0 .. size - 1
             V == 1 .. n
             U == 0 .. n
  <2>3. table \in [P -> U] /\ \A s \in P : table[s] \in V  BY <2>1, <2>2
  <2> HIDE DEF P, V, U
  <2>4. table \in [P -> V]  BY <2>3
  <2>5. QED  BY <2>4 DEF P, V
<1>3. IsFiniteSet(0 .. size - 1) /\ Cardinality(0 .. size - 1) = size
  <2>1. size - 1 \in Int /\ ~ (0 > size - 1) /\ (size - 1) - 0 + 1 = size  OBVIOUS
  <2>2. IsFiniteSet(0 .. size - 1)  BY <2>1, FS_Interval
  <2>3. Cardinality(0 .. size - 1) = size  BY <2>1, FS_Interval
  <2>4. QED  BY <2>2, <2>3
<1>4. IsFiniteSet(1 .. n) /\ Cardinality(1 .. n) = n  BY FS_Interval
<1>5. \E s, t \in 0 .. size - 1 : s # t /\ table[s] = table[t]
  <2> DEFINE P == 0 .. size - 1
             V == 1 .. n
  <2>1. IsFiniteSet(P) /\ IsFiniteSet(V) /\ Cardinality(V) < Cardinality(P) /\ table \in [P -> V]
    BY <1>2, <1>3, <1>4
  <2> HIDE DEF P, V
  <2>2. \E s, t \in P : s # t /\ table[s] = table[t]  BY <2>1, FS_PigeonHole
  <2>3. QED  BY <2>2 DEF P
<1>6. QED  BY <1>1, <1>5 DEF TableOk

\* The next entry goes into an empty cell, before which its probes find none.
LEMMA InsertedIs ==
  ASSUME NEW size \in Nat \ {0}, NEW n \in Nat, n < size, NEW table, NEW strings,
         TableOk(table, strings, size, n), strings[n + 1] \in Seq(Letters),
         \A j \in 1 .. n : strings[j] \in Seq(Letters)
  PROVE  TableOk(Inserted(table, size, strings[n + 1], n + 1), strings, size, n + 1)
<1> DEFINE at(j, i) == Probe(HashOf(strings[j], size), i, size)
           free == {i \in 0 .. size - 1 : table[at(n + 1, i)] = 0}
           f == CHOOSE i \in free : \A j \in free : i <= j
           c == at(n + 1, f)
           after == Inserted(table, size, strings[n + 1], n + 1)
<1>1. after = [table EXCEPT ![c] = n + 1]  BY DEF Inserted
<1>2. \A j \in 1 .. n + 1 : HashOf(strings[j], size) \in 0 .. size - 1
  <2>1. \A j \in 1 .. n + 1 : strings[j] \in Seq(Letters)  OBVIOUS
  <2>2. QED  BY <2>1, HashIs
<1>3. \A j \in 1 .. n + 1 : \A i \in 0 .. size - 1 : at(j, i) \in 0 .. size - 1
  BY <1>2, ProbeIs
<1>4. free # {}
  <2>1. PICK s \in 0 .. size - 1 : table[s] = 0  BY EmptyCell
  <2>2. HashOf(strings[n + 1], size) \in 0 .. size - 1  BY <1>2
  <2>3. PICK i \in 0 .. size - 1 : at(n + 1, i) = s  BY <2>2, ProbeIs
  <2>4. QED  BY <2>1, <2>3
<1>5. f \in free /\ \A j \in free : f <= j
  <2>1. free \subseteq Nat  OBVIOUS
  <2>2. \E i \in free : \A j \in free : i <= j  BY <1>4, <2>1, LeastOfNat
  <2>3. QED  BY <2>2
<1>6. f \in 0 .. size - 1 /\ table[c] = 0 /\ c \in 0 .. size - 1
      /\ \A k \in 0 .. f - 1 : table[at(n + 1, k)] # 0
  <2>1. f \in 0 .. size - 1 /\ table[c] = 0  BY <1>5
  <2>2. c \in 0 .. size - 1  BY <1>3, <2>1
  <2>3. ASSUME NEW k \in 0 .. f - 1 PROVE table[at(n + 1, k)] # 0
    <3>1. k \in 0 .. size - 1 /\ ~ (f <= k)  BY <2>1
    <3>2. QED  BY <1>5, <3>1
  <2>4. QED  BY <2>1, <2>2, <2>3
<1> HIDE DEF f, c, free, after
<1>7. /\ DOMAIN table = 0 .. size - 1 /\ \A s \in 0 .. size - 1 : table[s] \in 0 .. n
      /\ \A s, t \in 0 .. size - 1 : table[s] # 0 /\ table[s] = table[t] => s = t
      /\ \A j \in 1 .. n : \E i \in 0 .. size - 1 :
            table[at(j, i)] = j /\ \A k \in 0 .. i - 1 : table[at(j, k)] # 0
  BY DEF TableOk
<1>8. /\ DOMAIN after = 0 .. size - 1
      /\ \A s \in 0 .. size - 1 : after[s] = IF s = c THEN n + 1 ELSE table[s]
  BY <1>1, <1>6, <1>7
<1>9. after \in [0 .. size - 1 -> 0 .. n + 1]
  <2>0. \A s \in 0 .. size - 1 : table[s] \in 0 .. n  BY <1>7
  <2>1. ASSUME NEW s \in 0 .. size - 1 PROVE after[s] \in 0 .. n + 1
    <3>1. CASE s = c  BY <1>8, <3>1
    <3>2. CASE s # c
      <4>1. after[s] = table[s] /\ table[s] \in 0 .. n  BY <1>8, <2>0, <3>2
      <4>2. QED  BY <4>1
    <3>3. QED  BY <3>1, <3>2
  <2>2. after = [s \in DOMAIN table |-> after[s]]  BY <1>1
  <2>3. QED  BY <1>7, <2>1, <2>2
<1>10. \A s, t \in 0 .. size - 1 : after[s] # 0 /\ after[s] = after[t] => s = t
  BY <1>7, <1>8, SMTT(30)
<1>11. \A s \in 0 .. size - 1 : table[s] # 0 => after[s] = table[s] /\ after[s] # 0
  BY <1>6, <1>8
<1>12. ASSUME NEW j \in 1 .. n + 1
       PROVE  \E i \in 0 .. size - 1 :
                after[at(j, i)] = j /\ \A k \in 0 .. i - 1 : after[at(j, k)] # 0
  <2>1. CASE j = n + 1
    <3>1. after[at(j, f)] = j  BY <1>6, <1>8, <2>1 DEF c
    <3>2. ASSUME NEW k \in 0 .. f - 1 PROVE after[at(j, k)] # 0
      <4>1. k \in 0 .. size - 1  BY <1>6
      <4>2. at(j, k) \in 0 .. size - 1  BY <1>3, <4>1
      <4>3. QED  BY <1>6, <1>11, <2>1, <4>2
    <3>3. QED  BY <1>6, <3>1, <3>2
  <2>2. CASE j # n + 1
    <3>0. j \in 1 .. n  BY <2>2
    <3>1. PICK i \in 0 .. size - 1 : table[at(j, i)] = j /\ \A k \in 0 .. i - 1 : table[at(j, k)] # 0
      BY <1>7, <3>0
    <3>2. after[at(j, i)] = j
      <4>1. at(j, i) \in 0 .. size - 1  BY <1>3
      <4>2. table[at(j, i)] # 0  BY <3>0, <3>1
      <4>3. QED  BY <1>11, <3>1, <4>1, <4>2
    <3>3. ASSUME NEW k \in 0 .. i - 1 PROVE after[at(j, k)] # 0
      <4>1. k \in 0 .. size - 1  OBVIOUS
      <4>2. at(j, k) \in 0 .. size - 1  BY <1>3, <4>1
      <4>3. QED  BY <1>11, <3>1, <4>2
    <3>4. QED  BY <3>2, <3>3
  <2>3. QED  BY <2>1, <2>2
<1>13. QED  BY <1>9, <1>10, <1>12 DEF TableOk, after

\* What hs_tokenizer_init and bpe_build_ranks build.
LEMMA BuiltIs ==
  ASSUME NEW strings \in Seq(Seq(Letters))
  PROVE  TableOk(Built(strings), strings, TableSize(Len(strings)), Len(strings))
<1> DEFINE N == Len(strings)
           size == TableSize(N)
           S == BuiltStates(strings, size)
           Bad == {n \in 0 .. N : ~ TableOk(S[n], strings, size, n)}
<1>0. N \in Nat /\ size \in Nat \ {0} /\ size >= 2 * N  BY TableSizeIs
<1>1. /\ S[0] = [s \in 0 .. size - 1 |-> 0]
      /\ \A n \in 1 .. N : S[n] = Inserted(S[n - 1], size, strings[n], n)
  BY BuiltStatesAre DEF InBuilt
<1>2. \A j \in 1 .. N : strings[j] \in Seq(Letters)  OBVIOUS
<1> HIDE DEF N, size, S
<1>3. Bad = {}
  <2>1. SUFFICES ASSUME Bad # {} PROVE FALSE  OBVIOUS
  <2>2. PICK n \in Bad : n = 0 \/ (n - 1 \in Nat /\ n - 1 \notin Bad)
    <3>1. Bad \subseteq Nat  BY <1>0
    <3>2. QED  BY <2>1, <3>1, FirstOfNat
  <2>3. CASE n = 0
    <3>1. TableOk(S[0], strings, size, 0)  BY <1>0, <1>1 DEF TableOk
    <3>2. QED  BY <2>2, <2>3, <3>1
  <2>4. CASE n # 0
    <3>1. n \in 1 .. N /\ n - 1 \in 0 .. N /\ n - 1 \in Nat  BY <1>0, <2>2, <2>4
    <3>2. TableOk(S[n - 1], strings, size, n - 1)  BY <2>2, <2>4, <3>1
    <3>3. S[n] = Inserted(S[n - 1], size, strings[n], n)  BY <1>1, <3>1
    <3>4. n - 1 < size /\ (n - 1) + 1 = n  BY <1>0, <3>1
    <3>5. strings[n] \in Seq(Letters) /\ \A j \in 1 .. n - 1 : strings[j] \in Seq(Letters)
      BY <1>0, <1>2, <3>1
    <3> DEFINE m == n - 1
    <3>6. m \in Nat /\ m < size /\ n = m + 1 /\ TableOk(S[m], strings, size, m)
          /\ \A j \in 1 .. m : strings[j] \in Seq(Letters)
      BY <3>1, <3>2, <3>4, <3>5
    <3> HIDE DEF m
    <3>7. TableOk(Inserted(S[m], size, strings[m + 1], m + 1), strings, size, m + 1)
      BY <1>0, <3>5, <3>6, InsertedIs
    <3>8. TableOk(S[n], strings, size, n)  BY <3>3, <3>6, <3>7 DEF m
    <3>9. QED  BY <2>2, <3>8
  <2>5. QED  BY <2>3, <2>4
<1>4. TableOk(S[N], strings, size, N)  BY <1>0, <1>3
<1>5. QED  BY <1>4 DEF Built, S, N, size

\* A look-up answers with an entry of that string, and with none only if there is none.
LEMMA FoundIs ==
  ASSUME NEW strings \in Seq(Seq(Letters)), NEW str \in Seq(Letters), NEW table,
         table = Built(strings)
  PROVE  /\ Found(table, strings, str) \in 0 .. Len(strings)
         /\ Found(table, strings, str) # 0 => strings[Found(table, strings, str)] = str
         /\ Found(table, strings, str) = 0 => \A j \in 1 .. Len(strings) : strings[j] # str
<1> DEFINE N == Len(strings)
           size == Cardinality(DOMAIN table)
           At(i) == table[Probe(HashOf(str, size), i, size)]
           hits == {i \in 0 .. size - 1 : At(i) # 0 /\ strings[At(i)] = str
                                          /\ \A j \in 0 .. i - 1 : At(j) # 0}
           f == CHOOSE i \in hits : \A j \in hits : i <= j
           got == Found(table, strings, str)
<1>0. N \in Nat /\ size = TableSize(N) /\ size \in Nat \ {0}
  <2> DEFINE n == TableSize(N)
  <2>1. n \in Nat \ {0}  BY TableSizeIs
  <2>2. DOMAIN table = 0 .. n - 1  BY BuiltIs DEF TableOk
  <2> HIDE DEF n
  <2>3. Cardinality(0 .. n - 1) = n  BY <2>1, FS_Interval
  <2>4. QED  BY <2>1, <2>2, <2>3 DEF n
<1>1. TableOk(table, strings, size, N)  BY <1>0, BuiltIs
<1>3. got = IF hits = {} THEN 0 ELSE At(f)  BY DEF Found
<1> HIDE DEF size
<1>4. \A i \in 0 .. size - 1 : At(i) \in 0 .. N
  <2> HIDE DEF N
  <2>1. HashOf(str, size) \in 0 .. size - 1  BY <1>0, HashIs
  <2>2. \A i \in 0 .. size - 1 : Probe(HashOf(str, size), i, size) \in 0 .. size - 1
    BY <1>0, <2>1, ProbeIs
  <2>3. QED  BY <1>1, <2>2 DEF TableOk
<1>5. ASSUME NEW j \in 1 .. N, strings[j] = str PROVE hits # {}
  <2>1. PICK i \in 0 .. size - 1 :
           /\ table[Probe(HashOf(strings[j], size), i, size)] = j
           /\ \A k \in 0 .. i - 1 : table[Probe(HashOf(strings[j], size), k, size)] # 0
    BY <1>1 DEF TableOk
  <2>2. i \in hits  BY <1>5, <2>1
  <2>3. QED  BY <2>2
<1>6. ASSUME hits # {} PROVE f \in hits
  <2>1. hits \subseteq Nat  BY <1>0
  <2>2. \E i \in hits : \A j \in hits : i <= j  BY <1>6, <2>1, LeastOfNat
  <2>3. QED  BY <2>2
<1> HIDE DEF f, got
<1>7. CASE hits = {}  BY <1>0, <1>3, <1>5, <1>7 DEF got
<1>8. CASE hits # {}
  <2>1. f \in 0 .. size - 1 /\ At(f) # 0 /\ strings[At(f)] = str  BY <1>6, <1>8
  <2>2. At(f) \in 0 .. N  BY <1>4, <2>1
  <2>3. got = At(f)  BY <1>3, <1>8
  <2>4. QED  BY <2>1, <2>2, <2>3 DEF got
<1>9. QED  BY <1>7, <1>8

-----------------------------------------------------------------------------
(* Sequences behind one another, and what tokens spell.                     *)

LEMMA JoinIs ==
  ASSUME NEW X, NEW seqs \in Seq(Seq(X))
  PROVE  /\ JoinStates(seqs)[0] = <<>>
         /\ \A n \in 1 .. Len(seqs) : JoinStates(seqs)[n] = JoinStates(seqs)[n - 1] \o seqs[n]
         /\ \A n \in 0 .. Len(seqs) : JoinStates(seqs)[n] \in Seq(X)
         /\ Joined(seqs) \in Seq(X)
<1> DEFINE S == JoinStates(seqs)
           N == Len(seqs)
           Bad == {n \in 0 .. N : S[n] \notin Seq(X)}
<1>0. N \in Nat /\ \A n \in 1 .. N : seqs[n] \in Seq(X)  OBVIOUS
<1>1. S[0] = <<>> /\ \A n \in 1 .. N : S[n] = S[n - 1] \o seqs[n]
  BY <1>0, JoinStatesAre DEF InJoin
<1> HIDE DEF S, N
<1>2. Bad = {}
  <2>1. SUFFICES ASSUME Bad # {} PROVE FALSE  OBVIOUS
  <2>2. PICK n \in Bad : n = 0 \/ (n - 1 \in Nat /\ n - 1 \notin Bad)
    <3>1. Bad \subseteq Nat  BY <1>0
    <3>2. QED  BY <2>1, <3>1, FirstOfNat
  <2>3. CASE n = 0
    <3>1. S[0] \in Seq(X)  BY <1>1, EmptySeq
    <3>2. QED  BY <2>2, <2>3, <3>1
  <2>4. CASE n # 0
    <3>1. n \in 1 .. N /\ n - 1 \in 0 .. N  BY <1>0, <2>2, <2>4
    <3>2. S[n - 1] \in Seq(X)  BY <2>2, <2>4, <3>1
    <3>3. seqs[n] \in Seq(X)  BY <1>0, <3>1
    <3>4. S[n - 1] \o seqs[n] \in Seq(X)  BY <3>2, <3>3, ConcatProperties
    <3>5. QED  BY <1>1, <2>2, <3>1, <3>4
  <2>5. QED  BY <2>3, <2>4
<1>3. S[N] \in Seq(X)  BY <1>0, <1>2
<1>4. QED  BY <1>1, <1>2, <1>3 DEF Joined, S, N

\* What grows by one sequence at a time is the joined sequence.
LEMMA JoinedBy ==
  ASSUME NEW seqs, Len(seqs) \in Nat, NEW P, P[0] = <<>>,
         \A n \in 1 .. Len(seqs) : P[n] = P[n - 1] \o seqs[n]
  PROVE  Joined(seqs) = P[Len(seqs)]
<1> DEFINE S == JoinStates(seqs)
           N == Len(seqs)
           Bad == {n \in 0 .. N : S[n] # P[n]}
<1>1. S[0] = <<>> /\ \A n \in 1 .. N : S[n] = S[n - 1] \o seqs[n]
  BY JoinStatesAre DEF InJoin
<1>2. N \in Nat /\ \A n \in 1 .. N : P[n] = P[n - 1] \o seqs[n]  OBVIOUS
<1> HIDE DEF S, N
<1>3. Bad = {}
  <2>1. SUFFICES ASSUME Bad # {} PROVE FALSE  OBVIOUS
  <2>2. PICK n \in Bad : n = 0 \/ (n - 1 \in Nat /\ n - 1 \notin Bad)
    <3>1. Bad \subseteq Nat  BY <1>2
    <3>2. QED  BY <2>1, <3>1, FirstOfNat
  <2>3. CASE n = 0  BY <1>1, <2>2, <2>3
  <2>4. CASE n # 0
    <3>1. n \in 1 .. N /\ n - 1 \in 0 .. N  BY <1>2, <2>2, <2>4
    <3>2. S[n - 1] = P[n - 1]  BY <2>2, <2>4, <3>1
    <3>3. S[n] = P[n]  BY <1>1, <1>2, <3>1, <3>2
    <3>4. QED  BY <2>2, <3>3
  <2>5. QED  BY <2>3, <2>4
<1>4. S[N] = P[N]  BY <1>2, <1>3
<1>5. QED  BY <1>4 DEF Joined, S, N

LEMMA ConcatParts ==
  ASSUME NEW Y, NEW A \in Seq(Y), NEW B \in Seq(Y)
  PROVE  /\ Len(A) \in Nat /\ Len(B) \in Nat /\ Len(A \o B) = Len(A) + Len(B)
         /\ \A i \in 1 .. Len(A) : (A \o B)[i] = A[i] /\ A[i] \in Y
         /\ \A k \in 1 .. Len(B) : (A \o B)[Len(A) + k] = B[k] /\ B[k] \in Y
OBVIOUS

LEMMA JoinedConcat ==
  ASSUME NEW X, NEW A \in Seq(Seq(X)), NEW B \in Seq(Seq(X))
  PROVE  Joined(A \o B) = Joined(A) \o Joined(B)
<1> DEFINE m == Len(A)
           n == Len(B)
           SA == JoinStates(A)
           SB == JoinStates(B)
           J == Joined(A)
           C == A \o B
           Y == Seq(X)
           P == [i \in 0 .. m + n |-> IF i <= m THEN SA[i] ELSE J \o SB[i - m]]
<1>1. A \in Seq(Y) /\ B \in Seq(Y)  OBVIOUS
<1>2. /\ SA[0] = <<>> /\ \A i \in 1 .. m : SA[i] = SA[i - 1] \o A[i]
      /\ J \in Seq(X) /\ SA[m] = J
  BY JoinIs DEF Joined
<1>3. /\ SB[0] = <<>> /\ \A i \in 1 .. n : SB[i] = SB[i - 1] \o B[i]
      /\ \A i \in 0 .. n : SB[i] \in Seq(X)
      /\ SB[n] = Joined(B)
  BY JoinIs DEF Joined
<1> HIDE DEF Y
<1>4. /\ m \in Nat /\ n \in Nat /\ Len(C) = m + n
      /\ \A i \in 1 .. m : C[i] = A[i]
      /\ \A k \in 1 .. n : C[m + k] = B[k] /\ B[k] \in Y
  BY <1>1, ConcatParts
<1>5. m \in Nat /\ n \in Nat /\ Len(C) = m + n  BY <1>4
<1> HIDE DEF m, n, SA, SB, J, C
<1>6. J \o <<>> = J  BY <1>2, ConcatEmptySeq
<1>7. P[0] = <<>> /\ \A i \in 0 .. m : P[i] = SA[i]
  <2>1. \A i \in 0 .. m : i \in 0 .. m + n /\ i <= m  BY <1>5
  <2>2. \A i \in 0 .. m : P[i] = SA[i]  BY <2>1
  <2>3. 0 \in 0 .. m  BY <1>5
  <2> HIDE DEF P
  <2>4. QED  BY <1>2, <2>2, <2>3
<1>8. ASSUME NEW k \in 0 .. n PROVE P[m + k] = J \o SB[k]
  <2>1. CASE k = 0
    <3>1. m + k = m /\ m \in 0 .. m  BY <1>5, <2>1
    <3>2. P[m] = J  BY <1>2, <1>7, <3>1
    <3> HIDE DEF P
    <3>3. QED  BY <1>3, <1>6, <2>1, <3>1, <3>2
  <2>2. CASE k # 0
    <3>1. m + k \in 0 .. m + n /\ ~ (m + k <= m) /\ (m + k) - m = k  BY <1>5, <2>2
    <3>2. QED  BY <3>1
  <2>3. QED  BY <2>1, <2>2
<1> HIDE DEF P
<1>9. ASSUME NEW i \in 1 .. m + n PROVE P[i] = P[i - 1] \o C[i]
  <2>1. CASE i <= m
    <3>1. i \in 1 .. m /\ i - 1 \in 0 .. m /\ i \in 0 .. m  BY <1>5, <2>1
    <3>2. P[i] = SA[i] /\ P[i - 1] = SA[i - 1]  BY <1>7, <3>1
    <3>3. C[i] = A[i]  BY <1>4, <3>1
    <3>4. QED  BY <1>2, <3>1, <3>2, <3>3
  <2>2. CASE i > m
    <3> DEFINE k == i - m
               l == k - 1
    <3>1. k \in 1 .. n /\ k \in 0 .. n /\ l \in 0 .. n /\ i = m + k /\ i - 1 = m + l  BY <1>5, <2>2
    <3>2. SB[k] = SB[l] \o B[k]  BY <1>3, <3>1
    <3> HIDE DEF k, l
    <3>3. C[i] = B[k] /\ B[k] \in Seq(X)  BY <1>4, <3>1 DEF Y
    <3>4. SB[l] \in Seq(X)  BY <1>3, <3>1
    <3>5. P[i] = J \o SB[k] /\ P[i - 1] = J \o SB[l]  BY <1>8, <3>1
    <3>6. (J \o SB[l]) \o B[k] = J \o (SB[l] \o B[k])
      <4>1. J \in Seq(X)  BY <1>2
      <4>2. B[k] \in Seq(X)  BY <3>3
      <4> DEFINE u == SB[l]
                 w == B[k]
      <4>3. J \in Seq(X) /\ u \in Seq(X) /\ w \in Seq(X)  BY <3>4, <4>1, <4>2
      <4> HIDE DEF u, w
      <4>4. (J \o u) \o w = J \o (u \o w)  BY <4>3, ConcatAssociative, SMTT(30)
      <4>5. QED  BY <4>4 DEF u, w
    <3>7. QED  BY <3>2, <3>3, <3>5, <3>6
  <2>3. QED  BY <1>5, <2>1, <2>2
<1>10. P[m + n] = J \o SB[n]
  <2>1. n \in 0 .. n  BY <1>5
  <2>2. QED  BY <1>8, <2>1
<1>11. Joined(C) = P[m + n]
  <2>1. Len(C) \in Nat  BY <1>5
  <2>2. \A i \in 1 .. Len(C) : P[i] = P[i - 1] \o C[i]  BY <1>5, <1>9
  <2>3. P[0] = <<>>  BY <1>7
  <2>4. Joined(C) = P[Len(C)]  BY <2>1, <2>2, <2>3, JoinedBy
  <2>5. QED  BY <1>5, <2>4
<1>12. QED  BY <1>3, <1>10, <1>11 DEF C, J

LEMMA JoinedOne ==
  ASSUME NEW X, NEW s \in Seq(X)
  PROVE  Joined(<<>>) = <<>> /\ Joined(<<s>>) = s
<1>1. Joined(<<>>) = <<>>
  <2>1. Len(<<>>) = 0 /\ <<>> \in Seq(Seq(X))  OBVIOUS
  <2>2. QED  BY <2>1, JoinIs DEF Joined
<1>2. Joined(<<s>>) = s
  <2> DEFINE one == <<s>>
  <2>1. one \in Seq(Seq(X)) /\ Len(one) = 1 /\ one[1] = s  OBVIOUS
  <2> HIDE DEF one
  <2>2. JoinStates(one)[0] = <<>> /\ JoinStates(one)[1] = JoinStates(one)[0] \o one[1]
    <3>1. 1 \in 1 .. Len(one) /\ 1 - 1 = 0  BY <2>1
    <3>2. QED  BY <2>1, <3>1, JoinIs
  <2>3. <<>> \o s = s  BY ConcatEmptySeq
  <2>4. Joined(one) = JoinStates(one)[1]  BY <2>1 DEF Joined
  <2>5. QED  BY <2>1, <2>2, <2>3, <2>4 DEF one
<1>3. QED  BY <1>1, <1>2

\* The strings of tokens, one by one.
Spelled(vocab, tokens) == [i \in DOMAIN tokens |-> vocab[tokens[i]]]

LEMMA SpelledIs ==
  ASSUME NEW X, NEW vocab \in Seq(Seq(X)), NEW tokens \in Seq(DOMAIN vocab)
  PROVE  /\ Spelled(vocab, tokens) \in Seq(Seq(X)) /\ Len(Spelled(vocab, tokens)) = Len(tokens)
         /\ \A i \in 1 .. Len(tokens) : Spelled(vocab, tokens)[i] = vocab[tokens[i]]
         /\ StringsIn(vocab, tokens) = Joined(Spelled(vocab, tokens))
         /\ StringsIn(vocab, tokens) \in Seq(X)
<1> DEFINE n == Len(tokens)
           s == Spelled(vocab, tokens)
<1>1. n \in Nat /\ DOMAIN tokens = 1 .. n /\ \A i \in 1 .. n : vocab[tokens[i]] \in Seq(X)
  <2>1. n \in Nat /\ DOMAIN tokens = 1 .. n /\ \A i \in 1 .. n : tokens[i] \in DOMAIN vocab  OBVIOUS
  <2>2. \A t \in DOMAIN vocab : vocab[t] \in Seq(X)  OBVIOUS
  <2>3. QED  BY <2>1, <2>2
<1>2. s = [i \in 1 .. n |-> vocab[tokens[i]]]  BY <1>1, Zenon DEF Spelled
<1> HIDE DEF n, s
<1>3. s \in [1 .. n -> Seq(X)]  BY <1>1, <1>2
<1>4. s \in Seq(Seq(X)) /\ Len(s) = n  BY <1>1, <1>3
<1>5. \A i \in 1 .. n : s[i] = vocab[tokens[i]]  BY <1>2
<1>6. StringsIn(vocab, tokens) = Joined(s)  BY DEF StringsIn, Spelled, s
<1>7. Joined(s) \in Seq(X)  BY <1>4, JoinIs
<1>8. QED  BY <1>4, <1>5, <1>6, <1>7 DEF n, s

LEMMA StringsConcat ==
  ASSUME NEW X, NEW vocab \in Seq(Seq(X)),
         NEW a \in Seq(DOMAIN vocab), NEW b \in Seq(DOMAIN vocab)
  PROVE  StringsIn(vocab, a \o b) = StringsIn(vocab, a) \o StringsIn(vocab, b)
<1> DEFINE A == Spelled(vocab, a)
           B == Spelled(vocab, b)
           C == Spelled(vocab, a \o b)
           D == DOMAIN vocab
<1>0. a \in Seq(D) /\ b \in Seq(D)  OBVIOUS
<1> HIDE DEF D
<1>1. a \o b \in Seq(D) /\ Len(a \o b) = Len(a) + Len(b)
      /\ \A i \in 1 .. Len(a) + Len(b) : (a \o b)[i] = IF i <= Len(a) THEN a[i] ELSE b[i - Len(a)]
  BY <1>0, ConcatProperties
<1>2. Len(a) \in Nat /\ Len(b) \in Nat  BY <1>0, LenProperties
<1>3. /\ A \in Seq(Seq(X)) /\ Len(A) = Len(a) /\ \A i \in 1 .. Len(a) : A[i] = vocab[a[i]]
      /\ StringsIn(vocab, a) = Joined(A)
  BY SpelledIs
<1>4. /\ B \in Seq(Seq(X)) /\ Len(B) = Len(b) /\ \A i \in 1 .. Len(b) : B[i] = vocab[b[i]]
      /\ StringsIn(vocab, b) = Joined(B)
  BY SpelledIs
<1>5. /\ C \in Seq(Seq(X)) /\ Len(C) = Len(a \o b)
      /\ \A i \in 1 .. Len(a \o b) : C[i] = vocab[(a \o b)[i]]
      /\ StringsIn(vocab, a \o b) = Joined(C)
  BY <1>1, SpelledIs DEF D
<1> HIDE DEF A, B, C
<1>6. A \o B \in Seq(Seq(X)) /\ Len(A \o B) = Len(A) + Len(B)
      /\ \A i \in 1 .. Len(A) + Len(B) : (A \o B)[i] = IF i <= Len(A) THEN A[i] ELSE B[i - Len(A)]
  <2> DEFINE Y == Seq(X)
  <2>1. A \in Seq(Y) /\ B \in Seq(Y)  BY <1>3, <1>4
  <2> HIDE DEF Y
  <2>2. A \o B \in Seq(Y) /\ Len(A \o B) = Len(A) + Len(B)
        /\ \A i \in 1 .. Len(A) + Len(B) : (A \o B)[i] = IF i <= Len(A) THEN A[i] ELSE B[i - Len(A)]
    BY <2>1, ConcatProperties, ZenonT(30)
  <2>3. QED  BY <2>2 DEF Y
<1>7. ASSUME NEW i \in 1 .. Len(C) PROVE C[i] = (A \o B)[i]
  <2>1. i \in 1 .. Len(a) + Len(b) /\ i \in Int  BY <1>1, <1>5
  <2>2. C[i] = vocab[(a \o b)[i]]  BY <1>5
  <2>3. CASE i <= Len(a)
    <3>1. i \in 1 .. Len(a)  BY <1>2, <2>1, <2>3
    <3>2. (a \o b)[i] = a[i] /\ (A \o B)[i] = A[i]  BY <1>1, <1>3, <1>4, <1>6, <2>1, <2>3
    <3>3. QED  BY <1>3, <2>2, <3>1, <3>2
  <2>4. CASE ~ (i <= Len(a))
    <3>1. i - Len(a) \in 1 .. Len(b)  BY <1>2, <2>1, <2>4
    <3>2. (a \o b)[i] = b[i - Len(a)] /\ (A \o B)[i] = B[i - Len(a)]
      BY <1>1, <1>3, <1>4, <1>6, <2>1, <2>4
    <3>3. QED  BY <1>4, <2>2, <3>1, <3>2
  <2>5. QED  BY <2>3, <2>4
<1>8. C = A \o B
  <2>1. Len(C) = Len(A \o B)  BY <1>1, <1>3, <1>4, <1>5, <1>6
  <2>2. QED  BY <1>5, <1>6, <1>7, <2>1, SeqEqual
<1>9. Joined(A \o B) = Joined(A) \o Joined(B)  BY <1>3, <1>4, JoinedConcat
<1>10. QED  BY <1>3, <1>4, <1>5, <1>8, <1>9

LEMMA StringsOfFew ==
  ASSUME NEW X, NEW vocab \in Seq(Seq(X))
  PROVE  /\ StringsIn(vocab, <<>>) = <<>>
         /\ \A t \in DOMAIN vocab : StringsIn(vocab, <<t>>) = vocab[t]
<1>1. StringsIn(vocab, <<>>) = <<>>
  <2>1. <<>> \in Seq(DOMAIN vocab)  OBVIOUS
  <2>2. Spelled(vocab, <<>>) \in Seq(Seq(X)) /\ Len(Spelled(vocab, <<>>)) = 0
    BY <2>1, SpelledIs
  <2>3. Spelled(vocab, <<>>) = <<>>  BY <2>2
  <2>4. Joined(<<>>) = <<>>  BY JoinedOne
  <2>5. QED  BY <2>1, <2>3, <2>4, SpelledIs
<1>2. ASSUME NEW t \in DOMAIN vocab PROVE StringsIn(vocab, <<t>>) = vocab[t]
  <2> DEFINE a == <<t>>
             s == Spelled(vocab, a)
  <2>1. a \in Seq(DOMAIN vocab) /\ Len(a) = 1 /\ a[1] = t /\ vocab[t] \in Seq(X)  OBVIOUS
  <2> HIDE DEF a
  <2>2. s \in Seq(Seq(X)) /\ Len(s) = 1 /\ s[1] = vocab[t] /\ StringsIn(vocab, a) = Joined(s)
    BY <2>1, SpelledIs, SMTT(30)
  <2> HIDE DEF s
  <2>3. s = <<vocab[t]>>  BY <2>2
  <2>4. Joined(<<vocab[t]>>) = vocab[t]  BY <2>1, JoinedOne
  <2>5. QED  BY <2>2, <2>3, <2>4 DEF a
<1>3. QED  BY <1>1, <1>2

LEMMA StringsOfJoined ==
  ASSUME NEW X, NEW vocab \in Seq(Seq(X)), NEW ids \in Seq(Seq(DOMAIN vocab)), NEW texts,
         Len(texts) = Len(ids), \A i \in 1 .. Len(ids) : texts[i] = StringsIn(vocab, ids[i])
  PROVE  StringsIn(vocab, Joined(ids)) = Joined(texts)
<1> DEFINE N == Len(ids)
           S == JoinStates(ids)
           D == DOMAIN vocab
           P == [n \in 0 .. N |-> StringsIn(vocab, S[n])]
<1>1. N \in Nat /\ \A n \in 1 .. N : ids[n] \in Seq(D)  OBVIOUS
<1>2. /\ S[0] = <<>> /\ \A n \in 1 .. N : S[n] = S[n - 1] \o ids[n]
      /\ \A n \in 0 .. N : S[n] \in Seq(D)
      /\ S[N] = Joined(ids)
  BY JoinIs DEF Joined
<1>3. StringsIn(vocab, <<>>) = <<>>  BY StringsOfFew
<1>4. Len(texts) = N /\ \A n \in 1 .. N : texts[n] = StringsIn(vocab, ids[n])  OBVIOUS
<1> HIDE DEF N, S, D
<1>5. \A n \in 0 .. N : P[n] = StringsIn(vocab, S[n])  OBVIOUS
<1> HIDE DEF P
<1>6. P[0] = <<>>
  <2>1. 0 \in 0 .. N  BY <1>1
  <2>2. QED  BY <1>2, <1>3, <1>5, <2>1
<1>7. ASSUME NEW n \in 1 .. N PROVE P[n] = P[n - 1] \o texts[n]
  <2> DEFINE a == S[n - 1]
             b == ids[n]
  <2>1. n \in 0 .. N /\ n - 1 \in 0 .. N  BY <1>1
  <2>2. S[n] = a \o b  BY <1>2
  <2>3. a \in Seq(D) /\ b \in Seq(D)  BY <1>1, <1>2, <2>1
  <2>4. P[n] = StringsIn(vocab, S[n]) /\ P[n - 1] = StringsIn(vocab, a)  BY <1>5, <2>1
  <2>5. texts[n] = StringsIn(vocab, b)  BY <1>4
  <2> HIDE DEF a, b
  <2>6. StringsIn(vocab, a \o b) = StringsIn(vocab, a) \o StringsIn(vocab, b)
    BY <2>3, StringsConcat DEF D
  <2>7. QED  BY <2>2, <2>4, <2>5, <2>6
<1>8. Joined(texts) = P[N]  BY <1>1, <1>4, <1>6, <1>7, JoinedBy
<1>9. P[N] = StringsIn(vocab, Joined(ids))
  <2>1. N \in 0 .. N  BY <1>1
  <2>2. QED  BY <1>2, <1>5, <2>1
<1>10. QED  BY <1>8, <1>9

LEMMA JoinedLetters ==
  ASSUME NEW X, NEW str \in Seq(X), NEW texts,
         Len(texts) = Len(str), \A i \in 1 .. Len(str) : texts[i] = <<str[i]>>
  PROVE  Joined(texts) = str
<1> DEFINE N == Len(str)
           P == [n \in 0 .. N |-> SubSeq(str, 1, n)]
<1>1. N \in Nat  OBVIOUS
<1>2. \A n \in 0 .. N : P[n] = SubSeq(str, 1, n)  OBVIOUS
<1> HIDE DEF P
<1>3. P[0] = <<>>
  <2>1. SubSeq(str, 1, 0) = <<>>  BY SubSeqEmpty
  <2>2. 0 \in 0 .. N  BY <1>1
  <2>3. QED  BY <1>2, <2>1, <2>2
<1>4. ASSUME NEW n \in 1 .. N PROVE P[n] = P[n - 1] \o texts[n]
  <2>1. n \in 0 .. N /\ n - 1 \in 0 .. N /\ 1 \in 1 .. N /\ n \in 1 .. Len(str)  BY <1>1
  <2>2. SubSeq(str, 1, n) = SubSeq(str, 1, n - 1) \o <<str[n]>>  BY <2>1, SubSeqRecursiveSecond
  <2>3. texts[n] = <<str[n]>>  OBVIOUS
  <2>4. QED  BY <1>2, <2>1, <2>2, <2>3
<1>5. Joined(texts) = P[N]
  <2>1. Len(texts) = N  OBVIOUS
  <2> HIDE DEF N
  <2>2. QED  BY <1>1, <1>3, <1>4, <2>1, JoinedBy
<1>6. P[N] = str
  <2>1. SubSeq(str, 1, Len(str)) = str  BY SubSeqFull
  <2>2. N \in 0 .. N  BY <1>1
  <2>3. QED  BY <1>2, <2>1, <2>2
<1>7. QED  BY <1>5, <1>6

\* The pieces lie one behind the other from the first letter to letter e.
Tiles(pieces, e) ==
  /\ pieces \in Seq([start : Nat \ {0}, len : Nat])
  /\ \A i \in 1 .. Len(pieces) :
        /\ pieces[i].start = IF i = 1 THEN 1 ELSE pieces[i - 1].start + pieces[i - 1].len
        /\ pieces[i].start + pieces[i].len - 1 <= e
  /\ pieces # <<>> /\ pieces[Len(pieces)].start + pieces[Len(pieces)].len = e + 1

LEMMA JoinedTiles ==
  ASSUME NEW X, NEW word \in Seq(X), NEW pieces, Tiles(pieces, Len(word)), NEW texts,
         Len(texts) = Len(pieces), \A i \in 1 .. Len(pieces) : texts[i] = Text(word, pieces[i])
  PROVE  Joined(texts) = word
<1> DEFINE N == Len(pieces)
           L == Len(word)
           end(n) == IF n = 0 THEN 0 ELSE pieces[n].start + pieces[n].len - 1
           P == [n \in 0 .. N |-> SubSeq(word, 1, end(n))]
<1>1. N \in Nat \ {0} /\ L \in Nat
      /\ \A n \in 1 .. N : pieces[n].start \in Nat \ {0} /\ pieces[n].len \in Nat
  <2> DEFINE R == [start : Nat \ {0}, len : Nat]
  <2>1. pieces \in Seq(R) /\ pieces # <<>>  BY DEF Tiles
  <2>2. \A q \in R : q.start \in Nat \ {0} /\ q.len \in Nat  OBVIOUS
  <2> HIDE DEF R
  <2>3. N \in Nat /\ \A n \in 1 .. N : pieces[n] \in R  BY <2>1
  <2>4. N # 0  BY <2>1, EmptySeq
  <2>5. QED  BY <2>2, <2>3, <2>4
<1>2. \A n \in 1 .. N : pieces[n].start = (IF n = 1 THEN 1 ELSE pieces[n - 1].start + pieces[n - 1].len)
                        /\ pieces[n].start + pieces[n].len - 1 <= L
  BY DEF Tiles
<1>3. pieces[N].start + pieces[N].len = L + 1  BY DEF Tiles
<1>4. \A n \in 1 .. N : texts[n] = Text(word, pieces[n])  OBVIOUS
<1>5. Len(texts) = N  OBVIOUS
<1> HIDE DEF N
<1>6. \A n \in 0 .. N : P[n] = SubSeq(word, 1, end(n))  OBVIOUS
<1> HIDE DEF P, L
<1>7. P[0] = <<>>
  <2>1. SubSeq(word, 1, 0) = <<>>  BY SubSeqEmpty
  <2>2. 0 \in 0 .. N  BY <1>1
  <2>3. QED  BY <1>6, <2>1, <2>2
<1>8. ASSUME NEW n \in 1 .. N PROVE P[n] = P[n - 1] \o texts[n]
  <2> DEFINE a == pieces[n].start
             z == end(n)
             y == end(n - 1)
  <2>1. n \in 0 .. N /\ n - 1 \in 0 .. N /\ n # 0  BY <1>1
  <2>2. a \in Nat \ {0} /\ pieces[n].len \in Nat /\ z = a + pieces[n].len - 1 /\ z <= L
    BY <1>1, <1>2, <2>1
  <2>3. y = a - 1
    <3>1. CASE n = 1  BY <1>1, <1>2, <3>1
    <3>2. CASE n # 1
      <4>1. n - 1 \in 1 .. N /\ n - 1 # 0  BY <1>1, <3>2
      <4>2. pieces[n - 1].start \in Nat /\ pieces[n - 1].len \in Nat  BY <1>1, <4>1
      <4>3. a = pieces[n - 1].start + pieces[n - 1].len  BY <1>2, <3>2
      <4>4. QED  BY <4>1, <4>2, <4>3
    <3>3. QED  BY <3>1, <3>2
  <2>4. texts[n] = SubSeq(word, a, z)
    <3>1. texts[n] = SubSeq(word, a, a + pieces[n].len - 1)  BY <1>4 DEF Text
    <3>2. QED  BY <2>2, <3>1
  <2>5. P[n] = SubSeq(word, 1, z) /\ P[n - 1] = SubSeq(word, 1, y)  BY <1>6, <2>1
  <2> HIDE DEF a, z, y
  <2>6. y \in 0 .. L /\ z \in y .. L /\ y + 1 = a /\ 1 \in 1 .. L + 1  BY <1>1, <2>2, <2>3
  <2>7. SubSeq(word, 1, y) \o SubSeq(word, y + 1, z) = SubSeq(word, 1, z)
    <3>1. y \in 1 - 1 .. Len(word) /\ z \in y .. Len(word) /\ 1 \in 1 .. Len(word) + 1
      BY <2>6 DEF L
    <3>2. QED  BY <3>1, ConcatAdjacentSubSeq
  <2>8. QED  BY <2>4, <2>5, <2>6, <2>7
<1>9. Joined(texts) = P[N]  BY <1>1, <1>5, <1>7, <1>8, JoinedBy
<1>10. P[N] = word
  <2>1. SubSeq(word, 1, Len(word)) = word  BY SubSeqFull
  <2>2. N \in 0 .. N /\ N # 0 /\ N \in 1 .. N  BY <1>1
  <2>3. pieces[N].start \in Nat /\ pieces[N].len \in Nat  BY <1>1, <2>2
  <2>4. end(N) = L
    <3>1. L \in Nat  BY <1>1
    <3> DEFINE u == pieces[N].start
               w == pieces[N].len
    <3>2. u \in Nat /\ w \in Nat /\ u + w = L + 1  BY <1>3, <2>3
    <3>3. end(N) = u + w - 1  BY <2>2
    <3> HIDE DEF u, w, end
    <3>4. QED  BY <3>1, <3>2, <3>3
  <2> HIDE DEF end
  <2>5. QED  BY <1>6, <2>1, <2>2, <2>4 DEF L
<1>11. QED  BY <1>9, <1>10

\* The first letters of a sequence.
LEMMA CutToIs ==
  ASSUME NEW X, NEW seq \in Seq(X), NEW n \in Nat
  PROVE  /\ CutTo(seq, n) \in Seq(X) /\ Len(CutTo(seq, n)) = Smaller(n, Len(seq))
         /\ Len(CutTo(seq, n)) < n => CutTo(seq, n) = seq
<1> DEFINE k == Smaller(n, Len(seq))
<1>1. k \in Nat /\ k <= Len(seq) /\ (k < n => k = Len(seq))  BY DEF Smaller
<1>2. CutTo(seq, n) = SubSeq(seq, 1, k)  BY DEF CutTo
<1>3. \A i \in 1 .. Len(seq) : seq[i] \in X  OBVIOUS
<1> HIDE DEF k
<1>4. \A i \in 1 .. k : seq[i] \in X  BY <1>1, <1>3
<1>5. SubSeq(seq, 1, k) \in Seq(X) /\ Len(SubSeq(seq, 1, k)) = IF 1 <= k THEN k - 1 + 1 ELSE 0
  BY <1>1, <1>4, SubSeqProperties
<1>6. Len(SubSeq(seq, 1, k)) = k  BY <1>1, <1>5
<1>7. SubSeq(seq, 1, Len(seq)) = seq  BY SubSeqFull
<1>8. QED  BY <1>1, <1>2, <1>5, <1>6, <1>7 DEF k

LEMMA FindTokenIs ==
  ASSUME NEW X, NEW v, v.vocab \in Seq(Seq(X)), NEW str
  PROVE  /\ bpe_find_token(v, str) # <<>> <=> \E t \in DOMAIN v.vocab : v.vocab[t] = str
         /\ bpe_find_token(v, str) # <<>> =>
              \E t \in DOMAIN v.vocab : bpe_find_token(v, str) = <<t>> /\ v.vocab[t] = str
<1> DEFINE ids == {t \in DOMAIN v.vocab : v.vocab[t] = str}
           t0 == CHOOSE t \in ids : \A u \in ids : t <= u
<1>1. bpe_find_token(v, str) = IF ids = {} THEN <<>> ELSE <<t0>>  BY DEF bpe_find_token
<1>2. ASSUME ids # {} PROVE t0 \in ids
  <2>1. ids \subseteq Nat  OBVIOUS
  <2>2. \E t \in ids : \A u \in ids : t <= u  BY <1>2, <2>1, LeastOfNat
  <2>3. QED  BY <2>2
<1> HIDE DEF t0
<1>3. <<t0>> # <<>>  OBVIOUS
<1>4. QED  BY <1>1, <1>2, <1>3

\* The vocabulary has the letters of a string.
KnownIn(vocab, str) == \A i \in DOMAIN str : \E t \in DOMAIN vocab : vocab[t] = <<str[i]>>

LEMMA TokensOfIs ==
  ASSUME NEW X, NEW v, v.vocab \in Seq(Seq(X)), NEW str \in Seq(X), KnownIn(v.vocab, str)
  PROVE  TokensOf(v, str) \in Seq(DOMAIN v.vocab) /\ StringsIn(v.vocab, TokensOf(v, str)) = str
<1> DEFINE D == DOMAIN v.vocab
           ids == [i \in DOMAIN str |-> bpe_find_token(v, <<str[i]>>)]
           texts == [i \in DOMAIN str |-> <<str[i]>>]
           n == Len(str)
<1>0. ASSUME NEW s
      PROVE  \/ bpe_find_token(v, s) = <<>> /\ ~ (\E t \in D : v.vocab[t] = s)
             \/ \E t \in D : bpe_find_token(v, s) = <<t>> /\ v.vocab[t] = s
  BY FindTokenIs
<1> HIDE DEF D
<1>1. CASE bpe_find_token(v, str) # <<>>
  <2>1. PICK t \in D : bpe_find_token(v, str) = <<t>> /\ v.vocab[t] = str  BY <1>0, <1>1
  <2>2. TokensOf(v, str) = <<t>>  BY <1>1, <2>1 DEF TokensOf
  <2>3. StringsIn(v.vocab, <<t>>) = v.vocab[t]  BY StringsOfFew DEF D
  <2>4. <<t>> \in Seq(D)  OBVIOUS
  <2>5. QED  BY <2>1, <2>2, <2>3, <2>4 DEF D
<1>2. CASE ~ (bpe_find_token(v, str) # <<>>)
  <2>1. TokensOf(v, str) = Joined(ids)  BY <1>2 DEF TokensOf
  <2>2. n \in Nat /\ DOMAIN str = 1 .. n  OBVIOUS
  <2>3. ASSUME NEW i \in DOMAIN str
        PROVE  \E t \in D : bpe_find_token(v, <<str[i]>>) = <<t>> /\ v.vocab[t] = <<str[i]>>
    <3>1. \E t \in D : v.vocab[t] = <<str[i]>>  BY DEF KnownIn, D
    <3>2. QED  BY <1>0, <3>1
  <2>4. \A i \in DOMAIN str : bpe_find_token(v, <<str[i]>>) \in Seq(D)
    <3>1. \A t \in D : <<t>> \in Seq(D)  OBVIOUS
    <3>2. QED  BY <2>3, <3>1
  <2>5. ids = [i \in 1 .. n |-> bpe_find_token(v, <<str[i]>>)] /\ ids \in [1 .. n -> Seq(D)]
    BY <2>2, <2>4
  <2>6. texts = [i \in 1 .. n |-> <<str[i]>>]  BY <2>2
  <2> HIDE DEF ids, texts, n
  <2> DEFINE Y == Seq(D)
  <2>20. ids \in [1 .. n -> Y]  BY <2>5
  <2> HIDE DEF Y
  <2>21. ids \in Seq(Y) /\ Len(ids) = n  BY <2>2, <2>20
  <2>7. ids \in Seq(Seq(D)) /\ Len(ids) = n  BY <2>21 DEF Y
  <2>8. Len(texts) = n /\ \A i \in 1 .. n : texts[i] = <<str[i]>>  BY <2>2, <2>6
  <2>9. ASSUME NEW i \in 1 .. Len(ids) PROVE texts[i] = StringsIn(v.vocab, ids[i])
    <3>1. i \in DOMAIN str /\ i \in 1 .. n  BY <2>2, <2>7
    <3>2. PICK t \in D : bpe_find_token(v, <<str[i]>>) = <<t>> /\ v.vocab[t] = <<str[i]>>
      BY <2>3, <3>1
    <3>3. ids[i] = <<t>>  BY <2>5, <3>1, <3>2
    <3>4. StringsIn(v.vocab, <<t>>) = v.vocab[t]  BY StringsOfFew DEF D
    <3>5. QED  BY <2>8, <3>1, <3>2, <3>3, <3>4
  <2>10. StringsIn(v.vocab, Joined(ids)) = Joined(texts)
    <3>1. Len(texts) = Len(ids)  BY <2>7, <2>8
    <3>2. QED  BY <2>7, <2>9, <3>1, StringsOfJoined DEF D
  <2>11. Joined(texts) = str  BY <2>8, JoinedLetters DEF n
  <2>12. Joined(ids) \in Seq(D)  BY <2>7, JoinIs
  <2>13. QED  BY <2>1, <2>10, <2>11, <2>12 DEF D
<1>3. QED  BY <1>1, <1>2

\* With room left, the tokens of all of a word follow those before it.
Written(vocab, word, e, before, out) ==
  Len(out) < MaxOut /\ e = Len(word) => StringsIn(vocab, out) = StringsIn(vocab, before) \o word

\* The tokens of a word's pieces spell the word.
LEMMA EmittedIs ==
  ASSUME NEW X, NEW v, v.vocab \in Seq(Seq(X)), NEW word \in Seq(X), KnownIn(v.vocab, word),
         NEW out \in Seq(DOMAIN v.vocab),
         NEW e \in 0 .. Len(word), NEW pieces, Tiles(pieces, e)
  PROVE  /\ Emitted(v, word, pieces, out) \in Seq(DOMAIN v.vocab)
         /\ Written(v.vocab, word, e, out, Emitted(v, word, pieces, out))
<1> DEFINE D == DOMAIN v.vocab
           R == [start : Nat \ {0}, len : Nat]
           N == Len(pieces)
           ids == [i \in DOMAIN pieces |-> TokensOf(v, Text(word, pieces[i]))]
           texts == [i \in DOMAIN pieces |-> Text(word, pieces[i])]
           all == out \o Joined(ids)
<1>1. pieces \in Seq(R) /\ \A i \in 1 .. N : pieces[i].start + pieces[i].len - 1 <= e
  BY DEF Tiles
<1>2. \A q \in R : q.start \in Nat \ {0} /\ q.len \in Nat  OBVIOUS
<1> HIDE DEF R
<1>3. N \in Nat /\ DOMAIN pieces = 1 .. N /\ \A i \in 1 .. N : pieces[i] \in R
  BY <1>1, LenProperties, ElementOfSeq
<1> HIDE DEF N, D
<1>4. ASSUME NEW i \in 1 .. N
      PROVE  /\ TokensOf(v, Text(word, pieces[i])) \in Seq(D)
             /\ StringsIn(v.vocab, TokensOf(v, Text(word, pieces[i]))) = Text(word, pieces[i])
  <2> DEFINE a == pieces[i].start
             z == pieces[i].start + pieces[i].len - 1
             s == SubSeq(word, a, z)
  <2>1. pieces[i].start \in Nat \ {0} /\ pieces[i].len \in Nat  BY <1>2, <1>3
  <2>2. a \in Nat \ {0} /\ z \in Int /\ z <= e  BY <1>1, <2>1
  <2>3. Text(word, pieces[i]) = s  BY DEF Text
  <2> HIDE DEF a, z
  <2>4. \A k \in a .. z : k \in 1 .. Len(word) /\ word[k] \in X  BY <2>2
  <2>5. s \in Seq(X) /\ Len(s) = (IF a <= z THEN z - a + 1 ELSE 0)
        /\ \A k \in 1 .. z - a + 1 : s[k] = word[a + k - 1]
    BY <2>2, <2>4, SubSeqProperties
  <2> HIDE DEF s
  <2>6. KnownIn(v.vocab, s)
    <3>1. \A k \in 1 .. Len(word) : \E t \in DOMAIN v.vocab : v.vocab[t] = <<word[k]>>
      BY LenProperties DEF KnownIn
    <3>2. SUFFICES ASSUME NEW k \in DOMAIN s
                   PROVE  \E t \in DOMAIN v.vocab : v.vocab[t] = <<s[k]>>
      BY DEF KnownIn
    <3>3. k \in 1 .. Len(s) /\ Len(s) \in Nat  BY <2>5, LenProperties
    <3>4. k \in 1 .. z - a + 1 /\ a + k - 1 \in a .. z  BY <2>2, <2>5, <3>3, SMTT(30)
    <3>5. s[k] = word[a + k - 1] /\ a + k - 1 \in 1 .. Len(word)  BY <2>4, <2>5, <3>4
    <3>6. QED  BY <3>1, <3>5
  <2>7. TokensOf(v, s) \in Seq(DOMAIN v.vocab) /\ StringsIn(v.vocab, TokensOf(v, s)) = s
    BY <2>5, <2>6, TokensOfIs
  <2>8. QED  BY <2>3, <2>7 DEF D
<1>5. ids = [i \in 1 .. N |-> TokensOf(v, Text(word, pieces[i]))]
      /\ texts = [i \in 1 .. N |-> Text(word, pieces[i])]
  BY <1>3
<1>6. Emitted(v, word, pieces, out) = CutTo(all, MaxOut)  BY DEF Emitted
<1> HIDE DEF ids, texts
<1> DEFINE Y == Seq(D)
<1>7. ids \in [1 .. N -> Y]  BY <1>4, <1>5
<1> HIDE DEF Y
<1>8. ids \in Seq(Y) /\ Len(ids) = N  BY <1>3, <1>7
<1>9. ids \in Seq(Seq(D))  BY <1>8 DEF Y
<1>10. Joined(ids) \in Seq(D)  BY <1>9, JoinIs
<1>11. out \in Seq(D)  BY DEF D
<1>12. all \in Seq(D)  BY <1>10, <1>11, ConcatProperties
<1>13. MaxOut \in Nat  BY TokensAssumption
<1> HIDE DEF all
<1>14. CutTo(all, MaxOut) \in Seq(D)
       /\ (Len(CutTo(all, MaxOut)) < MaxOut => CutTo(all, MaxOut) = all)
  BY <1>12, <1>13, CutToIs
<1>15. ASSUME e = Len(word)
       PROVE  StringsIn(v.vocab, all) = StringsIn(v.vocab, out) \o word
  <2>1. Len(texts) = N /\ \A i \in 1 .. N : texts[i] = Text(word, pieces[i])  BY <1>3, <1>5
  <2>2. \A i \in 1 .. Len(ids) : texts[i] = StringsIn(v.vocab, ids[i])
    <3>1. TAKE i \in 1 .. Len(ids)
    <3>2. i \in 1 .. N  BY <1>8
    <3>3. ids[i] = TokensOf(v, Text(word, pieces[i]))  BY <1>5, <3>2
    <3>4. QED  BY <1>4, <2>1, <3>2, <3>3
  <2>3. Len(texts) = Len(ids)  BY <1>8, <2>1
  <2>4. StringsIn(v.vocab, Joined(ids)) = Joined(texts)  BY <1>9, <2>2, <2>3, StringsOfJoined DEF D
  <2>5. Joined(texts) = word
    <3>1. Tiles(pieces, Len(word))  BY <1>15
    <3>2. Len(texts) = Len(pieces) /\ \A i \in 1 .. Len(pieces) : texts[i] = Text(word, pieces[i])
      BY <2>1 DEF N
    <3>3. QED  BY <3>1, <3>2, JoinedTiles
  <2>6. StringsIn(v.vocab, out \o Joined(ids)) = StringsIn(v.vocab, out) \o StringsIn(v.vocab, Joined(ids))
    BY <1>10, <1>11, StringsConcat DEF D
  <2>7. QED  BY <2>4, <2>5, <2>6 DEF all
<1>16. QED  BY <1>6, <1>14, <1>15 DEF D, Written

\* A word ends where the text does, or the room, or before the next space.
LEMMA WordEndIs ==
  ASSUME NEW text \in Seq(Letters), NEW from \in 1 .. Len(text) + 1, NEW room \in Nat
  PROVE  LET e == WordEnd(text, from, room)
         IN  /\ e \in from .. Len(text) + 1 /\ e - from <= room
             /\ \A i \in from .. e - 1 : text[i] # Space
             /\ e = Len(text) + 1 \/ e - from = room \/ text[e] = Space
<1> DEFINE L == Len(text)
           AtEnd(e) == e = L + 1 \/ e - from = room \/ text[e] = Space
           Ends(e) == /\ e - from <= room
                      /\ \A i \in from .. e - 1 : text[i] # Space
                      /\ e = L + 1 \/ e - from = room \/ text[e] = Space
           T == {e \in from .. L + 1 : AtEnd(e)}
<1>1. L \in Nat /\ from \in 1 .. L + 1  OBVIOUS
<1>2. WordEnd(text, from, room) = CHOOSE e \in from .. L + 1 : Ends(e)  BY DEF WordEnd
<1> HIDE DEF L
<1>3. L + 1 \in T  BY <1>1
<1>4. PICK e \in T : \A i \in T : e <= i
  <2>1. T \subseteq Nat  BY <1>1
  <2>2. QED  BY <1>3, <2>1, LeastOfNat
<1>5. e \in from .. L + 1 /\ AtEnd(e)  BY <1>4
<1>6. \A i \in from .. e - 1 : text[i] # Space
  <2>1. TAKE i \in from .. e - 1
  <2>2. i \in from .. L + 1 /\ i < e  BY <1>1, <1>5
  <2>3. i \notin T  BY <1>1, <1>4, <1>5, <2>2
  <2>4. QED  BY <2>2, <2>3
<1>7. e - from <= room
  <2>1. CASE from + room > L + 1  BY <1>1, <1>5, <2>1
  <2>2. CASE ~ (from + room > L + 1)
    <3>1. from + room \in from .. L + 1 /\ (from + room) - from = room  BY <1>1, <2>2
    <3>2. from + room \in T  BY <3>1
    <3>3. e <= from + room  BY <1>4, <3>2
    <3>4. QED  BY <1>1, <1>5, <3>3
  <2>3. QED  BY <2>1, <2>2
<1>8. Ends(e)  BY <1>5, <1>6, <1>7
<1> DEFINE c == CHOOSE i \in from .. L + 1 : Ends(i)
<1>9. c \in from .. L + 1 /\ Ends(c)  BY <1>5, <1>8
<1>10. QED  BY <1>2, <1>9 DEF L

\* Letters one by one, two neighbours merged: the pieces go on tiling.
LEMMA CutIs ==
  ASSUME NEW e \in Nat \ {0}
  PROVE  Tiles([i \in 1 .. e |-> Piece(i, 1)], e)
<1> DEFINE R == [start : Nat \ {0}, len : Nat]
           pieces == [i \in 1 .. e |-> Piece(i, 1)]
<1>1. \A i \in 1 .. e : pieces[i] \in R /\ pieces[i].start = i /\ pieces[i].len = 1  BY DEF Piece
<1>2. pieces \in [1 .. e -> R]  BY <1>1
<1> HIDE DEF R
<1>3. pieces \in Seq(R) /\ Len(pieces) = e  BY <1>2
<1> HIDE DEF pieces
<1>4. pieces # <<>>  BY <1>3, EmptySeq
<1>5. ASSUME NEW i \in 1 .. e
      PROVE  /\ pieces[i].start = IF i = 1 THEN 1 ELSE pieces[i - 1].start + pieces[i - 1].len
             /\ pieces[i].start + pieces[i].len - 1 <= e
  <2>1. i # 1 => i - 1 \in 1 .. e  OBVIOUS
  <2>2. QED  BY <1>1, <2>1
<1>6. pieces[e].start + pieces[e].len = e + 1  BY <1>1
<1>7. QED  BY <1>3, <1>4, <1>5, <1>6 DEF Tiles, R, pieces

LEMMA MergedIs ==
  ASSUME NEW e \in Nat, NEW pieces, Tiles(pieces, e), NEW j \in 1 .. Len(pieces) - 1
  PROVE  Tiles(Merged(pieces, j), e)
<1> DEFINE R == [start : Nat \ {0}, len : Nat]
           N == Len(pieces)
           m == Merged(pieces, j)
<1>1. pieces \in Seq(R) /\ pieces # <<>>  BY DEF Tiles
<1>2. \A q \in R : q.start \in Nat \ {0} /\ q.len \in Nat  OBVIOUS
<1>3. \A a \in Nat \ {0}, b \in Nat : Piece(a, b) \in R /\ Piece(a, b).start = a /\ Piece(a, b).len = b
  BY DEF Piece
<1> HIDE DEF R
<1>4. N \in Nat \ {0} /\ \A i \in 1 .. N : pieces[i] \in R
  <2>1. N \in Nat /\ \A i \in 1 .. N : pieces[i] \in R  BY <1>1
  <2>2. QED  BY <1>1, <2>1, EmptySeq
<1>5. /\ \A i \in 1 .. N : pieces[i].start = (IF i = 1 THEN 1 ELSE pieces[i - 1].start + pieces[i - 1].len)
                           /\ pieces[i].start + pieces[i].len - 1 <= e
      /\ pieces[N].start + pieces[N].len = e + 1
  BY DEF Tiles
<1>6. j \in 1 .. N - 1  OBVIOUS
<1> HIDE DEF N
<1>7. \A i \in 1 .. N : pieces[i].start \in Nat \ {0} /\ pieces[i].len \in Nat  BY <1>2, <1>4
<1> DEFINE joint == Piece(pieces[j].start, pieces[j].len + pieces[j + 1].len)
<1>8. m = [k \in 1 .. N - 1 |-> IF k < j THEN pieces[k] ELSE IF k = j THEN joint ELSE pieces[k + 1]]
  BY <1>4, <1>6 DEF Merged, N
<1>9. /\ joint \in R /\ joint.start = pieces[j].start
      /\ joint.start + joint.len = pieces[j + 1].start + pieces[j + 1].len
  <2>1. j \in 1 .. N /\ j + 1 \in 1 .. N /\ j + 1 # 1 /\ (j + 1) - 1 = j  BY <1>4, <1>6
  <2>2. pieces[j + 1].start = pieces[j].start + pieces[j].len  BY <1>5, <2>1
  <2>3. /\ pieces[j].start \in Nat \ {0} /\ pieces[j].len \in Nat
        /\ pieces[j + 1].start \in Nat \ {0} /\ pieces[j + 1].len \in Nat
    BY <1>7, <2>1
  <2>4. joint \in R /\ joint.start = pieces[j].start /\ joint.len = pieces[j].len + pieces[j + 1].len
    <3> DEFINE a == pieces[j].start
               b == pieces[j].len + pieces[j + 1].len
    <3>1. a \in Nat \ {0} /\ b \in Nat  BY <2>3, SMTT(30)
    <3>2. joint = Piece(a, b)  OBVIOUS
    <3> HIDE DEF a, b, joint
    <3>3. joint \in R /\ joint.start = a /\ joint.len = b  BY <1>3, <3>1, <3>2
    <3>4. QED  BY <3>3 DEF a, b
  <2> HIDE DEF joint
  <2>5. QED  BY <2>2, <2>3, <2>4
<1> HIDE DEF joint, m
<1>10. ASSUME NEW k \in 1 .. N - 1
       PROVE  /\ m[k] \in R /\ m[k].start = pieces[IF k <= j THEN k ELSE k + 1].start
              /\ LET l == IF k < j THEN k ELSE k + 1
                 IN  m[k].start + m[k].len = pieces[l].start + pieces[l].len
  <2>1. k \in 1 .. N /\ k + 1 \in 1 .. N  BY <1>4
  <2>2. CASE k < j
    <3>1. m[k] = pieces[k] /\ k <= j  BY <1>6, <1>8, <2>2
    <3>2. QED  BY <1>4, <2>1, <2>2, <3>1
  <2>3. CASE k = j
    <3>1. m[k] = joint /\ k <= j /\ ~ (k < j)  BY <1>6, <1>8, <2>3
    <3>2. QED  BY <1>9, <2>3, <3>1
  <2>4. CASE k > j
    <3>1. m[k] = pieces[k + 1] /\ ~ (k <= j) /\ ~ (k < j)  BY <1>6, <1>8, <2>4
    <3>2. QED  BY <1>4, <2>1, <3>1
  <2>5. QED  BY <1>6, <2>2, <2>3, <2>4
<1>11. m \in [1 .. N - 1 -> R]
  <2>1. m = [k \in 1 .. N - 1 |-> m[k]]  BY <1>8
  <2>2. \A k \in 1 .. N - 1 : m[k] \in R  BY <1>10
  <2>3. QED  BY <2>1, <2>2
<1>12. m \in Seq(R) /\ Len(m) = N - 1
  <2>1. N - 1 \in Nat  BY <1>4
  <2>2. QED  BY <1>11, <2>1
<1>13. m # <<>>  BY <1>4, <1>6, <1>12, EmptySeq
<1>14. ASSUME NEW k \in 1 .. N - 1
       PROVE  /\ m[k].start = IF k = 1 THEN 1 ELSE m[k - 1].start + m[k - 1].len
              /\ m[k].start + m[k].len - 1 <= e
  <2> DEFINE a == IF k <= j THEN k ELSE k + 1
             l == IF k < j THEN k ELSE k + 1
  <2>1. m[k].start = pieces[a].start /\ m[k].start + m[k].len = pieces[l].start + pieces[l].len
    BY <1>10
  <2>2. a \in 1 .. N /\ l \in 1 .. N  BY <1>4
  <2>3. pieces[l].start + pieces[l].len - 1 <= e  BY <1>5, <2>2
  <2> HIDE DEF l
  <2>4. m[k].start + m[k].len - 1 <= e
    <3> DEFINE c == m[k].start
               d == m[k].len
               u == pieces[l].start
               w == pieces[l].len
    <3>1. u \in Nat /\ w \in Nat  BY <1>7, <2>2
    <3>2. c \in Nat /\ d \in Nat  BY <1>2, <1>10
    <3>3. c + d = u + w  BY <2>1
    <3>4. u + w - 1 <= e  BY <2>3
    <3> HIDE DEF a, c, d, u, w
    <3>5. c + d - 1 <= e  BY <3>1, <3>2, <3>3, <3>4
    <3>6. QED  BY <3>5 DEF c, d
  <2>5. k = 1 => m[k].start = 1
    <3>1. k = 1 => a = 1  BY <1>6
    <3>2. pieces[1].start = 1  BY <1>4, <1>5
    <3> HIDE DEF a
    <3>3. QED  BY <2>1, <3>1, <3>2
  <2>6. k # 1 => m[k].start = m[k - 1].start + m[k - 1].len
    <3>1. SUFFICES ASSUME k # 1 PROVE m[k].start = m[k - 1].start + m[k - 1].len  OBVIOUS
    <3> DEFINE p == k - 1
               b == IF p < j THEN p ELSE p + 1
    <3>2. p \in 1 .. N - 1  BY <1>4, <3>1
    <3>3. m[p].start + m[p].len = pieces[b].start + pieces[b].len  BY <1>10, <3>2
    <3>4. b = a - 1 /\ a # 1  BY <1>6, <3>2
    <3> HIDE DEF a, b
    <3>5. pieces[a].start = pieces[a - 1].start + pieces[a - 1].len  BY <1>5, <2>2, <3>4
    <3>6. pieces[b] = pieces[a - 1]  BY <3>4
    <3> HIDE DEF p
    <3>7. m[k].start = m[p].start + m[p].len  BY <2>1, <3>3, <3>5, <3>6
    <3>8. QED  BY <3>7 DEF p
  <2>7. QED  BY <2>4, <2>5, <2>6
<1>15. m[N - 1].start + m[N - 1].len = e + 1
  <2>1. N - 1 \in 1 .. N - 1 /\ ~ (N - 1 < j) /\ (N - 1) + 1 = N  BY <1>4, <1>6
  <2>2. m[N - 1].start + m[N - 1].len = pieces[N].start + pieces[N].len  BY <1>10, <2>1
  <2>3. QED  BY <1>5, <2>2
<1>16. QED  BY <1>12, <1>13, <1>14, <1>15 DEF Tiles, R, m

\* A piece stands for letters of its word.
LEMMA TextIs ==
  ASSUME NEW X, NEW word \in Seq(X), NEW e \in 0 .. Len(word), NEW pieces, Tiles(pieces, e),
         NEW i \in 1 .. Len(pieces)
  PROVE  Text(word, pieces[i]) \in Seq(X)
<1> DEFINE R == [start : Nat \ {0}, len : Nat]
           a == pieces[i].start
           z == pieces[i].start + pieces[i].len - 1
<1>1. pieces \in Seq(R) /\ z <= e  BY DEF Tiles
<1>2. \A q \in R : q.start \in Nat \ {0} /\ q.len \in Nat  OBVIOUS
<1> HIDE DEF R
<1>3. pieces[i] \in R  BY <1>1, ElementOfSeq
<1>4. pieces[i].start \in Nat \ {0} /\ pieces[i].len \in Nat  BY <1>2, <1>3
<1>5. a \in Nat \ {0} /\ z \in Int  BY <1>4
<1>6. Text(word, pieces[i]) = SubSeq(word, a, z)  BY DEF Text
<1> HIDE DEF a, z
<1>7. \A k \in a .. z : word[k] \in X  BY <1>1, <1>5
<1>8. QED  BY <1>5, <1>6, <1>7, SubSeqProperties

\* The strings the rules are stored under.
LEMMA RulesAre ==
  ASSUME NEW v, v.merges \in Seq(Seq(Letters) \X Seq(Letters))
  PROVE  RuleStrings(v) \in Seq(Seq(Letters))
<1> DEFINE Y == Seq(Letters)
           M == v.merges
           N == Len(M)
<1>1. <<Space>> \in Y  BY TokensAssumption
<1>2. \A a, b \in Y : RuleString(a, b) \in Y
  <2>1. TAKE a, b \in Y
  <2>2. a \o <<Space>> \in Y  BY <1>1, ConcatProperties
  <2>3. (a \o <<Space>>) \o b \in Y  BY <2>2, ConcatProperties
  <2>4. QED  BY <2>3 DEF RuleString
<1> HIDE DEF Y
<1>3. M \in Seq(Y \X Y)  BY DEF Y
<1> HIDE DEF M
<1>4. N \in Nat /\ DOMAIN M = 1 .. N /\ \A i \in 1 .. N : M[i] \in Y \X Y
  BY <1>3, LenProperties, ElementOfSeq
<1> HIDE DEF N
<1>5. \A i \in 1 .. N : M[i][1] \in Y /\ M[i][2] \in Y  BY <1>4
<1>6. \A i \in 1 .. N : RuleString(M[i][1], M[i][2]) \in Y  BY <1>2, <1>5
<1>7. RuleStrings(v) = [r \in 1 .. N |-> RuleString(M[r][1], M[r][2])]  BY <1>4 DEF RuleStrings, M
<1>8. RuleStrings(v) \in [1 .. N -> Y]  BY <1>6, <1>7
<1> DEFINE rules == RuleStrings(v)
<1> HIDE DEF rules
<1>9. rules \in [1 .. N -> Y]  BY <1>8 DEF rules
<1>10. rules \in Seq(Y)  BY <1>4, <1>9
<1>11. QED  BY <1>10 DEF rules, Y

\* Of the pairs of neighbours one has the lowest rank and is the first such.
LEMMA BestPairIs ==
  ASSUME NEW v, v.merges \in Seq(Seq(Letters) \X Seq(Letters)), v.ranks = Built(RuleStrings(v)),
         NEW word \in Seq(Letters), NEW e \in 0 .. Len(word), NEW pieces, Tiles(pieces, e),
         CanMerge(v, word, pieces)
  PROVE  BestPair(v, word, pieces) \in 1 .. Len(pieces) - 1
<1> DEFINE N == Len(pieces) - 1
           r(k) == RankOf(v, word, pieces[k], pieces[k + 1])
           rules == RuleStrings(v)
<1>1. N \in Int /\ \E i \in 1 .. N : r(i) < NoRank
  <2>1. pieces \in Seq([start : Nat \ {0}, len : Nat])  BY DEF Tiles
  <2>2. QED  BY <2>1, LenProperties DEF CanMerge
<1>2. rules \in Seq(Seq(Letters))  BY RulesAre
<1>3. ASSUME NEW k \in 1 .. N PROVE r(k) \in Nat
  <2> DEFINE s == Text(word, pieces[k])
             t == Text(word, pieces[k + 1])
             str == RuleString(s, t)
             f == Found(v.ranks, rules, str)
  <2>1. k \in 1 .. Len(pieces) /\ k + 1 \in 1 .. Len(pieces)  BY <1>1
  <2>2. s \in Seq(Letters) /\ t \in Seq(Letters)  BY <2>1, TextIs
  <2> HIDE DEF s, t
  <2>3. str \in Seq(Letters)
    <3>1. <<Space>> \in Seq(Letters)  BY TokensAssumption
    <3>2. s \o <<Space>> \in Seq(Letters)  BY <2>2, <3>1, ConcatProperties
    <3>3. (s \o <<Space>>) \o t \in Seq(Letters)  BY <2>2, <3>2, ConcatProperties
    <3>4. QED  BY <3>3 DEF RuleString
  <2> HIDE DEF str
  <2>4. f \in 0 .. Len(rules)  BY <1>2, <2>3, FoundIs
  <2>5. f \in Nat  BY <1>2, <2>4, LenProperties
  <2>6. r(k) = IF f = 0 THEN NoRank ELSE f  BY DEF RankOf, s, t, str
  <2> HIDE DEF f
  <2>7. QED  BY <2>5, <2>6 DEF NoRank
<1> DEFINE F == [k \in 1 .. N |-> r(k)]
           T == {F[k] : k \in 1 .. N}
           First(i) == \A j \in 1 .. N : F[i] <= F[j] /\ (j < i => F[i] < F[j])
           Chosen(i) == \A j \in 1 .. N : r(i) <= r(j) /\ (j < i => r(i) < r(j))
<1>4. BestPair(v, word, pieces) = CHOOSE i \in 1 .. N : Chosen(i)  BY DEF BestPair
<1>5. \A i \in 1 .. N : F[i] = r(i) /\ F[i] \in Nat  BY <1>3
<1>6. \A i \in 1 .. N : First(i) => Chosen(i)  BY <1>5
<1> HIDE DEF F, Chosen
<1>7. \E i \in 1 .. N : First(i)
  <2>1. 1 .. N # {}  BY <1>1
  <2> HIDE DEF N
  <2>2. T \subseteq Nat /\ T # {}  BY <1>5, <2>1
  <2>3. PICK m \in T : \A k \in T : m <= k  BY <2>2, LeastOfNat
  <2> DEFINE E == {k \in 1 .. N : F[k] = m}
  <2>4. E \subseteq Nat /\ E # {}
    <3>1. PICK k \in 1 .. N : m = F[k]  BY <2>3
    <3>2. k \in E  BY <3>1
    <3>3. E \subseteq Nat  BY <1>1
    <3>4. QED  BY <3>2, <3>3
  <2>5. PICK i \in E : \A k \in E : i <= k  BY <2>4, LeastOfNat
  <2>6. i \in 1 .. N /\ F[i] = m  BY <2>5
  <2>7. ASSUME NEW j \in 1 .. N PROVE F[i] <= F[j] /\ (j < i => F[i] < F[j])
    <3>1. F[j] \in T  OBVIOUS
    <3>2. m <= F[j] /\ m \in Nat /\ F[j] \in Nat  BY <1>5, <2>2, <2>3, <3>1
    <3>3. j < i => F[j] # m
      <4>1. SUFFICES ASSUME j < i, F[j] = m PROVE FALSE  OBVIOUS
      <4>2. j \in E  BY <4>1
      <4>3. i <= j  BY <2>5, <4>2
      <4>4. QED  BY <1>1, <2>6, <4>1, <4>3
    <3>4. QED  BY <2>6, <3>2, <3>3
  <2>8. QED  BY <2>6, <2>7
<1>8. \E i \in 1 .. N : Chosen(i)  BY <1>6, <1>7
<1> DEFINE c == CHOOSE i \in 1 .. N : Chosen(i)
<1>9. c \in 1 .. N  BY <1>8
<1>10. QED  BY <1>4, <1>9

\* The text goes on at pos with token t of l letters, and with no longer string of the vocabulary.
Continues(vocab, text, pos, t, l) ==
  /\ pos + l - 1 <= Len(text) /\ vocab[t] = SubSeq(text, pos, pos + l - 1)
  /\ \A k \in 1 .. MaxMatch :
       pos + k - 1 <= Len(text) /\ (\E u \in DOMAIN vocab : vocab[u] = SubSeq(text, pos, pos + k - 1))
       => k <= l

\* The string of the unknown token is not in the text.
NoUnk(v, text) ==
  v.unk \in DOMAIN v.vocab => \A i, j \in DOMAIN text : SubSeq(text, i, j) # v.vocab[v.unk]

\* The tokenizer answers with the longest beginning of the rest of the text that is a token.
LEMMA TokFindIs ==
  ASSUME NEW v, v.vocab \in Seq(Seq(Letters)), v.table = Built(v.vocab),
         NEW text \in Seq(Letters), NEW pos \in 1 .. Len(text),
         \E u \in DOMAIN v.vocab : v.vocab[u] = <<text[pos]>>,
         NoUnk(v, text),
         NEW t, t = hs_tok_find(v, SubSeq(text, pos, Smaller(Len(text), pos + MaxMatch - 1)))
  PROVE  /\ t \in DOMAIN v.vocab /\ t # v.unk
         /\ \E l \in 1 .. MaxMatch : Continues(v.vocab, text, pos, t, l)
<1> DEFINE L == Len(text)
           D == DOMAIN v.vocab
           b == Smaller(L, pos + MaxMatch - 1)
           B == b - pos + 1
           rest == SubSeq(text, pos, b)
           here(l) == SubSeq(text, pos, pos + l - 1)
           F(l) == Found(v.table, v.vocab, SubSeq(rest, 1, l))
           lens == {l \in 1 .. Len(rest) : F(l) # 0}
           c == CHOOSE l \in lens : \A k \in lens : k <= l
<1>1. MaxMatch \in Nat \ {0} /\ L \in Nat /\ pos \in 1 .. L  BY TokensAssumption
<1>2. /\ b \in pos .. L /\ B \in 1 .. MaxMatch /\ b = pos + B - 1
      /\ \A k \in 1 .. MaxMatch : pos + k - 1 <= L => k <= B
  BY <1>1 DEF Smaller
<1>3. \A l \in 1 .. L : text[l] \in Letters  OBVIOUS
<1>4. D = 1 .. Len(v.vocab) /\ Len(v.vocab) \in Nat  BY LenProperties
<1>5. t = IF lens = {} THEN v.unk ELSE F(c)  BY DEF hs_tok_find
<1>6. Len(rest) = B
  <2> HIDE DEF L, b, B
  <2>1. \A i \in pos .. b : text[i] \in Letters  BY <1>1, <1>2, <1>3
  <2>2. Len(rest) = IF pos <= b THEN b - pos + 1 ELSE 0  BY <1>1, <1>2, <2>1, SubSeqProperties
  <2>3. QED  BY <1>1, <1>2, <2>2 DEF B
<1> DEFINE G == [l \in 1 .. B |-> F(l)]
           H == [l \in 1 .. B |-> here(l)]
<1>7. ASSUME NEW l \in 1 .. B
      PROVE  /\ SubSeq(rest, 1, l) = here(l) /\ here(l) \in Seq(Letters)
             /\ pos + l - 1 \in 1 .. L
  <2>1. l \in Int /\ pos + l - 1 \in pos .. L  BY <1>1, <1>2
  <2>2. pos \in 1 .. L /\ b \in 1 .. L /\ 1 \in 1 .. b - pos + 1 /\ l \in 1 .. b - pos + 1
    BY <1>1, <1>2
  <2>3. (pos + 1) - 1 = pos  BY <1>1
  <2> HIDE DEF b
  <2>4. SubSeq(rest, 1, l) = SubSeq(text, pos + 1 - 1, pos + l - 1)  BY <2>2, SubSeqOfSubSeq
  <2> HIDE DEF L
  <2>5. \A i \in pos .. pos + l - 1 : text[i] \in Letters  BY <1>1, <1>3, <2>1
  <2>6. here(l) \in Seq(Letters)  BY <1>1, <2>1, <2>5, SubSeqProperties
  <2>7. pos + l - 1 \in 1 .. L  BY <1>1, <2>1
  <2>8. SubSeq(rest, 1, l) = here(l)
    <3> DEFINE p == pos + 1 - 1
    <3>1. SubSeq(rest, 1, l) = SubSeq(text, p, pos + l - 1)  BY <2>4
    <3>2. p = pos  BY <2>3
    <3> HIDE DEF p
    <3>3. QED  BY <3>1, <3>2
  <2>9. QED  BY <2>6, <2>7, <2>8
<1>8. ASSUME NEW l \in 1 .. B
      PROVE  /\ G[l] \in 0 .. Len(v.vocab)
             /\ G[l] # 0 => v.vocab[G[l]] = H[l]
             /\ G[l] = 0 => \A u \in D : v.vocab[u] # H[l]
  <2> DEFINE str == here(l)
  <2>1. str \in Seq(Letters) /\ G[l] = Found(v.table, v.vocab, str) /\ H[l] = str  BY <1>7
  <2> DEFINE strings == v.vocab
             table == v.table
             f == Found(table, strings, str)
  <2>2. strings \in Seq(Seq(Letters)) /\ table = Built(strings)  OBVIOUS
  <2> HIDE DEF str, G, H, strings, table
  <2>3. /\ f \in 0 .. Len(strings)
        /\ f # 0 => strings[f] = str
        /\ f = 0 => \A j \in 1 .. Len(strings) : strings[j] # str
    <3>1. str \in Seq(Letters)  BY <2>1
    <3>2. f \in 0 .. Len(strings)  BY <2>2, <3>1, FoundIs
    <3>3. f # 0 => strings[f] = str  BY <2>2, <3>1, FoundIs
    <3>4. f = 0 => \A j \in 1 .. Len(strings) : strings[j] # str  BY <2>2, <3>1, FoundIs
    <3>5. QED  BY <3>2, <3>3, <3>4
  <2>4. D = 1 .. Len(strings)  BY <1>4 DEF strings
  <2>5. G[l] = f  BY <2>1 DEF strings, table
  <2> HIDE DEF f
  <2>6. QED  BY <2>1, <2>3, <2>4, <2>5 DEF strings
<1>9. \A l \in 1 .. B : G[l] = F(l) /\ H[l] = here(l)  OBVIOUS
<1>10. lens = {l \in 1 .. B : G[l] # 0}  BY <1>6, <1>9
<1>11. pos + 1 - 1 = pos  BY <1>1
<1> HIDE DEF G, H, rest
<1>12. 1 \in lens
  <2>1. 1 \in 1 .. B  BY <1>2
  <2>2. H[1] = SubSeq(text, pos, pos)  BY <1>9, <1>11, <2>1
  <2>3. SubSeq(text, pos, pos) = <<text[pos]>>
    <3>1. \A i \in pos .. pos : text[i] \in Letters  BY <1>1, <1>3
    <3>2. SubSeq(text, pos, pos) \in Seq(Letters) /\ Len(SubSeq(text, pos, pos)) = 1
          /\ SubSeq(text, pos, pos)[1] = text[pos]
      <4>1. /\ SubSeq(text, pos, pos) \in Seq(Letters)
            /\ Len(SubSeq(text, pos, pos)) = IF pos <= pos THEN pos - pos + 1 ELSE 0
            /\ \A i \in 1 .. pos - pos + 1 : SubSeq(text, pos, pos)[i] = text[pos + i - 1]
        BY <1>1, <3>1, SubSeqProperties
      <4>2. pos - pos + 1 = 1 /\ 1 \in 1 .. 1  BY <1>1
      <4>3. QED  BY <1>1, <1>11, <4>1, <4>2
    <3> DEFINE one == SubSeq(text, pos, pos)
    <3> HIDE DEF one
    <3>3. one \in Seq(Letters) /\ Len(one) = 1 /\ one[1] = text[pos]  BY <3>2 DEF one
    <3>4. one = <<text[pos]>>  BY <3>3
    <3>5. QED  BY <3>4 DEF one
  <2>4. \E u \in D : v.vocab[u] = H[1]  BY <2>2, <2>3
  <2>5. G[1] # 0  BY <1>8, <2>1, <2>4
  <2>6. QED  BY <1>10, <2>1, <2>5
<1>13. c \in lens /\ \A k \in lens : k <= c
  <2>1. B \in Nat  BY <1>2
  <2> HIDE DEF B
  <2>2. lens \subseteq 0 .. B  BY <1>10, <2>1
  <2> HIDE DEF lens
  <2>3. \E l \in lens : \A k \in lens : k <= l  BY <1>12, <2>1, <2>2, GreatestOfNat
  <2>4. QED  BY <2>3
<1> HIDE DEF c
<1>14. c \in 1 .. B /\ G[c] # 0  BY <1>10, <1>13
<1>15. t = G[c]  BY <1>5, <1>9, <1>12, <1>14
<1>16. t \in D /\ v.vocab[t] = here(c)
  <2>1. G[c] \in 0 .. Len(v.vocab) /\ v.vocab[G[c]] = H[c]  BY <1>8, <1>14
  <2>2. H[c] = here(c)  BY <1>9, <1>14
  <2>3. t \in 1 .. Len(v.vocab)  BY <1>4, <1>14, <1>15, <2>1
  <2>4. t \in D  BY <1>4, <2>3
  <2> HIDE DEF D
  <2>5. v.vocab[t] = here(c)  BY <1>15, <2>1, <2>2
  <2>6. QED  BY <2>4, <2>5
<1>17. c \in 1 .. MaxMatch /\ pos + c - 1 \in 1 .. L /\ pos + c - 1 <= L
  BY <1>1, <1>2, <1>7, <1>14
<1>18. t # v.unk
  <2>1. SUFFICES ASSUME t = v.unk PROVE FALSE  OBVIOUS
  <2>2. pos \in DOMAIN text /\ pos + c - 1 \in DOMAIN text  BY <1>1, <1>17, LenProperties
  <2>3. SubSeq(text, pos, pos + c - 1) # v.vocab[v.unk]  BY <1>16, <2>1, <2>2 DEF NoUnk
  <2>4. QED  BY <1>16, <2>1, <2>3
<1>19. ASSUME NEW k \in 1 .. MaxMatch, pos + k - 1 <= L, \E u \in D : v.vocab[u] = here(k)
       PROVE  k <= c
  <2>1. k \in 1 .. B  BY <1>2, <1>19
  <2>2. H[k] = here(k)  BY <1>9, <2>1
  <2>3. G[k] # 0  BY <1>8, <1>19, <2>1, <2>2
  <2>4. k \in lens  BY <1>10, <2>1, <2>3
  <2>5. QED  BY <1>13, <2>4
<1>20. Continues(v.vocab, text, pos, t, c)  BY <1>16, <1>17, <1>19 DEF Continues
<1>21. QED  BY <1>16, <1>17, <1>18, <1>20

\* A token more.
LEMMA StringsGrow ==
  ASSUME NEW X, NEW vocab \in Seq(Seq(X)), NEW out \in Seq(DOMAIN vocab), NEW t \in DOMAIN vocab
  PROVE  /\ Append(out, t) \in Seq(DOMAIN vocab)
         /\ StringsIn(vocab, Append(out, t)) = StringsIn(vocab, out) \o vocab[t]
<1> DEFINE D == DOMAIN vocab
<1>1. StringsIn(vocab, <<t>>) = vocab[t]  BY StringsOfFew
<1>2. Append(out, t) \in Seq(D) /\ Append(out, t) = out \o <<t>>
  <2> HIDE DEF D
  <2>1. out \in Seq(D) /\ t \in D  BY DEF D
  <2>2. QED  BY <2>1, AppendProperties, AppendIsConcat
<1>3. <<t>> \in Seq(DOMAIN vocab)  OBVIOUS
<1>4. StringsIn(vocab, out \o <<t>>) = StringsIn(vocab, out) \o StringsIn(vocab, <<t>>)
  BY <1>3, StringsConcat
<1>5. QED  BY <1>1, <1>2, <1>4

\* What a beginning of a sequence keeps of the letters of a beginning.
LEMMA BeginningIs ==
  ASSUME NEW X, NEW s \in Seq(X), NEW n \in 0 .. Len(s), NEW k \in 0 .. n
  PROVE  /\ SubSeq(s, 1, n) \in Seq(X) /\ Len(SubSeq(s, 1, n)) = n
         /\ SubSeq(SubSeq(s, 1, n), 1, k) = SubSeq(s, 1, k)
<1>0. Len(s) \in Nat /\ n \in Int /\ k \in Int  OBVIOUS
<1>1. \A i \in 1 .. n : s[i] \in X  OBVIOUS
<1>2. SubSeq(s, 1, n) \in Seq(X) /\ Len(SubSeq(s, 1, n)) = IF 1 <= n THEN n - 1 + 1 ELSE 0
  BY <1>0, <1>1, SubSeqProperties
<1>3. CASE k = 0
  <2>1. SubSeq(SubSeq(s, 1, n), 1, 0) = <<>> /\ SubSeq(s, 1, 0) = <<>>  BY SubSeqEmpty
  <2>2. QED  BY <1>0, <1>2, <1>3, <2>1
<1>4. CASE k # 0
  <2>1. 1 \in 1 .. Len(s) /\ n \in 1 .. Len(s) /\ 1 \in 1 .. n - 1 + 1 /\ k \in 1 .. n - 1 + 1
    BY <1>0, <1>4
  <2>2. SubSeq(SubSeq(s, 1, n), 1, k) = SubSeq(s, 1 + 1 - 1, 1 + k - 1)  BY <2>1, SubSeqOfSubSeq
  <2>3. 1 + 1 - 1 = 1 /\ 1 + k - 1 = k  BY <1>0
  <2> DEFINE a == 1 + 1 - 1
             b == 1 + k - 1
  <2>4. SubSeq(SubSeq(s, 1, n), 1, k) = SubSeq(s, a, b) /\ a = 1 /\ b = k  BY <2>2, <2>3
  <2> HIDE DEF a, b
  <2>5. SubSeq(SubSeq(s, 1, n), 1, k) = SubSeq(s, 1, k)  BY <2>4
  <2>6. QED  BY <1>0, <1>2, <2>5
<1>5. QED  BY <1>3, <1>4

\* Token n of out is the longest string of the vocabulary the text goes on with.
LongestAt(vocab, text, out, n) ==
  LET from == 1 + Len(StringsIn(vocab, SubSeq(out, 1, n - 1)))
      here(l) == SubSeq(text, from, from + l - 1)
      lens == {l \in 1 .. MaxMatch : from + l - 1 <= Len(text)
                                       /\ \E t \in DOMAIN vocab : vocab[t] = here(l)}
  IN lens # {} => vocab[out[n]] = here(CHOOSE l \in lens : \A k \in lens : k <= l)

\* Earlier tokens stay what they are.
LEMMA LongestKept ==
  ASSUME NEW D, NEW vocab, NEW text, NEW out \in Seq(D), NEW t \in D, NEW n \in 1 .. Len(out),
         LongestAt(vocab, text, out, n)
  PROVE  LongestAt(vocab, text, Append(out, t), n)
<1> DEFINE after == Append(out, t)
<1>1. after[n] = out[n] /\ Len(out) \in Nat /\ after \in Seq(D) /\ Len(after) = Len(out) + 1
  BY AppendProperties
<1>2. SubSeq(after, 1, n - 1) = SubSeq(out, 1, n - 1)
  <2>1. CASE n = 1
    <3>1. n - 1 \in Int /\ n - 1 < 1  BY <2>1
    <3>2. QED  BY <3>1, SubSeqEmpty
  <2>2. CASE n # 1
    <3>1. 1 \in 1 .. Len(out) /\ n - 1 \in 1 .. Len(out)  BY <1>1, <2>2
    <3>2. <<t>> \in Seq(D)  OBVIOUS
    <3>3. SubSeq(out \o <<t>>, 1, n - 1) = SubSeq(out, 1, n - 1)  BY <3>1, <3>2, SubSeqOfConcat1
    <3>4. QED  BY <3>3, AppendIsConcat
  <2>3. QED  BY <2>1, <2>2
<1> DEFINE L(before, token) ==
             LET from == 1 + Len(StringsIn(vocab, before))
                 here(l) == SubSeq(text, from, from + l - 1)
                 lens == {l \in 1 .. MaxMatch : from + l - 1 <= Len(text)
                                                  /\ \E u \in DOMAIN vocab : vocab[u] = here(l)}
             IN lens # {} => vocab[token] = here(CHOOSE l \in lens : \A k \in lens : k <= l)
           a == SubSeq(out, 1, n - 1)
           b == SubSeq(after, 1, n - 1)
           u == out[n]
           w == after[n]
<1>3. L(a, u)  BY DEF LongestAt
<1>4. LongestAt(vocab, text, after, n) <=> L(b, w)  BY DEF LongestAt
<1>5. a = b /\ u = w  BY <1>1, <1>2
<1> HIDE DEF L, a, b, u, w
<1>6. L(b, w)  BY <1>3, <1>5
<1>7. QED  BY <1>4, <1>6

\* The last token, found at pos with l letters.
LEMMA LongestLast ==
  ASSUME NEW vocab, NEW text \in Seq(Letters), NEW out, NEW n, NEW pos \in Nat \ {0},
         1 + Len(StringsIn(vocab, SubSeq(out, 1, n - 1))) = pos, NEW l \in 1 .. MaxMatch,
         out[n] \in DOMAIN vocab, Continues(vocab, text, pos, out[n], l)
  PROVE  LongestAt(vocab, text, out, n)
<1> DEFINE here(k) == SubSeq(text, pos, pos + k - 1)
           lens == {k \in 1 .. MaxMatch : pos + k - 1 <= Len(text)
                                            /\ \E t \in DOMAIN vocab : vocab[t] = here(k)}
           c == CHOOSE k \in lens : \A i \in lens : i <= k
<1>1. l \in lens /\ (\A k \in lens : k <= l) /\ vocab[out[n]] = here(l)  BY DEF Continues
<1>2. \A k \in lens : k \in Int  BY TokensAssumption
<1>3. LongestAt(vocab, text, out, n) <=> (lens # {} => vocab[out[n]] = here(c))  BY DEF LongestAt
<1> HIDE DEF lens
<1>4. c \in lens /\ \A i \in lens : i <= c  BY <1>1
<1>5. c = l
  <2>1. c <= l /\ l <= c  BY <1>1, <1>4
  <2>2. c \in Int /\ l \in Int  BY <1>1, <1>2, <1>4
  <2> HIDE DEF c
  <2>3. QED  BY <2>1, <2>2
<1> HIDE DEF c
<1> HIDE DEF here
<1>6. vocab[out[n]] = here(c)  BY <1>1, <1>5
<1>7. QED  BY <1>3, <1>6

\* The text before pos became the tokens of out, each the longest possible.
UsedUp(vocab, text, pos, out) ==
  /\ out \in Seq(DOMAIN vocab)
  /\ StringsIn(vocab, out) = SubSeq(text, 1, pos - 1)
  /\ \A n \in 1 .. Len(out) : LongestAt(vocab, text, out, n)

\* A token of the longest-match tokenizer uses up its letters of the text.
LEMMA LongestStep ==
  ASSUME NEW v, v.vocab \in Seq(Seq(Letters)), v.table = Built(v.vocab),
         NEW text \in Seq(Letters), KnownIn(v.vocab, text),
         NoUnk(v, text), NEW pos \in 1 .. Len(text), NEW out, UsedUp(v.vocab, text, pos, out),
         NEW t, t = hs_tok_find(v, SubSeq(text, pos, Smaller(Len(text), pos + MaxMatch - 1))),
         NEW q, q = pos + IF t = v.unk THEN 1 ELSE Len(v.vocab[t])
  PROVE  q \in 1 .. Len(text) + 1 /\ UsedUp(v.vocab, text, q, Append(out, t))
<1> DEFINE vocab == v.vocab
           D == DOMAIN v.vocab
           after == Append(out, t)
           L == Len(text)
<1>0. L \in Nat /\ pos \in 1 .. L /\ DOMAIN text = 1 .. L  BY LenProperties
<1>1. /\ out \in Seq(D) /\ StringsIn(vocab, out) = SubSeq(text, 1, pos - 1)
      /\ \A n \in 1 .. Len(out) : LongestAt(vocab, text, out, n)
  BY DEF UsedUp
<1>2. t \in D /\ t # v.unk /\ \E l \in 1 .. MaxMatch : Continues(vocab, text, pos, t, l)
  <2>1. \E u \in DOMAIN v.vocab : v.vocab[u] = <<text[pos]>>  BY <1>0 DEF KnownIn
  <2>2. QED  BY <2>1, TokFindIs
<1>3. PICK l \in 1 .. MaxMatch : Continues(vocab, text, pos, t, l)  BY <1>2
<1>4. l \in Nat \ {0}  BY TokensAssumption
<1> DEFINE m == pos + l - 1
<1>5. m \in pos .. L /\ m + 1 = pos + l  BY <1>0, <1>3, <1>4 DEF Continues
<1>6. Len(vocab[t]) = l /\ vocab[t] = SubSeq(text, pos, m)
  <2>1. vocab[t] = SubSeq(text, pos, m)  BY <1>3 DEF Continues
  <2> HIDE DEF m
  <2>2. \A i \in pos .. m : text[i] \in Letters  BY <1>0, <1>5
  <2>3. Len(SubSeq(text, pos, m)) = IF pos <= m THEN m - pos + 1 ELSE 0
    BY <1>0, <1>5, <2>2, SubSeqProperties
  <2>4. QED  BY <1>0, <1>4, <1>5, <2>1, <2>3
<1>7. q = m + 1  BY <1>2, <1>5, <1>6
<1> HIDE DEF m
<1>8. q \in 1 .. L + 1 /\ q - 1 = m  BY <1>0, <1>5, <1>7
<1>9. after \in Seq(D) /\ StringsIn(vocab, after) = StringsIn(vocab, out) \o vocab[t]
  BY <1>2, <1>1, StringsGrow
<1>10. StringsIn(vocab, after) = SubSeq(text, 1, q - 1)
  <2>1. 1 \in 1 .. L + 1 /\ pos - 1 \in 1 - 1 .. L /\ m \in pos - 1 .. L /\ (pos - 1) + 1 = pos
    BY <1>0, <1>5
  <2> DEFINE k == pos - 1
  <2>2. SubSeq(text, 1, k) \o SubSeq(text, k + 1, m) = SubSeq(text, 1, m)
    BY <2>1, ConcatAdjacentSubSeq
  <2>3. k + 1 = pos /\ StringsIn(vocab, out) = SubSeq(text, 1, k)  BY <1>1, <2>1
  <2> HIDE DEF k, after, vocab
  <2>4. SubSeq(text, 1, k) \o vocab[t] = SubSeq(text, 1, m)  BY <1>6, <2>2, <2>3
  <2>5. QED  BY <1>8, <1>9, <2>3, <2>4
<1>11. ASSUME NEW n \in 1 .. Len(after) PROVE LongestAt(vocab, text, after, n)
  <2>0. out \in Seq(D)  BY <1>1
  <2>1. /\ Len(out) \in Nat /\ Len(after) = Len(out) + 1
        /\ after[Len(out) + 1] = t /\ SubSeq(after, 1, Len(out)) = out
    <3> HIDE DEF D
    <3>1. Len(out) \in Nat /\ Len(after) = Len(out) + 1 /\ after[Len(out) + 1] = t
          /\ \A i \in 1 .. Len(out) : after[i] = out[i] /\ out[i] \in D
      BY <1>2, <2>0, AppendProperties, ElementOfSeq, LenProperties
    <3> DEFINE N == Len(out)
               s == SubSeq(after, 1, N)
    <3> HIDE DEF after, N
    <3>2. N \in Nat /\ \A i \in 1 .. N : after[i] = out[i] /\ out[i] \in D  BY <3>1 DEF N
    <3>3. \A i \in 1 .. N : after[i] \in D  BY <3>2
    <3>4. s \in Seq(D) /\ Len(s) = (IF 1 <= N THEN N - 1 + 1 ELSE 0)
          /\ \A i \in 1 .. N - 1 + 1 : s[i] = after[1 + i - 1]
      BY <3>2, <3>3, SubSeqProperties
    <3> HIDE DEF s
    <3>5. Len(s) = N /\ \A i \in 1 .. N : s[i] = out[i]
      <4>1. \A i \in 1 .. N : i \in 1 .. N - 1 + 1 /\ 1 + i - 1 = i  BY <3>2
      <4>2. QED  BY <3>2, <3>4, <4>1
    <3>6. s = out  BY <2>0, <3>4, <3>5, SeqEqual DEF N
    <3>7. QED  BY <3>1, <3>6 DEF s, N
  <2>2. CASE n <= Len(out)
    <3>1. n \in 1 .. Len(out)  BY <2>1, <2>2
    <3>2. LongestAt(vocab, text, out, n)  BY <1>1, <3>1
    <3> HIDE DEF D
    <3>3. QED  BY <1>2, <2>0, <3>1, <3>2, LongestKept
  <2>3. CASE n = Len(out) + 1
    <3>1. n - 1 = Len(out) /\ after[n] = t  BY <2>1, <2>3
    <3>2. SubSeq(after, 1, n - 1) = out  BY <2>1, <3>1
    <3>3. Len(StringsIn(vocab, out)) = pos - 1
      <4>1. pos - 1 \in 0 .. Len(text)  BY <1>0
      <4>2. pos - 1 \in 0 .. pos - 1  BY <1>0
      <4>3. Len(SubSeq(text, 1, pos - 1)) = pos - 1  BY <4>1, <4>2, BeginningIs
      <4>4. QED  BY <1>1, <4>3
    <3>4. 1 + Len(StringsIn(vocab, SubSeq(after, 1, n - 1))) = pos /\ pos \in Nat \ {0}
      <4> DEFINE x == SubSeq(after, 1, n - 1)
      <4>1. x = out  BY <3>2
      <4> HIDE DEF x, vocab
      <4>2. Len(StringsIn(vocab, x)) = pos - 1  BY <3>3, <4>1
      <4> DEFINE y == Len(StringsIn(vocab, x))
      <4> HIDE DEF y
      <4>3. y = pos - 1  BY <4>2 DEF y
      <4>4. 1 + y = pos /\ pos \in Nat \ {0}  BY <1>0, <4>3
      <4>5. QED  BY <4>4 DEF x, y
    <3> HIDE DEF after, vocab, D
    <3>5. after[n] \in DOMAIN vocab /\ Continues(vocab, text, pos, after[n], l)
      BY <1>2, <1>3, <3>1 DEF D, vocab
    <3>6. QED  BY <3>4, <3>5, LongestLast
  <2>4. QED  BY <2>1, <2>2, <2>3
<1>12. QED  BY <1>8, <1>9, <1>10, <1>11 DEF UsedUp

\* What is decoded is a beginning of the text.
LEMMA DecodedIs ==
  ASSUME NEW v, v.vocab \in Seq(Seq(Letters)), NEW text \in Seq(Letters), NEW pos \in 1 .. Len(text) + 1,
         NEW out \in Seq(DOMAIN v.vocab), StringsIn(v.vocab, out) = SubSeq(text, 1, pos - 1),
         NEW back, back = hs_tokenizer_decode(v, out, MaxText)
  PROVE  back = SubSeq(text, 1, Len(back)) /\ Len(back) >= Smaller(MaxText, pos) - 1
<1> DEFINE s == SubSeq(text, 1, pos - 1)
           n == MaxText - 1
           k == Smaller(n, Len(s))
<1>1. pos \in Nat \ {0} /\ n \in Nat /\ MaxText \in Nat /\ pos - 1 \in 0 .. Len(text)
  BY TokensAssumption
<1>2. \A i \in DOMAIN out : out[i] \in DOMAIN v.vocab
  <2> DEFINE D == DOMAIN v.vocab
  <2>1. out \in Seq(D)  OBVIOUS
  <2> HIDE DEF D
  <2>2. \A i \in DOMAIN out : out[i] \in D  BY <2>1
  <2>3. QED  BY <2>2 DEF D
<1>3. back = CutTo(StringsIn(v.vocab, out), n)
  <2>1. [i \in DOMAIN out |-> IF out[i] \in DOMAIN v.vocab THEN v.vocab[out[i]] ELSE <<>>]
        = [i \in DOMAIN out |-> v.vocab[out[i]]]
    BY <1>2
  <2>2. QED  BY <2>1 DEF hs_tokenizer_decode, StringsIn
<1>4. Len(s) = pos - 1  BY <1>1, BeginningIs
<1>5. k \in 0 .. pos - 1 /\ k = Smaller(MaxText, pos) - 1  BY <1>1, <1>4 DEF Smaller
<1>6. back = SubSeq(s, 1, k)  BY <1>3 DEF CutTo
<1> HIDE DEF k
<1>7. SubSeq(s, 1, k) = SubSeq(text, 1, k)  BY <1>1, <1>5, BeginningIs
<1>8. Len(back) = k
  <2>1. k \in 0 .. Len(text)  BY <1>1, <1>5
  <2>2. k \in 0 .. k  BY <2>1
  <2>3. QED  BY <1>6, <1>7, <2>1, <2>2, BeginningIs
<1>9. k >= Smaller(MaxText, pos) - 1
  <2>1. k \in Int  BY <1>5
  <2> DEFINE w == Smaller(MaxText, pos) - 1
  <2>2. k = w  BY <1>5
  <2> HIDE DEF w
  <2>3. k >= w  BY <2>1, <2>2
  <2>4. QED  BY <2>3 DEF w
<1>10. QED  BY <1>6, <1>7, <1>8, <1>9

\* A text as the encoder sees it.
LEMMA LedIs ==
  ASSUME NEW text \in Seq(Letters)
  PROVE  /\ Led(text) \in Seq(Letters) /\ Len(Led(text)) = Len(text)
         /\ \A i \in 1 .. Len(text) : Led(text)[i] = IF text[i] = Space THEN 0 ELSE text[i]
         /\ \A n \in 0 .. Len(text) : Led(SubSeq(text, 1, n)) = SubSeq(Led(text), 1, n)
<1> DEFINE L == Len(text)
           led == Led(text)
<1>1. L \in Nat /\ DOMAIN text = 1 .. L /\ \A i \in 1 .. L : text[i] \in Letters
  BY LenProperties, ElementOfSeq
<1>2. led = [i \in 1 .. L |-> IF text[i] = Space THEN 0 ELSE text[i]]  BY <1>1 DEF Led
<1>3. 0 \in Letters  BY TokensAssumption
<1> HIDE DEF L, led
<1>4. led \in [1 .. L -> Letters]  BY <1>1, <1>2, <1>3
<1>5. led \in Seq(Letters) /\ Len(led) = L  BY <1>1, <1>4
<1>6. \A i \in 1 .. L : led[i] = IF text[i] = Space THEN 0 ELSE text[i]  BY <1>2
<1>7. ASSUME NEW n \in 0 .. L
      PROVE  Led(SubSeq(text, 1, n)) = SubSeq(led, 1, n)
  <2> DEFINE s == SubSeq(text, 1, n)
             u == SubSeq(led, 1, n)
  <2>1. n \in Int /\ n - 1 + 1 = n /\ 1 .. n \subseteq 1 .. L /\ \A i \in 1 .. n : 1 + i - 1 = i
    BY <1>1
  <2>2. \A i \in 1 .. n : text[i] \in Letters /\ led[i] \in Letters  BY <1>1, <1>4, <2>1
  <2>3. s \in Seq(Letters) /\ Len(s) = (IF 1 <= n THEN n - 1 + 1 ELSE 0)
        /\ \A i \in 1 .. n - 1 + 1 : s[i] = text[1 + i - 1]
    BY <2>1, <2>2, SubSeqProperties
  <2>4. u \in Seq(Letters) /\ Len(u) = (IF 1 <= n THEN n - 1 + 1 ELSE 0)
        /\ \A i \in 1 .. n - 1 + 1 : u[i] = led[1 + i - 1]
    BY <2>1, <2>2, SubSeqProperties
  <2> HIDE DEF s, u
  <2>5. Len(s) = n /\ Len(u) = n  BY <2>1, <2>3, <2>4
  <2>6. \A i \in 1 .. n : s[i] = text[i] /\ u[i] = led[i]  BY <2>1, <2>3, <2>4
  <2>7. DOMAIN s = 1 .. n  BY <2>3, <2>5, LenProperties
  <2> DEFINE w == Led(s)
  <2>8. w = [i \in 1 .. n |-> IF s[i] = Space THEN 0 ELSE s[i]]  BY <2>7 DEF Led
  <2> HIDE DEF w
  <2>9. \A i \in 1 .. n : w[i] = u[i] /\ u[i] \in Letters
    <3>1. TAKE i \in 1 .. n
    <3>2. i \in 1 .. L  BY <2>1
    <3>3. w[i] = IF text[i] = Space THEN 0 ELSE text[i]  BY <2>6, <2>8
    <3>4. u[i] = IF text[i] = Space THEN 0 ELSE text[i]  BY <1>6, <2>6, <3>2
    <3>5. u[i] \in Letters  BY <2>2, <2>6
    <3>6. QED  BY <3>3, <3>4, <3>5
  <2>10. w = [i \in 1 .. n |-> w[i]] /\ n \in Nat  BY <1>1, <2>1, <2>8
  <2>11. w \in [1 .. n -> Letters]  BY <2>9, <2>10
  <2>12. w \in Seq(Letters) /\ Len(w) = n  BY <2>10, <2>11
  <2>13. w = u  BY <2>4, <2>5, <2>9, <2>12, SeqEqual
  <2>14. QED  BY <2>13 DEF w, s, u
<1>8. QED  BY <1>5, <1>6, <1>7 DEF L, led

\* The next word of a text, and where it ends.
NextWord(text, pos, lead, from, end, word) ==
  /\ lead = Lead(text, pos) /\ from = pos + Len(lead)
  /\ end = WordEnd(text, from, MaxWord - Len(lead))
  /\ word = lead \o SubSeq(text, from, end - 1)

\* The word stands for the known letters from pos to its end.
WordOf(vocab, text, pos, end, word) ==
  /\ word \in Seq(Letters) /\ KnownIn(vocab, word) /\ word # <<>>
  /\ end \in pos + 1 .. Len(text) + 1
  /\ Led(SubSeq(text, 1, end - 1)) = Led(SubSeq(text, 1, pos - 1)) \o word
  /\ ShortWords(text) => Len(word) <= MaxPieces

\* The next word stands for the letters from pos to its end.
LEMMA WordIs ==
  ASSUME NEW vocab, NEW text \in Seq(Letters), KnownIn(vocab, text),
         \E t \in DOMAIN vocab : vocab[t] = << 0 >>,
         NEW pos \in 1 .. Len(text),
         NEW lead, NEW from, NEW end, NEW word, NextWord(text, pos, lead, from, end, word)
  PROVE  WordOf(vocab, text, pos, end, word)
<1> DEFINE L == Len(text)
           led == Led(text)
           room == MaxWord - Len(lead)
           a == SubSeq(text, from, end - 1)
           N == end - pos
<1>0. L \in Nat /\ pos \in 1 .. L /\ DOMAIN text = 1 .. L /\ (\A i \in 1 .. L : text[i] \in Letters)
  BY LenProperties, ElementOfSeq
<1>1. /\ lead = Lead(text, pos) /\ from = pos + Len(lead)
       /\ end = WordEnd(text, from, MaxWord - Len(lead))
       /\ word = lead \o SubSeq(text, from, end - 1)
  BY DEF NextWord
<1>2. /\ lead \in Seq(Letters)
      /\ text[pos] = Space => Len(lead) = 1 /\ lead[1] = 0
      /\ text[pos] # Space => Len(lead) = 0
  <2>1. CASE text[pos] = Space
    <3>1. lead = << 0 >>  BY <1>1, <2>1 DEF Lead
    <3>2. QED  BY <2>1, <3>1, TokensAssumption
  <2>2. CASE text[pos] # Space
    <3>1. lead = <<>>  BY <1>1, <2>2 DEF Lead
    <3>2. QED  BY <2>2, <3>1, EmptySeq
  <2>3. QED  BY <2>1, <2>2
<1>3. from \in 1 .. L + 1 /\ room \in Nat \ {0} /\ (from = pos \/ from = pos + 1)
      /\ (from = pos <=> text[pos] # Space)
  <2> DEFINE l == Len(lead)
  <2>1. MaxWord \in Nat \ {0, 1}  BY TokensAssumption
  <2>2. (l = 0 \/ l = 1) /\ (l = 0 <=> text[pos] # Space)  BY <1>2
  <2>3. from = pos + l /\ room = MaxWord - l  BY <1>1
  <2> HIDE DEF l, room
  <2>4. from \in 1 .. L + 1 /\ room \in Nat \ {0}  BY <1>0, <2>1, <2>2, <2>3
  <2>5. from = pos + l /\ pos \in Int  BY <1>0, <2>3
  <2>6. (from = pos <=> l = 0) /\ (from = pos \/ from = pos + 1)  BY <2>2, <2>5
  <2>7. QED  BY <2>2, <2>4, <2>6
<1>4. /\ end \in from .. L + 1
      /\ \A i \in from .. end - 1 : text[i] # Space
      /\ end = L + 1 \/ end - from = room \/ text[end] = Space
  BY <1>1, <1>3, WordEndIs
<1> HIDE DEF room
<1>5. end \in pos + 1 .. L + 1 /\ N \in Nat \ {0}
  <2>1. CASE from = pos + 1  BY <1>0, <1>4, <2>1
  <2>2. CASE from = pos
    <3>1. end # from  BY <1>0, <1>3, <1>4, <2>2
    <3>2. QED  BY <1>0, <1>4, <2>2, <3>1
  <2>3. QED  BY <1>3, <2>1, <2>2
<1>6. a \in Seq(Letters) /\ Len(a) = end - from /\ \A i \in 1 .. end - from : a[i] = text[from + i - 1]
  <2> HIDE DEF L
  <2>1. \A i \in from .. end - 1 : text[i] \in Letters  BY <1>0, <1>3, <1>4
  <2>2. from \in Int /\ end - 1 \in Int  BY <1>3, <1>4
  <2>3. /\ a \in Seq(Letters)
        /\ Len(a) = (IF from <= end - 1 THEN (end - 1) - from + 1 ELSE 0)
        /\ \A i \in 1 .. (end - 1) - from + 1 : a[i] = text[from + i - 1]
    BY <2>1, <2>2, SubSeqProperties
  <2>4. (end - 1) - from + 1 = end - from  BY <1>3, <1>4
  <2> HIDE DEF a
  <2>5. Len(a) = end - from  BY <1>3, <1>4, <2>3, <2>4
  <2>6. QED  BY <2>3, <2>4, <2>5
<1> HIDE DEF a
<1>7. word = lead \o a  BY <1>1 DEF a
<1>8. /\ word \in Seq(Letters) /\ Len(word) = Len(lead) + Len(a)
      /\ \A i \in 1 .. Len(lead) + Len(a) : word[i] = IF i <= Len(lead) THEN lead[i] ELSE a[i - Len(lead)]
  <2> DEFINE w == lead \o a
  <2>1. /\ w \in Seq(Letters) /\ Len(w) = Len(lead) + Len(a)
        /\ \A i \in 1 .. Len(lead) + Len(a) : w[i] = IF i <= Len(lead) THEN lead[i] ELSE a[i - Len(lead)]
    <3>1. lead \in Seq(Letters) /\ a \in Seq(Letters)  BY <1>2, <1>6
    <3>2. QED  BY <3>1, ConcatProperties
  <2>2. word = w  BY <1>7
  <2> HIDE DEF w
  <2>3. QED  BY <2>1, <2>2
<1>9. Len(word) = N
  <2> DEFINE l == Len(lead)
             w == Len(word)
  <2>1. (l = 0 \/ l = 1) /\ from = pos + l  BY <1>1, <1>2
  <2>2. w = l + (end - from)  BY <1>6, <1>8
  <2>3. from \in Int /\ end \in Int /\ pos \in Int  BY <1>0, <1>3, <1>4
  <2> HIDE DEF l, w
  <2>4. w = end - pos  BY <2>1, <2>2, <2>3
  <2>5. QED  BY <2>4 DEF w
<1>10. led \in Seq(Letters) /\ Len(led) = L
      /\ \A i \in 1 .. L : led[i] = IF text[i] = Space THEN 0 ELSE text[i]
  BY LedIs
<1>11. ASSUME NEW i \in 1 .. N
       PROVE  pos + i - 1 \in 1 .. L /\ word[i] = led[pos + i - 1]
  <2> DEFINE p == pos + i - 1
  <2>1. p \in 1 .. L /\ p \in pos .. end - 1 /\ i \in 1 .. Len(lead) + Len(a)
    <3>1. p \in 1 .. L /\ p \in pos .. end - 1
      <4>1. i \in Nat \ {0} /\ i <= end - pos /\ end \in Int /\ end <= L + 1  BY <1>0, <1>5
      <4> HIDE DEF L, N
      <4>2. p \in Int /\ p >= pos /\ p <= end - 1  BY <1>0, <4>1
      <4>3. pos >= 1 /\ end - 1 <= L  BY <1>0, <4>1
      <4> HIDE DEF p
      <4>4. QED  BY <1>0, <4>1, <4>2, <4>3
    <3> HIDE DEF N
    <3>2. i \in 1 .. Len(lead) + Len(a)  BY <1>8, <1>9
    <3>3. QED  BY <3>1, <3>2
  <2>2. led[p] = IF text[p] = Space THEN 0 ELSE text[p]  BY <1>10, <2>1
  <2>3. CASE text[pos] = Space /\ i = 1
    <3>1. word[i] = 0
      <4>1. Len(lead) = 1 /\ lead[1] = 0 /\ i <= 1  BY <1>2, <2>3
      <4>2. word[i] = IF i <= Len(lead) THEN lead[i] ELSE a[i - Len(lead)]  BY <1>8, <2>1
      <4>3. word[i] = lead[i]  BY <4>1, <4>2
      <4>4. QED  BY <2>3, <4>1, <4>3
    <3>2. p = pos  BY <1>0, <2>3
    <3> HIDE DEF p, led
    <3>3. QED  BY <2>1, <2>2, <2>3, <3>1, <3>2 DEF p
  <2>4. CASE text[pos] = Space /\ i # 1
    <3>1. from = pos + 1 /\ Len(lead) = 1  BY <1>2, <1>3, <2>4
    <3>2. word[i] = a[i - 1]
      <4>1. word[i] = IF i <= Len(lead) THEN lead[i] ELSE a[i - Len(lead)]  BY <1>8, <2>1
      <4>2. ~ (i <= 1)  BY <2>4
      <4>3. QED  BY <3>1, <4>1, <4>2
    <3>3. i - 1 \in 1 .. end - from /\ from + (i - 1) - 1 = p /\ p \in from .. end - 1
      BY <1>0, <1>4, <1>5, <2>1, <2>4, <3>1
    <3>4. a[i - 1] = text[from + (i - 1) - 1]  BY <1>6, <3>3
    <3>5. text[p] # Space  BY <1>4, <3>3
    <3> DEFINE h == from + (i - 1) - 1
    <3>6. h = p /\ a[i - 1] = text[h]  BY <3>3, <3>4
    <3> HIDE DEF p, led, h
    <3>7. word[i] = led[p]  BY <2>2, <3>2, <3>5, <3>6
    <3>8. QED  BY <2>1, <3>7 DEF p
  <2>5. CASE text[pos] # Space
    <3>1. from = pos /\ Len(lead) = 0  BY <1>2, <1>3, <2>5
    <3>2. word[i] = a[i]
      <4>1. i - 0 = i /\ ~ (i <= 0)  OBVIOUS
      <4>2. word[i] = IF i <= 0 THEN lead[i] ELSE a[i - 0]  BY <1>8, <2>1, <3>1
      <4>3. QED  BY <4>1, <4>2
    <3>3. i \in 1 .. end - from /\ p \in from .. end - 1  BY <2>1, <3>1
    <3>4. a[i] = text[p]  BY <1>6, <3>1, <3>3
    <3>5. text[p] # Space  BY <1>4, <3>3
    <3> HIDE DEF p, led
    <3>6. word[i] = led[p]  BY <2>2, <3>2, <3>4, <3>5
    <3>7. QED  BY <2>1, <3>6 DEF p
  <2>6. QED  BY <2>3, <2>4, <2>5
<1> HIDE DEF N
<1>12. word # <<>>  BY <1>5, <1>9, EmptySeq
<1>13. KnownIn(vocab, word)
  <2>1. SUFFICES ASSUME NEW i \in DOMAIN word
                 PROVE  \E t \in DOMAIN vocab : vocab[t] = <<word[i]>>
    BY DEF KnownIn
  <2>2. i \in 1 .. N  BY <1>8, <1>9, LenProperties
  <2> DEFINE p == pos + i - 1
  <2>3. p \in 1 .. L /\ word[i] = led[p]  BY <1>11, <2>2
  <2> HIDE DEF p
  <2>4. word[i] = IF text[p] = Space THEN 0 ELSE text[p]  BY <1>10, <2>3
  <2>5. \E t \in DOMAIN vocab : vocab[t] = <<text[p]>>  BY <1>0, <2>3 DEF KnownIn
  <2>6. QED  BY <2>4, <2>5
<1>14. Led(SubSeq(text, 1, end - 1)) = Led(SubSeq(text, 1, pos - 1)) \o word
  <2> DEFINE k == pos - 1
             m == end - 1
             b == SubSeq(led, k + 1, m)
  <2>1. k \in 0 .. L /\ m \in k .. L /\ k + 1 = pos
    <3>0. end \in Int /\ pos + 1 <= end /\ end <= L + 1 /\ pos \in Int /\ L \in Int  BY <1>0, <1>5
    <3> HIDE DEF L
    <3>1. k \in Nat /\ k + 1 = pos /\ k <= L  BY <1>0
    <3>2. m \in Int  BY <3>0
    <3>3. m <= L  BY <3>0
    <3>4. m >= k  BY <3>0
    <3> HIDE DEF k, m
    <3>5. QED  BY <1>0, <3>1, <3>2, <3>3, <3>4
  <2>2. Led(SubSeq(text, 1, m)) = SubSeq(led, 1, m) /\ Led(SubSeq(text, 1, k)) = SubSeq(led, 1, k)
    <3>1. k \in 0 .. L /\ m \in 0 .. L  BY <2>1
    <3> HIDE DEF k, m
    <3>2. QED  BY <3>1, LedIs
  <2> HIDE DEF k, m, led
  <2>3. word = b
    <3>1. \A i \in k + 1 .. m : led[i] \in Letters
      <4>1. \A i \in 1 .. L : led[i] \in Letters  BY <1>10, ElementOfSeq
      <4>2. QED  BY <1>0, <2>1, <4>1
    <3>2. k + 1 \in Int /\ m \in Int  BY <1>0, <2>1
    <3>3. /\ b \in Seq(Letters) /\ Len(b) = (IF k + 1 <= m THEN m - (k + 1) + 1 ELSE 0)
          /\ \A i \in 1 .. m - (k + 1) + 1 : b[i] = led[(k + 1) + i - 1]
      <4> DEFINE c == k + 1
      <4>1. c \in Int /\ \A i \in c .. m : led[i] \in Letters  BY <3>1, <3>2
      <4>2. b = SubSeq(led, c, m)  BY DEF b
      <4> HIDE DEF b, c
      <4>3. /\ b \in Seq(Letters) /\ Len(b) = (IF c <= m THEN m - c + 1 ELSE 0)
            /\ \A i \in 1 .. m - c + 1 : b[i] = led[c + i - 1]
        BY <3>2, <4>1, <4>2, SubSeqProperties
      <4>4. QED  BY <4>3 DEF c
    <3>4. m - (k + 1) + 1 = N /\ k + 1 <= m
      <4>1. end \in Int /\ pos \in Int /\ pos + 1 <= end  BY <1>0, <1>5
      <4>2. QED  BY <4>1 DEF k, m, N
    <3> HIDE DEF b
    <3>5. Len(b) = N /\ \A i \in 1 .. N : b[i] = led[(k + 1) + i - 1]  BY <3>3, <3>4
    <3>6. \A i \in 1 .. N : word[i] = b[i]
      <4>1. TAKE i \in 1 .. N
      <4>2. b[i] = led[(k + 1) + i - 1]  BY <3>5
      <4> DEFINE c == k + 1
      <4>3. c = pos /\ b[i] = led[c + i - 1]  BY <2>1, <4>2
      <4> HIDE DEF c
      <4>4. b[i] = led[pos + i - 1]  BY <4>3
      <4>5. QED  BY <1>11, <4>4
    <3>7. QED  BY <1>8, <1>9, <3>3, <3>5, <3>6, SeqEqual
  <2>4. SubSeq(led, 1, k) \o b = SubSeq(led, 1, m)
    <3>1. 1 \in 1 .. Len(led) + 1 /\ k \in 1 - 1 .. Len(led) /\ m \in k .. Len(led)
      BY <1>0, <1>10, <2>1
    <3>2. QED  BY <1>10, <3>1, ConcatAdjacentSubSeq
  <2> DEFINE x == SubSeq(led, 1, k)
             y == SubSeq(led, 1, m)
  <2> HIDE DEF b, x, y
  <2>5. y = x \o word  BY <2>3, <2>4 DEF x, y
  <2>6. QED  BY <2>2, <2>5 DEF k, m, x, y
<1>15. ASSUME ShortWords(text) PROVE Len(word) <= MaxPieces
  <2>0. MaxPieces \in Nat  BY TokensAssumption
  <2>1. SUFFICES ASSUME N > MaxPieces PROVE FALSE  BY <1>5, <1>9, <2>0
  <2>2. pos \in 1 .. L - MaxPieces
    <3>1. end \in Int /\ end <= L + 1 /\ end - pos > MaxPieces  BY <1>0, <1>5, <2>1 DEF N
    <3> HIDE DEF L
    <3>2. pos <= L - MaxPieces  BY <1>0, <2>0, <3>1
    <3>3. QED  BY <1>0, <2>0, <3>2
  <2>3. PICK j \in pos + 1 .. pos + MaxPieces : text[j] = Space  BY <1>15, <2>2 DEF ShortWords
  <2>4. j \in from .. end - 1
    <3>1. end \in Int /\ end - pos > MaxPieces  BY <1>0, <1>5, <2>1 DEF N
    <3> HIDE DEF L
    <3>2. j \in Int /\ pos + 1 <= j /\ j <= pos + MaxPieces  BY <1>0, <2>0
    <3>3. from \in Int /\ from <= pos + 1  BY <1>0, <1>3
    <3>4. pos \in Int  BY <1>0
    <3>5. from <= j  BY <3>2, <3>3, <3>4
    <3>6. j <= end - 1  BY <2>0, <3>1, <3>2, <3>4
    <3>7. QED  BY <3>1, <3>2, <3>3, <3>5, <3>6
  <2>5. QED  BY <1>4, <2>3, <2>4
<1>16. QED  BY <1>5, <1>8, <1>12, <1>13, <1>14, <1>15 DEF WordOf

-----------------------------------------------------------------------------
(* The inductive invariant of the tokenizers.                               *)

\* The vocabulary in use and its tables belong together.
LoadedOk(v) ==
  /\ v.vocab \in Seq(Seq(Letters)) /\ v.merges \in Seq(Seq(Letters) \X Seq(Letters))
  /\ v.table = Built(v.vocab) /\ v.ranks = Built(RuleStrings(v))
  /\ \A text \in Texts : NoUnk(v, text)

JobShape(j) ==
  /\ j = [kind |-> j.kind, text |-> j.text, pos |-> j.pos, word |-> j.word, pieces |-> j.pieces,
          out |-> j.out, back |-> j.back, at |-> j.at]
  /\ j.kind \in {"longest", "bpe"} /\ j.text \in Texts

TextKnown(v, j) ==
  /\ KnownIn(v.vocab, j.text)
  /\ j.kind = "bpe" => \E t \in DOMAIN v.vocab : v.vocab[t] = << 0 >>

\* The longest-match tokenizer has used up the text before pos.
LongestOk(v, j) ==
  /\ j.pos \in 1 .. Len(j.text) + 1 /\ j.word = <<>>
  /\ UsedUp(v.vocab, j.text, j.pos, j.out)
  /\ j.at = "done" => j.back = SubSeq(j.text, 1, Len(j.back))
                      /\ Len(j.back) >= Smaller(MaxText, j.pos) - 1

\* The encoder has written the text before its word, and pieces tile the word.
BpeOk(v, j) ==
  /\ j.pos \in 1 .. Len(j.text) + 1 /\ j.out \in Seq(DOMAIN v.vocab)
  /\ j.word \in Seq(Letters) /\ KnownIn(v.vocab, j.word)
  /\ j.word = <<>> => j.pieces = <<>>
  /\ j.word # <<>> => Tiles(j.pieces, Smaller(MaxPieces, Len(j.word))) /\ Len(j.out) < MaxOut
  /\ ShortWords(j.text) => Len(j.word) <= MaxPieces
  /\ Len(j.out) < MaxOut /\ ShortWords(j.text) =>
        StringsIn(v.vocab, j.out) \o j.word = Led(SubSeq(j.text, 1, j.pos - 1))

JobOk(v, j) ==
  /\ JobShape(j)
  /\ TextKnown(v, j) => /\ j.kind = "longest" => LongestOk(v, j)
                        /\ j.kind = "bpe" => BpeOk(v, j)

TokInv ==
  /\ loaded = NotLoaded => job = NoJob
  /\ loaded # NotLoaded => LoadedOk(loaded)
  /\ job # NoJob => JobOk(loaded, job)

\* A call begins.
LEMMA StartOk ==
  ASSUME NEW v, LoadedOk(v), NEW kind \in {"longest", "bpe"}, NEW text \in Texts,
         NEW j, j = [kind |-> kind, text |-> text, pos |-> 1, word |-> <<>>, pieces |-> <<>>,
                     out |-> <<>>, back |-> <<>>, at |-> "encode"]
  PROVE  JobOk(v, j)
<1>1. /\ j.kind = kind /\ j.text = text /\ j.pos = 1 /\ j.word = <<>> /\ j.pieces = <<>>
      /\ j.out = <<>> /\ j.back = <<>> /\ j.at = "encode"
  OBVIOUS
<1>2. JobShape(j)  BY <1>1 DEF JobShape
<1>3. text \in Seq(Letters) /\ Len(text) \in Nat /\ 1 \in 1 .. Len(text) + 1 /\ 0 \in 0 .. Len(text)
  BY TokensAssumption, LenProperties
<1>4. StringsIn(v.vocab, <<>>) = <<>>  BY StringsOfFew DEF LoadedOk
<1>5. SubSeq(text, 1, 0) = <<>> /\ SubSeq(text, 1, 1 - 1) = <<>>  BY SubSeqEmpty
<1>6. <<>> \in Seq(DOMAIN v.vocab) /\ Len(<<>>) = 0 /\ <<>> \in Seq(Letters)  BY EmptySeq
<1>7. LongestOk(v, j)
  <2>1. UsedUp(v.vocab, text, 1, <<>>)
    <3> DEFINE none == <<>>
               m == 1 - 1
    <3>1. 1 .. Len(none) = {}  BY <1>6
    <3>2. none \in Seq(DOMAIN v.vocab)  BY <1>6
    <3>3. StringsIn(v.vocab, none) = SubSeq(text, 1, m)  BY <1>4, <1>5
    <3> HIDE DEF none, m
    <3>4. m = 1 - 1  BY DEF m
    <3>5. UsedUp(v.vocab, text, 1, none)  BY <3>1, <3>2, <3>3, <3>4 DEF UsedUp
    <3>6. QED  BY <3>5 DEF none
  <2>2. QED  BY <1>1, <1>3, <2>1 DEF LongestOk
<1>8. BpeOk(v, j)
  <2>1. KnownIn(v.vocab, <<>>)  BY DEF KnownIn
  <2>2. Led(SubSeq(text, 1, 1 - 1)) = <<>>
    <3>1. <<>> \in Seq(Letters)  BY EmptySeq
    <3>2. Led(<<>>) \in Seq(Letters) /\ Len(Led(<<>>)) = 0
      <4>1. Len(<<>>) = 0  OBVIOUS
      <4> DEFINE e == <<>>
      <4>2. e \in Seq(Letters) /\ Len(e) = 0  BY <3>1, <4>1
      <4> HIDE DEF e
      <4>3. Led(e) \in Seq(Letters) /\ Len(Led(e)) = 0  BY <4>2, LedIs
      <4>4. QED  BY <4>3 DEF e
    <3>3. Led(<<>>) = <<>>  BY <3>2, EmptySeq
    <3>4. QED  BY <1>5, <3>3
  <2>3. <<>> \o <<>> = <<>>  OBVIOUS
  <2>4. MaxPieces \in Nat  BY TokensAssumption
  <2>5. QED  BY <1>1, <1>3, <1>4, <1>6, <2>1, <2>2, <2>3, <2>4 DEF BpeOk
<1>9. QED  BY <1>2, <1>7, <1>8 DEF JobOk

\* What a vocabulary in use offers the lemmas.
LEMMA LoadedIs ==
  ASSUME NEW v, LoadedOk(v), NEW text \in Texts
  PROVE  /\ v.vocab \in Seq(Seq(Letters)) /\ v.table = Built(v.vocab) /\ text \in Seq(Letters)
         /\ NoUnk(v, text)
BY TokensAssumption DEF LoadedOk

LEMMA TokenOk ==
  ASSUME NEW v, LoadedOk(v), NEW j, JobOk(v, j), j.kind = "longest", j.at = "encode",
         j.pos <= Len(j.text),
         NEW t, t = hs_tok_find(v, SubSeq(j.text, j.pos, Smaller(Len(j.text), j.pos + MaxMatch - 1))),
         NEW q, q = j.pos + IF t = v.unk THEN 1 ELSE Len(v.vocab[t]),
         NEW k, k = [j EXCEPT !.out = Append(@, t), !.pos = q]
  PROVE  JobOk(v, k)
<1>1. JobShape(j)  BY DEF JobOk
<1>2. /\ k.kind = j.kind /\ k.text = j.text /\ k.pos = q /\ k.word = j.word /\ k.pieces = j.pieces
      /\ k.out = Append(j.out, t) /\ k.back = j.back /\ k.at = j.at
  BY <1>1 DEF JobShape
<1>3. JobShape(k)  BY <1>1, <1>2 DEF JobShape
<1>4. ASSUME TextKnown(v, j) PROVE LongestOk(v, k)
  <2>1. LongestOk(v, j)  BY <1>4 DEF JobOk
  <2> DEFINE text == j.text
             pos == j.pos
             out == j.out
             after == Append(out, t)
  <2>2. /\ v.vocab \in Seq(Seq(Letters)) /\ v.table = Built(v.vocab) /\ text \in Seq(Letters)
        /\ NoUnk(v, text)
    <3>1. text \in Texts  BY <1>1 DEF JobShape
    <3> HIDE DEF text
    <3>2. QED  BY <3>1, LoadedIs
  <2>3. KnownIn(v.vocab, text)  BY <1>4 DEF TextKnown
  <2>4. pos \in 1 .. Len(text) /\ j.word = <<>> /\ UsedUp(v.vocab, text, pos, out)
    <3>1. pos \in 1 .. Len(text) + 1 /\ Len(text) \in Nat  BY <2>1, <2>2, LenProperties DEF LongestOk
    <3>2. pos \in 1 .. Len(text)  BY <3>1
    <3>3. QED  BY <2>1, <3>2 DEF LongestOk
  <2>5. t = hs_tok_find(v, SubSeq(text, pos, Smaller(Len(text), pos + MaxMatch - 1)))
        /\ q = pos + IF t = v.unk THEN 1 ELSE Len(v.vocab[t])
    OBVIOUS
  <2> HIDE DEF text, pos, out
  <2>6. q \in 1 .. Len(text) + 1 /\ UsedUp(v.vocab, text, q, after)
    BY <2>2, <2>3, <2>4, <2>5, LongestStep
  <2>7. k.text = text /\ k.pos = q /\ k.out = after /\ k.word = <<>> /\ k.at = "encode"
    BY <1>2, <2>4 DEF text, out
  <2> HIDE DEF after
  <2>8. QED  BY <2>6, <2>7 DEF LongestOk
<1>5. TextKnown(v, k) => TextKnown(v, j)  BY <1>2 DEF TextKnown
<1>6. k.kind = "longest"  BY <1>2
<1>7. QED  BY <1>3, <1>4, <1>5, <1>6 DEF JobOk

\* The encoder takes the next word ...
LEMMA WordOk ==
  ASSUME NEW v, LoadedOk(v), NEW j, JobOk(v, j), j.kind = "bpe", j.word = <<>>,
         j.pos <= Len(j.text), Len(j.out) < MaxOut,
         NEW lead, NEW from, NEW end, NEW word, NextWord(j.text, j.pos, lead, from, end, word),
         NEW pieces, pieces = [i \in 1 .. Smaller(MaxPieces, Len(word)) |-> Piece(i, 1)],
         NEW k, k = [j EXCEPT !.pos = end, !.word = word, !.pieces = pieces]
  PROVE  JobOk(v, k)
<1>1. JobShape(j)  BY DEF JobOk
<1>2. /\ k.kind = j.kind /\ k.text = j.text /\ k.pos = end /\ k.word = word /\ k.pieces = pieces
      /\ k.out = j.out /\ k.back = j.back /\ k.at = j.at
  BY <1>1 DEF JobShape
<1>3. JobShape(k)  BY <1>1, <1>2 DEF JobShape
<1>4. ASSUME TextKnown(v, j) PROVE BpeOk(v, k)
  <2>1. BpeOk(v, j)  BY <1>4 DEF JobOk
  <2> DEFINE text == j.text
             pos == j.pos
             S == StringsIn(v.vocab, j.out)
             before == Led(SubSeq(text, 1, pos - 1))
             after == Led(SubSeq(text, 1, end - 1))
             e == Smaller(MaxPieces, Len(word))
  <2>2. v.vocab \in Seq(Seq(Letters)) /\ text \in Seq(Letters) /\ Len(text) \in Nat
    <3>1. text \in Texts  BY <1>1 DEF JobShape
    <3> HIDE DEF text
    <3>2. QED  BY <3>1, LoadedIs, LenProperties
  <2>3. KnownIn(v.vocab, text) /\ \E t \in DOMAIN v.vocab : v.vocab[t] = << 0 >>
    BY <1>4 DEF TextKnown
  <2>4. pos \in 1 .. Len(text)  BY <2>1, <2>2 DEF BpeOk
  <2>5. NextWord(text, pos, lead, from, end, word)  OBVIOUS
  <2>6. j.out \in Seq(DOMAIN v.vocab) /\ (ShortWords(text) => S \o <<>> = before)
    BY <2>1 DEF BpeOk
  <2> HIDE DEF text, pos
  <2>7. /\ word \in Seq(Letters) /\ KnownIn(v.vocab, word) /\ word # <<>>
        /\ end \in pos + 1 .. Len(text) + 1
        /\ after = before \o word
        /\ ShortWords(text) => Len(word) <= MaxPieces
    <3> DEFINE vocab == v.vocab
    <3>1. KnownIn(vocab, text) /\ (\E t \in DOMAIN vocab : vocab[t] = << 0 >>)  BY <2>3
    <3>2. text \in Seq(Letters)  BY <2>2
    <3> HIDE DEF vocab
    <3>3. WordOf(vocab, text, pos, end, word)  BY <2>4, <2>5, <3>1, <3>2, WordIs
    <3>4. QED  BY <3>3 DEF WordOf, vocab
  <2>8. ShortWords(text) => S \o word = after
    <3>1. S \in Seq(Letters)  BY <2>2, <2>6, SpelledIs
    <3> HIDE DEF S, before, after
    <3>2. S \o <<>> = S  BY <3>1, ConcatEmptySeq
    <3>3. QED  BY <2>6, <2>7, <3>2
  <2>9. Tiles(pieces, e)
    <3>1. e \in Nat \ {0}
      <4>1. MaxPieces \in Nat \ {0}  BY TokensAssumption
      <4>2. Len(word) \in Nat \ {0}  BY <2>7, EmptySeq
      <4>3. QED  BY <4>1, <4>2 DEF Smaller
    <3>2. pieces = [i \in 1 .. e |-> Piece(i, 1)]  OBVIOUS
    <3> HIDE DEF e
    <3>3. QED  BY <3>1, <3>2, CutIs
  <2>10. end \in 1 .. Len(text) + 1  BY <2>2, <2>4, <2>7
  <2>11. k.text = text  BY <1>2 DEF text
  <2>12. QED  BY <1>2, <2>6, <2>7, <2>8, <2>9, <2>10, <2>11 DEF BpeOk
<1>5. TextKnown(v, k) => TextKnown(v, j)  BY <1>2 DEF TextKnown
<1>6. k.kind = "bpe"  BY <1>2
<1>7. QED  BY <1>3, <1>4, <1>5, <1>6 DEF JobOk

\* ... merges two of its pieces ...
LEMMA MergeOk ==
  ASSUME NEW v, LoadedOk(v), NEW j, JobOk(v, j), j.word # <<>>,
         CanMerge(v, j.word, j.pieces),
         NEW pieces, pieces = Merged(j.pieces, BestPair(v, j.word, j.pieces)),
         NEW k, k = [j EXCEPT !.pieces = pieces]
  PROVE  JobOk(v, k)
<1>1. JobShape(j)  BY DEF JobOk
<1>2. /\ k.kind = j.kind /\ k.text = j.text /\ k.pos = j.pos /\ k.word = j.word /\ k.pieces = pieces
      /\ k.out = j.out /\ k.back = j.back /\ k.at = j.at
  BY <1>1 DEF JobShape
<1>3. JobShape(k)  BY <1>1, <1>2 DEF JobShape
<1>4. ASSUME TextKnown(v, j), j.kind = "bpe" PROVE BpeOk(v, k)
  <2> DEFINE word == j.word
             e == Smaller(MaxPieces, Len(word))
             best == BestPair(v, word, j.pieces)
  <2>1. BpeOk(v, j)  BY <1>4 DEF JobOk
  <2>2. word \in Seq(Letters) /\ Tiles(j.pieces, e)  BY <2>1 DEF BpeOk
  <2>3. v.merges \in Seq(Seq(Letters) \X Seq(Letters)) /\ v.ranks = Built(RuleStrings(v))
    BY DEF LoadedOk
  <2>4. e \in 0 .. Len(word) /\ e \in Nat
    <3>1. MaxPieces \in Nat /\ Len(word) \in Nat  BY <2>2, TokensAssumption, LenProperties
    <3>2. QED  BY <3>1 DEF Smaller
  <2>5. CanMerge(v, word, j.pieces) /\ pieces = Merged(j.pieces, best)  OBVIOUS
  <2> HIDE DEF word, e
  <2>6. best \in 1 .. Len(j.pieces) - 1  BY <2>2, <2>3, <2>4, <2>5, BestPairIs
  <2> HIDE DEF best
  <2>7. Tiles(pieces, e)  BY <2>2, <2>4, <2>5, <2>6, MergedIs
  <2>8. QED  BY <1>2, <2>1, <2>7 DEF BpeOk, word, e
<1>5. ASSUME TextKnown(v, j), j.kind = "longest" PROVE LongestOk(v, k)
  BY <1>2, <1>5 DEF JobOk, LongestOk
<1>6. TextKnown(v, k) => TextKnown(v, j)  BY <1>2 DEF TextKnown
<1>7. QED  BY <1>2, <1>3, <1>4, <1>5, <1>6 DEF JobOk

\* ... and writes its tokens.
LEMMA EmitOk ==
  ASSUME NEW v, LoadedOk(v), NEW j, JobOk(v, j), j.word # <<>>,
         NEW out, out = Emitted(v, j.word, j.pieces, j.out),
         NEW k, k = [j EXCEPT !.out = out, !.word = <<>>, !.pieces = <<>>]
  PROVE  JobOk(v, k)
<1>1. JobShape(j)  BY DEF JobOk
<1>2. /\ k.kind = j.kind /\ k.text = j.text /\ k.pos = j.pos /\ k.word = <<>> /\ k.pieces = <<>>
      /\ k.out = out /\ k.back = j.back /\ k.at = j.at
  BY <1>1 DEF JobShape
<1>3. JobShape(k)  BY <1>1, <1>2 DEF JobShape
<1>4. ASSUME TextKnown(v, j), j.kind = "bpe" PROVE BpeOk(v, k)
  <2> DEFINE word == j.word
             pieces == j.pieces
             before == j.out
             led == Led(SubSeq(j.text, 1, j.pos - 1))
             S == StringsIn(v.vocab, before)
             T == StringsIn(v.vocab, out)
             e == Smaller(MaxPieces, Len(word))
  <2>1. BpeOk(v, j)  BY <1>4 DEF JobOk
  <2>2. /\ word \in Seq(Letters) /\ KnownIn(v.vocab, word) /\ Tiles(pieces, e)
        /\ before \in Seq(DOMAIN v.vocab)
    BY <2>1 DEF BpeOk
  <2>3. ShortWords(j.text) => Len(word) <= MaxPieces /\ S \o word = led  BY <2>1 DEF BpeOk
  <2>4. v.vocab \in Seq(Seq(Letters))  BY DEF LoadedOk
  <2>5. e \in 0 .. Len(word) /\ (Len(word) <= MaxPieces => e = Len(word))
    <3>1. MaxPieces \in Nat /\ Len(word) \in Nat  BY <2>2, TokensAssumption, LenProperties
    <3>2. QED  BY <3>1 DEF Smaller
  <2>6. out = Emitted(v, word, pieces, before)  OBVIOUS
  <2> HIDE DEF word, pieces, before, e
  <2>7. out \in Seq(DOMAIN v.vocab) /\ (Len(out) < MaxOut /\ e = Len(word) => T = S \o word)
    <3> DEFINE em == Emitted(v, word, pieces, before)
    <3>1. e \in 0 .. Len(word)  BY <2>5
    <3>2. em \in Seq(DOMAIN v.vocab)  BY <2>2, <2>4, <3>1, EmittedIs
    <3>3. Written(v.vocab, word, e, before, em)
      BY <2>2, <2>4, <3>1, EmittedIs
    <3>4. out = em  BY <2>6
    <3> HIDE DEF em
    <3>5. QED  BY <3>2, <3>3, <3>4 DEF Written
  <2>8. T \in Seq(Letters)  BY <2>4, <2>7, SpelledIs
  <2> HIDE DEF S, T, led
  <2>9. T \o <<>> = T  BY <2>8, ConcatEmptySeq
  <2>10. Len(out) < MaxOut /\ ShortWords(j.text) => T \o <<>> = led  BY <2>3, <2>5, <2>7, <2>9
  <2>11. KnownIn(v.vocab, <<>>) /\ <<>> \in Seq(Letters) /\ (ShortWords(j.text) => Len(<<>>) <= MaxPieces)
    <3>1. MaxPieces \in Nat /\ Len(<<>>) = 0  BY TokensAssumption
    <3>2. QED  BY <3>1 DEF KnownIn
  <2>12. j.pos \in 1 .. Len(j.text) + 1  BY <2>1 DEF BpeOk
  <2>13. QED  BY <1>2, <2>7, <2>10, <2>11, <2>12 DEF BpeOk, T, led
<1>5. ASSUME TextKnown(v, j), j.kind = "longest" PROVE LongestOk(v, k)
  BY <1>5 DEF JobOk, LongestOk
<1>6. TextKnown(v, k) => TextKnown(v, j)  BY <1>2 DEF TextKnown
<1>7. QED  BY <1>2, <1>3, <1>4, <1>5, <1>6 DEF JobOk

\* The tokens are decoded.
LEMMA DecodeOk ==
  ASSUME NEW v, LoadedOk(v), NEW j, JobOk(v, j),
         NEW back, back = (IF j.kind = "longest" THEN hs_tokenizer_decode(v, j.out, MaxText) ELSE <<>>),
         NEW k, k = [j EXCEPT !.at = "done", !.back = back]
  PROVE  JobOk(v, k)
<1>1. JobShape(j)  BY DEF JobOk
<1>2. /\ k.kind = j.kind /\ k.text = j.text /\ k.pos = j.pos /\ k.word = j.word /\ k.pieces = j.pieces
      /\ k.out = j.out /\ k.back = back /\ k.at = "done"
  BY <1>1 DEF JobShape
<1>3. JobShape(k)  BY <1>1, <1>2 DEF JobShape
<1>4. ASSUME TextKnown(v, j), j.kind = "longest" PROVE LongestOk(v, k)
  <2> DEFINE text == j.text
             pos == j.pos
             out == j.out
  <2>1. LongestOk(v, j)  BY <1>4 DEF JobOk
  <2>2. /\ pos \in 1 .. Len(text) + 1 /\ out \in Seq(DOMAIN v.vocab)
        /\ StringsIn(v.vocab, out) = SubSeq(text, 1, pos - 1)
    BY <2>1 DEF LongestOk, UsedUp
  <2>3. back = hs_tokenizer_decode(v, out, MaxText)  BY <1>4
  <2>4. v.vocab \in Seq(Seq(Letters)) /\ text \in Seq(Letters)
    <3>1. text \in Texts  BY <1>1 DEF JobShape
    <3> HIDE DEF text
    <3>2. QED  BY <3>1, LoadedIs
  <2> HIDE DEF text, pos, out
  <2>5. back = SubSeq(text, 1, Len(back)) /\ Len(back) >= Smaller(MaxText, pos) - 1
    BY <2>2, <2>3, <2>4, DecodedIs
  <2>6. k.text = text /\ k.pos = pos /\ k.out = out  BY <1>2 DEF text, pos, out
  <2>7. QED  BY <1>2, <2>1, <2>5, <2>6 DEF LongestOk, text, pos, out
<1>5. ASSUME TextKnown(v, j), j.kind = "bpe" PROVE BpeOk(v, k)
  BY <1>2, <1>5 DEF JobOk, BpeOk
<1>6. TextKnown(v, k) => TextKnown(v, j)  BY <1>2 DEF TextKnown
<1>7. QED  BY <1>2, <1>3, <1>4, <1>5, <1>6 DEF JobOk

LEMMA TokInvStep == TokInv /\ [TokenNext]_tokenVars => TokInv'
<1> SUFFICES ASSUME TokInv, [TokenNext]_tokenVars PROVE TokInv'  OBVIOUS
<1>1. ASSUME job # NoJob
      PROVE  loaded # NotLoaded /\ LoadedOk(loaded) /\ JobOk(loaded, job)
  BY <1>1 DEF TokInv
<1>2. ASSUME UNCHANGED loaded, loaded # NotLoaded, JobOk(loaded, job') PROVE TokInv'
  BY <1>2 DEF TokInv
<1>3. CASE Load
  <2>1. PICK v \in Vocabularies :
           loaded' = [vocab |-> v.vocab, merges |-> v.merges, unk |-> v.unk,
                      table |-> hs_tokenizer_init(v), ranks |-> bpe_build_ranks(v)]
    BY <1>3 DEF Load
  <2>2. loaded = NotLoaded /\ UNCHANGED job  BY <1>3 DEF Load
  <2>3. job' = NoJob  BY <2>2 DEF TokInv
  <2> DEFINE l == loaded'
  <2>4. /\ l.vocab = v.vocab /\ l.merges = v.merges /\ l.unk = v.unk
        /\ l.table = Built(v.vocab) /\ l.ranks = Built(RuleStrings(v))
    BY <2>1 DEF hs_tokenizer_init, bpe_build_ranks
  <2> HIDE DEF l
  <2>5. RuleStrings(l) = RuleStrings(v)  BY <2>4 DEF RuleStrings
  <2>6. \A text \in Texts : NoUnk(l, text)  BY <2>4, VocabulariesAssumption DEF NoUnk
  <2>7. v.vocab \in Seq(Seq(Letters)) /\ v.merges \in Seq(Seq(Letters) \X Seq(Letters))
    BY VocabulariesAssumption
  <2>8. LoadedOk(l)  BY <2>4, <2>5, <2>6, <2>7 DEF LoadedOk
  <2>9. QED  BY <2>3, <2>8 DEF TokInv, l
<1>4. CASE Unload
  <2>1. loaded' = NotLoaded /\ job' = NoJob  BY <1>4 DEF Unload
  <2>2. QED  BY <2>1 DEF TokInv
<1>5. CASE Ask
  <2>1. loaded # NotLoaded /\ UNCHANGED loaded  BY <1>5 DEF Ask
  <2>2. PICK kind \in {"longest", "bpe"}, text \in Texts :
           job' = [kind |-> kind, text |-> text, pos |-> 1, word |-> <<>>, pieces |-> <<>>,
                   out |-> <<>>, back |-> <<>>, at |-> "encode"]
    BY <1>5 DEF Ask
  <2>3. LoadedOk(loaded)  BY <2>1 DEF TokInv
  <2>4. JobOk(loaded, job')  BY <2>2, <2>3, StartOk
  <2>5. QED  BY <1>2, <2>1, <2>4
<1>6. CASE TokenizerEncode
  <2> DEFINE t == hs_tok_find(loaded, SubSeq(job.text, job.pos, Smaller(Len(job.text), job.pos + MaxMatch - 1)))
             q == job.pos + IF t = loaded.unk THEN 1 ELSE Len(loaded.vocab[t])
  <2>1. /\ job # NoJob /\ job.at = "encode" /\ job.pos <= Len(job.text) /\ job.kind = "longest"
        /\ UNCHANGED loaded
    BY <1>6 DEF TokenizerEncode, More
  <2>2. job' = [job EXCEPT !.out = Append(@, t), !.pos = q]  BY <1>6 DEF TokenizerEncode
  <2>3. /\ t = hs_tok_find(loaded, SubSeq(job.text, job.pos,
                                          Smaller(Len(job.text), job.pos + MaxMatch - 1)))
        /\ q = job.pos + IF t = loaded.unk THEN 1 ELSE Len(loaded.vocab[t])
    OBVIOUS
  <2> HIDE DEF t, q
  <2>4. JobOk(loaded, job')  BY <1>1, <2>1, <2>2, <2>3, TokenOk
  <2>5. QED  BY <1>1, <1>2, <2>1, <2>4
<1>7. CASE BpeWord
  <2> DEFINE lead == Lead(job.text, job.pos)
             from == job.pos + Len(lead)
             end == WordEnd(job.text, from, MaxWord - Len(lead))
             word == lead \o SubSeq(job.text, from, end - 1)
             pieces == [i \in 1 .. Smaller(MaxPieces, Len(word)) |-> Piece(i, 1)]
  <2>1. /\ job # NoJob /\ job.pos <= Len(job.text) /\ Len(job.out) < MaxOut
        /\ job.kind = "bpe" /\ job.word = <<>> /\ UNCHANGED loaded
    BY <1>7 DEF BpeWord, More
  <2>2. job' = [job EXCEPT !.pos = end, !.word = word, !.pieces = pieces]  BY <1>7 DEF BpeWord
  <2>3. NextWord(job.text, job.pos, lead, from, end, word)  BY DEF NextWord
  <2>4. pieces = [i \in 1 .. Smaller(MaxPieces, Len(word)) |-> Piece(i, 1)]  OBVIOUS
  <2> HIDE DEF lead, from, end, word, pieces
  <2>5. JobOk(loaded, job')  BY <1>1, <2>1, <2>2, <2>3, <2>4, WordOk
  <2>6. QED  BY <1>1, <1>2, <2>1, <2>5
<1>8. CASE BpeMerge
  <2> DEFINE pieces == Merged(job.pieces, BestPair(loaded, job.word, job.pieces))
  <2>1. job # NoJob /\ job.word # <<>> /\ CanMerge(loaded, job.word, job.pieces) /\ UNCHANGED loaded
    BY <1>8 DEF BpeMerge
  <2>2. job' = [job EXCEPT !.pieces = pieces]  BY <1>8 DEF BpeMerge
  <2>3. pieces = Merged(job.pieces, BestPair(loaded, job.word, job.pieces))  OBVIOUS
  <2> HIDE DEF pieces
  <2>4. JobOk(loaded, job')  BY <1>1, <2>1, <2>2, <2>3, MergeOk
  <2>5. QED  BY <1>1, <1>2, <2>1, <2>4
<1>9. CASE BpeEmit
  <2> DEFINE out == Emitted(loaded, job.word, job.pieces, job.out)
  <2>1. job # NoJob /\ job.word # <<>> /\ UNCHANGED loaded  BY <1>9 DEF BpeEmit
  <2>2. job' = [job EXCEPT !.out = out, !.word = <<>>, !.pieces = <<>>]  BY <1>9 DEF BpeEmit
  <2>3. out = Emitted(loaded, job.word, job.pieces, job.out)  OBVIOUS
  <2> HIDE DEF out
  <2>4. JobOk(loaded, job')  BY <1>1, <2>1, <2>2, <2>3, EmitOk
  <2>5. QED  BY <1>1, <1>2, <2>1, <2>4
<1>10. CASE Decoding
  <2> DEFINE back == IF job.kind = "longest" THEN hs_tokenizer_decode(loaded, job.out, MaxText) ELSE <<>>
  <2>1. job # NoJob /\ UNCHANGED loaded  BY <1>10 DEF Decoding
  <2>2. job' = [job EXCEPT !.at = "done", !.back = back]  BY <1>10 DEF Decoding
  <2>3. back = (IF job.kind = "longest" THEN hs_tokenizer_decode(loaded, job.out, MaxText) ELSE <<>>)
    OBVIOUS
  <2> HIDE DEF back
  <2>4. JobOk(loaded, job')  BY <1>1, <2>1, <2>2, <2>3, DecodeOk
  <2>5. QED  BY <1>1, <1>2, <2>1, <2>4
<1>11. CASE JobDone
  <2>1. job' = NoJob /\ UNCHANGED loaded  BY <1>11 DEF JobDone
  <2>2. QED  BY <2>1 DEF TokInv
<1>12. CASE UNCHANGED tokenVars  BY <1>12 DEF TokInv, tokenVars
<1>13. QED  BY <1>3, <1>4, <1>5, <1>6, <1>7, <1>8, <1>9, <1>10, <1>11, <1>12 DEF TokenNext

LEMMA TokInvKeeps == TokInv => TokensKeepText
<1>1. SUFFICES ASSUME TokInv, job # NoJob, Known(job.text), job.kind = "bpe" => InVocabulary(<< 0 >>)
               PROVE  /\ job.kind = "longest" =>
                           /\ Strings(job.out) = SubSeq(job.text, 1, job.pos - 1)
                           /\ \A n \in DOMAIN job.out : IsLongest(n)
                           /\ job.at = "done" => job.back = SubSeq(job.text, 1, Len(job.back))
                                                /\ Len(job.back) >= Smaller(MaxText, job.pos) - 1
                      /\ job.kind = "bpe" =>
                           /\ \A i \in DOMAIN job.pieces :
                                job.pieces[i].start =
                                  (IF i = 1 THEN 1 ELSE job.pieces[i - 1].start + job.pieces[i - 1].len)
                           /\ job.word # <<>> =>
                                job.pieces[Len(job.pieces)].start + job.pieces[Len(job.pieces)].len
                                  = Smaller(MaxPieces, Len(job.word)) + 1
                           /\ job.word = <<>> /\ Len(job.out) < MaxOut /\ ShortWords(job.text) =>
                                Strings(job.out) = Led(SubSeq(job.text, 1, job.pos - 1))
  BY DEF TokensKeepText
<1>2. LoadedOk(loaded) /\ JobOk(loaded, job)  BY <1>1 DEF TokInv
<1>3. TextKnown(loaded, job)
  BY <1>1 DEF TextKnown, KnownIn, Known, InVocabulary
<1>4. loaded.vocab \in Seq(Seq(Letters))  BY <1>2 DEF LoadedOk
<1>5. ASSUME job.kind = "longest"
      PROVE  /\ Strings(job.out) = SubSeq(job.text, 1, job.pos - 1)
             /\ \A n \in DOMAIN job.out : IsLongest(n)
             /\ job.at = "done" => job.back = SubSeq(job.text, 1, Len(job.back))
                                  /\ Len(job.back) >= Smaller(MaxText, job.pos) - 1
  <2>1. LongestOk(loaded, job)  BY <1>2, <1>3, <1>5 DEF JobOk
  <2>2. UsedUp(loaded.vocab, job.text, job.pos, job.out)  BY <2>1 DEF LongestOk
  <2>3. Strings(job.out) = SubSeq(job.text, 1, job.pos - 1)  BY <2>2 DEF UsedUp, Strings
  <2>4. ASSUME NEW n \in DOMAIN job.out PROVE IsLongest(n)
    <3>1. n \in 1 .. Len(job.out)
      <4> DEFINE D == DOMAIN loaded.vocab
      <4>1. job.out \in Seq(D)  BY <2>2 DEF UsedUp
      <4> HIDE DEF D
      <4>2. QED  BY <4>1, LenProperties
    <3>2. LongestAt(loaded.vocab, job.text, job.out, n)  BY <2>2, <3>1 DEF UsedUp
    <3>3. QED  BY <3>2 DEF LongestAt, IsLongest, StartOf, Strings, InVocabulary
  <2>5. QED  BY <2>1, <2>3, <2>4 DEF LongestOk
<1>6. ASSUME job.kind = "bpe"
      PROVE  /\ \A i \in DOMAIN job.pieces :
                  job.pieces[i].start =
                    (IF i = 1 THEN 1 ELSE job.pieces[i - 1].start + job.pieces[i - 1].len)
             /\ job.word # <<>> =>
                  job.pieces[Len(job.pieces)].start + job.pieces[Len(job.pieces)].len
                    = Smaller(MaxPieces, Len(job.word)) + 1
             /\ job.word = <<>> /\ Len(job.out) < MaxOut /\ ShortWords(job.text) =>
                  Strings(job.out) = Led(SubSeq(job.text, 1, job.pos - 1))
  <2> DEFINE R == [start : Nat \ {0}, len : Nat]
             pieces == job.pieces
             e == Smaller(MaxPieces, Len(job.word))
  <2>1. BpeOk(loaded, job)  BY <1>2, <1>3, <1>6 DEF JobOk
  <2>2. job.word = <<>> => pieces = <<>>  BY <2>1 DEF BpeOk
  <2>3. job.word # <<>> => Tiles(pieces, e)  BY <2>1 DEF BpeOk
  <2> HIDE DEF R, pieces, e
  <2>4. Tiles(pieces, e) =>
           /\ \A i \in DOMAIN pieces :
                pieces[i].start = IF i = 1 THEN 1 ELSE pieces[i - 1].start + pieces[i - 1].len
           /\ pieces[Len(pieces)].start + pieces[Len(pieces)].len = e + 1
    <3>1. SUFFICES ASSUME Tiles(pieces, e)
                   PROVE  /\ \A i \in DOMAIN pieces :
                               pieces[i].start = IF i = 1 THEN 1 ELSE pieces[i - 1].start + pieces[i - 1].len
                          /\ pieces[Len(pieces)].start + pieces[Len(pieces)].len = e + 1
      OBVIOUS
    <3>2. pieces \in Seq(R)  BY <3>1 DEF Tiles, R
    <3>3. DOMAIN pieces = 1 .. Len(pieces)  BY <3>2, LenProperties
    <3>4. QED  BY <3>1, <3>3 DEF Tiles
  <2>5. pieces = <<>> => DOMAIN pieces = {}
    <3>1. DOMAIN <<>> = {}  OBVIOUS
    <3>2. QED  BY <3>1
  <2>6. job.word = <<>> /\ Len(job.out) < MaxOut /\ ShortWords(job.text) =>
           Strings(job.out) = Led(SubSeq(job.text, 1, job.pos - 1))
    <3> DEFINE s == Strings(job.out)
               led == Led(SubSeq(job.text, 1, job.pos - 1))
    <3>1. s \in Seq(Letters)  BY <1>4, <2>1, SpelledIs DEF BpeOk, Strings
    <3>2. job.word = <<>> /\ Len(job.out) < MaxOut /\ ShortWords(job.text) => s \o <<>> = led
      BY <2>1 DEF BpeOk, Strings
    <3> HIDE DEF s, led
    <3>3. s \o <<>> = s  BY <3>1, ConcatEmptySeq
    <3>4. job.word = <<>> /\ Len(job.out) < MaxOut /\ ShortWords(job.text) => s = led  BY <3>2, <3>3
    <3>5. QED  BY <3>4 DEF s, led
  <2>7. \A i \in DOMAIN pieces :
           pieces[i].start = IF i = 1 THEN 1 ELSE pieces[i - 1].start + pieces[i - 1].len
    BY <2>2, <2>3, <2>4, <2>5
  <2>8. job.word # <<>> => pieces[Len(pieces)].start + pieces[Len(pieces)].len = e + 1
    BY <2>3, <2>4
  <2>9. QED  BY <2>6, <2>7, <2>8 DEF pieces, e
<1>7. QED  BY <1>5, <1>6

\* A text whose letters the vocabulary knows comes back from its tokens, whatever the
\* hashes and their collisions, the vocabulary, the rules and the bounds are: the
\* tokens of hs_tokenizer_encode use the text up with the longest match each, and
\* the pieces of hs_mlt_bpe_encode tile their word however they merge.
THEOREM TokensKeepTexts == TokenSpec => []TokensKeepText
<1>1. TokenInit => TokInv  BY DEF TokenInit, TokInv
<1>2. TokInv /\ [TokenNext]_tokenVars => TokInv'  BY TokInvStep
<1>3. TokInv => TokensKeepText  BY TokInvKeeps
<1>4. QED  BY <1>1, <1>2, <1>3, PTL DEF TokenSpec
=============================================================================
