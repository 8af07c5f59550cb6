---------------------------- MODULE FabricProofs ----------------------------
(***************************************************************************)
(* The fabric, for any number of producers, nodes and messages, and every  *)
(* size of its queues: an accepted message is in one place until it is     *)
(* processed or refused; what went through a lane stays in the order of    *)
(* its sends; every request is answered once or its loss counted; every    *)
(* refusal shows; and the recording follows what the nodes are given.      *)
(***************************************************************************)
EXTENDS FabricProps, FiniteSetTheorems, SequenceTheorems, TLAPS

-----------------------------------------------------------------------------
(* The invariant.                                                          *)

Id == Producers \X (Nat \ {0})
Op == UserOps \cup SystemOps
Asks(op, arg) == \E t \in Templates : t.op = op /\ t.arg = arg
Message ==
  {m \in [id : Id, op : Op, to : Registered \cup {t.to : t \in Templates}, ch : Channel,
          ack : BOOLEAN, pay : Payload, pidx : Nat, valid : BOOLEAN,
          arg : {t.arg : t \in Templates}, via : {"lane", "submit"}] :
     /\ m.op \in SystemOps => m.to = System
     /\ m.op \in UserOps => Asks(m.op, m.arg)}

StepAt == {"idle", "lane", "route", "submit", "nodes", "ack", "outbox"}
StepType == [at : StepAt, ch : 1 .. 3, lane : Nat, lanes : 0 .. MaxProducers, used : Nat,
             n : Nat, i : Nat, node : DOMAIN Nodes, ack : Message \cup {None}]

FabricTypes ==
  /\ pc \in [Producers -> {"idle", "lane", "submit", "wait"}]
  /\ cur \in [Producers -> Message \cup {None}] /\ sent \in [Producers -> Nat]
  /\ pid \in [Producers -> LaneIds \cup {Fallback, NoId}] /\ producerCount \in Nat
  /\ lanes \in [Channel -> [LaneIds -> Seq(Message)]] /\ submit \in [Channel -> Seq(Message)]
  /\ inbox \in [Registered -> Seq(Message)] /\ {outbox, applied, log} \subseteq Seq(Message)
  /\ step \in StepType /\ budget \in [Channel -> Nat]
  /\ accepted \subseteq Message /\ refused \subseteq Id \X Op
  /\ payload = [head |-> payload.head, owner |-> payload.owner] /\ payload.head \in Nat
  /\ dropped \in [errorEx : Nat, queueFull : Nat, systemNonRt : Nat, result : Nat]

\* The step thread is within a batch, or has an acknowledgement in hand.
Batches ==
  /\ step.at = "route" =>
       step.lane < step.lanes /\ step.i <= step.n /\ step.n <= Len(lanes[Ch][step.lane])
  /\ step.at = "ack" => step.ack \in Message /\ step.ack.op = "ACK"

\* A thread in hs_send has its latest message in hand; a lane has one producer.
Senders ==
  /\ \A p \in Producers :
       /\ pc[p] # "idle" =>
            /\ cur[p] \in Message /\ cur[p].op \in UserOps /\ cur[p].via = "lane"
            /\ cur[p].id = <<p, sent[p]>> /\ pid[p] # NoId
       /\ pc[p] = "lane" => pid[p] \in LaneIds
       /\ pid[p] \in LaneIds => pid[p] < producerCount
  /\ \A p, q \in Producers : pid[p] = pid[q] /\ pid[p] \in LaneIds => p = q

\* A message that its thread has let go of.
LetGo(k) == k[1][2] <= sent[k[1][1]] /\ (pc[k[1][1]] # "idle" => k[1][2] < sent[k[1][1]])

AcceptedKeys == {Key(m) : m \in accepted}

Accepted ==
  /\ \A m \in accepted : m.op \in UserOps /\ LetGo(Key(m))
  /\ \A m1, m2 \in accepted : m1.id = m2.id => m1 = m2

\* What is in each place.
Contents ==
  /\ \A c \in Channel, l \in LaneIds : \A i \in DOMAIN Unrouted(c, l) :
       LET m == Unrouted(c, l)[i]
       IN  m.op \in UserOps /\ m.ch = c /\ m.via = "lane" /\ pid[m.id[1]] = l
  /\ \A c \in Channel : \A i \in DOMAIN submit[c] :
       submit[c][i].op \in UserOps /\ submit[c][i].via = "submit"
  /\ \A i \in DOMAIN outbox : outbox[i].op = "RESULT"
  /\ \A nd \in Registered : \A i \in DOMAIN inbox[nd] :
       inbox[nd][i].to = nd /\ inbox[nd][i].op \notin FrameOps \cup {"FENCE"}
  /\ \A i \in DOMAIN log : log[i].op \in UserOps => Key(log[i]) \in AcceptedKeys

\* The messages followed: all but reports of losses.
Tracked == Id \X (UserOps \cup {"ACK", "RESULT"})

Has(s, k) == \E i \in DOMAIN s : Key(s[i]) = k
Once(s, k) == \A i, j \in DOMAIN s : Key(s[i]) = k /\ Key(s[j]) = k => i = j

\* The places where k is; refusal is one.
Refusal == <<"refused">>
Where(k) == {x \in Place : Has(At(x), k)} \cup (IF k \in refused THEN {Refusal} ELSE {})

Single(k) == (\A x \in Place : Once(At(x), k)) /\ (\A x, y \in Where(k) : x = y)

\* A message is in one place, and there once; it is somewhere once it is accepted.
Fates ==
  \A k \in Tracked : Single(k) /\ (k[2] \in UserOps => (Where(k) # {} <=> k \in AcceptedKeys))

\* An acknowledgement is somewhere once its request is applied; a result never
\* before.
Replies ==
  \A id \in Id :
    /\ Where(<<id, "ACK">>) # {} <=>
         \E j \in DOMAIN applied : applied[j].id = id /\ Acknowledged(applied[j])
    /\ Where(<<id, "RESULT">>) # {} =>
         \E j \in DOMAIN applied : applied[j].id = id /\ Answered(applied[j])

\* The order of the lanes, from the first applied or recorded to the last waiting.
Before(s, t) == \A i \in DOMAIN s, j \in DOMAIN t : SentBefore(s[i], t[j])
Orders ==
  /\ InOrder(applied) /\ InOrder(log)
  /\ \A nd \in Registered : InOrder(inbox[nd]) /\ Before(applied, inbox[nd])
  /\ \A c \in Channel, l \in LaneIds :
       /\ InOrder(Unrouted(c, l))
       /\ Before(applied, Unrouted(c, l)) /\ Before(log, Unrouted(c, l))
       /\ \A nd \in Registered : Before(inbox[nd], Unrouted(c, l))

FInv == FabricTypes /\ Batches /\ Senders /\ Accepted /\ Contents /\ Fates /\ Replies /\ Orders

-----------------------------------------------------------------------------
(* Messages.                                                               *)

\* What routing leaves of a message.
Same(a, b) == b.id = a.id /\ b.op = a.op /\ b.to = a.to /\ b.ch = a.ch /\ b.ack = a.ack /\ b.via = a.via

LEMMA OpsApart == UserOps \cap SystemOps = {} /\ System \in Registered
BY TemplateAssumption, SystemRegistered DEF UserOps, Registered

LEMMA MessageFields ==
  ASSUME NEW m \in Message
  PROVE  /\ m.id \in Id /\ m.op \in Op /\ m.to \in Registered \cup {t.to : t \in Templates}
         /\ m.ch \in Channel /\ m.ack \in BOOLEAN /\ m.pay \in Payload /\ m.pidx \in Nat
         /\ m.valid \in BOOLEAN /\ m.arg \in {t.arg : t \in Templates} /\ m.via \in {"lane", "submit"}
         /\ m.op \in SystemOps => m.to = System
         /\ m.op \in UserOps => Asks(m.op, m.arg)
         /\ m = [id |-> m.id, op |-> m.op, to |-> m.to, ch |-> m.ch, ack |-> m.ack, pay |-> m.pay,
                 pidx |-> m.pidx, valid |-> m.valid, arg |-> m.arg, via |-> m.via]
         /\ Key(m) \in Id \X Op /\ Key(m) = <<m.id, m.op>>
BY DEF Message, Key

LEMMA ReportMade ==
  ASSUME NEW m \in Message, NEW op \in SystemOps, NEW ch \in Channel, NEW pay \in Payload, NEW n \in Nat
  PROVE  /\ Report(m, op, ch, pay, n) \in Message
         /\ Report(m, op, ch, pay, n).id = m.id /\ Report(m, op, ch, pay, n).op = op
         /\ Report(m, op, ch, pay, n).to = System
         /\ Key(Report(m, op, ch, pay, n)) = <<m.id, op>>
<1>1. op \in Op /\ System \in Registered /\ op \notin UserOps  BY OpsApart DEF Op
<1>2. Report(m, op, ch, pay, n) \in Message  BY <1>1, MessageFields DEF Message, Report
<1>3. QED  BY <1>2 DEF Key, Report

LEMMA ReportsMade ==
  ASSUME NEW m \in Message, NEW n \in Nat
  PROVE  /\ AckOf(m) \in Message /\ Key(AckOf(m)) = <<m.id, "ACK">> /\ AckOf(m).op = "ACK"
         /\ AckOf(m).to = System
         /\ ResultOf(m, n) \in Message /\ Key(ResultOf(m, n)) = <<m.id, "RESULT">>
         /\ ResultOf(m, n).op = "RESULT" /\ ResultOf(m, n).to = System
         /\ ErrorExOf(m, n) \in Message /\ Key(ErrorExOf(m, n)) = <<m.id, "ERROR_EX">>
         /\ ErrorExOf(m, n).op = "ERROR_EX" /\ ErrorExOf(m, n).to = System
         /\ QueueFullOf(m) \in Message /\ Key(QueueFullOf(m)) = <<m.id, "QUEUE_FULL">>
         /\ QueueFullOf(m).op = "QUEUE_FULL" /\ QueueFullOf(m).to = System
<1>1. "RT" \in Channel /\ "TELEM" \in Channel /\ "none" \in Payload /\ "ring" \in Payload /\ 0 \in Nat
  BY DEF Channel, Payload
<1>2. {"ACK", "RESULT", "ERROR_EX", "QUEUE_FULL"} \subseteq SystemOps  BY DEF SystemOps
<1>3. QED  BY <1>1, <1>2, ReportMade DEF AckOf, ResultOf, ErrorExOf, QueueFullOf

LEMMA PlacedSame ==
  ASSUME NEW m \in Message, payload.head \in Nat
  PROVE  Placed(m) \in Message /\ Same(m, Placed(m)) /\ Key(Placed(m)) = Key(m)
<1>1. CASE m.pay = "inband"
  <2>1. Placed(m) = [id |-> m.id, op |-> m.op, to |-> m.to, ch |-> m.ch, ack |-> m.ack, pay |-> "ring",
                     pidx |-> payload.head, valid |-> m.valid, arg |-> m.arg, via |-> m.via]
    <3>1. [m EXCEPT !.pay = "ring"] =
            [id |-> m.id, op |-> m.op, to |-> m.to, ch |-> m.ch, ack |-> m.ack, pay |-> "ring",
             pidx |-> m.pidx, valid |-> m.valid, arg |-> m.arg, via |-> m.via]
      BY MessageFields
    <3>2. Placed(m) = [[m EXCEPT !.pay = "ring"] EXCEPT !.pidx = payload.head]  BY <1>1 DEF Placed
    <3>3. QED  BY <3>1, <3>2
  <2>2. "ring" \in Payload  BY DEF Payload
  <2>3. Placed(m) \in Message  BY <2>1, <2>2, MessageFields DEF Message
  <2>4. QED  BY <2>1, <2>3 DEF Same, Key
<1>2. CASE m.pay # "inband"
  BY <1>2 DEF Placed, Same, Key
<1>3. QED  BY <1>1, <1>2

LEMMA SentMade ==
  ASSUME NEW p \in Producers, NEW k \in Nat \ {0}, NEW t \in Templates
  PROVE  /\ Sent(p, k, t) \in Message /\ Sent(p, k, t).op \in UserOps /\ Sent(p, k, t).via = "lane"
         /\ Sent(p, k, t).id = <<p, k>>
<1>1. t.op \in UserOps /\ t.op \in Op /\ t.op \notin SystemOps  BY TemplateAssumption DEF UserOps, Op
<1>2. ChannelFor(t.op, t.asked) \in Channel  BY DEF ChannelFor, Channel, DefaultChannel
<1>3. <<p, k>> \in Id  BY DEF Id
<1>4. Asks(t.op, t.arg)  BY DEF Asks
<1>5. Sent(p, k, t) \in Message
  BY <1>1, <1>2, <1>3, <1>4, TemplateAssumption DEF Sent, Message
<1>6. QED  BY <1>1, <1>5 DEF Sent

LEMMA BySubmit ==
  ASSUME NEW m \in Message
  PROVE  /\ [m EXCEPT !.via = "submit"] \in Message /\ Key([m EXCEPT !.via = "submit"]) = Key(m)
         /\ [m EXCEPT !.via = "submit"].id = m.id /\ [m EXCEPT !.via = "submit"].op = m.op
         /\ [m EXCEPT !.via = "submit"].ch = m.ch /\ [m EXCEPT !.via = "submit"].via = "submit"
<1>1. [m EXCEPT !.via = "submit"] =
        [id |-> m.id, op |-> m.op, to |-> m.to, ch |-> m.ch, ack |-> m.ack, pay |-> m.pay,
         pidx |-> m.pidx, valid |-> m.valid, arg |-> m.arg, via |-> "submit"]
  BY MessageFields
<1>2. [m EXCEPT !.via = "submit"] \in Message  BY <1>1, MessageFields DEF Message
<1>3. QED  BY <1>1, <1>2 DEF Key

-----------------------------------------------------------------------------
(* Sequences.                                                              *)

LEMMA Appended ==
  ASSUME NEW S, NEW s \in Seq(S), NEW m \in S
  PROVE  /\ Append(s, m) \in Seq(S) /\ Len(Append(s, m)) = Len(s) + 1 /\ Len(s) \in Nat
         /\ DOMAIN s = 1 .. Len(s) /\ DOMAIN Append(s, m) = 1 .. Len(s) + 1
         /\ \A i \in DOMAIN s : i \in DOMAIN Append(s, m) /\ Append(s, m)[i] = s[i]
         /\ Append(s, m)[Len(s) + 1] = m /\ Len(s) + 1 \in DOMAIN Append(s, m)
         /\ \A i \in DOMAIN Append(s, m) : i \in DOMAIN s \/ i = Len(s) + 1
<1>1. Len(s) \in Nat /\ DOMAIN s = 1 .. Len(s)  OBVIOUS
<1>2. /\ Append(s, m) \in Seq(S) /\ Len(Append(s, m)) = Len(s) + 1
      /\ DOMAIN Append(s, m) = 1 .. Len(s) + 1
  OBVIOUS
<1>3. \A i \in 1 .. Len(s) : Append(s, m)[i] = s[i]  OBVIOUS
<1>4. Append(s, m)[Len(s) + 1] = m  OBVIOUS
<1>5. \A i \in 1 .. Len(s) + 1 : i \in 1 .. Len(s) \/ i = Len(s) + 1  BY <1>1
<1>6. (\A i \in 1 .. Len(s) : i \in 1 .. Len(s) + 1) /\ Len(s) + 1 \in 1 .. Len(s) + 1  BY <1>1
<1>7. QED  BY <1>1, <1>2, <1>3, <1>4, <1>5, <1>6

LEMMA AppendedIs ==
  ASSUME NEW s \in Seq(Message), NEW m \in Message, NEW i \in DOMAIN Append(s, m)
  PROVE  (i \in DOMAIN s /\ Append(s, m)[i] = s[i]) \/ Append(s, m)[i] = m
BY Appended

LEMMA Tailed ==
  ASSUME NEW S, NEW s \in Seq(S), s # <<>>
  PROVE  /\ Tail(s) \in Seq(S) /\ Len(Tail(s)) = Len(s) - 1 /\ Len(s) \in Nat /\ Head(s) = s[1]
         /\ Head(s) \in S /\ 1 \in DOMAIN s
         /\ \A i \in DOMAIN Tail(s) : i + 1 \in DOMAIN s /\ i + 1 > 1 /\ Tail(s)[i] = s[i + 1]
         /\ \A i \in DOMAIN s : i = 1 \/ (i - 1 \in DOMAIN Tail(s) /\ Tail(s)[i - 1] = s[i])
         /\ DOMAIN Tail(s) \subseteq Int /\ DOMAIN s = 1 .. Len(s) /\ DOMAIN Tail(s) = 1 .. Len(s) - 1
<1> DEFINE q == Tail(s)
<1>1. /\ q \in Seq(S) /\ Len(q) = Len(s) - 1 /\ Len(s) \in Nat /\ Len(s) > 0
      /\ Head(s) = s[1] /\ Head(s) \in S
      /\ \A i \in 1 .. Len(s) - 1 : q[i] = s[i + 1]
      /\ DOMAIN s = 1 .. Len(s) /\ DOMAIN q = 1 .. Len(s) - 1
  OBVIOUS
<1> HIDE DEF q
<1>2. \A i \in 1 .. Len(s) : i = 1 \/ (i - 1 \in 1 .. Len(s) - 1 /\ q[i - 1] = s[i])
  <2>1. ASSUME NEW i \in 1 .. Len(s), i # 1 PROVE i - 1 \in 1 .. Len(s) - 1 /\ q[i - 1] = s[i]
    <3>1. i - 1 \in 1 .. Len(s) - 1 /\ (i - 1) + 1 = i  BY <1>1, <2>1
    <3>2. q[i - 1] = s[(i - 1) + 1]  BY <1>1, <3>1
    <3>3. QED  BY <3>1, <3>2
  <2>2. QED  BY <2>1
<1>3. \A i \in 1 .. Len(s) - 1 : i + 1 \in 1 .. Len(s) /\ i + 1 > 1  BY <1>1
<1>4. QED  BY <1>1, <1>2, <1>3 DEF q

LEMMA HasAppended ==
  ASSUME NEW s \in Seq(Message), NEW m \in Message, NEW k
  PROVE  /\ Has(Append(s, m), k) <=> Has(s, k) \/ k = Key(m)
         /\ Once(s, k) /\ (k # Key(m) \/ ~ Has(s, k)) => Once(Append(s, m), k)
<1> DEFINE q == Append(s, m)
           L == Len(s) + 1
<1>1. /\ q \in Seq(Message) /\ L \in DOMAIN q /\ q[L] = m
      /\ \A i \in DOMAIN s : i \in DOMAIN q /\ q[i] = s[i]
      /\ \A i \in DOMAIN q : i \in DOMAIN s \/ i = L
  BY Appended
<1> HIDE DEF q, L
<1>2. Has(q, k) <=> Has(s, k) \/ k = Key(m)  BY <1>1 DEF Has
<1>3. ASSUME Once(s, k), k # Key(m) \/ ~ Has(s, k) PROVE Once(q, k)
  <2> SUFFICES ASSUME NEW i \in DOMAIN q, NEW j \in DOMAIN q, Key(q[i]) = k, Key(q[j]) = k
               PROVE  i = j
    BY DEF Once
  <2>1. CASE k # Key(m)
    <3>1. i \in DOMAIN s /\ j \in DOMAIN s  BY <1>1, <2>1
    <3>2. QED  BY <1>1, <1>3, <3>1 DEF Once
  <2>2. CASE ~ Has(s, k)  BY <1>1, <2>2 DEF Has
  <2>3. QED  BY <1>3, <2>1, <2>2
<1>4. QED  BY <1>2, <1>3 DEF q

LEMMA HasTailed ==
  ASSUME NEW s \in Seq(Message), s # <<>>, NEW k
  PROVE  /\ Has(s, Key(Head(s)))
         /\ k # Key(Head(s)) => (Has(Tail(s), k) <=> Has(s, k))
         /\ Once(s, k) => Once(Tail(s), k) /\ (k = Key(Head(s)) => ~ Has(Tail(s), k))
<1> DEFINE q == Tail(s)
<1>1. /\ Head(s) = s[1] /\ 1 \in DOMAIN s /\ DOMAIN q \subseteq Int
      /\ \A i \in DOMAIN q : i + 1 \in DOMAIN s /\ i + 1 > 1 /\ q[i] = s[i + 1]
      /\ \A i \in DOMAIN s : i = 1 \/ (i - 1 \in DOMAIN q /\ q[i - 1] = s[i])
  BY Tailed
<1> HIDE DEF q
<1>2. Has(s, Key(Head(s)))  BY <1>1 DEF Has
<1>3. k # Key(Head(s)) => (Has(q, k) <=> Has(s, k))  BY <1>1 DEF Has
<1>4. ASSUME Once(s, k) PROVE Once(q, k) /\ (k = Key(Head(s)) => ~ Has(q, k))
  <2>1. ASSUME NEW i \in DOMAIN q, NEW j \in DOMAIN q, Key(q[i]) = k, Key(q[j]) = k PROVE i = j
    <3>1. i + 1 = j + 1  BY <1>1, <1>4, <2>1 DEF Once
    <3>2. QED  BY <1>1, <3>1
  <2>2. ASSUME k = Key(Head(s)), NEW i \in DOMAIN q, Key(q[i]) = k PROVE FALSE
    <3>1. i + 1 = 1  BY <1>1, <1>4, <2>2 DEF Once
    <3>2. QED  BY <1>1, <3>1
  <2>3. QED  BY <2>1, <2>2 DEF Once, Has
<1>5. QED  BY <1>2, <1>3, <1>4 DEF q

LEMMA SameBefore ==
  ASSUME NEW a, NEW b, Same(a, b), NEW x
  PROVE  (SentBefore(x, a) => SentBefore(x, b)) /\ (SentBefore(a, x) => SentBefore(b, x))
BY DEF Same, SentBefore, ByLane, SameStream

LEMMA OthersBefore ==
  ASSUME NEW a, ~ ByLane(a), NEW x
  PROVE  SentBefore(a, x) /\ SentBefore(x, a)
BY DEF SentBefore

LEMMA OrderAppended ==
  ASSUME NEW s \in Seq(Message), NEW m \in Message, InOrder(s),
         \A i \in DOMAIN s : SentBefore(s[i], m)
  PROVE  InOrder(Append(s, m))
<1> DEFINE q == Append(s, m)
           L == Len(s) + 1
<1>1. /\ L \in Nat /\ q[L] = m /\ DOMAIN s = 1 .. Len(s) /\ Len(s) \in Nat
      /\ \A i \in DOMAIN s : i \in DOMAIN q /\ q[i] = s[i]
      /\ \A i \in DOMAIN q : i \in DOMAIN s \/ i = L
  BY Appended
<1> HIDE DEF q
<1> SUFFICES ASSUME NEW j \in DOMAIN q, NEW i \in 1 .. j - 1 PROVE SentBefore(q[i], q[j])
  BY DEF InOrder, q
<1>2. CASE j = L
  <2>1. i \in DOMAIN s  BY <1>1, <1>2
  <2>2. QED  BY <1>1, <1>2, <2>1
<1>3. CASE j \in DOMAIN s
  <2>1. i \in DOMAIN s  BY <1>1, <1>3
  <2>2. SentBefore(s[i], s[j])  BY <1>3 DEF InOrder
  <2>3. QED  BY <1>1, <1>3, <2>1, <2>2
<1>4. QED  BY <1>1, <1>2, <1>3

LEMMA OrderTailed ==
  ASSUME NEW s \in Seq(Message), s # <<>>, InOrder(s)
  PROVE  InOrder(Tail(s)) /\ \A i \in DOMAIN Tail(s) : SentBefore(Head(s), Tail(s)[i])
<1> DEFINE q == Tail(s)
<1>1. /\ Head(s) = s[1] /\ DOMAIN q = 1 .. Len(s) - 1 /\ Len(s) \in Nat
      /\ \A i \in DOMAIN q : i + 1 \in DOMAIN s /\ i + 1 > 1 /\ q[i] = s[i + 1]
  BY Tailed
<1> HIDE DEF q
<1>2. ASSUME NEW j \in DOMAIN q, NEW i \in 1 .. j - 1 PROVE SentBefore(q[i], q[j])
  <2>1. i \in DOMAIN q /\ i + 1 \in 1 .. (j + 1) - 1 /\ j + 1 \in DOMAIN s  BY <1>1
  <2>2. SentBefore(s[i + 1], s[j + 1])  BY <2>1 DEF InOrder
  <2>3. QED  BY <1>1, <2>1, <2>2
<1>3. ASSUME NEW i \in DOMAIN q PROVE SentBefore(Head(s), q[i])
  <2>1. i + 1 \in DOMAIN s /\ 1 \in 1 .. (i + 1) - 1  BY <1>1
  <2>2. SentBefore(s[1], s[i + 1])  BY <2>1 DEF InOrder
  <2>3. QED  BY <1>1, <2>2
<1>4. QED  BY <1>2, <1>3 DEF InOrder, q

LEMMA BeforeAppended ==
  ASSUME NEW s \in Seq(Message), NEW t \in Seq(Message), NEW m \in Message, Before(s, t)
  PROVE  /\ (\A j \in DOMAIN t : SentBefore(m, t[j])) => Before(Append(s, m), t)
         /\ (\A i \in DOMAIN s : SentBefore(s[i], m)) => Before(s, Append(t, m))
<1>1. /\ \A i \in DOMAIN s : Append(s, m)[i] = s[i]
      /\ \A i \in DOMAIN Append(s, m) : i \in DOMAIN s \/ Append(s, m)[i] = m
  BY Appended
<1>2. /\ \A i \in DOMAIN t : Append(t, m)[i] = t[i]
      /\ \A i \in DOMAIN Append(t, m) : i \in DOMAIN t \/ Append(t, m)[i] = m
  BY Appended
<1>3. QED  BY <1>1, <1>2 DEF Before

LEMMA BeforeTailed ==
  ASSUME NEW s \in Seq(Message), NEW t \in Seq(Message), Before(s, t)
  PROVE  /\ s # <<>> => Before(Tail(s), t) /\ \A j \in DOMAIN t : SentBefore(Head(s), t[j])
         /\ t # <<>> => Before(s, Tail(t)) /\ \A i \in DOMAIN s : SentBefore(s[i], Head(t))
<1>1. ASSUME s # <<>> PROVE Before(Tail(s), t) /\ \A j \in DOMAIN t : SentBefore(Head(s), t[j])
  <2>1. /\ Head(s) = s[1] /\ 1 \in DOMAIN s
        /\ \A i \in DOMAIN Tail(s) : i + 1 \in DOMAIN s /\ Tail(s)[i] = s[i + 1]
    BY <1>1, Tailed
  <2>2. QED  BY <2>1 DEF Before
<1>2. ASSUME t # <<>> PROVE Before(s, Tail(t)) /\ \A i \in DOMAIN s : SentBefore(s[i], Head(t))
  <2>1. /\ Head(t) = t[1] /\ 1 \in DOMAIN t
        /\ \A i \in DOMAIN Tail(t) : i + 1 \in DOMAIN t /\ Tail(t)[i] = t[i + 1]
    BY <1>2, Tailed
  <2>2. QED  BY <2>1 DEF Before
<1>3. QED  BY <1>1, <1>2

-----------------------------------------------------------------------------
(* Places.                                                                 *)

LEMMA PlaceCases ==
  ASSUME NEW x \in Place
  PROVE  \/ \E c \in Channel, l \in LaneIds : x = <<"lane", c, l>>
         \/ \E c \in Channel : x = <<"submit", c>>
         \/ \E nd \in Registered : x = <<"inbox", nd>>
         \/ x = <<"outbox">> \/ x = <<"ack">> \/ x = <<"applied">>
BY DEF Place

LEMMA PlaceNames ==
  /\ \A c \in Channel, l \in LaneIds : <<"lane", c, l>> \in Place
  /\ \A c \in Channel : <<"submit", c>> \in Place
  /\ \A nd \in Registered : <<"inbox", nd>> \in Place
  /\ <<"outbox">> \in Place /\ <<"ack">> \in Place /\ <<"applied">> \in Place
  /\ Refusal \notin Place
BY DEF Place, Refusal

Acking == IF step.at = "ack" THEN <<step.ack>> ELSE <<>>

LEMMA AtPlaces ==
  /\ \A c, l : At(<<"lane", c, l>>) = Unrouted(c, l)
  /\ \A c : At(<<"submit", c>>) = submit[c]
  /\ \A nd : At(<<"inbox", nd>>) = inbox[nd]
  /\ At(<<"outbox">>) = outbox /\ At(<<"ack">>) = Acking /\ At(<<"applied">>) = applied
BY DEF At, Acking

LEMMA AtPlacesNext ==
  /\ \A c, l : At(<<"lane", c, l>>)' = Unrouted(c, l)'
  /\ \A c : At(<<"submit", c>>)' = submit'[c]
  /\ \A nd : At(<<"inbox", nd>>)' = inbox'[nd]
  /\ At(<<"outbox">>)' = outbox' /\ At(<<"ack">>)' = Acking' /\ At(<<"applied">>)' = applied'
BY DEF At, Acking

LEMMA DrainedChannel == FabricTypes => Ch \in Channel
<1> SUFFICES ASSUME FabricTypes PROVE Ch \in Channel
  OBVIOUS
<1>1. step.ch = 1 \/ step.ch = 2 \/ step.ch = 3  BY DEF FabricTypes, StepType
<1>2. QED  BY <1>1 DEF Ch, ChannelAt, Channel

LEMMA UnroutedSeq ==
  ASSUME FabricTypes, Batches, NEW c \in Channel, NEW l \in LaneIds
  PROVE  Unrouted(c, l) \in Seq(Message)
<1>1. lanes[c][l] \in Seq(Message) /\ step.i \in Nat  BY DEF FabricTypes, StepType
<1>2. SubSeq(lanes[c][l], step.i + 1, Len(lanes[c][l])) \in Seq(Message)
  BY <1>1
<1>3. QED  BY <1>1, <1>2 DEF Unrouted

LEMMA AtSeq ==
  ASSUME FabricTypes, Batches, NEW x \in Place
  PROVE  At(x) \in Seq(Message)
<1>1. CASE \E c \in Channel, l \in LaneIds : x = <<"lane", c, l>>  BY <1>1, AtPlaces, UnroutedSeq
<1>2. CASE x = <<"ack">>
  <2>1. Acking \in Seq(Message)  BY DEF Acking, Batches
  <2>2. QED  BY <1>2, <2>1, AtPlaces
<1>3. CASE \E c \in Channel : x = <<"submit", c>>
  <2>1. PICK c \in Channel : x = <<"submit", c>>  BY <1>3
  <2>2. submit[c] \in Seq(Message)  BY DEF FabricTypes
  <2>3. QED  BY <2>1, <2>2, AtPlaces
<1>4. CASE \E nd \in Registered : x = <<"inbox", nd>>
  <2>1. PICK nd \in Registered : x = <<"inbox", nd>>  BY <1>4
  <2>2. inbox[nd] \in Seq(Message)  BY DEF FabricTypes
  <2>3. QED  BY <2>1, <2>2, AtPlaces
<1>5. CASE x = <<"outbox">> \/ x = <<"applied">>  BY <1>5, AtPlaces DEF FabricTypes
<1>6. QED  BY <1>1, <1>2, <1>3, <1>4, <1>5, PlaceCases

\* The batch routed so far is no longer waiting.
LEMMA BatchWaits ==
  ASSUME FabricTypes, Batches, step.at = "route", step.i < step.n
  PROVE  /\ Ch \in Channel /\ step.lane \in LaneIds /\ Unrouted(Ch, step.lane) # <<>>
         /\ BatchItem = Head(Unrouted(Ch, step.lane))
         /\ SubSeq(lanes[Ch][step.lane], step.i + 2, Len(lanes[Ch][step.lane])) = Tail(Unrouted(Ch, step.lane))
<1>1. step.lane \in LaneIds /\ Ch \in Channel /\ step.i \in Nat /\ step.n \in Nat
  <2>1. step \in StepType  BY DEF FabricTypes
  <2>2. step.lane \in Nat /\ step.lanes \in 0 .. MaxProducers /\ step.lane < step.lanes
        /\ step.i \in Nat /\ step.n \in Nat
    BY <2>1 DEF StepType, Batches
  <2>3. step.lane \in LaneIds  BY <2>2, ProducerAssumption DEF LaneIds
  <2>4. QED  BY <2>2, <2>3, DrainedChannel
<1> DEFINE q == lanes[Ch][step.lane]
<1>2. q \in Seq(Message) /\ step.i + 1 <= Len(q)  BY <1>1, SMTT(30) DEF FabricTypes, Batches
<1>3. Unrouted(Ch, step.lane) = SubSeq(q, step.i + 1, Len(q))  BY DEF Unrouted
<1> HIDE DEF q
<1>4. /\ SubSeq(q, step.i + 1, Len(q)) # <<>> /\ Head(SubSeq(q, step.i + 1, Len(q))) = q[step.i + 1]
      /\ Tail(SubSeq(q, step.i + 1, Len(q))) = SubSeq(q, step.i + 2, Len(q))
  <2>1. step.i + 1 \in 1 .. Len(q) /\ Len(q) \in (step.i + 1) .. Len(q)  BY <1>1, <1>2
  <2>2. (step.i + 1) + 1 = step.i + 2  BY <1>1
  <2>3. Len(SubSeq(q, step.i + 1, Len(q))) # 0
    <3>1. step.i + 1 \in Int /\ Len(q) \in Int /\ step.i + 1 <= Len(q)  BY <1>1, <1>2
    <3>2. \A i \in step.i + 1 .. Len(q) : q[i] \in Message
      <4>1. step.i + 1 .. Len(q) \subseteq 1 .. Len(q)  BY <1>1, <1>2
      <4>2. QED  BY <1>2, <4>1
    <3>3. Len(SubSeq(q, step.i + 1, Len(q))) = IF step.i + 1 <= Len(q) THEN Len(q) - (step.i + 1) + 1 ELSE 0
      BY <3>1, <3>2, SubSeqProperties
    <3>4. QED  BY <3>1, <3>3
  <2>4. SubSeq(q, step.i + 1, Len(q)) # <<>>
    <3>1. Len(<<>>) = 0  OBVIOUS
    <3>2. \A r : Len(r) # 0 => r # <<>>  BY <3>1
    <3>3. QED  BY <2>3, <3>2
  <2>5. /\ Head(SubSeq(q, step.i + 1, Len(q))) = q[step.i + 1]
        /\ Tail(SubSeq(q, step.i + 1, Len(q))) = SubSeq(q, (step.i + 1) + 1, Len(q))
    BY <1>2, <2>1, HeadTailOfSubSeq
  <2>6. QED  BY <2>2, <2>4, <2>5
<1>5. QED  BY <1>1, <1>3, <1>4 DEF q, BatchItem

-----------------------------------------------------------------------------
(* What hs_route_immediate does to a message.                              *)

RingType(ring) == ring = [head |-> ring.head, owner |-> ring.owner] /\ ring.head \in Nat

\* A message of m's, or the result of a fence.
Companion(m, x) == x \in Message /\ (Same(m, x) \/ x.op = "RESULT")

\* Put into the inbox of its node, and recorded if its channel is.
Delivered(m) ==
  /\ m.op \notin FrameOps \cup {"FENCE"} /\ m.to \in Registered
  /\ UNCHANGED <<applied, refused, dropped>>
  /\ \E x \in Message :
       /\ Same(m, x) /\ inbox' = Push(m.to, x)
       /\ log' = log \/ log' = Append(log, x)
       /\ recording' => recording /\ (m.ch \in recordMask => log' = Append(log, x))

\* Frame markers and fences, done with on the spot; a fence has a result.
Handled(m) ==
  /\ m.op \in FrameOps \cup {"FENCE"} /\ applied' = Append(applied, m) /\ UNCHANGED refused
  /\ \/ m.op # "FENCE" /\ UNCHANGED <<inbox, dropped>>
     \/ m.op = "FENCE" /\ UNCHANGED inbox /\ dropped' = ResultLost
     \/ /\ m.op = "FENCE" /\ UNCHANGED dropped
        /\ \E x \in Message : Key(x) = <<m.id, "RESULT">> /\ x.to = System /\ inbox' = Push(System, x)
  /\ \/ log' = log
     \/ \E x \in Message : Companion(m, x) /\ log' = Append(log, x)
     \/ \E x, y \in Message : Companion(m, x) /\ Companion(m, y) /\ log' = Append(Append(log, x), y)
  /\ recording' => recording

\* Refused for now or for good, and counted or reported.
Thrown(m) ==
  /\ refused' = refused \/ refused' = refused \cup {Key(m)}
  /\ UNCHANGED <<applied, log>>
  /\ \/ UNCHANGED inbox /\ \E counter \in {"systemNonRt", "queueFull", "errorEx"} : dropped' = Bump(counter)
     \/ /\ UNCHANGED dropped
        /\ \E x \in Message :
             x.op \in Reports /\ x.to = System /\ inbox' = Push(System, x)
  /\ recording' => recording

Routed(m) == Delivered(m) \/ Handled(m) \/ Thrown(m)
Settled(m) == Delivered(m) \/ Handled(m) \/ (Thrown(m) /\ refused' = refused \cup {Key(m)})

LEMMA AllocatedType ==
  ASSUME NEW ring, RingType(ring), NEW m
  PROVE  RingType(Allocated(ring, m))
<1>1. (ring.head + 1) % PayloadSlots \in Nat  BY PayloadAssumption DEF RingType
<1>2. QED  BY <1>1 DEF RingType, Allocated

LEMMA PlacedRingType ==
  ASSUME RingType(payload), NEW m
  PROVE  RingType(PlacedRing(m))
BY AllocatedType DEF PlacedRing

LEMMA FenceCases ==
  ASSUME FabricTypes, RingType(payload), NEW m \in Message, RouteFence(m), Apply(m), UNCHANGED refused
  PROVE  Handled(m) /\ RingType(payload') /\ UNCHANGED recordMask
<1> DEFINE ring == PlacedRing(m)
           res == ResultOf(m, ring.head)
<1>1. RingType(ring)  BY PlacedRingType
<1>2. res \in Message /\ Key(res) = <<m.id, "RESULT">> /\ res.op = "RESULT" /\ res.to = System
  BY <1>1, ReportsMade DEF RingType
<1>3. Placed(m) \in Message /\ Same(m, Placed(m))  BY PlacedSame DEF RingType
<1>4. /\ m.op = "FENCE" /\ payload' = Allocated(ring, res) /\ UNCHANGED recordMask
      /\ RecordOrOverflow(m)
      /\ \/ inbox' = Push(System, res) /\ log' = FenceLog(m, res) /\ UNCHANGED dropped
         \/ dropped' = ResultLost /\ log' = Keep(m) /\ UNCHANGED inbox
  BY DEF RouteFence
<1> HIDE DEF ring, res
<1>5. RingType(payload')  BY <1>1, <1>4, AllocatedType
<1>6. Companion(m, res) /\ Companion(m, Placed(m))  BY <1>2, <1>3 DEF Companion
<1>7. recording' => recording  BY <1>4 DEF RecordOrOverflow
<1>8. applied' = Append(applied, m)  BY <1>4 DEF Apply
<1>9. \/ log' = log
      \/ \E x \in Message : Companion(m, x) /\ log' = Append(log, x)
      \/ \E x, y \in Message : Companion(m, x) /\ Companion(m, y) /\ log' = Append(Append(log, x), y)
  <2>1. CASE log' = Keep(m)  BY <1>3, <1>6, <2>1 DEF Keep
  <2>2. CASE log' = FenceLog(m, res)
    <3>1. \/ log' = log \/ log' = Append(log, res) \/ log' = Append(log, Placed(m))
          \/ log' = Append(Append(log, res), Placed(m))
      BY <2>2 DEF FenceLog
    <3>2. QED  BY <1>2, <1>3, <1>6, <3>1
  <2>3. QED  BY <1>4, <2>1, <2>2
<1>10. QED  BY <1>2, <1>4, <1>5, <1>7, <1>8, <1>9 DEF Handled

LEMMA AcceptCases ==
  ASSUME FabricTypes, RingType(payload), NEW m \in Message, RouteAccepts(m), Apply(m), UNCHANGED refused
  PROVE  (Delivered(m) \/ Handled(m)) /\ RingType(payload') /\ UNCHANGED recordMask
<1>1. Placed(m) \in Message /\ Same(m, Placed(m))  BY PlacedSame DEF RingType
<1>2. CASE RouteFrame(m)
  <2>1. /\ m.op \in FrameOps /\ RecordOrOverflow(m) /\ log' = Keep(m) /\ payload' = PlacedRing(m)
        /\ UNCHANGED <<inbox, dropped, recordMask>>
    BY <1>2 DEF RouteFrame
  <2>2. m.op # "FENCE"  BY <2>1 DEF FrameOps
  <2>3. applied' = Append(applied, m)  BY <2>1 DEF Apply
  <2>4. log' = log \/ (Companion(m, Placed(m)) /\ log' = Append(log, Placed(m)))
    BY <1>1, <2>1 DEF Keep, Companion
  <2>5. recording' => recording  BY <2>1 DEF RecordOrOverflow
  <2>6. QED  BY <1>1, <2>1, <2>2, <2>3, <2>4, <2>5, PlacedRingType DEF Handled
<1>3. CASE RouteToInbox(m)
  <2>1. /\ m.op \notin FrameOps \cup {"FENCE"} /\ m.to \in Registered /\ RecordOrOverflow(m)
        /\ inbox' = Push(m.to, Placed(m)) /\ log' = Keep(m) /\ payload' = PlacedRing(m)
        /\ UNCHANGED <<dropped, recordMask>>
    BY <1>3 DEF RouteToInbox, Ordinary
  <2>2. UNCHANGED applied  BY <2>1 DEF Apply
  <2>3. log' = log \/ log' = Append(log, Placed(m))  BY <2>1 DEF Keep
  <2>4. recording' => recording /\ (m.ch \in recordMask => log' = Append(log, Placed(m)))
    BY <2>1 DEF RecordOrOverflow, Keep, Logged, Wanted
  <2>5. QED  BY <1>1, <2>1, <2>2, <2>3, <2>4, PlacedRingType DEF Delivered
<1>4. QED  BY <1>2, <1>3, FenceCases DEF RouteAccepts

LEMMA RefuseCases ==
  ASSUME FabricTypes, RingType(payload), NEW m \in Message, RouteRefuses(m),
         refused' = refused \/ refused' = refused \cup {Key(m)}, UNCHANGED applied
  PROVE  Thrown(m) /\ RingType(payload') /\ UNCHANGED recordMask
<1>1. ASSUME ReportErrorEx(m)
      PROVE  /\ RingType(payload')
             /\ \/ UNCHANGED inbox /\ dropped' = Bump("errorEx")
                \/ /\ UNCHANGED dropped
                   /\ \E x \in Message : x.op \in Reports /\ x.to = System /\ inbox' = Push(System, x)
  <2> DEFINE ring == PlacedRing(m)
             err == ErrorExOf(m, ring.head)
  <2>1. RingType(ring)  BY PlacedRingType
  <2>2. err \in Message /\ err.op \in Reports /\ err.to = System  BY <2>1, ReportsMade DEF RingType, Reports
  <2>3. /\ payload' = Allocated(ring, err)
        /\ \/ inbox' = Push(System, err) /\ UNCHANGED dropped
           \/ dropped' = Bump("errorEx") /\ UNCHANGED inbox
    BY <1>1 DEF ReportErrorEx
  <2> HIDE DEF ring, err
  <2>4. QED  BY <2>1, <2>2, <2>3, AllocatedType
<1>2. RecordOrOverflow(m) => (recording' => recording)  BY DEF RecordOrOverflow
<1>3. CASE RouteInvalid(m)  BY <1>1, <1>3 DEF RouteInvalid, Thrown
<1>4. CASE RouteNowhere(m)  BY <1>1, <1>2, <1>4 DEF RouteNowhere, Thrown
<1>5. CASE RouteReserved(m)
  BY <1>2, <1>5, PlacedRingType DEF RouteReserved, NonRtLost, Thrown
<1>6. CASE RouteFull(m)
  <2>1. QueueFullOf(m) \in Message /\ QueueFullOf(m).op \in Reports /\ QueueFullOf(m).to = System
    BY ReportsMade DEF Reports
  <2>2. \/ inbox' = Push(System, QueueFullOf(m)) /\ UNCHANGED dropped
        \/ dropped' = Bump("queueFull") /\ UNCHANGED inbox
    BY <1>6 DEF RouteFull, ReportQueueFull
  <2>3. RecordOrOverflow(m) /\ payload' = PlacedRing(m) /\ UNCHANGED <<log, recordMask>>
    BY <1>6 DEF RouteFull
  <2>4. RingType(payload')  BY <2>3, PlacedRingType
  <2>5. QED  BY <1>2, <2>1, <2>2, <2>3, <2>4 DEF Thrown
<1>7. QED  BY <1>3, <1>4, <1>5, <1>6 DEF RouteRefuses

LEMMA RouteCases ==
  ASSUME FabricTypes, NEW m \in Message, Route(m)
  PROVE  Settled(m) /\ Routed(m) /\ RingType(payload') /\ UNCHANGED recordMask
<1>1. RingType(payload)  BY DEF FabricTypes, RingType
<1>2. QED  BY <1>1, AcceptCases, RefuseCases DEF Route, Routed, Settled

-----------------------------------------------------------------------------
(* Where a message is, and where a step takes it.                          *)

Stays(z, k) == (Has(At(z)', k) <=> Has(At(z), k)) /\ (Once(At(z), k) => Once(At(z)', k))

LEMMA StaysCases ==
  ASSUME FabricTypes, Batches, NEW z \in Place, NEW k
  PROVE  /\ At(z)' = At(z) => Stays(z, k)
         /\ \A m \in Message : k # Key(m) /\ At(z)' = Append(At(z), m) => Stays(z, k)
         /\ At(z) # <<>> /\ k # Key(Head(At(z))) /\ At(z)' = Tail(At(z)) => Stays(z, k)
<1>1. At(z) \in Seq(Message)  BY AtSeq
<1>2. At(z)' = At(z) => Stays(z, k)  BY DEF Stays
<1>3. ASSUME NEW m \in Message, k # Key(m), At(z)' = Append(At(z), m) PROVE Stays(z, k)
  BY <1>1, <1>3, HasAppended DEF Stays
<1>4. ASSUME At(z) # <<>>, k # Key(Head(At(z))), At(z)' = Tail(At(z)) PROVE Stays(z, k)
  BY <1>1, <1>4, HasTailed DEF Stays
<1>5. QED  BY <1>2, <1>3, <1>4

LEMMA Unmoved ==
  ASSUME NEW k, Single(k), \A z \in Place : Stays(z, k), k \in refused' <=> k \in refused
  PROVE  Where(k)' = Where(k) /\ Single(k)'
<1>1. Where(k)' = Where(k)  BY DEF Where, Stays
<1>2. QED  BY <1>1 DEF Single, Stays

\* A message k goes from the front of x to the end of y, or is refused.
LEMMA Moved ==
  ASSUME FabricTypes, Batches, NEW k, Single(k),
         NEW x \in Place, At(x) # <<>>, k = Key(Head(At(x))), At(x)' = Tail(At(x)),
         NEW y \in Place \cup {Refusal}, y # x,
         y \in Place => \E m \in Message : Key(m) = k /\ At(y)' = Append(At(y), m),
         \A z \in Place \ {x, y} : Stays(z, k),
         k \in refused' <=> k \in refused \/ y = Refusal
  PROVE  Where(k)' = {y} /\ Single(k)'
<1>1. At(x) \in Seq(Message)  BY AtSeq
<1>2. Has(At(x), k) /\ Once(At(x), k)  BY <1>1, HasTailed DEF Single
<1>3. x \in Where(k)  BY <1>2 DEF Where
<1>4. /\ \A z \in Place : z # x => ~ Has(At(z), k)
      /\ k \notin refused
  BY <1>3, PlaceNames DEF Single, Where
<1>5. ~ Has(At(x)', k) /\ Once(At(x)', k)  BY <1>1, <1>2, HasTailed
<1>6. \A z \in Place \ {x, y} : ~ Has(At(z)', k) /\ Once(At(z)', k)  BY <1>4 DEF Stays, Single
<1>7. CASE y = Refusal
  <2>1. y \notin Place  BY <1>7, PlaceNames
  <2>2. \A z \in Place : ~ Has(At(z)', k) /\ Once(At(z)', k)  BY <1>5, <1>6, <2>1
  <2>3. k \in refused'  BY <1>7
  <2>4. Where(k)' = {y}  BY <1>7, <2>2, <2>3 DEF Where
  <2>5. QED  BY <2>2, <2>4 DEF Single
<1>8. CASE y \in Place
  <2>1. PICK m \in Message : Key(m) = k /\ At(y)' = Append(At(y), m)  BY <1>8
  <2>2. At(y) \in Seq(Message) /\ ~ Has(At(y), k) /\ Once(At(y), k)  BY <1>4, <1>8, AtSeq DEF Single
  <2>3. Has(At(y)', k) /\ Once(At(y)', k)  BY <2>1, <2>2, HasAppended
  <2>4. k \notin refused'  BY <1>4, <1>8, PlaceNames
  <2>5. Where(k)' = {y}  BY <1>5, <1>6, <1>8, <2>3, <2>4 DEF Where
  <2>6. QED  BY <1>5, <1>6, <2>3, <2>5 DEF Single
<1>9. QED  BY <1>7, <1>8

\* A message that was nowhere comes to y.
LEMMA Appears ==
  ASSUME FabricTypes, Batches, NEW k, Single(k), Where(k) = {}, NEW y \in Place,
         NEW m \in Message, Key(m) = k, At(y)' = Append(At(y), m),
         \A z \in Place \ {y} : Stays(z, k), k \in refused' <=> k \in refused
  PROVE  Where(k)' = {y} /\ Single(k)'
<1>1. At(y) \in Seq(Message)  BY AtSeq
<1>2. (\A z \in Place : ~ Has(At(z), k)) /\ k \notin refused  BY DEF Where
<1>3. Has(At(y)', k) /\ Once(At(y)', k)  BY <1>1, <1>2, HasAppended DEF Single
<1>4. \A z \in Place \ {y} : ~ Has(At(z)', k) /\ Once(At(z)', k)  BY <1>2 DEF Stays, Single
<1>5. Where(k)' = {y}  BY <1>2, <1>3, <1>4 DEF Where
<1>6. QED  BY <1>3, <1>4, <1>5 DEF Single

\* A step takes the first message of x to y, or refuses it, and may make a new
\* message at w.
Carries(x, y, w, made) ==
  /\ x \in Place /\ At(x) # <<>> /\ At(x)' = Tail(At(x))
  /\ y \in Place \cup {Refusal} /\ y # x
  /\ y \in Place => \E m \in Message : Key(m) = Key(Head(At(x))) /\ At(y)' = Append(At(y), m)
  /\ refused' = IF y = Refusal THEN refused \cup {Key(Head(At(x)))} ELSE refused
  /\ w \in Place /\ w # x /\ w # y
  /\ \/ made = {} /\ At(w)' = At(w)
     \/ \E m \in Message : made = {Key(m)} /\ At(w)' = Append(At(w), m)
  /\ \A z \in Place \ {x, y, w} : At(z)' = At(z)

LEMMA MovedAndMade ==
  ASSUME FabricTypes, Batches, \A k \in Tracked : Single(k),
         NEW x, NEW y, NEW w, NEW made, Carries(x, y, w, made),
         \A k \in made \cap Tracked : Where(k) = {}
  PROVE  \A k \in Tracked :
           /\ Single(k)'
           /\ Where(k)' = IF k = Key(Head(At(x))) THEN {y} ELSE IF k \in made THEN {w} ELSE Where(k)
<1> SUFFICES ASSUME NEW k \in Tracked
             PROVE  /\ Single(k)'
                    /\ Where(k)' = IF k = Key(Head(At(x))) THEN {y} ELSE IF k \in made THEN {w} ELSE Where(k)
  OBVIOUS
<1>1. Single(k)  OBVIOUS
<1> USE DEF Carries
<1>2. CASE k = Key(Head(At(x)))
  <2>1. Has(At(x), k)  BY <1>2, AtSeq, HasTailed
  <2>2. k \notin made  BY <2>1 DEF Where
  <2>3. Stays(w, k)  BY <2>2, StaysCases
  <2>4. \A z \in Place \ {x, y} : Stays(z, k)  BY <2>3, StaysCases
  <2>5. k \in refused' <=> k \in refused \/ y = Refusal  BY <1>2
  <2>6. y \in Place => \E m \in Message : Key(m) = k /\ At(y)' = Append(At(y), m)  BY <1>2
  <2>7. Where(k)' = {y} /\ Single(k)'  BY <1>1, <1>2, <2>4, <2>5, <2>6, Moved
  <2>8. QED  BY <1>2, <2>7
<1>3. CASE k # Key(Head(At(x)))
  <2>1. Stays(x, k)  BY <1>3, StaysCases
  <2>2. y \in Place => Stays(y, k)  BY <1>3, StaysCases
  <2>3. \A z \in Place \ {w} : Stays(z, k)  BY <2>1, <2>2, StaysCases
  <2>4. k \in refused' <=> k \in refused  BY <1>3
  <2>5. CASE k \in made
    <3>1. PICK m \in Message : Key(m) = k /\ At(w)' = Append(At(w), m)  BY <2>5
    <3>2. Where(k) = {}  BY <2>5
    <3>3. QED  BY <1>1, <1>3, <2>3, <2>4, <2>5, <3>1, <3>2, Appears
  <2>6. CASE k \notin made
    <3>1. Stays(w, k)  BY <2>6, StaysCases
    <3>2. \A z \in Place : Stays(z, k)  BY <2>3, <3>1
    <3>3. QED  BY <1>1, <1>3, <2>4, <2>6, <3>2, Unmoved
  <2>7. QED  BY <2>5, <2>6
<1>4. QED  BY <1>2, <1>3

\* What is in a place is accepted if a producer sent it.
LEMMA Present ==
  ASSUME FabricTypes, Batches, Fates, NEW x \in Place, NEW i \in DOMAIN At(x), At(x)[i].op \in UserOps
  PROVE  /\ Key(At(x)[i]) \in Tracked /\ x \in Where(Key(At(x)[i])) /\ Key(At(x)[i]) \in AcceptedKeys
         /\ At(x)[i] \in Message
<1> DEFINE m == At(x)[i]
<1>1. m \in Message  BY AtSeq
<1>2. Key(m) \in Tracked /\ Key(m)[2] = m.op  BY <1>1, MessageFields DEF Tracked
<1>3. x \in Where(Key(m))  BY DEF Where, Has
<1>4. Key(m) \in AcceptedKeys  BY <1>2, <1>3 DEF Fates
<1>5. QED  BY <1>1, <1>2, <1>3, <1>4

\* What asks for a reply is a producer's.
LEMMA AskersAreSent ==
  ASSUME NEW m \in Message, Acknowledged(m) \/ Answered(m)
  PROVE  m.op \in UserOps
<1>1. m.op \in Op /\ (m.op \in SystemOps => m.to = System)  BY MessageFields
<1>2. ControlOps \cap SystemOps = {}  BY DEF ControlOps, SystemOps
<1>3. QED  BY <1>1, <1>2 DEF Acknowledged, Answered, Op

\* A message on its way has no reply yet.
LEMMA NoReplyYet ==
  ASSUME FabricTypes, Batches, Accepted, Fates, Replies,
         NEW x \in Place, x # <<"applied">>, At(x) # <<>>, Head(At(x)).op \in UserOps
  PROVE  /\ Where(<<Head(At(x)).id, "ACK">>) = {} /\ Where(<<Head(At(x)).id, "RESULT">>) = {}
<1> DEFINE m == Head(At(x))
<1>1. At(x) \in Seq(Message)  BY AtSeq
<1>2. 1 \in DOMAIN At(x) /\ m = At(x)[1] /\ m \in Message  BY <1>1, Tailed
<1>3. Key(m) \in Tracked /\ x \in Where(Key(m)) /\ Key(m) \in AcceptedKeys  BY <1>2, Present
<1>4. m.id \in Id /\ Key(m) = <<m.id, m.op>>  BY <1>2, MessageFields
<1>5. ASSUME NEW j \in DOMAIN applied, applied[j].id = m.id, Acknowledged(applied[j]) \/ Answered(applied[j])
      PROVE  FALSE
  <2>1. At(<<"applied">>) = applied /\ <<"applied">> \in Place  BY AtPlaces, PlaceNames
  <2>2. applied[j] \in Message  BY DEF FabricTypes
  <2>3. applied[j].op \in UserOps  BY <1>5, <2>2, AskersAreSent
  <2>4. <<"applied">> \in Where(Key(applied[j])) /\ Key(applied[j]) \in AcceptedKeys
    BY <2>1, <2>3, Present
  <2>5. Key(applied[j]) = <<applied[j].id, applied[j].op>>  BY <2>2, MessageFields
  <2>6. PICK a \in accepted : Key(a) = Key(m)  BY <1>3 DEF AcceptedKeys
  <2>7. PICK b \in accepted : Key(b) = Key(applied[j])  BY <2>4 DEF AcceptedKeys
  <2>8. a.id = m.id /\ b.id = m.id  BY <1>4, <1>5, <2>5, <2>6, <2>7 DEF Key
  <2>9. a = b  BY <2>8 DEF Accepted
  <2>10. Key(applied[j]) = Key(m)  BY <2>6, <2>7, <2>9
  <2>11. x = <<"applied">>  BY <1>3, <2>4, <2>10 DEF Fates, Single
  <2>12. QED  BY <2>11
<1>6. QED  BY <1>4, <1>5 DEF Replies

\* A step takes the first message m of x on: to y, or refuses it; and it makes
\* the replies to m if m is now applied.
LEMMA Carried ==
  ASSUME FabricTypes, Batches, Accepted, Fates, Replies, accepted' = accepted,
         NEW x, NEW y, NEW w, NEW made, Carries(x, y, w, made), x # <<"applied">>,
         NEW m, m = Head(At(x)),
         \/ applied' = applied /\ made \cap Tracked = {}
         \/ applied' = Append(applied, m) /\ made \subseteq {<<m.id, "ACK">>, <<m.id, "RESULT">>},
         <<m.id, "ACK">> \in made <=> applied' = Append(applied, m) /\ Acknowledged(m),
         <<m.id, "RESULT">> \in made => Answered(m)
  PROVE  Fates' /\ Replies'
<1>1. At(x) \in Seq(Message) /\ At(x) # <<>> /\ x \in Place /\ applied \in Seq(Message)
  BY AtSeq DEF FabricTypes, Carries
<1>2. m \in Message /\ Has(At(x), Key(m))  BY <1>1, Tailed, HasTailed
<1>3. x \in Where(Key(m))  BY <1>1, <1>2 DEF Where
<1>4. \A k \in made \cap Tracked : Where(k) = {}
  <2> SUFFICES ASSUME NEW k \in made \cap Tracked PROVE Where(k) = {}
    OBVIOUS
  <2>1. k = <<m.id, "ACK">> \/ k = <<m.id, "RESULT">>  OBVIOUS
  <2>2. Acknowledged(m) \/ Answered(m)  BY <2>1
  <2>3. m.op \in UserOps  BY <1>2, <2>2, AskersAreSent
  <2>4. QED  BY <1>1, <2>1, <2>3, NoReplyYet
<1>5. \A k \in Tracked :
           /\ Single(k)'
           /\ Where(k)' = IF k = Key(m) THEN {y} ELSE IF k \in made THEN {w} ELSE Where(k)
  <2>1. \A k \in Tracked : Single(k)  BY DEF Fates
  <2>2. QED  BY <1>4, <2>1, MovedAndMade
<1>6. \A k \in Tracked : Where(k)' # {} <=> Where(k) # {} \/ k \in made  BY <1>3, <1>5
<1>7. Fates'
  <2>1. AcceptedKeys' = AcceptedKeys  BY DEF AcceptedKeys
  <2>2. \A k \in made : k[2] \notin UserOps \/ k \notin Tracked
    <3>1. "ACK" \notin UserOps /\ "RESULT" \notin UserOps  BY OpsApart DEF SystemOps
    <3>2. QED  BY <3>1
  <2>3. QED  BY <1>5, <1>6, <2>1, <2>2 DEF Fates
<1>8. Replies'
  <2> SUFFICES ASSUME NEW id \in Id
               PROVE  /\ Where(<<id, "ACK">>)' # {} <=>
                           \E j \in DOMAIN applied' : applied'[j].id = id /\ Acknowledged(applied'[j])
                      /\ Where(<<id, "RESULT">>)' # {} =>
                           \E j \in DOMAIN applied' : applied'[j].id = id /\ Answered(applied'[j])
    BY DEF Replies, Acknowledged, Answered
  <2>1. <<id, "ACK">> \in Tracked /\ <<id, "RESULT">> \in Tracked  BY DEF Tracked
  <2>2. /\ Where(<<id, "ACK">>) # {} <=>
             \E j \in DOMAIN applied : applied[j].id = id /\ Acknowledged(applied[j])
        /\ Where(<<id, "RESULT">>) # {} =>
             \E j \in DOMAIN applied : applied[j].id = id /\ Answered(applied[j])
    BY DEF Replies
  <2>3. CASE applied' = applied /\ made \cap Tracked = {}
    BY <1>6, <2>1, <2>2, <2>3
  <2>4. CASE applied' = Append(applied, m) /\ made \subseteq {<<m.id, "ACK">>, <<m.id, "RESULT">>}
    <3> DEFINE q == applied'
               L == Len(applied) + 1
    <3>1. /\ \A i \in DOMAIN applied : i \in DOMAIN q /\ q[i] = applied[i]
          /\ q[L] = m /\ L \in DOMAIN q /\ \A i \in DOMAIN q : i \in DOMAIN applied \/ i = L
      BY <1>1, <1>2, <2>4, Appended
    <3> HIDE DEF q, L
    <3>2. <<id, "ACK">> \in made <=> id = m.id /\ Acknowledged(m)  BY <2>4
    <3>3. <<id, "RESULT">> \in made => id = m.id /\ Answered(m)  BY <2>4
    <3>4. (\E j \in DOMAIN q : q[j].id = id /\ Acknowledged(q[j])) <=>
            (\E j \in DOMAIN applied : applied[j].id = id /\ Acknowledged(applied[j])) \/ (id = m.id /\ Acknowledged(m))
      BY <3>1
    <3>5. (\E j \in DOMAIN applied : applied[j].id = id /\ Answered(applied[j])) \/ (id = m.id /\ Answered(m))
            => \E j \in DOMAIN q : q[j].id = id /\ Answered(q[j])
      BY <3>1
    <3>6. QED  BY <1>6, <2>1, <2>2, <3>2, <3>3, <3>4, <3>5 DEF q
  <2>5. QED  BY <2>3, <2>4
<1>9. QED  BY <1>7, <1>8

-----------------------------------------------------------------------------
(* Order.                                                                  *)

\* What takes the place of m: m itself, or what went through no lane.
Fits(m, a) == ~ ByLane(a) \/ Same(m, a)

LEMMA MoreInOrder ==
  ASSUME NEW s \in Seq(Message), NEW m, NEW a \in Message, Fits(m, a), InOrder(s),
         \A i \in DOMAIN s : SentBefore(s[i], m)
  PROVE  InOrder(Append(s, a))
<1>1. \A i \in DOMAIN s : SentBefore(s[i], a)  BY SameBefore, OthersBefore DEF Fits
<1>2. QED  BY <1>1, OrderAppended

LEMMA MoreBefore ==
  ASSUME NEW s \in Seq(Message), NEW t \in Seq(Message), NEW m, NEW a \in Message, Fits(m, a), Before(s, t)
  PROVE  /\ (\A j \in DOMAIN t : SentBefore(m, t[j])) => Before(Append(s, a), t)
         /\ (\A i \in DOMAIN s : SentBefore(s[i], m)) => Before(s, Append(t, a))
<1>1. \A x : (SentBefore(m, x) => SentBefore(a, x)) /\ (SentBefore(x, m) => SentBefore(x, a))
  BY SameBefore, OthersBefore DEF Fits
<1>2. QED  BY <1>1, BeforeAppended

\* All that is applied, recorded or in an inbox was sent before m, and what
\* still waits in the lanes after it.
Front(m) ==
  /\ \A i \in DOMAIN applied : SentBefore(applied[i], m)
  /\ \A i \in DOMAIN log : SentBefore(log[i], m)
  /\ \A nd \in Registered : \A i \in DOMAIN inbox[nd] : SentBefore(inbox[nd][i], m)
Later(m) ==
  \A c \in Channel, l \in LaneIds :
    \A j \in DOMAIN Unrouted(c, l)' : SentBefore(m, Unrouted(c, l)'[j])

LanesShrink ==
  \A c \in Channel, l \in LaneIds :
    \/ Unrouted(c, l)' = Unrouted(c, l)
    \/ Unrouted(c, l) # <<>> /\ Unrouted(c, l)' = Tail(Unrouted(c, l))

LEMMA LanesLeft ==
  ASSUME FabricTypes, Batches, Orders, LanesShrink, NEW c \in Channel, NEW l \in LaneIds
  PROVE  /\ Unrouted(c, l)' \in Seq(Message) /\ InOrder(Unrouted(c, l)')
         /\ Before(applied, Unrouted(c, l)') /\ Before(log, Unrouted(c, l)')
         /\ \A nd \in Registered : Before(inbox[nd], Unrouted(c, l)')
<1> DEFINE s == Unrouted(c, l)
<1>1. s \in Seq(Message)  BY UnroutedSeq
<1>2. /\ InOrder(s) /\ Before(applied, s) /\ Before(log, s)
      /\ \A nd \in Registered : Before(inbox[nd], s)
  BY DEF Orders
<1>3. /\ applied \in Seq(Message) /\ log \in Seq(Message)
      /\ \A nd \in Registered : inbox[nd] \in Seq(Message)
  BY DEF FabricTypes
<1>4. Unrouted(c, l)' = s \/ (s # <<>> /\ Unrouted(c, l)' = Tail(s))  BY DEF LanesShrink
<1> HIDE DEF s
<1>5. CASE Unrouted(c, l)' = s  BY <1>1, <1>2, <1>5
<1>6. CASE s # <<>> /\ Unrouted(c, l)' = Tail(s)
  <2>1. InOrder(Tail(s)) /\ Tail(s) \in Seq(Message)  BY <1>1, <1>2, <1>6, OrderTailed, Tailed
  <2>2. Before(applied, Tail(s)) /\ Before(log, Tail(s))  BY <1>1, <1>2, <1>3, <1>6, BeforeTailed
  <2>3. \A nd \in Registered : Before(inbox[nd], Tail(s))  BY <1>1, <1>2, <1>3, <1>6, BeforeTailed
  <2>4. QED  BY <1>6, <2>1, <2>2, <2>3
<1>7. QED  BY <1>4, <1>5, <1>6

\* A sequence that has one more, or is as it was.
More(m, s, t) == t = s \/ \E a \in Message : Fits(m, a) /\ t = Append(s, a)

LEMMA MoreKeeps ==
  ASSUME NEW s \in Seq(Message), NEW t, NEW m, More(m, s, t), InOrder(s),
         \A i \in DOMAIN s : SentBefore(s[i], m)
  PROVE  /\ t \in Seq(Message) /\ InOrder(t)
         /\ \A r \in Seq(Message) :
              /\ Before(s, r) /\ (\A j \in DOMAIN r : SentBefore(m, r[j])) => Before(t, r)
              /\ Before(r, s) /\ (\A j \in DOMAIN r : SentBefore(r[j], m)) => Before(r, t)
<1>1. CASE t = s  BY <1>1
<1>2. CASE \E a \in Message : Fits(m, a) /\ t = Append(s, a)
  <2>1. PICK a \in Message : Fits(m, a) /\ t = Append(s, a)  BY <1>2
  <2>2. t \in Seq(Message) /\ InOrder(t)  BY <2>1, MoreInOrder, Appended
  <2>3. ASSUME NEW r \in Seq(Message), Before(s, r), \A j \in DOMAIN r : SentBefore(m, r[j])
        PROVE  Before(t, r)
    BY <2>1, <2>3, MoreBefore
  <2>4. ASSUME NEW r \in Seq(Message), Before(r, s), \A j \in DOMAIN r : SentBefore(r[j], m)
        PROVE  Before(r, t)
    BY <2>1, <2>4, MoreBefore
  <2>5. QED  BY <2>2, <2>3, <2>4
<1>3. QED  BY <1>1, <1>2 DEF More

-----------------------------------------------------------------------------
(* A message is routed.                                                    *)

DropTypes == [errorEx : Nat, queueFull : Nat, systemNonRt : Nat, result : Nat]

LEMMA BumpType ==
  ASSUME dropped \in DropTypes, NEW counter \in {"errorEx", "queueFull", "systemNonRt", "result"}
  PROVE  Bump(counter) \in DropTypes
<1> DEFINE n == IF dropped[counter] < CountMax THEN dropped[counter] + 1 ELSE dropped[counter]
<1>1. n \in Nat  BY DEF DropTypes
<1>2. Bump(counter) = [dropped EXCEPT ![counter] = n]  BY DEF Bump
<1> HIDE DEF n
<1>3. QED  BY <1>1, <1>2 DEF DropTypes

LEMMA PushType ==
  ASSUME FabricTypes, NEW nd \in Registered, NEW m \in Message
  PROVE  /\ Push(nd, m) \in [Registered -> Seq(Message)] /\ Push(nd, m)[nd] = Append(inbox[nd], m)
         /\ \A o \in Registered \ {nd} : Push(nd, m)[o] = inbox[o]
<1>1. inbox \in [Registered -> Seq(Message)]  BY DEF FabricTypes
<1>2. Append(inbox[nd], m) \in Seq(Message)  BY <1>1
<1>3. QED  BY <1>1, <1>2 DEF Push

LEMMA RoutedTypes ==
  ASSUME FabricTypes, NEW m \in Message, Routed(m)
  PROVE  /\ inbox' \in [Registered -> Seq(Message)] /\ applied' \in Seq(Message) /\ log' \in Seq(Message)
         /\ refused' \subseteq Id \X Op /\ dropped' \in DropTypes
<1>1. /\ inbox \in [Registered -> Seq(Message)] /\ applied \in Seq(Message) /\ log \in Seq(Message)
      /\ refused \subseteq Id \X Op /\ dropped \in DropTypes
  BY DEF FabricTypes, DropTypes
<1>2. inbox' \in [Registered -> Seq(Message)]
  <2>1. \/ inbox' = inbox
        \/ \E nd \in Registered, x \in Message : inbox' = Push(nd, x)
    BY OpsApart DEF Routed, Delivered, Handled, Thrown
  <2>2. ASSUME NEW nd \in Registered, NEW x \in Message, inbox' = Push(nd, x)
        PROVE  inbox' \in [Registered -> Seq(Message)]
    BY <2>2, PushType
  <2>3. QED  BY <1>1, <2>1, <2>2
<1>3. applied' \in Seq(Message)
  <2>1. applied' = applied \/ applied' = Append(applied, m)  BY DEF Routed, Delivered, Handled, Thrown
  <2>2. QED  BY <1>1, <2>1
<1>4. log' \in Seq(Message)
  <2>1. \/ log' = log \/ \E x \in Message : log' = Append(log, x)
        \/ \E x, y \in Message : log' = Append(Append(log, x), y)
    BY DEF Routed, Delivered, Handled, Thrown
  <2>2. \A s \in Seq(Message), x \in Message : Append(s, x) \in Seq(Message)  OBVIOUS
  <2>3. QED  BY <1>1, <2>1, <2>2
<1>5. refused' = refused \/ refused' = refused \cup {Key(m)}  BY DEF Routed, Delivered, Handled, Thrown
<1>6. refused' \subseteq Id \X Op  BY <1>1, <1>5, MessageFields
<1>7. dropped' \in DropTypes
  BY <1>1, BumpType DEF Routed, Delivered, Handled, Thrown, ResultLost
<1>8. QED  BY <1>2, <1>3, <1>4, <1>6, <1>7

\* How routing m lengthens the sequences.
LEMMA RoutedMore ==
  ASSUME FabricTypes, NEW m \in Message, Routed(m)
  PROVE  /\ applied' = applied \/ (~ ByLane(m) /\ applied' = Append(applied, m))
         /\ \A nd \in Registered : More(m, inbox[nd], inbox'[nd])
         /\ \/ More(m, log, log')
            \/ ~ ByLane(m) /\ \E s \in Seq(Message) : More(m, log, s) /\ More(m, s, log')
<1>1. m.op \in FrameOps \cup {"FENCE"} => ~ ByLane(m)  BY DEF ByLane
<1>2. \A x \in Message : x.op \in SystemOps => Fits(m, x)  BY OpsApart DEF Fits, ByLane
<1>3. Reports \subseteq SystemOps /\ "RESULT" \in SystemOps  BY DEF Reports, SystemOps
<1>4. \A nd \in Registered, x \in Message : Fits(m, x) /\ inbox' = Push(nd, x) =>
        \A o \in Registered : More(m, inbox[o], inbox'[o])
  <2> SUFFICES ASSUME NEW nd \in Registered, NEW x \in Message, Fits(m, x), inbox' = Push(nd, x),
                      NEW o \in Registered
               PROVE  More(m, inbox[o], inbox'[o])
    OBVIOUS
  <2>1. inbox'[nd] = Append(inbox[nd], x) /\ (o # nd => inbox'[o] = inbox[o])  BY PushType
  <2>2. QED  BY <2>1 DEF More
<1>5. (UNCHANGED inbox => \A o \in Registered : More(m, inbox[o], inbox'[o])) /\ System \in Registered
  BY OpsApart DEF More
<1>6. CASE Delivered(m)
  <2>1. PICK x \in Message : Same(m, x) /\ inbox' = Push(m.to, x) /\ (log' = log \/ log' = Append(log, x))
    BY <1>6 DEF Delivered
  <2>2. Fits(m, x)  BY <2>1 DEF Fits
  <2>3. More(m, log, log')  BY <2>1, <2>2 DEF More
  <2>4. m.to \in Registered /\ applied' = applied  BY <1>6 DEF Delivered
  <2>5. QED  BY <1>4, <2>1, <2>2, <2>3, <2>4
<1>7. CASE Handled(m)
  <2>1. ~ ByLane(m) /\ applied' = Append(applied, m)  BY <1>1, <1>7 DEF Handled
  <2>2. \A nd \in Registered : More(m, inbox[nd], inbox'[nd])
    <3>1. \A x \in Message : Key(x) = <<m.id, "RESULT">> => Fits(m, x)  BY <1>2, <1>3 DEF Key
    <3>2. QED  BY <1>4, <1>5, <1>7, <3>1 DEF Handled
  <2>3. \A x \in Message : Companion(m, x) => Fits(m, x)  BY <1>2, <1>3 DEF Companion, Fits
  <2>4. \/ log' = log
        \/ \E x \in Message : Fits(m, x) /\ log' = Append(log, x)
        \/ \E x, y \in Message : Fits(m, x) /\ Fits(m, y) /\ log' = Append(Append(log, x), y)
    BY <1>7, <2>3 DEF Handled
  <2>5. \/ More(m, log, log')
        \/ \E s \in Seq(Message) : More(m, log, s) /\ More(m, s, log')
    <3>1. CASE \E x, y \in Message : Fits(m, x) /\ Fits(m, y) /\ log' = Append(Append(log, x), y)
      <4>1. PICK x \in Message, y \in Message : Fits(m, x) /\ Fits(m, y) /\ log' = Append(Append(log, x), y)
        BY <3>1
      <4>2. Append(log, x) \in Seq(Message)  BY DEF FabricTypes
      <4>3. More(m, log, Append(log, x)) /\ More(m, Append(log, x), log')  BY <4>1 DEF More
      <4>4. QED  BY <4>2, <4>3
    <3>2. QED  BY <2>4, <3>1 DEF More
  <2>6. QED  BY <2>1, <2>2, <2>5
<1>8. CASE Thrown(m)
  <2>1. More(m, log, log') /\ applied' = applied  BY <1>8 DEF Thrown, More
  <2>2. \A nd \in Registered : More(m, inbox[nd], inbox'[nd])
    <3>1. \A x \in Message : x.op \in Reports => Fits(m, x)  BY <1>2, <1>3
    <3>2. QED  BY <1>4, <1>5, <1>8, <3>1 DEF Thrown
  <2>3. QED  BY <2>1, <2>2
<1>9. QED  BY <1>6, <1>7, <1>8 DEF Routed

LEMMA OrdersRouted ==
  ASSUME FabricTypes, Batches, Orders, LanesShrink, NEW m \in Message, Routed(m),
         ByLane(m) => Front(m) /\ Later(m)
  PROVE  Orders'
<1>1. ~ ByLane(m) => \A x : SentBefore(m, x) /\ SentBefore(x, m)  BY OthersBefore
<1>2. Front(m) /\ Later(m)  BY <1>1 DEF Front, Later
<1>3. /\ applied \in Seq(Message) /\ log \in Seq(Message)
      /\ \A nd \in Registered : inbox[nd] \in Seq(Message)
  BY DEF FabricTypes
<1>4. /\ InOrder(applied) /\ InOrder(log)
      /\ \A nd \in Registered : InOrder(inbox[nd]) /\ Before(applied, inbox[nd])
  BY DEF Orders
<1>5. /\ applied' \in Seq(Message) /\ InOrder(applied')
      /\ \A c \in Channel, l \in LaneIds : Before(applied', Unrouted(c, l)')
      /\ \A nd \in Registered : Before(applied', inbox[nd])
      /\ \A i \in DOMAIN applied' : SentBefore(applied'[i], m)
  <2>1. CASE applied' = applied
    <3>1. \A i \in DOMAIN applied' : SentBefore(applied'[i], m)  BY <1>2, <2>1 DEF Front
    <3>2. \A c \in Channel, l \in LaneIds : Before(applied', Unrouted(c, l)')  BY <2>1, LanesLeft
    <3>3. QED  BY <1>3, <1>4, <2>1, <3>1, <3>2
  <2>2. CASE ~ ByLane(m) /\ applied' = Append(applied, m)
    <3>1. More(m, applied, applied')  BY <2>2 DEF More, Fits
    <3>2. /\ applied' \in Seq(Message) /\ InOrder(applied')
          /\ \A r \in Seq(Message) : Before(applied, r) => Before(applied', r)
      BY <1>1, <1>3, <1>4, <2>2, <3>1, MoreKeeps
    <3>3. \A c \in Channel, l \in LaneIds : Before(applied', Unrouted(c, l)')  BY <3>2, LanesLeft
    <3>4. QED  BY <1>1, <1>3, <1>4, <2>2, <3>2, <3>3
  <2>3. QED  BY <2>1, <2>2, RoutedMore
<1>6. ASSUME NEW nd \in Registered
      PROVE  /\ InOrder(inbox'[nd]) /\ Before(applied', inbox'[nd])
             /\ \A c \in Channel, l \in LaneIds : Before(inbox'[nd], Unrouted(c, l)')
  <2>1. More(m, inbox[nd], inbox'[nd])  BY RoutedMore
  <2>2. \A i \in DOMAIN inbox[nd] : SentBefore(inbox[nd][i], m)  BY <1>2 DEF Front
  <2>3. /\ InOrder(inbox'[nd])
        /\ \A r \in Seq(Message) :
              /\ Before(inbox[nd], r) /\ (\A j \in DOMAIN r : SentBefore(m, r[j])) => Before(inbox'[nd], r)
              /\ Before(r, inbox[nd]) /\ (\A j \in DOMAIN r : SentBefore(r[j], m)) => Before(r, inbox'[nd])
    BY <1>3, <1>4, <2>1, <2>2, MoreKeeps
  <2>4. Before(applied', inbox'[nd])  BY <1>5, <2>3
  <2>5. ASSUME NEW c \in Channel, NEW l \in LaneIds PROVE Before(inbox'[nd], Unrouted(c, l)')
    <3>1. Unrouted(c, l)' \in Seq(Message) /\ Before(inbox[nd], Unrouted(c, l)')  BY LanesLeft
    <3>2. \A j \in DOMAIN Unrouted(c, l)' : SentBefore(m, Unrouted(c, l)'[j])  BY <1>2 DEF Later
    <3>3. QED  BY <2>3, <3>1, <3>2
  <2>6. QED  BY <2>3, <2>4, <2>5
<1>7. InOrder(log') /\ \A c \in Channel, l \in LaneIds : Before(log', Unrouted(c, l)')
  <2>1. /\ \A i \in DOMAIN log : SentBefore(log[i], m)
        /\ \A c \in Channel, l \in LaneIds :
             /\ Unrouted(c, l)' \in Seq(Message) /\ Before(log, Unrouted(c, l)')
             /\ \A j \in DOMAIN Unrouted(c, l)' : SentBefore(m, Unrouted(c, l)'[j])
    BY <1>2, LanesLeft DEF Front, Later
  <2>2. CASE More(m, log, log')
    <3>1. /\ InOrder(log')
          /\ \A r \in Seq(Message) : Before(log, r) /\ (\A j \in DOMAIN r : SentBefore(m, r[j])) => Before(log', r)
      BY <1>3, <1>4, <2>1, <2>2, MoreKeeps
    <3>2. QED  BY <2>1, <3>1
  <2>3. CASE ~ ByLane(m) /\ \E s \in Seq(Message) : More(m, log, s) /\ More(m, s, log')
    <3>1. PICK s \in Seq(Message) : More(m, log, s) /\ More(m, s, log')  BY <2>3
    <3>2. InOrder(s) /\ \A r \in Seq(Message) : Before(log, r) => Before(s, r)
      BY <1>1, <1>3, <1>4, <2>3, <3>1, MoreKeeps
    <3>3. InOrder(log') /\ \A r \in Seq(Message) : Before(s, r) => Before(log', r)
      BY <1>1, <2>3, <3>1, <3>2, MoreKeeps
    <3>4. QED  BY <2>1, <3>2, <3>3
  <2>4. QED  BY <2>2, <2>3, RoutedMore
<1>8. \A c \in Channel, l \in LaneIds : InOrder(Unrouted(c, l)')  BY LanesLeft
<1>9. QED  BY <1>5, <1>6, <1>7, <1>8 DEF Orders, Before, InOrder

\* Routing takes a message from x, which is no inbox, to its fate.
LEMMA RoutedFates ==
  ASSUME FabricTypes, Batches, Accepted, Fates, Replies, accepted' = accepted,
         NEW x \in Place, x # <<"applied">>, \A nd : x # <<"inbox", nd>>,
         At(x) # <<>>, At(x)' = Tail(At(x)), NEW m, m = Head(At(x)), Settled(m),
         \A z \in Place \ {x} : z = <<"applied">> \/ (\E nd : z = <<"inbox", nd>>) \/ At(z)' = At(z)
  PROVE  Fates' /\ Replies'
<1> DEFINE A == <<"applied">>
           I(nd) == <<"inbox", nd>>
<1>1. /\ A \in Place /\ At(A) = applied /\ At(A)' = applied'
      /\ \A nd \in Registered : I(nd) \in Place /\ At(I(nd)) = inbox[nd] /\ At(I(nd))' = inbox'[nd] /\ I(nd) # A
      /\ Refusal \notin Place /\ \A nd : I(nd) # Refusal
  BY PlaceNames, AtPlaces, AtPlacesNext DEF Refusal
<1>2. m \in Message  BY AtSeq, Tailed
<1>3. \A z \in Place \ {x, A} : (\E nd \in Registered : z = I(nd)) \/ At(z)' = At(z)
  <2>1. \A nd : I(nd) \in Place => nd \in Registered  BY DEF Place
  <2>2. QED  BY <2>1
<1>4. applied # Append(applied, m)
  <2>1. applied \in Seq(Message)  BY DEF FabricTypes
  <2>2. Len(Append(applied, m)) = Len(applied) + 1 /\ Len(applied) \in Nat  BY <1>2, <2>1, Appended
  <2>3. QED  BY <2>2
<1>5. \A nd, o \in Registered : I(nd) = I(o) <=> nd = o  OBVIOUS
<1>0. {} \cap Tracked = {} /\ \A k : k \notin {}  OBVIOUS
<1> HIDE DEF A, I
<1>6. CASE Delivered(m)
  <2>1. PICK e \in Message : Same(m, e) /\ inbox' = Push(m.to, e)  BY <1>6 DEF Delivered
  <2>2. m.to \in Registered /\ UNCHANGED <<applied, refused>>  BY <1>6 DEF Delivered
  <2>3. /\ inbox'[m.to] = Append(inbox[m.to], e)
        /\ \A o \in Registered \ {m.to} : inbox'[o] = inbox[o]
    BY <2>1, <2>2, PushType
  <2>4. Key(e) = Key(m)  BY <2>1 DEF Same, Key
  <2>5. Carries(x, I(m.to), A, {})
    <3>1. \A z \in Place \ {x, I(m.to), A} : At(z)' = At(z)  BY <1>1, <1>3, <1>5, <2>3
    <3>2. I(m.to) \in Place /\ At(I(m.to))' = Append(At(I(m.to)), e)  BY <1>1, <2>2, <2>3
    <3>3. I(m.to) # x /\ A # x /\ A # I(m.to) /\ A \in Place /\ At(A)' = At(A) /\ I(m.to) # Refusal
      BY <1>1, <2>2 DEF A, I
    <3>4. QED  BY <2>1, <2>2, <2>4, <3>1, <3>2, <3>3 DEF Carries
  <2>6. applied' # Append(applied, m)  BY <1>4, <2>2
  <2>7. QED  BY <1>0, <2>2, <2>5, <2>6, Carried
<1>7. CASE Handled(m)
  <2>1. /\ m.op \in FrameOps \cup {"FENCE"} /\ applied' = Append(applied, m) /\ UNCHANGED refused
        /\ \/ UNCHANGED inbox
           \/ m.op = "FENCE" /\ \E e \in Message : Key(e) = <<m.id, "RESULT">> /\ inbox' = Push(System, e)
    BY <1>7 DEF Handled
  <2>2. /\ A \in Place /\ A # x /\ A # Refusal /\ At(A)' = Append(At(A), m)
        /\ I(System) \in Place /\ I(System) # x /\ I(System) # A
    BY <1>1, <2>1, OpsApart DEF A, I
  <2>3. ~ Acknowledged(m)  BY <2>1 DEF Acknowledged
  <2>4. CASE UNCHANGED inbox
    <3>1. \A z \in Place \ {x, A} : At(z)' = At(z)  BY <1>1, <1>3, <2>4
    <3>2. Carries(x, A, I(System), {})  BY <1>2, <2>1, <2>2, <3>1 DEF Carries
    <3>3. {} \subseteq {<<m.id, "ACK">>, <<m.id, "RESULT">>}  OBVIOUS
    <3>4. QED  BY <1>0, <2>1, <2>3, <3>2, <3>3, Carried
  <2>5. CASE m.op = "FENCE" /\ \E e \in Message : Key(e) = <<m.id, "RESULT">> /\ inbox' = Push(System, e)
    <3>1. PICK e \in Message : Key(e) = <<m.id, "RESULT">> /\ inbox' = Push(System, e)  BY <2>5
    <3>2. /\ inbox'[System] = Append(inbox[System], e)
          /\ \A o \in Registered \ {System} : inbox'[o] = inbox[o]
      BY <3>1, PushType, OpsApart
    <3>3. \A z \in Place \ {x, A, I(System)} : At(z)' = At(z)  BY <1>1, <1>3, <1>5, <3>2
    <3>4. At(I(System))' = Append(At(I(System)), e)  BY <1>1, <3>2, OpsApart
    <3>5. Carries(x, A, I(System), {<<m.id, "RESULT">>})
      BY <1>2, <2>1, <2>2, <3>1, <3>3, <3>4 DEF Carries
    <3>6. Answered(m)  BY <2>5 DEF Answered, ControlOps
    <3>7. <<m.id, "ACK">> \notin {<<m.id, "RESULT">>}  OBVIOUS
    <3>8. QED  BY <2>1, <2>3, <3>5, <3>6, <3>7, Carried
  <2>6. QED  BY <2>1, <2>4, <2>5
<1>8. CASE Thrown(m) /\ refused' = refused \cup {Key(m)}
  <2>1. /\ refused' = refused \cup {Key(m)} /\ UNCHANGED applied
        /\ \/ UNCHANGED inbox
           \/ \E e \in Message : e.op \in Reports /\ inbox' = Push(System, e)
    BY <1>8 DEF Thrown
  <2>2. /\ I(System) \in Place /\ I(System) # x /\ I(System) # Refusal /\ x # Refusal
    BY <1>1, OpsApart DEF I
  <2>3. At(A)' = At(A) /\ A \in Place  BY <1>1, <2>1
  <2>4. CASE UNCHANGED inbox
    <3>1. \A z \in Place \ {x} : At(z)' = At(z)  BY <1>1, <1>3, <2>3, <2>4
    <3>2. Carries(x, Refusal, I(System), {})  BY <1>1, <1>2, <2>1, <2>2, <3>1 DEF Carries
    <3>3. applied' # Append(applied, m)  BY <1>4, <2>1
    <3>4. QED  BY <1>0, <2>1, <3>2, <3>3, Carried
  <2>5. CASE \E e \in Message : e.op \in Reports /\ inbox' = Push(System, e)
    <3>1. PICK e \in Message : e.op \in Reports /\ inbox' = Push(System, e)  BY <2>5
    <3>2. /\ inbox'[System] = Append(inbox[System], e)
          /\ \A o \in Registered \ {System} : inbox'[o] = inbox[o]
      BY <3>1, PushType, OpsApart
    <3>3. \A z \in Place \ {x, I(System)} : At(z)' = At(z)
      <4>1. \A z \in Place \ {x, I(System), A} : At(z)' = At(z)  BY <1>1, <1>3, <1>5, <3>2
      <4>2. QED  BY <2>3, <4>1
    <3>4. At(I(System))' = Append(At(I(System)), e)  BY <1>1, <3>2, OpsApart
    <3>5. Carries(x, Refusal, I(System), {Key(e)})
      BY <1>1, <1>2, <2>1, <2>2, <3>3, <3>4 DEF Carries
    <3>6. Key(e) \notin Tracked /\ Key(e) # <<m.id, "ACK">> /\ Key(e) # <<m.id, "RESULT">>
      <4>1. Key(e)[2] = e.op  BY DEF Key
      <4>2. e.op \notin UserOps /\ e.op # "ACK" /\ e.op # "RESULT"
        BY <3>1, OpsApart DEF Reports, SystemOps
      <4>3. QED  BY <4>1, <4>2 DEF Tracked
    <3>7. {Key(e)} \cap Tracked = {}  BY <3>6
    <3>8. QED  BY <1>4, <2>1, <3>5, <3>6, <3>7, Carried
  <2>6. QED  BY <2>1, <2>4, <2>5
<1>9. QED  BY <1>6, <1>7, <1>8 DEF Settled

\* What is in the inboxes and the log then.
LEMMA RoutedContents ==
  ASSUME FabricTypes, Batches, Fates, Contents, accepted' = accepted, NEW m \in Message, Routed(m),
         m.op \in UserOps => Key(m) \in AcceptedKeys
  PROVE  /\ \A nd \in Registered : \A i \in DOMAIN inbox'[nd] :
              inbox'[nd][i].to = nd /\ inbox'[nd][i].op \notin FrameOps \cup {"FENCE"}
         /\ \A i \in DOMAIN log' : log'[i].op \in UserOps => Key(log'[i]) \in AcceptedKeys'
<1>1. \A nd \in Registered : inbox[nd] \in Seq(Message)  BY DEF FabricTypes
<1>2. ASSUME NEW nd \in Registered, NEW e \in Message, inbox' = Push(nd, e), e.to = nd,
             e.op \notin FrameOps \cup {"FENCE"},
             NEW o \in Registered, NEW i \in DOMAIN inbox'[o]
      PROVE  inbox'[o][i].to = o /\ inbox'[o][i].op \notin FrameOps \cup {"FENCE"}
  <2>1. /\ Push(nd, e)[nd] = Append(inbox[nd], e)
        /\ \A z \in Registered \ {nd} : Push(nd, e)[z] = inbox[z]
    BY PushType
  <2>2. CASE o # nd  BY <1>2, <2>1, <2>2 DEF Contents
  <2>3. CASE o = nd
    <3>1. \/ i \in DOMAIN inbox[nd] /\ inbox'[o][i] = inbox[nd][i]
          \/ inbox'[o][i] = e
      BY <1>1, <1>2, <2>1, <2>3, Appended
    <3>2. QED  BY <1>2, <2>3, <3>1 DEF Contents
  <2>4. QED  BY <2>2, <2>3
<1>3. \/ UNCHANGED inbox
      \/ \E nd \in Registered, e \in Message :
           inbox' = Push(nd, e) /\ e.to = nd /\ e.op \notin FrameOps \cup {"FENCE"}
  <2>1. CASE Delivered(m)  BY <2>1 DEF Delivered, Same
  <2>2. "RESULT" \notin FrameOps \cup {"FENCE"} /\ Reports \cap (FrameOps \cup {"FENCE"}) = {}
    BY DEF FrameOps, Reports
  <2>3. CASE Handled(m)  BY <2>2, <2>3, OpsApart DEF Handled, Key
  <2>4. CASE Thrown(m)  BY <2>2, <2>4, OpsApart DEF Thrown
  <2>5. QED  BY <2>1, <2>3, <2>4 DEF Routed
<1>4. \A nd \in Registered : \A i \in DOMAIN inbox'[nd] :
        inbox'[nd][i].to = nd /\ inbox'[nd][i].op \notin FrameOps \cup {"FENCE"}
  BY <1>2, <1>3 DEF Contents
<1>5. AcceptedKeys' = AcceptedKeys  BY DEF AcceptedKeys
<1> DEFINE Known(e) == e.op \in UserOps => Key(e) \in AcceptedKeys
<1>6. ASSUME NEW s \in Seq(Message), \A i \in DOMAIN s : Known(s[i]), NEW e \in Message, Known(e)
      PROVE  Append(s, e) \in Seq(Message) /\ \A i \in DOMAIN Append(s, e) : Known(Append(s, e)[i])
  BY <1>6, Appended
<1>7. \A e \in Message : Companion(m, e) => Known(e)
  BY OpsApart DEF Companion, Same, Key, SystemOps
<1>8. log \in Seq(Message) /\ \A i \in DOMAIN log : Known(log[i])  BY DEF Contents, FabricTypes
<1>9. \/ log' = log \/ \E e \in Message : Known(e) /\ log' = Append(log, e)
      \/ \E e, f \in Message : Known(e) /\ Known(f) /\ log' = Append(Append(log, e), f)
  BY <1>7 DEF Routed, Delivered, Handled, Thrown, Companion
<1> HIDE DEF Known
<1>10. \A i \in DOMAIN log' : Known(log'[i])
  BY <1>6, <1>8, <1>9
<1>11. QED  BY <1>4, <1>5, <1>10 DEF Known

-----------------------------------------------------------------------------
(* Steps that move no message.                                             *)

LEMMA AtSame ==
  ASSUME UNCHANGED <<applied, submit, inbox, outbox>>, Acking' = Acking,
         \A c \in Channel, l \in LaneIds : Unrouted(c, l)' = Unrouted(c, l)
  PROVE  \A z \in Place : At(z)' = At(z)
<1> SUFFICES ASSUME NEW z \in Place PROVE At(z)' = At(z)
  OBVIOUS
<1>1. CASE \E c \in Channel, l \in LaneIds : z = <<"lane", c, l>>
  BY <1>1, AtPlaces, AtPlacesNext
<1>2. CASE ~ \E c \in Channel, l \in LaneIds : z = <<"lane", c, l>>
  BY <1>2, AtPlaces, AtPlacesNext, PlaceCases
<1>3. QED  BY <1>1, <1>2

LEMMA Still ==
  ASSUME FInv, FabricTypes', Batches', Senders',
         UNCHANGED <<accepted, refused, applied, submit, inbox, outbox, log>>, Acking' = Acking,
         \A c \in Channel, l \in LaneIds : Unrouted(c, l)' = Unrouted(c, l),
         \A m \in accepted : LetGo(Key(m)) => LetGo(Key(m))',
         \A p \in Producers : pid[p] \in LaneIds => pid'[p] = pid[p]
  PROVE  FInv'
<1> USE DEF FInv
<1>1. \A z \in Place : At(z)' = At(z)  BY AtSame
<1>2. AcceptedKeys' = AcceptedKeys  BY DEF AcceptedKeys
<1>3. \A k : Where(k)' = Where(k) /\ (Single(k) => Single(k)')
  <2>1. \A k : Where(k)' = Where(k)  BY <1>1 DEF Where
  <2>2. QED  BY <1>1, <2>1 DEF Single
<1>4. Fates'  BY <1>2, <1>3 DEF Fates
<1>5. Replies'  BY <1>3 DEF Replies
<1>6. Orders'  BY DEF Orders
<1>7. Accepted'  BY DEF Accepted
<1>8. Contents'
  <2>1. ASSUME NEW c \in Channel, NEW l \in LaneIds, NEW i \in DOMAIN Unrouted(c, l)
        PROVE  LET m == Unrouted(c, l)[i]
               IN  m.op \in UserOps /\ m.ch = c /\ m.via = "lane" /\ pid'[m.id[1]] = l
    <3> DEFINE m == Unrouted(c, l)[i]
    <3>1. m.op \in UserOps /\ m.ch = c /\ m.via = "lane" /\ pid[m.id[1]] = l  BY DEF Contents
    <3>2. m \in Message  BY UnroutedSeq
    <3>3. m.id[1] \in Producers  BY <3>2, MessageFields DEF Id
    <3>4. QED  BY <3>1, <3>3
  <2>2. \A c \in Channel, l \in LaneIds : \A i \in DOMAIN Unrouted(c, l)' :
          LET m == Unrouted(c, l)'[i]
          IN  m.op \in UserOps /\ m.ch = c /\ m.via = "lane" /\ pid'[m.id[1]] = l
    BY <2>1
  <2>3. /\ \A c \in Channel : \A i \in DOMAIN submit'[c] :
             submit'[c][i].op \in UserOps /\ submit'[c][i].via = "submit"
        /\ \A i \in DOMAIN outbox' : outbox'[i].op = "RESULT"
        /\ \A nd \in Registered : \A i \in DOMAIN inbox'[nd] :
             inbox'[nd][i].to = nd /\ inbox'[nd][i].op \notin FrameOps \cup {"FENCE"}
        /\ \A i \in DOMAIN log' : log'[i].op \in UserOps => Key(log'[i]) \in AcceptedKeys'
    BY <1>2 DEF Contents
  <2>4. QED  BY <2>2, <2>3 DEF Contents
<1>9. QED  BY <1>4, <1>5, <1>6, <1>7, <1>8

\* The waiting parts of the lanes and the acknowledgement, when step is as it was.
LEMMA StepSame ==
  ASSUME UNCHANGED <<step, lanes>>
  PROVE  Acking' = Acking /\ (\A c, l : Unrouted(c, l)' = Unrouted(c, l)) /\ Ch' = Ch
BY DEF Acking, Unrouted, Ch

-----------------------------------------------------------------------------
(* hs_send.                                                                *)

LEMMA SendWaitsKeep ==
  ASSUME FInv, NEW p \in Producers,
         pc[p] # "idle",
         \/ /\ cur' = cur /\ pc'[p] \in {"lane", "submit", "wait"}
            /\ pc' = [pc EXCEPT ![p] = pc'[p]] /\ (pc'[p] = "lane" => pid[p] # Fallback)
         \/ cur' = [cur EXCEPT ![p] = None] /\ pc' = [pc EXCEPT ![p] = "idle"],
         UNCHANGED <<sent, pid, producerCount, queueVars, step, outbox, policyVars, routeVars>>,
         UNCHANGED <<accepted, refused, applied>>
  PROVE  FInv'
<1> USE DEF FInv, queueVars, policyVars, routeVars
<1>1. Acking' = Acking /\ (\A c, l : Unrouted(c, l)' = Unrouted(c, l)) /\ Ch' = Ch  BY StepSame
<1>2. /\ pc' \in [Producers -> {"idle", "lane", "submit", "wait"}]
      /\ cur' \in [Producers -> Message \cup {None}]
  BY DEF FabricTypes
<1>3. FabricTypes'  BY <1>2 DEF FabricTypes
<1>4. Batches'  BY <1>1 DEF Batches
<1>5. \A q \in Producers : q # p => pc'[q] = pc[q] /\ cur'[q] = cur[q]
  BY DEF FabricTypes
<1>6. pc'[p] = "idle" \/ (pc'[p] \in {"lane", "submit", "wait"} /\ cur'[p] = cur[p] /\ (pc'[p] = "lane" => pid[p] # Fallback))
  BY DEF FabricTypes
<1>7. Senders'
  <2>1. pc'[p] = "lane" => pid[p] \in LaneIds  BY <1>6 DEF Senders, FabricTypes
  <2>2. \A q \in Producers :
       /\ pc'[q] # "idle" =>
            /\ cur'[q] \in Message /\ cur'[q].op \in UserOps /\ cur'[q].via = "lane"
            /\ cur'[q].id = <<q, sent[q]>> /\ pid[q] # NoId
       /\ pc'[q] = "lane" => pid[q] \in LaneIds
       /\ pid[q] \in LaneIds => pid[q] < producerCount
    BY <1>5, <1>6, <2>1 DEF Senders
  <2>3. QED  BY <2>2 DEF Senders
<1>8. \A m \in accepted : LetGo(Key(m)) => LetGo(Key(m))'
  <2> SUFFICES ASSUME NEW m \in accepted, LetGo(Key(m)) PROVE LetGo(Key(m))'
    OBVIOUS
  <2>1. m \in Message  BY DEF FabricTypes
  <2>2. Key(m)[1][1] \in Producers  BY <2>1, MessageFields DEF Id
  <2>3. QED  BY <1>5, <2>2 DEF LetGo
<1>9. QED  BY <1>1, <1>3, <1>4, <1>7, <1>8, Still

LEMMA SendCallKeeps ==
  ASSUME FInv, NEW p \in Producers, SendCall(p)
  PROVE  FInv'
<1> USE DEF FInv, queueVars, policyVars, routeVars, fateVars
<1>1. /\ pc[p] = "idle" /\ UNCHANGED <<queueVars, step, outbox, policyVars, fateVars, routeVars>>
      /\ sent' = [sent EXCEPT ![p] = sent[p] + 1]
      /\ pc' = [pc EXCEPT ![p] = IF pid'[p] = Fallback THEN "submit" ELSE "lane"]
  BY DEF SendCall
<1>2. Acking' = Acking /\ (\A c, l : Unrouted(c, l)' = Unrouted(c, l)) /\ Ch' = Ch  BY <1>1, StepSame
<1>3. PICK t \in Templates : cur' = [cur EXCEPT ![p] = Sent(p, sent[p] + 1, t)]  BY DEF SendCall
<1>4. sent[p] \in Nat /\ sent[p] + 1 \in Nat \ {0}  BY DEF FabricTypes
<1> DEFINE e == Sent(p, sent[p] + 1, t)
<1>5. e \in Message /\ e.op \in UserOps /\ e.via = "lane" /\ e.id = <<p, sent[p] + 1>>
  BY <1>4, SentMade
<1> HIDE DEF e
<1>6. /\ cur' \in [Producers -> Message \cup {None}] /\ cur'[p] = e
      /\ sent' \in [Producers -> Nat] /\ sent'[p] = sent[p] + 1
      /\ \A q \in Producers : q # p => cur'[q] = cur[q] /\ sent'[q] = sent[q] /\ pc'[q] = pc[q]
      /\ pc'[p] = IF pid'[p] = Fallback THEN "submit" ELSE "lane"
      /\ pc' \in [Producers -> {"idle", "lane", "submit", "wait"}]
  BY <1>1, <1>3, <1>4, <1>5 DEF FabricTypes, e
<1>7. /\ pid' \in [Producers -> LaneIds \cup {Fallback, NoId}] /\ producerCount' \in Nat
      /\ producerCount <= producerCount' /\ pid'[p] # NoId
      /\ \A q \in Producers : q # p => pid'[q] = pid[q]
      /\ pid[p] # NoId => pid'[p] = pid[p]
      /\ pid[p] = NoId /\ pid'[p] \in LaneIds => pid'[p] = producerCount /\ pid'[p] < producerCount'
  <2>1. Fallback \in Nat /\ Fallback # NoId /\ NoId \notin LaneIds /\ Fallback \notin LaneIds
    BY ProducerAssumption DEF Fallback, NoId, LaneIds
  <2>2. producerCount < MaxProducers => producerCount \in LaneIds /\ producerCount # NoId
    BY ProducerAssumption DEF FabricTypes, LaneIds, NoId
  <2>3. CASE pid[p] = NoId
    <3>1. /\ pid' = [pid EXCEPT ![p] = IF producerCount < MaxProducers THEN producerCount ELSE Fallback]
          /\ producerCount' = producerCount + 1
      BY <2>3 DEF SendCall
    <3>2. QED  BY <2>1, <2>2, <2>3, <3>1 DEF FabricTypes
  <2>4. CASE pid[p] # NoId
    <3>1. pid' = pid /\ producerCount' = producerCount  BY <2>4 DEF SendCall
    <3>2. QED  BY <2>4, <3>1 DEF FabricTypes
  <2>5. QED  BY <2>3, <2>4
<1>8. FabricTypes'  BY <1>1, <1>6, <1>7 DEF FabricTypes
<1>9. Batches'  BY <1>1, <1>2 DEF Batches
<1>10. Senders'
  <2>1. ASSUME NEW q \in Producers
        PROVE  /\ pc'[q] # "idle" =>
                    /\ cur'[q] \in Message /\ cur'[q].op \in UserOps /\ cur'[q].via = "lane"
                    /\ cur'[q].id = <<q, sent'[q]>> /\ pid'[q] # NoId
               /\ pc'[q] = "lane" => pid'[q] \in LaneIds
               /\ pid'[q] \in LaneIds => pid'[q] < producerCount'
    <3>1. CASE q = p
      <4>1. pid'[p] \in LaneIds \cup {Fallback, NoId}  BY <1>7
      <4>2. pid'[p] \in LaneIds => pid'[p] < producerCount'
        <5>1. CASE pid[p] = NoId  BY <1>7, <5>1
        <5>2. CASE pid[p] # NoId
          <6>1. pid[p] \in LaneIds => pid[p] < producerCount  BY DEF Senders
          <6>2. pid[p] \in LaneIds => pid[p] \in Nat  BY DEF LaneIds
          <6>3. producerCount \in Nat  BY DEF FabricTypes
          <6>4. QED  BY <1>7, <5>2, <6>1, <6>2, <6>3
        <5>3. QED  BY <5>1, <5>2
      <4>3. QED  BY <1>5, <1>6, <1>7, <3>1, <4>1, <4>2
    <3>2. CASE q # p
      <4>1. pid[q] \in LaneIds => pid[q] \in Nat /\ pid[q] < producerCount  BY DEF LaneIds, Senders
      <4>2. producerCount \in Nat  BY DEF FabricTypes
      <4>3. pid[q] \in LaneIds => pid[q] < producerCount'  BY <1>7, <4>1, <4>2
      <4>4. QED  BY <1>6, <1>7, <3>2, <4>3 DEF Senders
    <3>3. QED  BY <3>1, <3>2
  <2>2. \A q, r \in Producers : pid'[q] = pid'[r] /\ pid'[q] \in LaneIds => q = r
    <3>1. ASSUME NEW r \in Producers, r # p, pid'[p] = pid'[r], pid'[p] \in LaneIds PROVE FALSE
      <4>1. pid'[r] = pid[r]  BY <1>7, <3>1
      <4>2. pid[r] < producerCount /\ pid[r] \in LaneIds  BY <3>1, <4>1 DEF Senders
      <4>3. CASE pid[p] = NoId
        <5>1. pid'[p] = producerCount  BY <1>7, <3>1, <4>3
        <5>2. QED  BY <3>1, <4>1, <4>2, <5>1 DEF FabricTypes
      <4>4. CASE pid[p] # NoId  BY <1>7, <3>1, <4>1, <4>2, <4>4 DEF Senders
      <4>5. QED  BY <4>3, <4>4
    <3>2. QED  BY <1>7, <3>1 DEF Senders
  <2>3. QED  BY <2>1, <2>2 DEF Senders
<1>11. \A m \in accepted : LetGo(Key(m)) => LetGo(Key(m))'
  <2> SUFFICES ASSUME NEW m \in accepted, LetGo(Key(m)) PROVE LetGo(Key(m))'
    OBVIOUS
  <2>1. m \in Message  BY DEF FabricTypes
  <2>2. Key(m)[1][1] \in Producers /\ Key(m)[1][2] \in Nat  BY <2>1, MessageFields DEF Id
  <2>3. QED  BY <1>4, <1>6, <2>2 DEF LetGo
<1>12. \A q \in Producers : pid[q] \in LaneIds => pid'[q] = pid[q]
  <2>1. NoId \notin LaneIds  BY ProducerAssumption DEF NoId, LaneIds
  <2>2. QED  BY <1>7, <2>1
<1>13. QED  BY <1>1, <1>2, <1>8, <1>9, <1>10, <1>11, <1>12, Still

LEMMA RestOfLonger ==
  ASSUME NEW q \in Seq(Message), NEW m \in Message, NEW a \in 1 .. Len(q) + 1
  PROVE  SubSeq(Append(q, m), a, Len(Append(q, m))) = Append(SubSeq(q, a, Len(q)), m)
<1> DEFINE L == Len(q)
           t == Append(q, m)
           u == SubSeq(q, a, L)
           v == SubSeq(t, a, L + 1)
<1>1. /\ t \in Seq(Message) /\ Len(t) = L + 1 /\ L \in Nat /\ DOMAIN q = 1 .. L /\ DOMAIN t = 1 .. L + 1
      /\ \A i \in 1 .. L : t[i] = q[i]
      /\ t[L + 1] = m
  BY Appended
<1>2. /\ \A i \in a .. L : q[i] \in Message
      /\ \A i \in a .. L + 1 : t[i] \in Message
  <2>1. (\A i \in a .. L : i \in 1 .. L) /\ (\A i \in a .. L + 1 : i \in 1 .. L + 1)  BY <1>1
  <2>2. (\A i \in 1 .. L : q[i] \in Message) /\ (\A i \in 1 .. L + 1 : t[i] \in Message)  BY <1>1
  <2>3. QED  BY <2>1, <2>2
<1> HIDE DEF t, L
<1>3. /\ u \in Seq(Message) /\ Len(u) = L - a + 1
      /\ \A i \in 1 .. L - a + 1 : u[i] = q[a + i - 1]
  <2>1. a \in Int /\ L \in Int /\ (~ a <= L => L - a + 1 = 0)  BY <1>1 DEF L
  <2>2. QED  BY <1>2, <2>1, SubSeqProperties
<1>4. /\ v \in Seq(Message) /\ Len(v) = L + 1 - a + 1
      /\ \A i \in 1 .. L + 1 - a + 1 : v[i] = t[a + i - 1]
  <2>1. a \in Int /\ L + 1 \in Int /\ a <= L + 1  BY <1>1 DEF L
  <2> DEFINE n == L + 1
  <2>2. n \in Int /\ a <= n /\ \A i \in a .. n : t[i] \in Message  BY <1>2, <2>1
  <2> HIDE DEF n
  <2>3. /\ SubSeq(t, a, n) \in Seq(Message) /\ Len(SubSeq(t, a, n)) = n - a + 1
        /\ \A i \in 1 .. n - a + 1 : SubSeq(t, a, n)[i] = t[a + i - 1]
    BY <2>1, <2>2, SubSeqProperties
  <2>4. QED  BY <2>1, <2>3 DEF n, L
<1> HIDE DEF u, v
<1> DEFINE w == Append(u, m)
<1>5. /\ w \in Seq(Message) /\ Len(w) = L - a + 2
      /\ \A i \in 1 .. L - a + 1 : w[i] = u[i]
      /\ w[L - a + 2] = m
  <2>1. Len(u) + 1 = L - a + 2 /\ DOMAIN u = 1 .. L - a + 1  BY <1>1, <1>3 DEF L
  <2>2. QED  BY <1>3, <2>1, Appended
<1> HIDE DEF w
<1>6. Len(v) = Len(w)  BY <1>1, <1>4, <1>5 DEF L
<1>7. ASSUME NEW i \in 1 .. Len(v) PROVE v[i] = w[i]
  <2>1. v[i] = t[a + i - 1]  BY <1>4
  <2>2. CASE i \in 1 .. L - a + 1
    <3>1. a + i - 1 \in 1 .. L  BY <1>1, <2>2 DEF L
    <3>2. QED  BY <1>1, <1>3, <1>5, <2>1, <2>2, <3>1
  <2>3. CASE i \notin 1 .. L - a + 1
    <3>0. L \in Nat /\ a \in 1 .. L + 1  BY <1>1 DEF L
    <3>1. i = L - a + 2 /\ a + i - 1 = L + 1
      <4>1. i \in 1 .. L - a + 2  BY <1>4, <3>0
      <4>2. QED  BY <2>3, <3>0, <4>1
    <3>2. QED  BY <1>1, <1>5, <2>1, <3>1
  <2>4. QED  BY <2>2, <2>3
<1>8. v = w  BY <1>4, <1>5, <1>6, <1>7, SeqEqual
<1>9. QED  BY <1>1, <1>8 DEF L, t, u, v, w

\* The message m of a call that is not over comes to y, where it was not before.
Arrives(p, m, y) ==
  /\ pc[p] # "idle" /\ m \in Message /\ m.op \in UserOps /\ m.id = <<p, sent[p]>>
  /\ accepted' = accepted \cup {m} /\ UNCHANGED <<refused, applied>>
  /\ y \in Place /\ At(y)' = Append(At(y), m) /\ \A z \in Place \ {y} : At(z)' = At(z)

LEMMA NotYetAccepted ==
  ASSUME FabricTypes, Accepted, NEW p \in Producers, NEW m, NEW y, Arrives(p, m, y)
  PROVE  Key(m) \notin AcceptedKeys /\ \A a \in accepted : a.id # m.id
<1>1. ASSUME NEW a \in accepted, a.id = m.id PROVE FALSE
  <2>1. LetGo(Key(a)) /\ sent[p] \in Nat  BY DEF Accepted, FabricTypes
  <2>2. Key(a)[1][1] = p /\ Key(a)[1][2] = sent[p]  BY <1>1 DEF Arrives, Key
  <2>3. QED  BY <2>1, <2>2 DEF LetGo, Arrives
<1>2. ASSUME Key(m) \in AcceptedKeys PROVE FALSE
  <2>1. PICK a \in accepted : Key(a) = Key(m)  BY <1>2 DEF AcceptedKeys
  <2>2. a.id = m.id  BY <2>1 DEF Key
  <2>3. QED  BY <1>1, <2>2
<1>3. QED  BY <1>1, <1>2

LEMMA Arrived ==
  ASSUME FabricTypes, Batches, Accepted, Fates, Replies, NEW p \in Producers, NEW m, NEW y, Arrives(p, m, y)
  PROVE  Fates' /\ Replies'
<1> USE DEF Arrives
<1>1. Key(m) \in Tracked /\ Key(m)[2] = m.op  BY MessageFields DEF Tracked
<1>2. Where(Key(m)) = {}  BY <1>1, NotYetAccepted DEF Fates
<1>3. Where(Key(m))' = {y} /\ Single(Key(m))'
  <2>1. \A z \in Place \ {y} : Stays(z, Key(m))  BY StaysCases
  <2>2. Single(Key(m))  BY <1>1 DEF Fates
  <2>3. QED  BY <1>2, <2>1, <2>2, Appears
<1>4. ASSUME NEW k \in Tracked, k # Key(m) PROVE Where(k)' = Where(k) /\ Single(k)'
  <2>1. \A z \in Place : Stays(z, k)  BY <1>4, StaysCases
  <2>2. Single(k)  BY DEF Fates
  <2>3. QED  BY <2>1, <2>2, Unmoved
<1>5. AcceptedKeys' = AcceptedKeys \cup {Key(m)}  BY DEF AcceptedKeys
<1>6. Fates'  BY <1>3, <1>4, <1>5 DEF Fates
<1>7. \A id : <<id, "ACK">> # Key(m) /\ <<id, "RESULT">> # Key(m)
  BY <1>1, OpsApart DEF SystemOps
<1>8. Replies'
  <2>1. \A id \in Id : <<id, "ACK">> \in Tracked /\ <<id, "RESULT">> \in Tracked  BY DEF Tracked
  <2>2. \A id \in Id : Where(<<id, "ACK">>)' = Where(<<id, "ACK">>)
    BY <1>4, <1>7, <2>1
  <2>3. \A id \in Id : Where(<<id, "RESULT">>)' = Where(<<id, "RESULT">>)
    BY <1>4, <1>7, <2>1
  <2>4. applied' = applied  OBVIOUS
  <2>5. QED  BY <2>2, <2>3, <2>4, ZenonT(30) DEF Replies
<1>9. QED  BY <1>6, <1>8

\* The latest message of a producer, when its call puts it into a queue.
LEMMA LatestIsLast ==
  ASSUME FabricTypes, Batches, Accepted, Fates, Contents, NEW p \in Producers, NEW m, NEW y, Arrives(p, m, y)
  PROVE  Front(m) /\ \A c \in Channel, l \in LaneIds : \A i \in DOMAIN Unrouted(c, l) : SentBefore(Unrouted(c, l)[i], m)
<1>1. ASSUME NEW e \in Message, e.op \in UserOps => Key(e) \in AcceptedKeys PROVE SentBefore(e, m)
  <2>1. SUFFICES ASSUME ByLane(e), e.id[1] = m.id[1] PROVE e.id[2] < m.id[2]
    BY DEF SentBefore, SameStream
  <2>2. PICK a \in accepted : Key(a) = Key(e)  BY <1>1, <2>1 DEF AcceptedKeys, ByLane
  <2>3. LetGo(Key(e))  BY <2>2 DEF Accepted
  <2>4. m.id[1] = p /\ m.id[2] = sent[p] /\ pc[p] # "idle"  BY DEF Arrives
  <2>5. Key(e)[1] = e.id  BY DEF Key
  <2>6. QED  BY <2>1, <2>3, <2>4, <2>5 DEF LetGo
<1>2. \A x \in Place : \A i \in DOMAIN At(x) : SentBefore(At(x)[i], m)
  <2> SUFFICES ASSUME NEW x \in Place, NEW i \in DOMAIN At(x) PROVE SentBefore(At(x)[i], m)
    OBVIOUS
  <2>1. At(x)[i] \in Message  BY AtSeq
  <2>2. At(x)[i].op \in UserOps => Key(At(x)[i]) \in AcceptedKeys  BY Present
  <2>3. QED  BY <1>1, <2>1, <2>2
<1>3. \A i \in DOMAIN log : SentBefore(log[i], m)
  <2>1. \A i \in DOMAIN log : log[i] \in Message  BY DEF FabricTypes
  <2>2. QED  BY <1>1, <2>1 DEF Contents
<1>4. \A i \in DOMAIN applied : SentBefore(applied[i], m)  BY <1>2, PlaceNames, AtPlaces
<1>5. \A nd \in Registered : \A i \in DOMAIN inbox[nd] : SentBefore(inbox[nd][i], m)
  <2> SUFFICES ASSUME NEW nd \in Registered PROVE \A i \in DOMAIN inbox[nd] : SentBefore(inbox[nd][i], m)
    OBVIOUS
  <2>1. <<"inbox", nd>> \in Place /\ At(<<"inbox", nd>>) = inbox[nd]  BY PlaceNames, AtPlaces
  <2>2. QED  BY <1>2, <2>1
<1>6. ASSUME NEW c \in Channel, NEW l \in LaneIds
      PROVE  \A i \in DOMAIN Unrouted(c, l) : SentBefore(Unrouted(c, l)[i], m)
  <2>1. <<"lane", c, l>> \in Place /\ At(<<"lane", c, l>>) = Unrouted(c, l)  BY PlaceNames, AtPlaces
  <2>2. QED  BY <1>2, <2>1
<1>7. QED  BY <1>3, <1>4, <1>5, <1>6 DEF Front

\* hs_send returns with the message in a queue.
Queued(p, m) ==
  /\ pc[p] # "idle" /\ m \in Message /\ m.op \in UserOps /\ m.id = <<p, sent[p]>>
  /\ accepted' = accepted \cup {m} /\ Returns(p)
  /\ UNCHANGED <<step, outbox, policyVars, refused, applied, routeVars>>

LEMMA QueuedKeeps ==
  ASSUME FInv, NEW p \in Producers, NEW m, Queued(p, m), lanes' \in [Channel -> [LaneIds -> Seq(Message)]],
         submit' \in [Channel -> Seq(Message)],
         \A c \in Channel, l \in LaneIds : Len(lanes[c][l]) <= Len(lanes'[c][l])
  PROVE  FabricTypes' /\ Batches' /\ Senders' /\ ((\E y : Arrives(p, m, y)) => Accepted')
<1> USE DEF FInv, policyVars, routeVars
<1>1. /\ pc' = [pc EXCEPT ![p] = "idle"] /\ cur' = [cur EXCEPT ![p] = None]
      /\ UNCHANGED <<sent, pid, producerCount>>
  BY DEF Queued, Returns
<1>2. /\ pc' \in [Producers -> {"idle", "lane", "submit", "wait"}] /\ pc'[p] = "idle"
      /\ cur' \in [Producers -> Message \cup {None}]
      /\ \A q \in Producers : q # p => pc'[q] = pc[q] /\ cur'[q] = cur[q]
  BY <1>1 DEF FabricTypes
<1>3. FabricTypes'  BY <1>1, <1>2 DEF FabricTypes, Queued
<1>4. Batches'
  <2>1. step' = step /\ Ch' = Ch  BY DEF Queued, Ch
  <2>2. CASE step.at = "route"
    <3>1. Ch \in Channel /\ step.lane \in LaneIds
      <4>1. step \in StepType  BY DEF FabricTypes
      <4>2. step.lane \in Nat /\ step.lanes \in 0 .. MaxProducers /\ step.lane < step.lanes
        BY <2>2, <4>1 DEF StepType, Batches
      <4>3. QED  BY <4>2, DrainedChannel, ProducerAssumption DEF LaneIds
    <3>2. Len(lanes[Ch][step.lane]) <= Len(lanes'[Ch][step.lane])  BY <3>1
    <3>3. lanes[Ch][step.lane] \in Seq(Message) /\ lanes'[Ch][step.lane] \in Seq(Message)
      BY <3>1 DEF FabricTypes
    <3>4. step.n \in Nat  BY DEF FabricTypes, StepType
    <3>5. step.n <= Len(lanes'[Ch][step.lane])  BY <2>2, <3>2, <3>3, <3>4 DEF Batches
    <3>6. QED  BY <2>1, <2>2, <3>5 DEF Batches
  <2>3. CASE step.at # "route"  BY <2>1, <2>3 DEF Batches
  <2>4. QED  BY <2>2, <2>3
<1>5. Senders'
  <2>1. \A q \in Producers :
       /\ pc'[q] # "idle" =>
            /\ cur'[q] \in Message /\ cur'[q].op \in UserOps /\ cur'[q].via = "lane"
            /\ cur'[q].id = <<q, sent[q]>> /\ pid[q] # NoId
       /\ pc'[q] = "lane" => pid[q] \in LaneIds
       /\ pid[q] \in LaneIds => pid[q] < producerCount
    BY <1>2 DEF Senders
  <2>2. QED  BY <1>1, <2>1 DEF Senders
<1>6. ASSUME NEW y, Arrives(p, m, y) PROVE Accepted'
  <2>1. \A a \in accepted : a.id # m.id  BY <1>6, NotYetAccepted
  <2>2. \A a1, a2 \in accepted' : a1.id = a2.id => a1 = a2  BY <2>1 DEF Accepted, Queued
  <2>3. LetGo(Key(m))'
    <3>1. Key(m)[1][1] = p /\ Key(m)[1][2] = sent[p] /\ sent[p] \in Nat  BY DEF Queued, Key, FabricTypes
    <3>2. QED  BY <1>1, <1>2, <3>1 DEF LetGo
  <2>4. ASSUME NEW a \in accepted PROVE LetGo(Key(a))'
    <3>1. a \in Message /\ LetGo(Key(a))  BY DEF FabricTypes, Accepted
    <3>2. Key(a)[1][1] \in Producers  BY <3>1, MessageFields DEF Id
    <3>3. QED  BY <1>1, <1>2, <3>1, <3>2 DEF LetGo
  <2>5. \A a \in accepted' : a.op \in UserOps /\ LetGo(Key(a))'
    BY <2>3, <2>4 DEF Accepted, Queued
  <2>6. QED  BY <2>2, <2>5 DEF Accepted
<1>7. QED  BY <1>3, <1>4, <1>5, <1>6

\* A queue that grows, if any, is the submit queue of c or a lane.
LEMMA SpscPushKeeps ==
  ASSUME FInv, NEW p \in Producers, SpscPush(p)
  PROVE  FInv'
<1> USE DEF FInv
<1>0. /\ cur[p] \in Message /\ cur[p].op \in UserOps /\ cur[p].via = "lane" /\ cur[p].id = <<p, sent[p]>>
      /\ pid[p] \in LaneIds /\ pc[p] # "idle" /\ cur[p].ch \in Channel
  BY MessageFields DEF SpscPush, Senders
<1>1. PICK m \in Message, c \in Channel, l \in LaneIds :
        m = cur[p] /\ c = m.ch /\ l = pid[p] /\ m.op \in UserOps /\ m.via = "lane" /\ m.id = <<p, sent[p]>>
  BY <1>0
<1> DEFINE y == <<"lane", c, l>>
<1>2. pc[p] # "idle" /\ m.id[1] = p  BY <1>0, <1>1
<1>3. /\ lanes' = [lanes EXCEPT ![c][l] = Append(lanes[c][l], m)] /\ accepted' = accepted \cup {m}
      /\ Returns(p) /\ UNCHANGED <<submit, step, outbox, policyVars, refused, applied, routeVars>>
  BY <1>1 DEF SpscPush
<1>4. lanes \in [Channel -> [LaneIds -> Seq(Message)]] /\ lanes[c][l] \in Seq(Message)
  BY <1>1, <1>2 DEF FabricTypes
<1>5. /\ lanes' \in [Channel -> [LaneIds -> Seq(Message)]] /\ lanes'[c][l] = Append(lanes[c][l], m)
      /\ \A d \in Channel, k \in LaneIds : d # c \/ k # l => lanes'[d][k] = lanes[d][k]
  <2>1. Append(lanes[c][l], m) \in Seq(Message)  BY <1>1, <1>4
  <2>2. QED  BY <1>1, <1>2, <1>3, <1>4, <2>1
<1>6. Queued(p, m)  BY <1>1, <1>2, <1>3 DEF Queued
<1>7. \A d \in Channel, k \in LaneIds : Len(lanes[d][k]) <= Len(lanes'[d][k])
  <2> SUFFICES ASSUME NEW d \in Channel, NEW k \in LaneIds PROVE Len(lanes[d][k]) <= Len(lanes'[d][k])
    OBVIOUS
  <2>1. lanes[d][k] \in Seq(Message)  BY <1>4
  <2>2. CASE d = c /\ k = l
    <3>1. lanes'[d][k] = Append(lanes[d][k], m)  BY <1>5, <2>2
    <3>2. Len(Append(lanes[d][k], m)) = Len(lanes[d][k]) + 1 /\ Len(lanes[d][k]) \in Nat  BY <1>1, <2>1
    <3>3. QED  BY <3>1, <3>2
  <2>3. CASE ~ (d = c /\ k = l)
    <3>1. lanes'[d][k] = lanes[d][k] /\ Len(lanes[d][k]) \in Nat  BY <1>5, <2>1, <2>3
    <3>2. QED  BY <3>1
  <2>4. QED  BY <2>2, <2>3
<1>8. submit' \in [Channel -> Seq(Message)]  BY <1>3 DEF FabricTypes
<1>9. FabricTypes' /\ Batches' /\ Senders' /\ ((\E x : Arrives(p, m, x)) => Accepted')
  BY <1>5, <1>6, <1>7, <1>8, QueuedKeeps
<1>10. \A d \in Channel, k \in LaneIds : d # c \/ k # l => Unrouted(d, k)' = Unrouted(d, k)
  BY <1>3, <1>5 DEF Unrouted, Ch
<1>11. Unrouted(c, l)' = Append(Unrouted(c, l), m)
  <2>1. CASE step.at = "route" /\ c = Ch /\ l = step.lane
    <3>1. step \in StepType  BY DEF FabricTypes
    <3>2. step.i + 1 \in 1 .. Len(lanes[c][l]) + 1
      <4>1. step.i \in Nat /\ step.n \in Nat /\ Len(lanes[c][l]) \in Nat  BY <1>4, <3>1 DEF StepType
      <4>2. step.i <= step.n /\ step.n <= Len(lanes[c][l])  BY <2>1 DEF Batches
      <4>3. QED  BY <4>1, <4>2
    <3>3. SubSeq(lanes'[c][l], step.i + 1, Len(lanes'[c][l]))
            = Append(SubSeq(lanes[c][l], step.i + 1, Len(lanes[c][l])), m)
      <4> DEFINE q == lanes[c][l]
      <4>1. q \in Seq(Message) /\ step.i + 1 \in 1 .. Len(q) + 1  BY <1>4, <3>2
      <4>2. lanes'[c][l] = Append(q, m)  BY <1>5
      <4> HIDE DEF q
      <4>3. SubSeq(Append(q, m), step.i + 1, Len(Append(q, m))) = Append(SubSeq(q, step.i + 1, Len(q)), m)
        BY <4>1, RestOfLonger
      <4>4. QED  BY <4>2, <4>3 DEF q
    <3>4. QED  BY <1>3, <2>1, <3>3 DEF Unrouted, Ch
  <2>2. CASE ~ (step.at = "route" /\ c = Ch /\ l = step.lane)
    BY <1>3, <1>5, <2>2 DEF Unrouted, Ch
  <2>3. QED  BY <2>1, <2>2
<1>12. Arrives(p, m, y)
  <2>1. y \in Place /\ At(y) = Unrouted(c, l) /\ At(y)' = Unrouted(c, l)'
    BY <1>1, <1>2, PlaceNames, AtPlaces, AtPlacesNext
  <2>2. Acking' = Acking  BY <1>3 DEF Acking
  <2>3. ASSUME NEW z \in Place \ {y} PROVE At(z)' = At(z)
    <3>1. CASE \E d \in Channel, k \in LaneIds : z = <<"lane", d, k>>
      <4>1. PICK d \in Channel, k \in LaneIds : z = <<"lane", d, k>>  BY <3>1
      <4>2. d # c \/ k # l  BY <2>3, <4>1
      <4>3. QED  BY <1>10, <4>1, <4>2, AtPlaces, AtPlacesNext
    <3>2. CASE ~ \E d \in Channel, k \in LaneIds : z = <<"lane", d, k>>
      BY <1>3, <2>2, <3>2, AtPlaces, AtPlacesNext, PlaceCases DEF routeVars
    <3>3. QED  BY <3>1, <3>2
  <2>4. QED  BY <1>1, <1>2, <1>3, <1>11, <2>1, <2>3 DEF Arrives
<1>13. Fates' /\ Replies'  BY <1>12, Arrived
<1>14. Accepted'  BY <1>9, <1>12
<1>15. Front(m) /\ \A d \in Channel, k \in LaneIds : \A i \in DOMAIN Unrouted(d, k) : SentBefore(Unrouted(d, k)[i], m)
  BY <1>12, LatestIsLast
<1>16. Unrouted(c, l) \in Seq(Message) /\ applied \in Seq(Message) /\ log \in Seq(Message)
       /\ \A nd \in Registered : inbox[nd] \in Seq(Message)
  BY <1>1, <1>2, UnroutedSeq DEF FabricTypes
<1>17. Contents'
  <2>1. AcceptedKeys \subseteq AcceptedKeys'  BY <1>3 DEF AcceptedKeys
  <2>2. UNCHANGED <<inbox, submit, outbox, log, pid>>  BY <1>3 DEF routeVars, Returns
  <2>3. ASSUME NEW d \in Channel, NEW k \in LaneIds, NEW i \in DOMAIN Unrouted(d, k)'
        PROVE  LET e == Unrouted(d, k)'[i]
               IN  e.op \in UserOps /\ e.ch = d /\ e.via = "lane" /\ pid'[e.id[1]] = k
    <3>1. CASE d = c /\ k = l
      <4>0. Unrouted(d, k)' = Append(Unrouted(c, l), m)  BY <1>11, <3>1
      <4>1. \/ i \in DOMAIN Unrouted(c, l) /\ Unrouted(d, k)'[i] = Unrouted(c, l)[i]
            \/ Unrouted(d, k)'[i] = m
        BY <1>1, <1>16, <2>3, <4>0, AppendedIs
      <4>2. CASE Unrouted(d, k)'[i] = m
        BY <1>1, <1>2, <2>2, <3>1, <4>2
      <4>3. CASE i \in DOMAIN Unrouted(c, l) /\ Unrouted(d, k)'[i] = Unrouted(c, l)[i]
        BY <1>1, <1>2, <2>2, <3>1, <4>3 DEF Contents
      <4>4. QED  BY <4>1, <4>2, <4>3
    <3>2. CASE ~ (d = c /\ k = l)  BY <1>10, <2>2, <2>3, <3>2 DEF Contents
    <3>3. QED  BY <3>1, <3>2
  <2>4. /\ \A d \in Channel : \A i \in DOMAIN submit'[d] :
             submit'[d][i].op \in UserOps /\ submit'[d][i].via = "submit"
        /\ \A i \in DOMAIN outbox' : outbox'[i].op = "RESULT"
        /\ \A nd \in Registered : \A i \in DOMAIN inbox'[nd] :
             inbox'[nd][i].to = nd /\ inbox'[nd][i].op \notin FrameOps \cup {"FENCE"}
        /\ \A i \in DOMAIN log' : log'[i].op \in UserOps => Key(log'[i]) \in AcceptedKeys'
    BY <2>1, <2>2 DEF Contents
  <2>5. QED  BY <2>3, <2>4 DEF Contents
<1>18. Orders'
  <2>1. UNCHANGED <<inbox, log, applied>>  BY <1>3 DEF routeVars
  <2>2. InOrder(Unrouted(c, l)')  BY <1>1, <1>2, <1>11, <1>15, <1>16, OrderAppended DEF Orders
  <2>3. /\ Before(applied, Unrouted(c, l)') /\ Before(log, Unrouted(c, l)')
        /\ \A nd \in Registered : Before(inbox[nd], Unrouted(c, l)')
    <3>1. /\ Before(applied, Unrouted(c, l)) /\ Before(log, Unrouted(c, l))
          /\ \A nd \in Registered : Before(inbox[nd], Unrouted(c, l))
      BY <1>1, <1>2 DEF Orders
    <3>2. \A s \in Seq(Message) : Before(s, Unrouted(c, l)) /\ (\A i \in DOMAIN s : SentBefore(s[i], m))
            => Before(s, Unrouted(c, l)')
      BY <1>1, <1>11, <1>16, BeforeAppended
    <3>3. QED  BY <1>15, <1>16, <3>1, <3>2 DEF Front
  <2>4. ASSUME NEW d \in Channel, NEW k \in LaneIds
        PROVE  /\ InOrder(Unrouted(d, k)') /\ Before(applied, Unrouted(d, k)')
               /\ Before(log, Unrouted(d, k)')
               /\ \A nd \in Registered : Before(inbox[nd], Unrouted(d, k)')
    <3>1. CASE d = c /\ k = l  BY <2>2, <2>3, <3>1
    <3>2. CASE ~ (d = c /\ k = l)
      <4>1. Unrouted(d, k)' = Unrouted(d, k)  BY <1>10, <3>2
      <4>2. QED  BY <4>1 DEF Orders
    <3>3. QED  BY <3>1, <3>2
  <2>5. /\ InOrder(applied) /\ InOrder(log)
        /\ \A nd \in Registered : InOrder(inbox[nd]) /\ Before(applied, inbox[nd])
    BY DEF Orders
  <2>6. QED  BY <2>1, <2>4, <2>5 DEF Orders
<1>19. QED  BY <1>9, <1>13, <1>14, <1>17, <1>18

LEMMA SubmitEnqueueKeeps ==
  ASSUME FInv, NEW p \in Producers, SubmitEnqueue(p)
  PROVE  FInv'
<1> USE DEF FInv
<1>1. cur[p] \in Message /\ cur[p].op \in UserOps /\ cur[p].id = <<p, sent[p]>> /\ pc[p] # "idle"
  BY DEF SubmitEnqueue, Senders
<1>2. PICK m \in Message, c \in Channel :
        /\ m = [cur[p] EXCEPT !.via = "submit"] /\ c = m.ch
        /\ m.op \in UserOps /\ m.via = "submit" /\ m.id = <<p, sent[p]>>
  BY <1>1, BySubmit, MessageFields
<1> DEFINE y == <<"submit", c>>
<1>3. c \in Channel  BY <1>2
<1>4. /\ submit' = [submit EXCEPT ![c] = Append(submit[c], m)] /\ accepted' = accepted \cup {m}
      /\ Returns(p) /\ UNCHANGED <<lanes, step, outbox, policyVars, refused, applied, routeVars>>
  BY <1>2 DEF SubmitEnqueue
<1>5. submit \in [Channel -> Seq(Message)] /\ submit[c] \in Seq(Message)  BY <1>3 DEF FabricTypes
<1>6. /\ submit' \in [Channel -> Seq(Message)] /\ submit'[c] = Append(submit[c], m)
      /\ \A d \in Channel : d # c => submit'[d] = submit[d]
  <2>1. Append(submit[c], m) \in Seq(Message)  BY <1>2, <1>5
  <2>2. QED  BY <1>3, <1>4, <1>5, <2>1
<1>7. Queued(p, m)  BY <1>1, <1>2, <1>4 DEF Queued
<1>8. FabricTypes' /\ Batches' /\ Senders' /\ ((\E x : Arrives(p, m, x)) => Accepted')
  <2>1. lanes' \in [Channel -> [LaneIds -> Seq(Message)]]
        /\ \A d \in Channel, k \in LaneIds : lanes'[d][k] \in Seq(Message) /\ lanes'[d][k] = lanes[d][k]
    BY <1>4 DEF FabricTypes
  <2>2. \A d \in Channel, k \in LaneIds : Len(lanes[d][k]) <= Len(lanes'[d][k])  BY <2>1
  <2>3. QED  BY <1>6, <1>7, <2>1, <2>2, QueuedKeeps
<1>9. Acking' = Acking /\ (\A d, k : Unrouted(d, k)' = Unrouted(d, k))  BY <1>4, StepSame
<1>10. Arrives(p, m, y)
  <2>1. y \in Place /\ At(y) = submit[c] /\ At(y)' = submit'[c]
    BY <1>3, PlaceNames, AtPlaces, AtPlacesNext
  <2>2. ASSUME NEW z \in Place \ {y} PROVE At(z)' = At(z)
    <3>1. CASE \E d \in Channel : z = <<"submit", d>>
      <4>1. PICK d \in Channel : z = <<"submit", d>>  BY <3>1
      <4>2. d # c  BY <2>2, <4>1
      <4>3. QED  BY <1>6, <4>1, <4>2, AtPlaces, AtPlacesNext
    <3>2. CASE ~ \E d \in Channel : z = <<"submit", d>>
      BY <1>4, <1>9, <3>2, AtPlaces, AtPlacesNext, PlaceCases DEF routeVars
    <3>3. QED  BY <3>1, <3>2
  <2>3. QED  BY <1>1, <1>2, <1>4, <1>6, <2>1, <2>2 DEF Arrives
<1>11. Fates' /\ Replies'  BY <1>10, Arrived
<1>12. Accepted'  BY <1>8, <1>10
<1>13. Contents'
  <2>1. AcceptedKeys \subseteq AcceptedKeys'  BY <1>4 DEF AcceptedKeys
  <2>2. UNCHANGED <<inbox, outbox, log, pid>>  BY <1>4 DEF routeVars, Returns
  <2>3. ASSUME NEW d \in Channel, NEW i \in DOMAIN submit'[d]
        PROVE  submit'[d][i].op \in UserOps /\ submit'[d][i].via = "submit"
    <3>1. CASE d = c
      <4>0. submit'[d] = Append(submit[c], m)  BY <1>6, <3>1
      <4>1. \/ i \in DOMAIN submit[c] /\ submit'[d][i] = submit[c][i]
            \/ submit'[d][i] = m
        BY <1>2, <1>5, <2>3, <4>0, AppendedIs
      <4>2. m.op \in UserOps /\ m.via = "submit"  BY <1>2
      <4>3. \A j \in DOMAIN submit[c] : submit[c][j].op \in UserOps /\ submit[c][j].via = "submit"
        BY <1>3 DEF Contents
      <4>4. QED  BY <4>1, <4>2, <4>3
    <3>2. CASE d # c  BY <1>6, <2>3, <3>2 DEF Contents
    <3>3. QED  BY <3>1, <3>2
  <2>4. /\ \A d \in Channel, k \in LaneIds : \A i \in DOMAIN Unrouted(d, k)' :
             LET e == Unrouted(d, k)'[i]
             IN  e.op \in UserOps /\ e.ch = d /\ e.via = "lane" /\ pid'[e.id[1]] = k
        /\ \A i \in DOMAIN outbox' : outbox'[i].op = "RESULT"
        /\ \A nd \in Registered : \A i \in DOMAIN inbox'[nd] :
             inbox'[nd][i].to = nd /\ inbox'[nd][i].op \notin FrameOps \cup {"FENCE"}
        /\ \A i \in DOMAIN log' : log'[i].op \in UserOps => Key(log'[i]) \in AcceptedKeys'
    BY <1>9, <2>1, <2>2 DEF Contents
  <2>5. QED  BY <2>3, <2>4 DEF Contents
<1>14. Orders'
  <2>1. UNCHANGED <<inbox, log, applied>>  BY <1>4 DEF routeVars
  <2>2. QED  BY <1>9, <2>1 DEF Orders
<1>15. QED  BY <1>8, <1>11, <1>12, <1>13, <1>14

-----------------------------------------------------------------------------
(* hs_step: the steps that only count.                                     *)

LEMMA StepFields ==
  ASSUME NEW s \in StepType
  PROVE  /\ s.at \in StepAt /\ s.ch \in 1 .. 3 /\ s.lane \in Nat /\ s.lanes \in 0 .. MaxProducers
         /\ s.used \in Nat /\ s.n \in Nat /\ s.i \in Nat /\ s.node \in DOMAIN Nodes
         /\ s.ack \in Message \cup {None}
         /\ s = [at |-> s.at, ch |-> s.ch, lane |-> s.lane, lanes |-> s.lanes, used |-> s.used, n |-> s.n,
                 i |-> s.i, node |-> s.node, ack |-> s.ack]
BY DEF StepType

LEMMA IdleType == Idle \in StepType
<1>1. 1 \in DOMAIN Nodes
  <2>1. Nodes \in Seq({Nodes[k] : k \in DOMAIN Nodes})  BY NodesAssumption
  <2>2. \E k : k \in DOMAIN Nodes  BY SystemRegistered
  <2>3. DOMAIN Nodes = 1 .. Len(Nodes) /\ Len(Nodes) \in Nat  BY <2>1
  <2>4. QED  BY <2>2, <2>3
<1>2. MaxProducers \in Nat  BY ProducerAssumption
<1>3. QED  BY <1>1, <1>2 DEF Idle, StepType, StepAt

\* Between batches.
LEMMA CountingKeeps ==
  ASSUME FInv, step' \in StepType, {step.at, step'.at} \cap {"route", "ack"} = {},
         UNCHANGED <<sendVars, queueVars, outbox, policyVars, fateVars, inbox, payload, log, dropped>>
  PROVE  FInv'
<1> USE DEF FInv, sendVars, queueVars, policyVars, fateVars
<1>1. FabricTypes'  BY DEF FabricTypes
<1>2. Batches'  BY DEF Batches
<1>3. Senders'  BY DEF Senders
<1>4. Acking' = Acking  BY DEF Acking
<1>5. \A c \in Channel, l \in LaneIds : Unrouted(c, l)' = Unrouted(c, l)  BY DEF Unrouted
<1>6. \A m \in accepted : LetGo(Key(m)) => LetGo(Key(m))'  BY DEF LetGo
<1>7. QED  BY <1>1, <1>2, <1>3, <1>4, <1>5, <1>6, Still

\* A batch begins or ends.
LEMMA BatchKeeps ==
  ASSUME FInv, step' \in StepType, {step.at, step'.at} = {"lane", "route"},
         Batches', lanes' \in [Channel -> [LaneIds -> Seq(Message)]],
         \A c \in Channel, l \in LaneIds : Unrouted(c, l)' = Unrouted(c, l),
         UNCHANGED <<sendVars, submit, outbox, policyVars, fateVars, routeVars>>
  PROVE  FInv'
<1> USE DEF FInv, sendVars, policyVars, fateVars, routeVars
<1>1. FabricTypes'  BY DEF FabricTypes
<1>2. Senders'  BY DEF Senders
<1>3. Acking' = Acking  BY DEF Acking
<1>4. \A m \in accepted : LetGo(Key(m)) => LetGo(Key(m))'  BY DEF LetGo
<1>5. QED  BY <1>1, <1>2, <1>3, <1>4, Still

LEMMA MovesStepOn ==
  ASSUME FInv, \/ StepBegin \/ LaneNext \/ LanesDone \/ ChannelDone \/ NodeDone \/ StepEnd
               \/ \E mask \in Masks : SetRecordMask(mask)
  PROVE  FInv'
<1> USE DEF routeVars
<1>1. step \in StepType  BY DEF FInv, FabricTypes
<1>2. \A a \in StepAt, ch \in 1 .. 3, lane \in Nat, k \in 0 .. MaxProducers, u \in Nat, n \in Nat,
        i \in Nat, node \in DOMAIN Nodes, ack \in Message \cup {None} :
          [at |-> a, ch |-> ch, lane |-> lane, lanes |-> k, used |-> u, n |-> n, i |-> i, node |-> node,
           ack |-> ack] \in StepType
  BY DEF StepType
<1>3. CASE StepBegin
  <2>1. StepLanes \in 0 .. MaxProducers
    BY ProducerAssumption DEF StepLanes, Min2, FInv, FabricTypes
  <2>2. step' = [at |-> "lane", ch |-> 1, lane |-> 0, lanes |-> StepLanes, used |-> 0, n |-> 0, i |-> 0,
                 node |-> 1, ack |-> None]
    BY <1>3 DEF StepBegin, Idle
  <2>3. 1 \in DOMAIN Nodes /\ 0 \in Nat /\ 1 \in 1 .. 3 /\ "lane" \in StepAt
    BY IdleType DEF Idle, StepType, StepAt
  <2>4. step' \in StepType  BY <1>2, <2>1, <2>2, <2>3
  <2>5. step.at = "idle" /\ step'.at = "lane"  BY <1>3, <2>2 DEF StepBegin
  <2>6. QED  BY <1>3, <2>4, <2>5, CountingKeeps DEF StepBegin
<1>4. CASE LaneNext
  <2>1. step' = [step EXCEPT !.lane = step.lane + 1]  BY <1>4 DEF LaneNext, LaneAfter
  <2>2. step' \in StepType /\ step'.at = step.at /\ step.at = "lane"
    BY <1>1, <1>4, <2>1 DEF StepType, LaneNext
  <2>3. QED  BY <1>4, <2>2, CountingKeeps DEF LaneNext
<1>5. CASE LanesDone
  <2>1. step' = [step EXCEPT !.at = "submit"]  BY <1>5 DEF LanesDone
  <2>2. step' \in StepType /\ step'.at = "submit" /\ step.at = "lane"
    BY <1>1, <1>5, <2>1 DEF StepType, StepAt, LanesDone
  <2>3. QED  BY <1>5, <2>2, CountingKeeps DEF LanesDone
<1>6. CASE ChannelDone
  <2>1. step.at = "submit"  BY <1>6 DEF ChannelDone
  <2>2. step' \in StepType /\ step'.at \in {"lane", "nodes"}
    <3>1. CASE step.ch < 3
      <4>1. step' = [at |-> "lane", ch |-> step.ch + 1, lane |-> 0, lanes |-> step.lanes, used |-> 0,
                     n |-> step.n, i |-> step.i, node |-> step.node, ack |-> step.ack]
        BY <1>1, <1>6, <3>1 DEF ChannelDone, StepType
      <4>2. step.ch + 1 \in 1 .. 3 /\ 0 \in Nat /\ "lane" \in StepAt  BY <1>1, <3>1, StepFields DEF StepAt
      <4>3. QED  BY <1>1, <1>2, <4>1, <4>2, StepFields
    <3>2. CASE ~ step.ch < 3
      <4>1. step' = [step EXCEPT !.at = "nodes", !.node = 1]  BY <1>6, <3>2 DEF ChannelDone
      <4>2. step' = [at |-> "nodes", ch |-> step.ch, lane |-> step.lane, lanes |-> step.lanes,
                     used |-> step.used, n |-> step.n, i |-> step.i, node |-> 1, ack |-> step.ack]
        BY <1>1, <4>1 DEF StepType
      <4>3. 1 \in DOMAIN Nodes /\ "nodes" \in StepAt  BY IdleType DEF Idle, StepType, StepAt
      <4>4. QED  BY <1>1, <1>2, <4>2, <4>3, StepFields
    <3>3. QED  BY <3>1, <3>2
  <2>3. QED  BY <1>6, <2>1, <2>2, CountingKeeps DEF ChannelDone
<1>7. CASE NodeDone
  <2>1. step.at = "nodes"  BY <1>7 DEF NodeDone
  <2>2. step' \in StepType /\ step'.at \in {"nodes", "outbox"}
    <3>1. CASE step.node < Len(Nodes)
      <4>1. step' = [step EXCEPT !.node = step.node + 1]  BY <1>7, <3>1 DEF NodeDone
      <4>2. step.node + 1 \in DOMAIN Nodes
        <5>1. Nodes \in Seq({Nodes[k] : k \in DOMAIN Nodes})  BY NodesAssumption
        <5>2. DOMAIN Nodes = 1 .. Len(Nodes) /\ Len(Nodes) \in Nat  BY <5>1
        <5>3. step.node \in DOMAIN Nodes  BY <1>1, StepFields
        <5>4. QED  BY <3>1, <5>2, <5>3
      <4>3. QED  BY <1>1, <2>1, <4>1, <4>2 DEF StepType
    <3>2. CASE ~ step.node < Len(Nodes)
      <4>1. step' = [step EXCEPT !.at = "outbox"]  BY <1>7, <3>2 DEF NodeDone
      <4>2. QED  BY <1>1, <4>1 DEF StepType, StepAt
    <3>3. QED  BY <3>1, <3>2
  <2>3. QED  BY <1>7, <2>1, <2>2, CountingKeeps DEF NodeDone
<1>8. CASE StepEnd
  <2>1. step' = Idle /\ step.at = "outbox"  BY <1>8 DEF StepEnd
  <2>2. step' \in StepType /\ step'.at = "idle"  BY <2>1, IdleType DEF Idle
  <2>3. QED  BY <1>8, <2>1, <2>2, CountingKeeps DEF StepEnd
<1>9. CASE \E mask \in Masks : SetRecordMask(mask)
  <2>1. PICK mask \in Masks : SetRecordMask(mask)  BY <1>9
  <2>2. step' = step /\ step.at = "idle"  BY <2>1 DEF SetRecordMask
  <2>3. QED  BY <1>1, <2>1, <2>2, CountingKeeps DEF SetRecordMask
<1>10. QED  BY <1>3, <1>4, <1>5, <1>6, <1>7, <1>8, <1>9

LEMMA LaneTakeKeeps ==
  ASSUME FInv, LaneTake
  PROVE  FInv'
<1>1. step \in StepType /\ FabricTypes  BY DEF FInv, FabricTypes
<1> DEFINE q == lanes[Ch][step.lane]
           n == Min2(Min2(Len(q), Batch), Left)
<1>2. /\ step.at = "lane" /\ step.lane < step.lanes /\ Left > 0 /\ q # <<>>
      /\ step' = [step EXCEPT !.at = "route", !.i = 0, !.n = n]
      /\ UNCHANGED <<sendVars, queueVars, outbox, policyVars, fateVars, routeVars>>
  BY DEF LaneTake
<1>3. Ch \in Channel /\ step.lane \in LaneIds
  BY <1>1, <1>2, StepFields, DrainedChannel, ProducerAssumption DEF LaneIds
<1>4. q \in Seq(Message) /\ Len(q) \in Nat  BY <1>1, <1>3 DEF FabricTypes
<1>5. n \in Nat /\ n <= Len(q)
  <2>1. budget[Ch] \in Nat /\ step.used \in Nat  BY <1>1, <1>3, StepFields DEF FabricTypes
  <2>2. Left \in Int /\ Left > 0  BY <1>2, <2>1 DEF Left
  <2>3. QED  BY <1>4, <2>2, LaneAssumption DEF Min2
<1> HIDE DEF n
<1>6. step' = [at |-> "route", ch |-> step.ch, lane |-> step.lane, lanes |-> step.lanes, used |-> step.used,
               n |-> n, i |-> 0, node |-> step.node, ack |-> step.ack]
  BY <1>1, <1>2 DEF StepType
<1>7. step' \in StepType  BY <1>1, <1>5, <1>6, StepFields DEF StepType, StepAt
<1>8. Ch' = Ch /\ lanes' = lanes  BY <1>2, <1>6 DEF Ch, queueVars
<1>9. Batches'  BY <1>2, <1>4, <1>5, <1>6, <1>8 DEF Batches
<1>10. ASSUME NEW c \in Channel, NEW l \in LaneIds PROVE Unrouted(c, l)' = Unrouted(c, l)
  <2>1. Unrouted(c, l) = lanes[c][l]  BY <1>2 DEF Unrouted
  <2>2. lanes[c][l] \in Seq(Message)  BY <1>1 DEF FabricTypes
  <2>3. SubSeq(lanes[c][l], 1, Len(lanes[c][l])) = lanes[c][l]  BY <2>2, SubSeqFull
  <2>4. step'.i + 1 = 1  BY <1>6
  <2>5. QED  BY <1>8, <2>1, <2>3, <2>4 DEF Unrouted
<1>11. lanes' \in [Channel -> [LaneIds -> Seq(Message)]]  BY <1>1, <1>8 DEF FabricTypes
<1>12. {step.at, step'.at} = {"lane", "route"}  BY <1>2, <1>6
<1>13. QED  BY <1>2, <1>7, <1>9, <1>10, <1>11, <1>12, BatchKeeps DEF queueVars

LEMMA LaneReleaseKeeps ==
  ASSUME FInv, LaneRelease
  PROVE  FInv'
<1>1. step \in StepType /\ FabricTypes /\ Batches  BY DEF FInv, FabricTypes
<1>2. /\ step.at = "route" /\ step.i = step.n
      /\ lanes' = [lanes EXCEPT ![Ch][step.lane] = LaneRest(lanes[Ch][step.lane])]
      /\ step' = [step EXCEPT !.at = "lane", !.used = step.used + step.n, !.n = 0, !.i = 0]
      /\ UNCHANGED <<sendVars, submit, outbox, policyVars, fateVars, routeVars>>
  BY DEF LaneRelease
<1>3. Ch \in Channel /\ step.lane \in LaneIds
  <2>1. step.lane < step.lanes  BY <1>1, <1>2 DEF Batches
  <2>2. QED  BY <1>1, <2>1, StepFields, DrainedChannel, ProducerAssumption DEF LaneIds
<1>4. LaneRest(lanes[Ch][step.lane]) = Unrouted(Ch, step.lane)  BY <1>2 DEF LaneRest, Unrouted
<1>5. Unrouted(Ch, step.lane) \in Seq(Message)  BY <1>1, <1>3, UnroutedSeq
<1>6. lanes \in [Channel -> [LaneIds -> Seq(Message)]]  BY <1>1 DEF FabricTypes
<1>7. /\ lanes' \in [Channel -> [LaneIds -> Seq(Message)]] /\ lanes'[Ch][step.lane] = Unrouted(Ch, step.lane)
      /\ \A c \in Channel, l \in LaneIds : c # Ch \/ l # step.lane => lanes'[c][l] = lanes[c][l]
  BY <1>2, <1>3, <1>4, <1>5, <1>6
<1>8. step' = [at |-> "lane", ch |-> step.ch, lane |-> step.lane, lanes |-> step.lanes,
               used |-> step.used + step.n, n |-> 0, i |-> 0, node |-> step.node, ack |-> step.ack]
  BY <1>1, <1>2 DEF StepType
<1>9. step' \in StepType
  <2>1. step.used + step.n \in Nat /\ 0 \in Nat /\ "lane" \in StepAt  BY <1>1, StepFields DEF StepAt
  <2>2. QED  BY <1>1, <1>8, <2>1, StepFields DEF StepType
<1>10. step'.at = "lane"  BY <1>8
<1>11. Batches'  BY <1>10 DEF Batches
<1>12. ASSUME NEW c \in Channel, NEW l \in LaneIds PROVE Unrouted(c, l)' = Unrouted(c, l)
  <2>1. Unrouted(c, l)' = lanes'[c][l]  BY <1>10 DEF Unrouted
  <2>2. CASE c = Ch /\ l = step.lane  BY <1>7, <2>1, <2>2
  <2>3. CASE ~ (c = Ch /\ l = step.lane)  BY <1>2, <1>7, <2>1, <2>3 DEF Unrouted
  <2>4. QED  BY <2>2, <2>3
<1>13. {step.at, step'.at} = {"lane", "route"}  BY <1>2, <1>10
<1>14. QED  BY <1>2, <1>7, <1>9, <1>11, <1>12, <1>13, BatchKeeps

-----------------------------------------------------------------------------
(* hs_step: the steps that route a message.                                *)

Shrinks(s, t) == t = s \/ (s # <<>> /\ t = Tail(s))

LEMMA ShrunkElements ==
  ASSUME NEW s \in Seq(Message), NEW t, Shrinks(s, t)
  PROVE  t \in Seq(Message) /\ \A i \in DOMAIN t : \E j \in DOMAIN s : t[i] = s[j]
<1>1. CASE t = s  BY <1>1
<1>2. CASE s # <<>> /\ t = Tail(s)  BY <1>2, Tailed
<1>3. QED  BY <1>1, <1>2 DEF Shrinks

LEMMA RouteKeeps ==
  ASSUME FInv, NEW x \in Place, x # <<"applied">>, \A nd : x # <<"inbox", nd>>,
         At(x) # <<>>, At(x)' = Tail(At(x)), NEW m, m = Head(At(x)), Settled(m), RingType(payload'),
         \A z \in Place \ {x} : z = <<"applied">> \/ (\E nd : z = <<"inbox", nd>>) \/ At(z)' = At(z),
         UNCHANGED <<sendVars, policyVars, accepted>>,
         step' \in StepType, Batches', lanes' = lanes, submit' \in [Channel -> Seq(Message)],
         \A c \in Channel : Shrinks(submit[c], submit'[c]), Shrinks(outbox, outbox'),
         \A c \in Channel, l \in LaneIds : Shrinks(Unrouted(c, l), Unrouted(c, l)'),
         ByLane(m) => Front(m) /\ Later(m)
  PROVE  FInv'
<1> USE DEF FInv, sendVars, policyVars
<1>1. m \in Message /\ Has(At(x), Key(m))  BY AtSeq, Tailed, HasTailed
<1>2. Routed(m)  BY DEF Routed, Settled
<1>3. FabricTypes'
  <2>1. /\ inbox' \in [Registered -> Seq(Message)] /\ applied' \in Seq(Message) /\ log' \in Seq(Message)
        /\ refused' \subseteq Id \X Op /\ dropped' \in DropTypes
    BY <1>1, <1>2, RoutedTypes
  <2>2. outbox' \in Seq(Message)  BY ShrunkElements DEF FabricTypes
  <2>3. QED  BY <2>1, <2>2 DEF FabricTypes, DropTypes, RingType
<1>4. Senders'  BY DEF Senders
<1>5. Accepted'  BY DEF Accepted, LetGo
<1>6. Fates' /\ Replies'  BY RoutedFates
<1>7. m.op \in UserOps => Key(m) \in AcceptedKeys
  <2>1. m = At(x)[1] /\ 1 \in DOMAIN At(x)  BY AtSeq, Tailed
  <2>2. QED  BY <2>1, Present
<1>8. LanesShrink  BY DEF LanesShrink, Shrinks
<1>9. Orders'  BY <1>1, <1>2, <1>8, OrdersRouted
<1>10. Contents'
  <2>1. /\ \A nd \in Registered : \A i \in DOMAIN inbox'[nd] :
              inbox'[nd][i].to = nd /\ inbox'[nd][i].op \notin FrameOps \cup {"FENCE"}
        /\ \A i \in DOMAIN log' : log'[i].op \in UserOps => Key(log'[i]) \in AcceptedKeys'
    BY <1>1, <1>2, <1>7, RoutedContents
  <2>2. ASSUME NEW c \in Channel, NEW l \in LaneIds, NEW i \in DOMAIN Unrouted(c, l)'
        PROVE  LET e == Unrouted(c, l)'[i]
               IN  e.op \in UserOps /\ e.ch = c /\ e.via = "lane" /\ pid'[e.id[1]] = l
    <3>1. PICK j \in DOMAIN Unrouted(c, l) : Unrouted(c, l)'[i] = Unrouted(c, l)[j]
      BY UnroutedSeq, ShrunkElements
    <3>2. QED  BY <3>1 DEF Contents
  <2>3. ASSUME NEW c \in Channel, NEW i \in DOMAIN submit'[c]
        PROVE  submit'[c][i].op \in UserOps /\ submit'[c][i].via = "submit"
    <3>1. submit[c] \in Seq(Message)  BY DEF FabricTypes
    <3>2. PICK j \in DOMAIN submit[c] : submit'[c][i] = submit[c][j]  BY <3>1, ShrunkElements
    <3>3. QED  BY <3>2 DEF Contents
  <2>4. ASSUME NEW i \in DOMAIN outbox' PROVE outbox'[i].op = "RESULT"
    <3>1. outbox \in Seq(Message)  BY DEF FabricTypes
    <3>2. PICK j \in DOMAIN outbox : outbox'[i] = outbox[j]  BY <3>1, ShrunkElements
    <3>3. QED  BY <3>2 DEF Contents
  <2>5. QED  BY <2>1, <2>2, <2>3, <2>4 DEF Contents
<1>11. QED  BY <1>3, <1>4, <1>5, <1>6, <1>9, <1>10

LEMMA LaneRouteKeeps ==
  ASSUME FInv, LaneRoute
  PROVE  FInv'
<1> USE DEF FInv
<1>1. /\ step.at = "route" /\ step.i < step.n /\ Route(BatchItem)
      /\ step' = [step EXCEPT !.i = step.i + 1]
      /\ UNCHANGED <<sendVars, queueVars, outbox, policyVars, accepted, discarded>>
  BY DEF LaneRoute
<1>2. step \in StepType  BY DEF FabricTypes
<1>3. PICK c \in Channel, l \in LaneIds : c = Ch /\ l = step.lane  BY <1>1, BatchWaits
<1>4. PICK m \in Message : m = Head(Unrouted(c, l)) /\ m = BatchItem
  BY <1>1, <1>3, BatchWaits, UnroutedSeq, Tailed
<1>5. Unrouted(c, l) \in Seq(Message) /\ Unrouted(c, l) # <<>>  BY <1>1, <1>3, BatchWaits, UnroutedSeq
<1> DEFINE x == <<"lane", c, l>>
<1>6. /\ step' \in StepType /\ step'.at = "route" /\ step'.lane = step.lane /\ step'.ch = step.ch
      /\ step'.i = step.i + 1 /\ step'.n = step.n /\ step'.lanes = step.lanes /\ step.i \in Nat /\ step.n \in Nat
  BY <1>1, <1>2 DEF StepType
<1>7. Ch' = Ch /\ lanes' = lanes /\ submit' = submit /\ outbox' = outbox  BY <1>1, <1>6 DEF Ch, queueVars
<1>8. Unrouted(c, l)' = Tail(Unrouted(c, l))
  <2>1. Unrouted(c, l)' = SubSeq(lanes[c][l], (step.i + 1) + 1, Len(lanes[c][l]))
    BY <1>3, <1>6, <1>7 DEF Unrouted
  <2>2. SubSeq(lanes[c][l], step.i + 2, Len(lanes[c][l])) = Tail(Unrouted(c, l))  BY <1>1, <1>3, BatchWaits
  <2>3. (step.i + 1) + 1 = step.i + 2  BY <1>6
  <2>4. QED  BY <2>1, <2>2, <2>3
<1>9. \A d \in Channel, k \in LaneIds : d # c \/ k # l => Unrouted(d, k)' = Unrouted(d, k)
  BY <1>3, <1>6, <1>7 DEF Unrouted
<1>10. Acking' = Acking  BY <1>1, <1>6 DEF Acking
<1>11. /\ x \in Place /\ x # <<"applied">> /\ (\A nd : x # <<"inbox", nd>>)
       /\ At(x) = Unrouted(c, l) /\ At(x)' = Unrouted(c, l)'
  BY PlaceNames, AtPlaces, AtPlacesNext
<1>12. ASSUME NEW z \in Place \ {x}
       PROVE  z = <<"applied">> \/ (\E nd : z = <<"inbox", nd>>) \/ At(z)' = At(z)
  <2>1. CASE \E d \in Channel, k \in LaneIds : z = <<"lane", d, k>>
    <3>1. PICK d \in Channel, k \in LaneIds : z = <<"lane", d, k>>  BY <2>1
    <3>2. d # c \/ k # l  BY <1>12, <3>1
    <3>3. QED  BY <1>9, <3>1, <3>2, AtPlaces, AtPlacesNext
  <2>2. CASE ~ \E d \in Channel, k \in LaneIds : z = <<"lane", d, k>>
    BY <1>7, <1>10, <2>2, AtPlaces, AtPlacesNext, PlaceCases
  <2>3. QED  BY <2>1, <2>2
<1>13. Front(m)
  <2>1. /\ applied \in Seq(Message) /\ log \in Seq(Message)
        /\ \A nd \in Registered : inbox[nd] \in Seq(Message)
    BY DEF FabricTypes
  <2>2. \A s \in Seq(Message) : Before(s, Unrouted(c, l)) => \A i \in DOMAIN s : SentBefore(s[i], m)
    BY <1>4, <1>5, BeforeTailed
  <2>3. QED  BY <2>1, <2>2 DEF Front, Orders
<1>14. Later(m)
  <2>1. m.ch = c /\ pid[m.id[1]] = l
    <3>1. m = Unrouted(c, l)[1] /\ 1 \in DOMAIN Unrouted(c, l)  BY <1>4, <1>5, Tailed
    <3>2. QED  BY <3>1 DEF Contents
  <2>2. \A i \in DOMAIN Unrouted(c, l)' : SentBefore(m, Unrouted(c, l)'[i])
    BY <1>4, <1>5, <1>8, OrderTailed DEF Orders
  <2>3. ASSUME NEW d \in Channel, NEW k \in LaneIds, d # c \/ k # l, NEW i \in DOMAIN Unrouted(d, k)
        PROVE  SentBefore(m, Unrouted(d, k)[i])
    <3>1. Unrouted(d, k)[i].ch = d /\ pid[Unrouted(d, k)[i].id[1]] = k  BY DEF Contents
    <3>2. QED  BY <2>1, <2>3, <3>1 DEF SentBefore, SameStream
  <2>4. ASSUME NEW d \in Channel, NEW k \in LaneIds
        PROVE  \A i \in DOMAIN Unrouted(d, k)' : SentBefore(m, Unrouted(d, k)'[i])
    <3>1. CASE d = c /\ k = l  BY <2>2, <3>1
    <3>2. CASE ~ (d = c /\ k = l)  BY <1>9, <2>3, <3>2
    <3>3. QED  BY <3>1, <3>2
  <2>5. QED  BY <2>4 DEF Later
<1>15. Batches'
  <2>1. step'.lane < step'.lanes /\ step'.i <= step'.n  BY <1>1, <1>6 DEF Batches
  <2>2. step'.n <= Len(lanes'[Ch'][step'.lane])  BY <1>1, <1>6, <1>7 DEF Batches
  <2>3. QED  BY <1>6, <2>1, <2>2 DEF Batches
<1>16. \A d \in Channel, k \in LaneIds : Shrinks(Unrouted(d, k), Unrouted(d, k)')
  <2> SUFFICES ASSUME NEW d \in Channel, NEW k \in LaneIds PROVE Shrinks(Unrouted(d, k), Unrouted(d, k)')
    OBVIOUS
  <2>1. CASE d = c /\ k = l  BY <1>5, <1>8, <2>1 DEF Shrinks
  <2>2. CASE ~ (d = c /\ k = l)  BY <1>9, <2>2 DEF Shrinks
  <2>3. QED  BY <2>1, <2>2
<1>17. Route(m)  BY <1>1, <1>4
<1>18. Settled(m) /\ RingType(payload')  BY <1>17, RouteCases
<1>19. submit' \in [Channel -> Seq(Message)] /\ (\A d \in Channel : Shrinks(submit[d], submit'[d]))
       /\ Shrinks(outbox, outbox')
  BY <1>7 DEF FabricTypes, Shrinks
<1> HIDE DEF x
<1>20. QED
  BY <1>1, <1>4, <1>5, <1>6, <1>7, <1>8, <1>11, <1>12, <1>13, <1>14, <1>15, <1>16, <1>18, <1>19, RouteKeeps

\* From elsewhere than a lane the lanes stay as they are.
LEMMA UnlanedKeeps ==
  ASSUME FInv, NEW x \in Place, x # <<"applied">>, \A nd : x # <<"inbox", nd>>,
         At(x) # <<>>, At(x)' = Tail(At(x)), NEW m, m = Head(At(x)), Settled(m), RingType(payload'),
         \A z \in Place \ {x} : z = <<"applied">> \/ (\E nd : z = <<"inbox", nd>>) \/ At(z)' = At(z),
         UNCHANGED <<sendVars, policyVars, accepted>>, lanes' = lanes,
         step' \in StepType, {step.at, step'.at} \cap {"route"} = {}, step'.at # "ack",
         submit' \in [Channel -> Seq(Message)],
         \A c \in Channel : Shrinks(submit[c], submit'[c]), Shrinks(outbox, outbox'), ~ ByLane(m)
  PROVE  FInv'
<1>1. \A c \in Channel, l \in LaneIds : Shrinks(Unrouted(c, l), Unrouted(c, l)')
  BY DEF Unrouted, Shrinks
<1>2. Batches'  BY DEF Batches
<1>3. QED  BY <1>1, <1>2, RouteKeeps

LEMMA SubmitRouteKeeps ==
  ASSUME FInv, SubmitRoute
  PROVE  FInv'
<1> USE DEF FInv
<1>1. /\ step.at = "submit" /\ submit[Ch] # <<>> /\ submit' = [submit EXCEPT ![Ch] = Tail(submit[Ch])]
      /\ Route(Head(submit[Ch])) /\ step' = [step EXCEPT !.used = step.used + 1]
      /\ UNCHANGED <<sendVars, lanes, outbox, policyVars, accepted, discarded>>
  BY DEF SubmitRoute, SubmitLeft
<1>2. step \in StepType /\ submit \in [Channel -> Seq(Message)]  BY DEF FabricTypes
<1>3. PICK c \in Channel : c = Ch  BY DrainedChannel
<1>4. submit[c] \in Seq(Message) /\ submit[c] # <<>>  BY <1>1, <1>2, <1>3
<1>5. PICK m \in Message : m = Head(submit[c])  BY <1>4, Tailed
<1> DEFINE x == <<"submit", c>>
<1>6. step' \in StepType /\ step'.at = "submit"
  <2>1. step' = [step EXCEPT !.used = step.used + 1] /\ step.at = "submit"  BY <1>1
  <2>2. step \in StepType /\ step.used + 1 \in Nat  BY <1>2, StepFields
  <2>3. QED  BY <2>1, <2>2 DEF StepType
<1>7. /\ submit' \in [Channel -> Seq(Message)] /\ submit'[c] = Tail(submit[c])
      /\ \A d \in Channel : d # c => submit'[d] = submit[d]
  <2>1. Tail(submit[c]) \in Seq(Message)  BY <1>4, Tailed
  <2>2. QED  BY <1>1, <1>2, <1>3, <2>1
<1>8. /\ x \in Place /\ x # <<"applied">> /\ (\A nd : x # <<"inbox", nd>>)
      /\ At(x) = submit[c] /\ At(x)' = submit'[c]
  BY PlaceNames, AtPlaces, AtPlacesNext
<1>9. Acking' = Acking /\ \A d \in Channel, k \in LaneIds : Unrouted(d, k)' = Unrouted(d, k)
  BY <1>1, <1>6 DEF Acking, Unrouted
<1>10. ASSUME NEW z \in Place \ {x}
       PROVE  z = <<"applied">> \/ (\E nd : z = <<"inbox", nd>>) \/ At(z)' = At(z)
  <2>1. CASE \E d \in Channel : z = <<"submit", d>>
    <3>1. PICK d \in Channel : z = <<"submit", d>>  BY <2>1
    <3>2. d # c  BY <1>10, <3>1
    <3>3. QED  BY <1>7, <3>1, <3>2, AtPlaces, AtPlacesNext
  <2>2. CASE \E d \in Channel, k \in LaneIds : z = <<"lane", d, k>>
    <3>1. PICK d \in Channel, k \in LaneIds : z = <<"lane", d, k>>  BY <2>2
    <3>2. QED  BY <1>9, <3>1, AtPlaces, AtPlacesNext
  <2>3. CASE z = <<"outbox">> \/ z = <<"ack">>  BY <1>1, <1>9, <2>3, AtPlaces, AtPlacesNext
  <2>4. QED  BY <2>1, <2>2, <2>3, PlaceCases
<1>11. ~ ByLane(m)
  <2>1. m = submit[c][1] /\ 1 \in DOMAIN submit[c]  BY <1>4, <1>5, Tailed
  <2>2. m.via = "submit"  BY <2>1 DEF Contents
  <2>3. QED  BY <2>2 DEF ByLane
<1>12. Route(m)  BY <1>1, <1>3, <1>5
<1>13. Settled(m) /\ RingType(payload')  BY <1>12, RouteCases
<1>14. (\A d \in Channel : Shrinks(submit[d], submit'[d])) /\ Shrinks(outbox, outbox')
  BY <1>1, <1>4, <1>7 DEF Shrinks
<1>15. {step.at, step'.at} \cap {"route"} = {} /\ step'.at # "ack"  BY <1>1, <1>6
<1> HIDE DEF x
<1>16. QED
  BY <1>1, <1>4, <1>5, <1>6, <1>7, <1>8, <1>10, <1>11, <1>13, <1>14, <1>15, UnlanedKeeps

LEMMA OutboxRouteKeeps ==
  ASSUME FInv, OutboxRoute
  PROVE  FInv'
<1> USE DEF FInv
<1>1. /\ step.at = "outbox" /\ outbox # <<>> /\ outbox' = Tail(outbox) /\ Route(Head(outbox))
      /\ UNCHANGED <<sendVars, queueVars, step, policyVars, accepted, discarded>>
  BY DEF OutboxRoute
<1>2. step' \in StepType /\ submit' \in [Channel -> Seq(Message)] /\ outbox \in Seq(Message)
      /\ lanes' = lanes /\ submit' = submit
  BY <1>1 DEF FabricTypes, queueVars
<1>3. PICK m \in Message : m = Head(outbox)  BY <1>1, <1>2, Tailed
<1> DEFINE x == <<"outbox">>
<1>4. /\ x \in Place /\ x # <<"applied">> /\ (\A nd : x # <<"inbox", nd>>)
      /\ At(x) = outbox /\ At(x)' = outbox'
  BY PlaceNames, AtPlaces, AtPlacesNext
<1>5. Acking' = Acking /\ \A d \in Channel, k \in LaneIds : Unrouted(d, k)' = Unrouted(d, k)
  BY <1>1, <1>2 DEF Acking, Unrouted
<1>6. ASSUME NEW z \in Place \ {x}
      PROVE  z = <<"applied">> \/ (\E nd : z = <<"inbox", nd>>) \/ At(z)' = At(z)
  <2>1. CASE \E d \in Channel, k \in LaneIds : z = <<"lane", d, k>>
    <3>1. PICK d \in Channel, k \in LaneIds : z = <<"lane", d, k>>  BY <2>1
    <3>2. QED  BY <1>5, <3>1, AtPlaces, AtPlacesNext
  <2>2. CASE ~ \E d \in Channel, k \in LaneIds : z = <<"lane", d, k>>
    BY <1>2, <1>5, <1>6, <2>2, AtPlaces, AtPlacesNext, PlaceCases
  <2>3. QED  BY <2>1, <2>2
<1>7. ~ ByLane(m)
  <2>1. m = outbox[1] /\ 1 \in DOMAIN outbox  BY <1>1, <1>2, <1>3, Tailed
  <2>2. m.op = "RESULT"  BY <2>1 DEF Contents
  <2>3. QED  BY <2>2, OpsApart DEF ByLane, SystemOps
<1>8. Route(m)  BY <1>1, <1>3
<1>9. Settled(m) /\ RingType(payload')  BY <1>8, RouteCases
<1>10. (\A d \in Channel : Shrinks(submit[d], submit'[d])) /\ Shrinks(outbox, outbox')
  BY <1>1, <1>2 DEF Shrinks
<1>11. {step.at, step'.at} \cap {"route"} = {} /\ step'.at # "ack"  BY <1>1
<1> HIDE DEF x
<1>12. QED  BY <1>1, <1>2, <1>3, <1>4, <1>6, <1>7, <1>9, <1>10, <1>11, UnlanedKeeps

\* An acknowledgement goes the way of every message, without a queue.
LEMMA AckGoes ==
  ASSUME FInv, AckRouted \/ AckDropped
  PROVE  FInv'
<1> USE DEF FInv
<1>1. /\ step.at = "ack" /\ step' = [step EXCEPT !.at = "nodes", !.ack = None]
      /\ UNCHANGED <<sendVars, queueVars, outbox, policyVars, accepted, discarded>>
  BY DEF AckRouted, AckDropped, fateVars
<1>2. PICK m \in Message : m = step.ack /\ m.op = "ACK"  BY <1>1 DEF Batches
<1>3. Settled(m) /\ RingType(payload')
  <2>1. RingType(payload)  BY DEF FabricTypes, RingType
  <2>2. m.op \notin FrameOps \cup {"FENCE"}  BY <1>2 DEF FrameOps
  <2>3. CASE AckRouted
    <3>1. RouteAccepts(m) /\ applied' = applied /\ UNCHANGED refused
      BY <1>2, <2>3 DEF AckRouted, fateVars
    <3>2. Apply(m)  BY <2>2, <3>1 DEF Apply
    <3>3. QED  BY <2>1, <3>1, <3>2, AcceptCases DEF Settled
  <2>4. CASE AckDropped
    <3>1. RouteRefuses(m) /\ refused' = refused \cup {Key(m)} /\ UNCHANGED applied
      BY <1>2, <2>4 DEF AckDropped
    <3>2. QED  BY <2>1, <3>1, RefuseCases DEF Settled
  <2>5. QED  BY <2>3, <2>4
<1>4. step' \in StepType /\ step'.at = "nodes"
  <2>1. step \in StepType  BY DEF FabricTypes
  <2>2. step' = [at |-> "nodes", ch |-> step.ch, lane |-> step.lane, lanes |-> step.lanes,
                 used |-> step.used, n |-> step.n, i |-> step.i, node |-> step.node, ack |-> None]
    BY <1>1, <2>1 DEF StepType
  <2>3. QED  BY <2>1, <2>2, StepFields DEF StepType, StepAt
<1>5. /\ submit' \in [Channel -> Seq(Message)] /\ lanes' = lanes /\ submit' = submit
      /\ outbox' = outbox
  BY <1>1 DEF FabricTypes, queueVars
<1> DEFINE x == <<"ack">>
<1>6. /\ x \in Place /\ x # <<"applied">> /\ (\A nd : x # <<"inbox", nd>>)
      /\ At(x) = Acking /\ At(x)' = Acking'
  BY PlaceNames, AtPlaces, AtPlacesNext
<1>7. Acking = <<m>> /\ Acking' = <<>>  BY <1>1, <1>2, <1>4 DEF Acking
<1>8. Acking # <<>> /\ Acking' = Tail(Acking) /\ m = Head(Acking)  BY <1>7
<1>9. \A d \in Channel, k \in LaneIds : Unrouted(d, k)' = Unrouted(d, k)
  BY <1>1, <1>4, <1>5 DEF Unrouted
<1>10. ASSUME NEW z \in Place \ {x}
       PROVE  z = <<"applied">> \/ (\E nd : z = <<"inbox", nd>>) \/ At(z)' = At(z)
  <2>1. CASE \E d \in Channel, k \in LaneIds : z = <<"lane", d, k>>
    <3>1. PICK d \in Channel, k \in LaneIds : z = <<"lane", d, k>>  BY <2>1
    <3>2. QED  BY <1>9, <3>1, AtPlaces, AtPlacesNext
  <2>2. CASE ~ \E d \in Channel, k \in LaneIds : z = <<"lane", d, k>>
    BY <1>5, <1>10, <2>2, AtPlaces, AtPlacesNext, PlaceCases
  <2>3. QED  BY <2>1, <2>2
<1>11. ~ ByLane(m)  BY <1>2, OpsApart DEF ByLane, SystemOps
<1>12. (\A d \in Channel : Shrinks(submit[d], submit'[d])) /\ Shrinks(outbox, outbox')
  BY <1>5 DEF Shrinks
<1>13. {step.at, step'.at} \cap {"route"} = {} /\ step'.at # "ack"  BY <1>1, <1>4
<1> HIDE DEF x
<1>14. QED
  BY <1>1, <1>3, <1>4, <1>5, <1>6, <1>8, <1>10, <1>11, <1>12, <1>13, UnlanedKeeps

\* While an acknowledgement waits for room its refusals are reported.
LEMMA AckWaitsKeeps ==
  ASSUME FInv, AckWaits
  PROVE  FInv'
<1> USE DEF FInv
<1>1. /\ step.at = "ack" /\ RouteRefuses(step.ack)
      /\ UNCHANGED <<sendVars, queueVars, step, outbox, policyVars, fateVars>>
  BY DEF AckWaits
<1>2. PICK m \in Message : m = step.ack /\ m.op = "ACK"  BY <1>1 DEF Batches
<1>3. Thrown(m) /\ RingType(payload')
  <2>1. RingType(payload)  BY DEF FabricTypes, RingType
  <2>2. RouteRefuses(m) /\ refused' = refused /\ UNCHANGED applied  BY <1>1, <1>2 DEF fateVars
  <2>3. QED  BY <2>1, <2>2, RefuseCases
<1>4. Routed(m)  BY <1>3 DEF Routed
<1>5. UNCHANGED <<lanes, submit, accepted, refused, applied>>  BY <1>1 DEF queueVars, fateVars
<1>6. Acking' = Acking /\ (\A c, l : Unrouted(c, l)' = Unrouted(c, l)) /\ Ch' = Ch  BY <1>1, <1>5, StepSame
<1>7. FabricTypes'
  <2>1. inbox' \in [Registered -> Seq(Message)] /\ dropped' \in DropTypes /\ log' \in Seq(Message)
    BY <1>4, RoutedTypes
  <2>2. QED  BY <1>1, <1>3, <1>5, <2>1 DEF FabricTypes, DropTypes, RingType, sendVars, policyVars
<1>8. Batches'  BY <1>1, <1>5, <1>6 DEF Batches
<1>9. Senders' /\ Accepted'  BY <1>1, <1>5 DEF Senders, Accepted, LetGo, sendVars
<1>10. \A k \in Tracked : Where(k)' = Where(k) /\ Single(k)'
  <2> SUFFICES ASSUME NEW k \in Tracked PROVE Where(k)' = Where(k) /\ Single(k)'
    OBVIOUS
  <2> DEFINE w == <<"inbox", System>>
  <2>1. w \in Place /\ At(w) = inbox[System] /\ At(w)' = inbox'[System]
    BY PlaceNames, AtPlaces, AtPlacesNext, OpsApart
  <2>2. \/ UNCHANGED inbox
        \/ \E e \in Message : e.op \in Reports /\ inbox' = Push(System, e)
    BY <1>3 DEF Thrown
  <2>3. /\ Stays(w, k)
        /\ \A o \in Registered : o # System => inbox'[o] = inbox[o]
    <3>1. CASE UNCHANGED inbox  BY <2>1, <3>1, StaysCases
    <3>2. CASE \E e \in Message : e.op \in Reports /\ inbox' = Push(System, e)
      <4>1. PICK e \in Message : e.op \in Reports /\ inbox' = Push(System, e)  BY <3>2
      <4>2. /\ inbox'[System] = Append(inbox[System], e)
            /\ \A o \in Registered : o # System => inbox'[o] = inbox[o]
        BY <4>1, PushType, OpsApart
      <4>3. Key(e)[2] = e.op  BY DEF Key
      <4>4. e.op \notin UserOps /\ e.op # "ACK" /\ e.op # "RESULT"
        BY <4>1, OpsApart DEF Reports, SystemOps
      <4>5. k # Key(e)  BY <4>3, <4>4 DEF Tracked
      <4>6. QED  BY <2>1, <4>2, <4>5, StaysCases
    <3>3. QED  BY <2>2, <3>1, <3>2
  <2>4. ASSUME NEW z \in Place \ {w} PROVE At(z)' = At(z)
    <3>1. CASE \E o \in Registered : z = <<"inbox", o>>
      <4>1. PICK o \in Registered : z = <<"inbox", o>>  BY <3>1
      <4>2. o # System  BY <2>4, <4>1
      <4>3. QED  BY <2>3, <4>1, <4>2, AtPlaces, AtPlacesNext
    <3>2. CASE \E c \in Channel, l \in LaneIds : z = <<"lane", c, l>>
      BY <1>6, <3>2, AtPlaces, AtPlacesNext
    <3>3. CASE ~ (\E o \in Registered : z = <<"inbox", o>>) /\ ~ \E c \in Channel, l \in LaneIds : z = <<"lane", c, l>>
      BY <1>1, <1>5, <1>6, <3>3, AtPlaces, AtPlacesNext, PlaceCases
    <3>4. QED  BY <3>1, <3>2, <3>3
  <2>5. \A z \in Place : Stays(z, k)  BY <2>3, <2>4, StaysCases
  <2>6. Single(k)  BY DEF Fates
  <2>7. QED  BY <1>5, <2>5, <2>6, Unmoved
<1>11. AcceptedKeys' = AcceptedKeys  BY <1>5 DEF AcceptedKeys
<1>12. Fates'  BY <1>10, <1>11 DEF Fates
<1>13. Replies'
  <2>1. \A id \in Id : <<id, "ACK">> \in Tracked /\ <<id, "RESULT">> \in Tracked  BY DEF Tracked
  <2>2. \A id \in Id : Where(<<id, "ACK">>)' = Where(<<id, "ACK">>)  BY <1>10, <2>1
  <2>3. \A id \in Id : Where(<<id, "RESULT">>)' = Where(<<id, "RESULT">>)  BY <1>10, <2>1
  <2>4. applied' = applied  BY <1>5
  <2>5. QED  BY <2>2, <2>3, <2>4 DEF Replies
<1>14. ~ ByLane(m) /\ m.op \notin UserOps  BY <1>2, OpsApart DEF ByLane, SystemOps
<1>15. LanesShrink  BY <1>6 DEF LanesShrink
<1>16. Orders'  BY <1>4, <1>14, <1>15, OrdersRouted
<1>17. Contents'
  <2>1. /\ \A nd \in Registered : \A i \in DOMAIN inbox'[nd] :
              inbox'[nd][i].to = nd /\ inbox'[nd][i].op \notin FrameOps \cup {"FENCE"}
        /\ \A i \in DOMAIN log' : log'[i].op \in UserOps => Key(log'[i]) \in AcceptedKeys'
    BY <1>4, <1>5, <1>14, RoutedContents
  <2>2. pid' = pid /\ outbox' = outbox  BY <1>1 DEF sendVars
  <2>3. QED  BY <1>5, <1>6, <2>1, <2>2 DEF Contents
<1>18. QED  BY <1>7, <1>8, <1>9, <1>12, <1>13, <1>16, <1>17

-----------------------------------------------------------------------------
(* hs_step: the nodes.                                                     *)

\* Node nd processes the first message of its inbox.
Pops(nd, m) ==
  /\ nd \in Registered /\ inbox[nd] # <<>> /\ m = Head(inbox[nd]) /\ m \in Message
  /\ inbox' = [inbox EXCEPT ![nd] = Tail(inbox[nd])] /\ applied' = Append(applied, m)

LEMMA PopsInbox ==
  ASSUME FabricTypes, NEW nd, NEW m, Pops(nd, m)
  PROVE  /\ inbox[nd] \in Seq(Message) /\ inbox' \in [Registered -> Seq(Message)] /\ inbox'[nd] = Tail(inbox[nd])
         /\ \A o \in Registered : o # nd => inbox'[o] = inbox[o]
         /\ applied' \in Seq(Message) /\ applied \in Seq(Message)
<1>1. inbox \in [Registered -> Seq(Message)] /\ applied \in Seq(Message)  BY DEF FabricTypes
<1>2. inbox[nd] \in Seq(Message) /\ Tail(inbox[nd]) \in Seq(Message)  BY <1>1, Tailed DEF Pops
<1>3. QED  BY <1>1, <1>2 DEF Pops

LEMMA PopsOrders ==
  ASSUME FabricTypes, Batches, Contents, Orders, NEW nd, NEW m, Pops(nd, m), log' = log,
         \A c \in Channel, l \in LaneIds : Unrouted(c, l)' = Unrouted(c, l)
  PROVE  /\ Orders'
         /\ \A o \in Registered : \A i \in DOMAIN inbox'[o] :
              inbox'[o][i].to = o /\ inbox'[o][i].op \notin FrameOps \cup {"FENCE"}
<1>1. /\ inbox[nd] \in Seq(Message) /\ inbox'[nd] = Tail(inbox[nd]) /\ nd \in Registered
      /\ \A o \in Registered : o # nd => inbox'[o] = inbox[o]
      /\ applied \in Seq(Message)
  BY PopsInbox DEF Pops
<1>2. inbox[nd] # <<>> /\ m = Head(inbox[nd]) /\ m \in Message /\ applied' = Append(applied, m)
  BY DEF Pops
<1>3. /\ InOrder(inbox'[nd]) /\ \A i \in DOMAIN inbox'[nd] : SentBefore(m, inbox'[nd][i])
  BY <1>1, <1>2, OrderTailed DEF Orders
<1>4. Before(applied, inbox'[nd]) /\ \A i \in DOMAIN applied : SentBefore(applied[i], m)
  BY <1>1, <1>2, BeforeTailed DEF Orders
<1>5. InOrder(applied')  BY <1>1, <1>2, <1>4, OrderAppended DEF Orders
<1>6. m = inbox[nd][1] /\ 1 \in DOMAIN inbox[nd] /\ m.to = nd
  <2>1. m = inbox[nd][1] /\ 1 \in DOMAIN inbox[nd]  BY <1>1, <1>2, Tailed
  <2>2. QED  BY <1>1, <2>1 DEF Contents
<1>7. \A o \in Registered : inbox'[o] \in Seq(Message)  BY PopsInbox
<1>8. ASSUME NEW o \in Registered PROVE InOrder(inbox'[o]) /\ Before(applied', inbox'[o])
  <2>1. CASE o = nd  BY <1>1, <1>2, <1>3, <1>4, <1>7, <2>1, BeforeAppended
  <2>2. CASE o # nd
    <3>1. inbox'[o] = inbox[o] /\ InOrder(inbox[o]) /\ Before(applied, inbox[o])  BY <1>1, <2>2 DEF Orders
    <3>2. \A i \in DOMAIN inbox[o] : SentBefore(m, inbox[o][i])
      <4>1. \A i \in DOMAIN inbox[o] : inbox[o][i].to = o  BY DEF Contents
      <4>2. QED  BY <1>6, <2>2, <4>1 DEF SentBefore, SameStream
    <3>3. QED  BY <1>1, <1>2, <1>7, <3>1, <3>2, BeforeAppended
  <2>3. QED  BY <2>1, <2>2
<1>9. ASSUME NEW c \in Channel, NEW l \in LaneIds
      PROVE  /\ InOrder(Unrouted(c, l)') /\ Before(applied', Unrouted(c, l)') /\ Before(log', Unrouted(c, l)')
             /\ \A o \in Registered : Before(inbox'[o], Unrouted(c, l)')
  <2> DEFINE s == Unrouted(c, l)
  <2>1. s \in Seq(Message) /\ Unrouted(c, l)' = s  BY UnroutedSeq
  <2>2. /\ InOrder(s) /\ Before(applied, s) /\ Before(log, s)
        /\ \A o \in Registered : Before(inbox[o], s)
    BY DEF Orders
  <2> HIDE DEF s
  <2>3. Before(inbox'[nd], s) /\ \A j \in DOMAIN s : SentBefore(m, s[j])
    BY <1>1, <1>2, <2>1, <2>2, BeforeTailed
  <2>4. Before(applied', s)  BY <1>1, <1>2, <2>1, <2>2, <2>3, BeforeAppended
  <2>5. \A o \in Registered : Before(inbox'[o], s)  BY <1>1, <2>2, <2>3
  <2>6. QED  BY <2>1, <2>2, <2>4, <2>5
<1>10. Orders'
  <2>1. InOrder(log')  BY DEF Orders
  <2>2. QED  BY <1>5, <1>8, <1>9, <2>1 DEF Orders
<1>11. ASSUME NEW o \in Registered, NEW i \in DOMAIN inbox'[o]
       PROVE  inbox'[o][i].to = o /\ inbox'[o][i].op \notin FrameOps \cup {"FENCE"}
  <2>1. CASE o # nd  BY <1>1, <1>11, <2>1 DEF Contents
  <2>2. CASE o = nd
    <3>1. i + 1 \in DOMAIN inbox[nd] /\ inbox'[o][i] = inbox[nd][i + 1]
      <4>1. i \in DOMAIN Tail(inbox[nd]) /\ inbox'[o] = Tail(inbox[nd])  BY <1>1, <1>11, <2>2
      <4>2. QED  BY <1>1, <1>2, <4>1, Tailed
    <3>2. QED  BY <1>1, <2>2, <3>1 DEF Contents
  <2>3. QED  BY <2>1, <2>2
<1>12. QED  BY <1>10, <1>11

\* Where m goes when its node processes it, and where a reply to it is made.
LEMMA PopsCarries ==
  ASSUME FInv, NEW nd, NEW m, Pops(nd, m), UNCHANGED <<refused, lanes, submit>>,
         \A c \in Channel, l \in LaneIds : Unrouted(c, l)' = Unrouted(c, l),
         NEW w \in {<<"ack">>, <<"outbox">>}, NEW made,
         \/ made = {} /\ At(w)' = At(w)
         \/ \E e \in Message : made = {Key(e)} /\ At(w)' = Append(At(w), e),
         \A z \in {<<"ack">>, <<"outbox">>} \ {w} : At(z)' = At(z)
  PROVE  Carries(<<"inbox", nd>>, <<"applied">>, w, made)
<1> USE DEF FInv
<1> DEFINE x == <<"inbox", nd>>
           y == <<"applied">>
<1>1. /\ nd \in Registered /\ inbox[nd] # <<>> /\ m = Head(inbox[nd]) /\ m \in Message
      /\ applied' = Append(applied, m)
  BY DEF Pops
<1>2. inbox'[nd] = Tail(inbox[nd]) /\ \A o \in Registered : o # nd => inbox'[o] = inbox[o]  BY PopsInbox
<1>3. /\ x \in Place /\ y \in Place /\ At(x) = inbox[nd] /\ At(x)' = inbox'[nd]
      /\ At(y) = applied /\ At(y)' = applied' /\ w \in Place
  BY <1>1, PlaceNames, AtPlaces, AtPlacesNext
<1>4. y # x /\ w # x /\ w # y /\ y # Refusal  BY DEF Refusal
<1>5. ASSUME NEW z \in Place \ {x, y, w} PROVE At(z)' = At(z)
  <2>1. CASE \E o \in Registered : z = <<"inbox", o>>
    <3>1. PICK o \in Registered : z = <<"inbox", o>>  BY <2>1
    <3>2. o # nd  BY <1>5, <3>1
    <3>3. QED  BY <1>2, <3>1, <3>2, AtPlaces, AtPlacesNext
  <2>2. CASE \E c \in Channel, l \in LaneIds : z = <<"lane", c, l>>
    BY <2>2, AtPlaces, AtPlacesNext
  <2>3. CASE \E c \in Channel : z = <<"submit", c>>
    BY <2>3, AtPlaces, AtPlacesNext
  <2>4. CASE z = <<"ack">> \/ z = <<"outbox">>  BY <1>5, <2>4
  <2>5. QED  BY <1>5, <2>1, <2>2, <2>3, <2>4, PlaceCases
<1> HIDE DEF x, y
<1>6. QED  BY <1>1, <1>2, <1>3, <1>4, <1>5 DEF Carries, x, y

LEMMA NodeInHand ==
  ASSUME FabricTypes, inbox[Node] # <<>>
  PROVE  Node \in Registered /\ inbox[Node] \in Seq(Message) /\ Next1 \in Message
<1>1. step.node \in DOMAIN Nodes  BY StepFields DEF FabricTypes
<1>2. Node \in Registered  BY <1>1 DEF Node, Registered
<1>3. inbox[Node] \in Seq(Message)  BY <1>2 DEF FabricTypes
<1>4. QED  BY <1>2, <1>3, Tailed DEF Next1

LEMMA NodeApplyKeeps ==
  ASSUME FInv, NodeApply
  PROVE  FInv'
<1> USE DEF FInv
<1>1. /\ step.at = "nodes" /\ Node # System /\ inbox[Node] # <<>> /\ inbox' = Popped
      /\ applied' = Append(applied, Next1)
      /\ step' = IF WantsAck(Next1) THEN [step EXCEPT !.at = "ack", !.ack = AckOf(Next1)] ELSE step
      /\ UNCHANGED <<sendVars, queueVars, outbox, policyVars, accepted, discarded, refused>>
      /\ UNCHANGED <<payload, log, recording, overflow, recordMask, dropped>>
  BY DEF NodeApply
<1>2. PICK nd \in Registered, m \in Message : nd = Node /\ m = Next1  BY <1>1, NodeInHand
<1>3. Pops(nd, m)  BY <1>1, <1>2 DEF Pops, Popped, Next1
<1>4. /\ AckOf(m) \in Message /\ Key(AckOf(m)) = <<m.id, "ACK">> /\ AckOf(m).op = "ACK"
  BY ReportsMade
<1>5. step \in StepType  BY DEF FabricTypes
<1>6. /\ step' \in StepType /\ step'.at \in {"nodes", "ack"}
      /\ m.ack => step'.at = "ack" /\ step'.ack = AckOf(m)
      /\ ~ m.ack => step'.at = "nodes"
  <2>1. CASE m.ack
    <3>1. step' = [step EXCEPT !.at = "ack", !.ack = AckOf(m)]  BY <1>1, <1>2, <2>1 DEF WantsAck
    <3>2. step' = [at |-> "ack", ch |-> step.ch, lane |-> step.lane, lanes |-> step.lanes,
                   used |-> step.used, n |-> step.n, i |-> step.i, node |-> step.node, ack |-> AckOf(m)]
      BY <1>5, <3>1 DEF StepType
    <3>3. QED  BY <1>4, <1>5, <2>1, <3>2, StepFields DEF StepType, StepAt
  <2>2. CASE ~ m.ack  BY <1>1, <1>2, <1>5, <2>2 DEF WantsAck
  <2>3. QED  BY <2>1, <2>2
<1>7. UNCHANGED <<lanes, submit>>  BY <1>1 DEF queueVars
<1>8. \A c \in Channel, l \in LaneIds : Unrouted(c, l)' = Unrouted(c, l)
  BY <1>1, <1>6, <1>7 DEF Unrouted
<1>9. FabricTypes'
  <2>1. inbox' \in [Registered -> Seq(Message)] /\ applied' \in Seq(Message)  BY <1>3, PopsInbox
  <2>2. QED  BY <1>1, <1>6, <1>7, <2>1 DEF FabricTypes, sendVars, policyVars
<1>10. Batches'  BY <1>4, <1>6 DEF Batches
<1>11. Senders' /\ Accepted'  BY <1>1 DEF Senders, Accepted, LetGo, sendVars
<1>12. /\ Orders'
       /\ \A o \in Registered : \A i \in DOMAIN inbox'[o] :
            inbox'[o][i].to = o /\ inbox'[o][i].op \notin FrameOps \cup {"FENCE"}
  BY <1>1, <1>3, <1>8, PopsOrders
<1>13. Contents'
  <2>1. pid' = pid /\ outbox' = outbox /\ log' = log /\ AcceptedKeys' = AcceptedKeys
    BY <1>1 DEF sendVars, AcceptedKeys
  <2>2. QED  BY <1>7, <1>8, <1>12, <2>1 DEF Contents
<1> DEFINE x == <<"inbox", nd>>
           made == IF m.ack THEN {<<m.id, "ACK">>} ELSE {}
<1>14. Carries(x, <<"applied">>, <<"ack">>, made)
  <2>1. At(<<"ack">>) = <<>> /\ At(<<"ack">>)' = IF m.ack THEN <<AckOf(m)>> ELSE <<>>
    BY <1>1, <1>6, AtPlaces, AtPlacesNext DEF Acking
  <2>2. Append(<<>>, AckOf(m)) = <<AckOf(m)>>  OBVIOUS
  <2>3. At(<<"outbox">>)' = At(<<"outbox">>)  BY <1>1, AtPlaces, AtPlacesNext
  <2>4. \/ made = {} /\ At(<<"ack">>)' = At(<<"ack">>)
        \/ \E e \in Message : made = {Key(e)} /\ At(<<"ack">>)' = Append(At(<<"ack">>), e)
    BY <1>4, <2>1, <2>2
  <2> HIDE DEF x, made
  <2>5. \A z \in {<<"ack">>, <<"outbox">>} \ {<<"ack">>} : At(z)' = At(z)  BY <2>3
  <2>6. QED  BY <1>1, <1>3, <1>7, <1>8, <2>4, <2>5, PopsCarries DEF x
<1>15. m = Head(At(x))  BY <1>1, <1>2, AtPlaces DEF Next1
<1>16. Acknowledged(m) <=> m.ack
  <2>1. m = inbox[nd][1] /\ 1 \in DOMAIN inbox[nd]  BY <1>1, <1>2, NodeInHand, Tailed DEF Next1
  <2>2. m.to = nd /\ m.op \notin FrameOps \cup {"FENCE"}  BY <2>1 DEF Contents
  <2>3. QED  BY <1>1, <1>2, <2>2 DEF Acknowledged
<1>17. /\ made \subseteq {<<m.id, "ACK">>, <<m.id, "RESULT">>} /\ (<<m.id, "ACK">> \in made <=> m.ack)
       /\ <<m.id, "RESULT">> \notin made
  OBVIOUS
<1>18. applied' = Append(applied, m) /\ x # <<"applied">>  BY <1>1, <1>2
<1> HIDE DEF x, made
<1>19. Fates' /\ Replies'  BY <1>1, <1>14, <1>15, <1>16, <1>17, <1>18, Carried
<1>20. QED  BY <1>9, <1>10, <1>11, <1>12, <1>13, <1>19

LEMMA SettingsKeepBudget ==
  ASSUME FabricTypes, NEW m \in Message, Settings(m)
  PROVE  budget' \in [Channel -> Nat]
<1>1. budget \in [Channel -> Nat]  BY DEF FabricTypes
<1>2. PICK a \in Decoded(m) :
        budget' = IF m.op = "SET_CHAN_BUDGET" /\ a # None THEN [budget EXCEPT ![a.ch] = a.n] ELSE budget
  BY DEF Settings
<1>3. m.op = "SET_CHAN_BUDGET" => a = None \/ a.n \in Nat
  <2>1. a = None \/ a = m.arg \/ a \in Decodings[m.op]  BY DEF Decoded
  <2>2. m.op = "SET_CHAN_BUDGET" => m.arg = None \/ m.arg.n \in Nat
    <3> SUFFICES ASSUME m.op = "SET_CHAN_BUDGET" PROVE m.arg = None \/ m.arg.n \in Nat
      OBVIOUS
    <3>1. m.op \in UserOps  BY MessageFields DEF Op, SystemOps
    <3>2. PICK t \in Templates : t.op = m.op /\ t.arg = m.arg  BY <3>1, MessageFields DEF Asks
    <3>3. QED  BY <3>2, BudgetAssumption
  <2>3. QED  BY <2>1, <2>2, BudgetAssumption
<1>4. QED  BY <1>1, <1>2, <1>3

LEMMA SystemApplyKeeps ==
  ASSUME FInv, SystemApply
  PROVE  FInv'
<1> USE DEF FInv
<1>1. /\ step.at = "nodes" /\ Node = System /\ inbox[Node] # <<>> /\ inbox' = Popped
      /\ applied' = Append(applied, Next1)
      /\ IF Next1.op \in ControlOps \ {"FENCE"} THEN Settings(Next1) /\ EmitResult(Next1)
         ELSE UNCHANGED <<recordMask, policyVars, payload, outbox, dropped>>
      /\ UNCHANGED <<sendVars, queueVars, step, accepted, discarded, refused>>
      /\ UNCHANGED <<log, recording, overflow>>
  BY DEF SystemApply
<1>2. PICK m \in Message : m = Next1  BY <1>1, NodeInHand
<1>3. Pops(System, m)  BY <1>1, <1>2, NodeInHand DEF Pops, Popped, Next1
<1>4. UNCHANGED <<lanes, submit>>  BY <1>1 DEF queueVars
<1>5. Acking' = Acking /\ (\A c, l : Unrouted(c, l)' = Unrouted(c, l)) /\ Ch' = Ch  BY <1>1, <1>4, StepSame
<1>6. RingType(payload)  BY DEF FabricTypes, RingType
<1>7. /\ RingType(payload') /\ dropped' \in DropTypes
      /\ \/ outbox' = outbox
         \/ /\ m.op \in ControlOps \ {"FENCE"}
            /\ \E e \in Message : Key(e) = <<m.id, "RESULT">> /\ e.op = "RESULT" /\ outbox' = Append(outbox, e)
  <2>1. dropped \in DropTypes  BY DEF FabricTypes, DropTypes
  <2>2. CASE m.op \in ControlOps \ {"FENCE"}
    <3> DEFINE res == ResultOf(m, payload.head)
    <3>1. res \in Message /\ Key(res) = <<m.id, "RESULT">> /\ res.op = "RESULT"
      BY <1>6, ReportsMade DEF RingType
    <3>2. /\ payload' = Allocated(payload, res)
          /\ \/ outbox' = Append(outbox, res) /\ UNCHANGED dropped
             \/ dropped' = ResultLost /\ UNCHANGED outbox
      BY <1>1, <1>2, <2>2 DEF EmitResult
    <3> HIDE DEF res
    <3>3. RingType(payload')  BY <1>6, <3>2, AllocatedType
    <3>4. dropped' \in DropTypes  BY <2>1, <3>2, BumpType DEF ResultLost
    <3>5. QED  BY <2>2, <3>1, <3>2, <3>3, <3>4
  <2>3. CASE m.op \notin ControlOps \ {"FENCE"}
    BY <1>1, <1>2, <1>6, <2>1, <2>3
  <2>4. QED  BY <2>2, <2>3
<1>8. budget' \in [Channel -> Nat]
  <2>1. CASE m.op \in ControlOps \ {"FENCE"}  BY <1>1, <1>2, <2>1, SettingsKeepBudget
  <2>2. CASE m.op \notin ControlOps \ {"FENCE"}
    BY <1>1, <1>2, <2>2 DEF policyVars, FabricTypes
  <2>3. QED  BY <2>1, <2>2
<1>9. FabricTypes'
  <2>1. inbox' \in [Registered -> Seq(Message)] /\ applied' \in Seq(Message)  BY <1>3, PopsInbox
  <2>2. outbox' \in Seq(Message)
    <3>1. outbox \in Seq(Message)  BY DEF FabricTypes
    <3>2. \A e \in Message : Append(outbox, e) \in Seq(Message)  BY <3>1
    <3>3. outbox' = outbox \/ \E e \in Message : outbox' = Append(outbox, e)  BY <1>7
    <3>4. QED  BY <3>1, <3>2, <3>3
  <2>3. QED  BY <1>1, <1>4, <1>7, <1>8, <2>1, <2>2 DEF FabricTypes, sendVars, RingType, DropTypes
<1>10. Batches'  BY <1>1, <1>4, <1>5 DEF Batches
<1>11. Senders' /\ Accepted'  BY <1>1 DEF Senders, Accepted, LetGo, sendVars
<1>12. /\ Orders'
       /\ \A o \in Registered : \A i \in DOMAIN inbox'[o] :
            inbox'[o][i].to = o /\ inbox'[o][i].op \notin FrameOps \cup {"FENCE"}
  BY <1>1, <1>3, <1>5, PopsOrders
<1>13. Contents'
  <2>1. pid' = pid /\ log' = log /\ AcceptedKeys' = AcceptedKeys
    BY <1>1 DEF sendVars, AcceptedKeys
  <2>2. ASSUME NEW i \in DOMAIN outbox' PROVE outbox'[i].op = "RESULT"
    <3>1. outbox \in Seq(Message)  BY DEF FabricTypes
    <3>2. CASE outbox' = outbox  BY <3>2 DEF Contents
    <3>3. CASE \E e \in Message : e.op = "RESULT" /\ outbox' = Append(outbox, e)
      <4>1. PICK e \in Message : e.op = "RESULT" /\ outbox' = Append(outbox, e)  BY <3>3
      <4>2. (i \in DOMAIN outbox /\ outbox'[i] = outbox[i]) \/ outbox'[i] = e
        BY <2>2, <3>1, <4>1, AppendedIs
      <4>3. QED  BY <4>1, <4>2 DEF Contents
    <3>4. QED  BY <1>7, <3>2, <3>3
  <2>3. QED  BY <1>4, <1>5, <1>12, <2>1, <2>2 DEF Contents
<1> DEFINE x == <<"inbox", System>>
           w == <<"outbox">>
<1>14. m = Head(At(x)) /\ applied' = Append(applied, m) /\ x # <<"applied">>
  BY <1>1, <1>2, AtPlaces DEF Next1
<1>15. m.to = System
  <2>1. m = inbox[System][1] /\ 1 \in DOMAIN inbox[System] /\ System \in Registered
    BY <1>1, <1>2, NodeInHand, Tailed DEF Next1
  <2>2. QED  BY <2>1 DEF Contents
<1>16. At(w) = outbox /\ At(w)' = outbox'  BY AtPlaces, AtPlacesNext
<1>17. \A z \in {<<"ack">>, <<"outbox">>} \ {w} : At(z)' = At(z)  BY <1>5, AtPlaces, AtPlacesNext
<1>18. ~ Acknowledged(m)  BY <1>15 DEF Acknowledged
<1>19. w \in {<<"ack">>, <<"outbox">>}  OBVIOUS
<1>20. UNCHANGED <<refused, lanes, submit>> /\ accepted' = accepted  BY <1>1, <1>4
<1> HIDE DEF x, w
<1>21. CASE outbox' = outbox
  <2> DEFINE made == {}
  <2>1. made = {} /\ At(w)' = At(w)  BY <1>16, <1>21
  <2>2. made \subseteq {<<m.id, "ACK">>, <<m.id, "RESULT">>} /\ \A k : k \notin made  OBVIOUS
  <2> HIDE DEF made
  <2>3. Carries(x, <<"applied">>, w, made)
    BY <1>3, <1>5, <1>17, <1>19, <1>20, <2>1, PopsCarries DEF x
  <2>4. Fates' /\ Replies'  BY <1>14, <1>18, <1>20, <2>2, <2>3, Carried
  <2>5. QED  BY <1>9, <1>10, <1>11, <1>12, <1>13, <2>4
<1>22. CASE m.op \in ControlOps \ {"FENCE"} /\ \E e \in Message : Key(e) = <<m.id, "RESULT">> /\ outbox' = Append(outbox, e)
  <2>1. PICK e \in Message : Key(e) = <<m.id, "RESULT">> /\ outbox' = Append(outbox, e)  BY <1>22
  <2> DEFINE made == {<<m.id, "RESULT">>}
  <2>2. made = {Key(e)} /\ At(w)' = Append(At(w), e)  BY <1>16, <2>1
  <2>3. Answered(m)  BY <1>15, <1>22 DEF Answered
  <2>4. made \subseteq {<<m.id, "ACK">>, <<m.id, "RESULT">>} /\ <<m.id, "ACK">> \notin made  OBVIOUS
  <2> HIDE DEF made
  <2>5. Carries(x, <<"applied">>, w, made)
    BY <1>3, <1>5, <1>17, <1>19, <1>20, <2>2, PopsCarries DEF x
  <2>6. Fates' /\ Replies'  BY <1>14, <1>18, <1>20, <2>3, <2>4, <2>5, Carried
  <2>7. QED  BY <1>9, <1>10, <1>11, <1>12, <1>13, <2>6
<1>23. QED  BY <1>7, <1>21, <1>22

-----------------------------------------------------------------------------
(* The beginning, and hs_clear.                                            *)

\* Nothing is anywhere, and no thread has a lane.
Empty ==
  /\ accepted = {} /\ refused = {} /\ applied = <<>> /\ outbox = <<>> /\ log = <<>>
  /\ submit = NoSubmits /\ lanes = NoLanes /\ inbox = [nd \in Registered |-> <<>>]
  /\ pid = [p \in Producers |-> NoId] /\ step.at = "idle" /\ \A p \in Producers : pc[p] = "idle"

LEMMA EmptyHolds == FabricTypes /\ Empty => FInv
<1> SUFFICES ASSUME FabricTypes, Empty PROVE FInv
  OBVIOUS
<1>1. /\ accepted = {} /\ refused = {} /\ applied = <<>> /\ outbox = <<>> /\ log = <<>>
      /\ step.at = "idle" /\ \A p \in Producers : pc[p] = "idle" /\ pid[p] = NoId
      /\ \A c \in Channel : submit[c] = <<>>
      /\ \A c \in Channel, l \in LaneIds : lanes[c][l] = <<>>
      /\ \A nd \in Registered : inbox[nd] = <<>>
  BY DEF Empty, NoSubmits, NoLanes
<1>2. \A c \in Channel, l \in LaneIds : Unrouted(c, l) = <<>>  BY <1>1 DEF Unrouted
<1>3. Acking = <<>>  BY <1>1 DEF Acking
<1>4. \A x \in Place : At(x) = <<>>  BY <1>1, <1>2, <1>3, PlaceCases, AtPlaces
<1>5. DOMAIN <<>> = {} /\ ~ \E i : i \in {}  OBVIOUS
<1>6. \A k : Where(k) = {} /\ Single(k)
  <2>1. \A k : ~ Has(<<>>, k) /\ Once(<<>>, k)  BY <1>5 DEF Has, Once
  <2>2. \A k : Where(k) = {}  BY <1>1, <1>4, <2>1 DEF Where
  <2>3. QED  BY <1>4, <2>1, <2>2 DEF Single
<1>7. Batches  BY <1>1 DEF Batches
<1>8. Senders
  <2>1. NoId \notin LaneIds  BY ProducerAssumption DEF NoId, LaneIds
  <2>2. QED  BY <1>1, <2>1 DEF Senders
<1>9. Accepted /\ AcceptedKeys = {}  BY <1>1 DEF Accepted, AcceptedKeys
<1>10. Contents  BY <1>1, <1>2, <1>5 DEF Contents
<1>11. Fates  BY <1>6, <1>9 DEF Fates
<1>12. Replies  BY <1>1, <1>5, <1>6 DEF Replies
<1>13. InOrder(<<>>) /\ \A s : Before(s, <<>>)  BY <1>5 DEF InOrder, Before
<1>14. Orders  BY <1>1, <1>2, <1>13 DEF Orders
<1>15. QED  BY <1>7, <1>8, <1>9, <1>10, <1>11, <1>12, <1>14 DEF FInv

LEMMA NoneType ==
  /\ NoLanes \in [Channel -> [LaneIds -> Seq(Message)]] /\ NoSubmits \in [Channel -> Seq(Message)]
  /\ [nd \in Registered |-> <<>>] \in [Registered -> Seq(Message)] /\ <<>> \in Seq(Message)
  /\ [p \in Producers |-> NoId] \in [Producers -> LaneIds \cup {Fallback, NoId}]
  /\ [errorEx |-> 0, queueFull |-> 0, systemNonRt |-> 0, result |-> 0] \in DropTypes
<1>1. <<>> \in Seq(Message)  OBVIOUS
<1>2. QED  BY <1>1 DEF NoLanes, NoSubmits, DropTypes

LEMMA InitHolds == Init => FInv
<1> SUFFICES ASSUME Init PROVE FInv
  OBVIOUS
<1>1. FabricTypes
  <2>1. step \in StepType  BY IdleType DEF Init
  <2>2. payload = [head |-> payload.head, owner |-> payload.owner] /\ payload.head \in Nat
    BY DEF Init, RoutingInit
  <2>3. dropped \in [errorEx : Nat, queueFull : Nat, systemNonRt : Nat, result : Nat]
    BY NoneType DEF Init, RoutingInit, DropTypes
  <2>4. budget \in [Channel -> Nat]  BY BudgetAssumption DEF Init
  <2>5. QED  BY <2>1, <2>2, <2>3, <2>4, NoneType DEF Init, RoutingInit, FabricTypes
<1>2. Empty  BY DEF Init, RoutingInit, Empty, Idle
<1>3. QED  BY <1>1, <1>2, EmptyHolds

LEMMA ClearKeeps ==
  ASSUME FInv, Clear
  PROVE  FInv'
<1>1. FabricTypes  BY DEF FInv
<1>2. FabricTypes'
  <2>1. payload' = [head |-> payload'.head, owner |-> payload'.owner] /\ payload'.head \in Nat
    <3>1. payload = [head |-> payload.head, owner |-> payload.owner]  BY <1>1 DEF FabricTypes
    <3>2. payload' = [payload EXCEPT !.head = 0]  BY DEF Clear
    <3>3. payload' = [head |-> 0, owner |-> payload.owner]  BY <3>1, <3>2
    <3>4. QED  BY <3>3
  <2>2. dropped' \in [errorEx : Nat, queueFull : Nat, systemNonRt : Nat, result : Nat]
    BY NoneType DEF Clear, DropTypes
  <2>3. QED  BY <1>1, <2>1, <2>2, NoneType DEF Clear, ClearedLanes, FabricTypes, policyVars
<1>3. Empty'  BY <1>1 DEF Clear, ClearedLanes, Empty
<1>4. (FabricTypes /\ Empty => FInv)'  BY EmptyHolds, PTL
<1>5. QED  BY <1>2, <1>3, <1>4

-----------------------------------------------------------------------------
(* Every step.                                                             *)

LEMMA SendStays ==
  ASSUME FInv, NEW p \in Producers,
         SpscFull(p) \/ TelemDrop(p) \/ SendFails(p) \/ SendWaits(p) \/ SendRetries(p)
  PROVE  FInv'
<1>1. pc \in [Producers -> {"idle", "lane", "submit", "wait"}]  BY DEF FInv, FabricTypes
<1>2. \A x : [pc EXCEPT ![p] = x][p] = x  BY <1>1
<1>3. pc[p] # "idle"  BY DEF SpscFull, TelemDrop, SendFails, SendWaits, SendRetries
<1>4. UNCHANGED <<sent, pid, producerCount, queueVars, step, outbox, policyVars, routeVars>>
  BY DEF SpscFull, TelemDrop, SendFails, SendWaits, SendRetries, Returns, fateVars
<1>5. UNCHANGED <<accepted, refused, applied>>
  BY DEF SpscFull, TelemDrop, SendFails, SendWaits, SendRetries, fateVars
<1>6. \/ /\ cur' = cur /\ pc'[p] \in {"lane", "submit", "wait"}
         /\ pc' = [pc EXCEPT ![p] = pc'[p]] /\ (pc'[p] = "lane" => pid[p] # Fallback)
      \/ cur' = [cur EXCEPT ![p] = None] /\ pc' = [pc EXCEPT ![p] = "idle"]
  <2>1. CASE SpscFull(p)
    <3>1. pc' = [pc EXCEPT ![p] = "submit"] /\ cur' = cur  BY <2>1 DEF SpscFull
    <3>2. pc'[p] = "submit"  BY <1>2, <3>1
    <3>3. QED  BY <3>1, <3>2
  <2>2. CASE TelemDrop(p) \/ SendFails(p)
    BY <2>2 DEF TelemDrop, SendFails, Returns
  <2>3. CASE SendWaits(p)
    <3>1. pc' = [pc EXCEPT ![p] = "wait"] /\ cur' = cur  BY <2>3 DEF SendWaits
    <3>2. pc'[p] = "wait"  BY <1>2, <3>1
    <3>3. QED  BY <3>1, <3>2
  <2>4. CASE SendRetries(p)
    <3>1. cur' = cur  BY <2>4 DEF SendRetries
    <3>2. CASE pid[p] = Fallback
      <4>1. pc' = [pc EXCEPT ![p] = "submit"]  BY <2>4, <3>2 DEF SendRetries
      <4>2. pc'[p] = "submit"  BY <1>2, <4>1
      <4>3. QED  BY <3>1, <4>1, <4>2
    <3>3. CASE pid[p] # Fallback
      <4>1. pc' = [pc EXCEPT ![p] = "lane"]  BY <2>4, <3>3 DEF SendRetries
      <4>2. pc'[p] = "lane"  BY <1>2, <4>1
      <4>3. QED  BY <3>1, <3>3, <4>1, <4>2
    <3>4. QED  BY <3>2, <3>3
  <2>5. QED  BY <2>1, <2>2, <2>3, <2>4
<1>7. QED  BY <1>3, <1>4, <1>5, <1>6, SendWaitsKeep

LEMMA StutterKeeps ==
  ASSUME FInv, UNCHANGED vars
  PROVE  FInv'
<1>1. /\ UNCHANGED <<pc, cur, sent, pid, producerCount>> /\ UNCHANGED <<lanes, submit, step, outbox, budget>>
      /\ UNCHANGED <<accepted, refused, applied, inbox, payload, log, dropped>>
  BY DEF vars, sendVars, queueVars, policyVars, fateVars, routeVars
<1>2. Acking' = Acking /\ (\A c, l : Unrouted(c, l)' = Unrouted(c, l)) /\ Ch' = Ch  BY <1>1, StepSame
<1>3. FabricTypes'  BY <1>1 DEF FInv, FabricTypes
<1>4. Batches'  BY <1>1, <1>2 DEF FInv, Batches
<1>5. Senders'  BY <1>1 DEF FInv, Senders
<1>6. \A m \in accepted : LetGo(Key(m)) => LetGo(Key(m))'  BY <1>1 DEF LetGo, Key
<1>7. QED  BY <1>1, <1>2, <1>3, <1>4, <1>5, <1>6, Still

LEMMA FStep == FInv /\ [Next]_vars => FInv'
<1> SUFFICES ASSUME FInv, [Next]_vars PROVE FInv'
  OBVIOUS
<1>1. ASSUME NEW p \in Producers, SendCall(p) PROVE FInv'  BY <1>1, SendCallKeeps
<1>2. ASSUME NEW p \in Producers, SendGoesOn(p) PROVE FInv'
  <2>1. CASE SpscPush(p)  BY <2>1, SpscPushKeeps
  <2>2. CASE SubmitEnqueue(p)  BY <2>2, SubmitEnqueueKeeps
  <2>3. CASE SpscFull(p) \/ TelemDrop(p) \/ SendFails(p) \/ SendWaits(p) \/ SendRetries(p)
    BY <2>3, SendStays
  <2>4. QED  BY <1>2, <2>1, <2>2, <2>3 DEF SendGoesOn
<1>3. CASE StepBegin \/ LaneNext \/ LanesDone \/ ChannelDone \/ NodeDone \/ StepEnd
           \/ \E mask \in Masks : SetRecordMask(mask)
  BY <1>3, MovesStepOn
<1>4. CASE LaneTake \/ LaneRoute \/ LaneRelease
  BY <1>4, LaneTakeKeeps, LaneRouteKeeps, LaneReleaseKeeps
<1>5. CASE SubmitRoute \/ OutboxRoute  BY <1>5, SubmitRouteKeeps, OutboxRouteKeeps
<1>6. CASE NodeApply \/ AckRouted \/ AckDropped \/ AckWaits \/ SystemApply
  BY <1>6, NodeApplyKeeps, AckGoes, AckWaitsKeeps, SystemApplyKeeps
<1>7. CASE Clear  BY <1>7, ClearKeeps
<1>8. CASE UNCHANGED vars  BY <1>8, StutterKeeps
<1>9. QED  BY <1>1, <1>2, <1>3, <1>4, <1>5, <1>6, <1>7, <1>8 DEF Next, StepGoesOn

LEMMA Invariance == Spec => []FInv
<1>1. FInv /\ [Next]_vars => FInv'  BY FStep
<1>2. QED  BY <1>1, InitHolds, PTL DEF Spec

-----------------------------------------------------------------------------
(* What the fabric promises.                                               *)

\* FIFO per producer lane: what went through a lane is processed, and
\* recorded, in the order hs_send was called.
THEOREM LanesAreFifo == Spec => []LaneOrder
<1>1. FInv => LaneOrder  BY DEF FInv, Orders, LaneOrder
<1>2. QED  BY <1>1, Invariance, PTL

\* A place holds a message once, and one that holds none counts for nothing.
LEMMA HoldersOf ==
  ASSUME FabricTypes, Batches, NEW k, Single(k)
  PROVE  /\ Where(k) \cap Place = {} => Holders(k) = {}
         /\ Where(k) \cap Place # {} => \E h : Holders(k) = {h}
<1>1. \A h : h \in Holders(k) <=>
              \E x \in Place : \E i \in DOMAIN At(x) : h = <<x, i>> /\ Key(At(x)[i]) = k
  BY DEF Holders
<1>2. \A x : x \in Where(k) \cap Place <=> x \in Place /\ Has(At(x), k)
  BY PlaceNames DEF Where
<1>3. \A x : x \in Where(k) \cap Place <=> x \in Place /\ \E i \in DOMAIN At(x) : Key(At(x)[i]) = k
  BY <1>2 DEF Has
<1>4. ASSUME Where(k) \cap Place = {} PROVE Holders(k) = {}  BY <1>1, <1>3, <1>4
<1>5. ASSUME NEW x \in Where(k) \cap Place PROVE \E h : Holders(k) = {h}
  <2>1. PICK i \in DOMAIN At(x) : Key(At(x)[i]) = k  BY <1>3, <1>5
  <2>2. <<x, i>> \in Holders(k)  BY <1>1, <1>5, <2>1
  <2>3. ASSUME NEW h \in Holders(k) PROVE h = <<x, i>>
    <3>1. PICK y, j : y \in Place /\ j \in DOMAIN At(y) /\ h = <<y, j>> /\ Key(At(y)[j]) = k
      BY <1>1, <2>3
    <3>2. y \in Where(k)  BY <1>3, <3>1
    <3>3. y = x  BY <1>5, <3>2 DEF Single
    <3>4. j = i  BY <1>5, <2>1, <3>1, <3>3 DEF Single, Once
    <3>5. QED  BY <3>1, <3>3, <3>4
  <2>4. QED  BY <2>2, <2>3
<1>6. QED  BY <1>4, <1>5

LEMMA TimesOf ==
  ASSUME FabricTypes, Batches, NEW k, Single(k)
  PROVE  Times(k) = IF Where(k) = {} THEN 0 ELSE 1
<1>1. Refusal \in Where(k) <=> k \in refused  BY PlaceNames DEF Where
<1>2. Where(k) \subseteq Place \cup {Refusal}  BY DEF Where
<1>3. Refusal \notin Place  BY PlaceNames
<1>4. Cardinality({}) = 0 /\ \A h : Cardinality({h}) = 1  BY FS_EmptySet, FS_Singleton
<1>5. CASE Where(k) \cap Place = {}
  <2>1. Cardinality(Holders(k)) = 0  BY <1>4, <1>5, HoldersOf
  <2>2. Where(k) = {} <=> k \notin refused  BY <1>1, <1>2, <1>5
  <2>3. QED  BY <2>1, <2>2 DEF Times
<1>6. CASE Where(k) \cap Place # {}
  <2>1. Cardinality(Holders(k)) = 1  BY <1>4, <1>6, HoldersOf
  <2>2. k \notin refused  BY <1>1, <1>3, <1>6 DEF Single
  <2>3. QED  BY <1>6, <2>1, <2>2 DEF Times
<1>7. QED  BY <1>5, <1>6

LEMMA KeysConserved == FInv => Conservation
<1> SUFFICES ASSUME FInv PROVE Conservation
  OBVIOUS
<1>1. FabricTypes /\ Batches /\ Accepted /\ Fates  BY DEF FInv
<1>2. ASSUME NEW m \in accepted PROVE Times(Key(m)) = 1
  <2>1. m \in Message /\ m.op \in UserOps  BY <1>1, <1>2 DEF FabricTypes, Accepted
  <2>2. Key(m) \in Tracked /\ Key(m)[2] \in UserOps  BY <2>1, MessageFields DEF Tracked
  <2>3. Key(m) \in AcceptedKeys  BY <1>2 DEF AcceptedKeys
  <2>4. Single(Key(m)) /\ Where(Key(m)) # {}  BY <1>1, <2>2, <2>3 DEF Fates
  <2>5. QED  BY <1>1, <2>4, TimesOf
<1>3. ASSUME NEW m \in Pending PROVE Key(m) \in AcceptedKeys
  <2>1. \/ \E c \in Channel, l \in LaneIds : m \in Range(Unrouted(c, l))
        \/ \E c \in Channel : m \in Range(submit[c])
    <3> DEFINE InLanes(c) == UNION {Range(Unrouted(c, l)) : l \in LaneIds}
    <3>1. Pending = UNION {InLanes(c) \cup Range(submit[c]) : c \in Channel}  BY DEF Pending
    <3>2. \A c : m \in InLanes(c) => \E l \in LaneIds : m \in Range(Unrouted(c, l))  OBVIOUS
    <3> HIDE DEF InLanes
    <3>3. \E c \in Channel : m \in InLanes(c) \/ m \in Range(submit[c])  BY <1>3, <3>1
    <3>4. QED  BY <3>2, <3>3
  <2>2. CASE \E c \in Channel, l \in LaneIds : m \in Range(Unrouted(c, l))
    <3>1. PICK c \in Channel, l \in LaneIds : m \in Range(Unrouted(c, l))  BY <2>2
    <3>2. PICK i \in DOMAIN Unrouted(c, l) : m = Unrouted(c, l)[i]  BY <3>1 DEF Range
    <3>3. m.op \in UserOps  BY <3>2 DEF FInv, Contents
    <3>4. QED  BY <1>1, <3>2, <3>3, Present, PlaceNames, AtPlaces
  <2>3. CASE \E c \in Channel : m \in Range(submit[c])
    <3>1. PICK c \in Channel : m \in Range(submit[c])  BY <2>3
    <3>2. PICK i \in DOMAIN submit[c] : m = submit[c][i]  BY <3>1 DEF Range
    <3>3. m.op \in UserOps  BY <3>2 DEF FInv, Contents
    <3>4. QED  BY <1>1, <3>2, <3>3, Present, PlaceNames, AtPlaces
  <2>4. QED  BY <2>1, <2>2, <2>3
<1>4. QED  BY <1>2, <1>3 DEF Conservation, AcceptedKeys

\* hs_send's message is in one place from the moment it is accepted: waiting,
\* in an inbox, processed, or refused; never lost, never routed twice, and
\* nothing waits that was not accepted since hs_clear.
THEOREM NothingIsLost == Spec => []Conservation
BY Invariance, KeysConserved, PTL

\* The first part of AnsweredOnce: an applied request for an acknowledgement
\* has one, and nothing applied has two results.
LEMMA AnsweredAtMostOnce ==
  FInv => \A j \in DOMAIN applied :
            /\ Acknowledged(applied[j]) => Times(<<applied[j].id, "ACK">>) = 1
            /\ Times(<<applied[j].id, "RESULT">>) <= 1
<1> SUFFICES ASSUME FInv, NEW j \in DOMAIN applied
             PROVE  /\ Acknowledged(applied[j]) => Times(<<applied[j].id, "ACK">>) = 1
                    /\ Times(<<applied[j].id, "RESULT">>) <= 1
  OBVIOUS
<1> DEFINE m == applied[j]
<1>1. FabricTypes /\ Batches /\ Fates /\ Replies  BY DEF FInv
<1>2. m \in Message  BY <1>1 DEF FabricTypes
<1>3. m.id \in Id  BY <1>2, MessageFields
<1>4. <<m.id, "ACK">> \in Tracked /\ <<m.id, "RESULT">> \in Tracked  BY <1>3 DEF Tracked
<1>5. Single(<<m.id, "ACK">>) /\ Single(<<m.id, "RESULT">>)  BY <1>1, <1>4 DEF Fates
<1>6. Acknowledged(m) => Where(<<m.id, "ACK">>) # {}  BY <1>1, <1>3 DEF Replies
<1>7. QED  BY <1>1, <1>5, <1>6, TimesOf

-----------------------------------------------------------------------------
(* What a step does to the messages on their way out of the lanes.         *)

\* A message is routed, which may be the next of the outbox.
RouteStep(m) ==
  /\ m \in Message /\ Routed(m) /\ UNCHANGED recordMask
  /\ \/ UNCHANGED outbox
     \/ outbox # <<>> /\ outbox' = Tail(outbox) /\ m = Head(outbox) /\ Settled(m)

\* Node nd processes m, and answers what it has to answer or counts the loss.
PopStep(nd, m) ==
  /\ Pops(nd, m) /\ UNCHANGED <<log, recording, refused>>
  /\ \/ UNCHANGED <<outbox, dropped>> /\ ~ Answered(m)
     \/ UNCHANGED outbox /\ dropped' = ResultLost
     \/ /\ UNCHANGED dropped
        /\ \E e \in Message : Key(e) = <<m.id, "RESULT">> /\ outbox' = Append(outbox, e)
  /\ UNCHANGED recordMask \/ Settings(m)

\* Nothing leaves a lane or an inbox.
RestStep ==
  /\ UNCHANGED <<inbox, outbox, applied, refused, log, recording, dropped>>
  /\ UNCHANGED recordMask \/ recordMask' \in Masks

LEMMA NodeStep ==
  ASSUME FInv, NodeApply \/ SystemApply
  PROVE  \E nd, m : PopStep(nd, m)
<1>1. FabricTypes /\ Contents  BY DEF FInv
<1>2. inbox[Node] # <<>> /\ inbox' = Popped /\ applied' = Append(applied, Next1)
      /\ UNCHANGED <<log, recording, refused>>
  BY DEF NodeApply, SystemApply
<1>3. PICK nd, m : nd = Node /\ m = Next1  OBVIOUS
<1>4. Pops(nd, m)  BY <1>1, <1>2, <1>3, NodeInHand DEF Pops, Popped, Next1
<1>5. m.to = nd /\ m.op \notin FrameOps \cup {"FENCE"}
  <2>1. inbox[nd] \in Seq(Message) /\ inbox[nd] # <<>> /\ m = Head(inbox[nd]) /\ nd \in Registered
    BY <1>1, <1>4 DEF Pops, FabricTypes
  <2>2. m = inbox[nd][1] /\ 1 \in DOMAIN inbox[nd]  BY <2>1, Tailed
  <2>3. QED  BY <1>1, <2>1, <2>2 DEF Contents
<1>6. CASE NodeApply
  <2>1. nd # System /\ UNCHANGED <<outbox, dropped, recordMask>>  BY <1>3, <1>6 DEF NodeApply
  <2>2. ~ Answered(m)  BY <1>5, <2>1 DEF Answered
  <2>3. QED  BY <1>2, <1>4, <2>1, <2>2 DEF PopStep
<1>7. CASE SystemApply
  <2>1. IF m.op \in ControlOps \ {"FENCE"} THEN Settings(m) /\ EmitResult(m)
        ELSE UNCHANGED <<recordMask, policyVars, payload, outbox, dropped>>
    BY <1>3, <1>7 DEF SystemApply
  <2>2. CASE m.op \in ControlOps \ {"FENCE"}
    <3> DEFINE res == ResultOf(m, payload.head)
    <3>1. m \in Message /\ payload.head \in Nat  BY <1>1, <1>4 DEF Pops, FabricTypes
    <3>2. res \in Message /\ Key(res) = <<m.id, "RESULT">>  BY <3>1, ReportsMade
    <3>3. \/ outbox' = Append(outbox, res) /\ UNCHANGED dropped
          \/ dropped' = ResultLost /\ UNCHANGED outbox
      BY <2>1, <2>2 DEF EmitResult
    <3> HIDE DEF res
    <3>4. QED  BY <1>2, <1>4, <2>1, <2>2, <3>2, <3>3 DEF PopStep
  <2>3. CASE m.op \notin ControlOps \ {"FENCE"}
    <3>1. ~ Answered(m)  BY <1>5, <2>3 DEF Answered
    <3>2. QED  BY <1>2, <1>4, <2>1, <2>3, <3>1 DEF PopStep
  <2>4. QED  BY <2>2, <2>3
<1>8. QED  BY <1>6, <1>7

LEMMA StepKinds ==
  ASSUME FInv, [Next]_vars
  PROVE  (\E m : RouteStep(m)) \/ (\E nd, m : PopStep(nd, m)) \/ Clear \/ RestStep
<1>1. FabricTypes /\ Batches /\ Contents  BY DEF FInv
<1>2. RingType(payload)  BY <1>1 DEF FabricTypes, RingType
<1>3. ASSUME NEW p \in Producers, SendCall(p) \/ SendGoesOn(p) PROVE RestStep
  <2>1. UNCHANGED <<outbox, applied, refused, routeVars>>
    BY <1>3 DEF SendCall, SendGoesOn, SpscPush, SpscFull, TelemDrop, SubmitEnqueue, SendFails, SendWaits,
                SendRetries, fateVars
  <2>2. QED  BY <2>1 DEF RestStep, routeVars
<1>4. CASE LaneRoute
  <2>1. BatchItem \in Message
    <3>1. step.at = "route" /\ step.i < step.n  BY <1>4 DEF LaneRoute
    <3>2. Ch \in Channel /\ step.lane \in LaneIds /\ Unrouted(Ch, step.lane) # <<>>
          /\ BatchItem = Head(Unrouted(Ch, step.lane))
      BY <1>1, <3>1, BatchWaits
    <3>3. QED  BY <1>1, <3>2, UnroutedSeq, Tailed
  <2>2. Route(BatchItem) /\ UNCHANGED outbox  BY <1>4 DEF LaneRoute
  <2>3. QED  BY <1>1, <2>1, <2>2, RouteCases DEF RouteStep
<1>5. CASE SubmitRoute
  <2>1. Head(submit[Ch]) \in Message
    <3>1. submit[Ch] # <<>> /\ submit[Ch] \in Seq(Message)
      BY <1>1, <1>5, DrainedChannel DEF SubmitRoute, SubmitLeft, FabricTypes
    <3>2. QED  BY <3>1, Tailed
  <2>2. Route(Head(submit[Ch])) /\ UNCHANGED outbox  BY <1>5 DEF SubmitRoute
  <2>3. QED  BY <1>1, <2>1, <2>2, RouteCases DEF RouteStep
<1>6. CASE OutboxRoute
  <2>1. outbox # <<>> /\ outbox' = Tail(outbox) /\ Route(Head(outbox)) /\ outbox \in Seq(Message)
    BY <1>1, <1>6 DEF OutboxRoute, FabricTypes
  <2>2. Head(outbox) \in Message  BY <2>1, Tailed
  <2>3. QED  BY <1>1, <2>1, <2>2, RouteCases DEF RouteStep
<1>7. CASE AckRouted \/ AckDropped \/ AckWaits
  <2>1. PICK m \in Message : m = step.ack /\ m.op = "ACK"
    BY <1>1, <1>7 DEF AckRouted, AckDropped, AckWaits, Batches
  <2>2. CASE AckRouted
    <3>1. RouteAccepts(m) /\ UNCHANGED <<applied, refused, outbox>>  BY <2>1, <2>2 DEF AckRouted, fateVars
    <3>2. Apply(m)  BY <2>1, <3>1 DEF Apply, FrameOps
    <3>3. QED  BY <1>1, <1>2, <3>1, <3>2, AcceptCases DEF Routed, RouteStep
  <2>3. CASE AckDropped \/ AckWaits
    <3>1. RouteRefuses(m) /\ UNCHANGED <<applied, outbox>>
          /\ (refused' = refused \/ refused' = refused \cup {Key(m)})
      BY <2>1, <2>3 DEF AckDropped, AckWaits, fateVars
    <3>2. QED  BY <1>1, <1>2, <3>1, RefuseCases DEF Routed, RouteStep
  <2>4. QED  BY <1>7, <2>2, <2>3
<1>8. CASE NodeApply \/ SystemApply  BY <1>8, NodeStep
<1>9. CASE \/ StepBegin \/ LaneTake \/ LaneNext \/ LanesDone \/ LaneRelease \/ ChannelDone \/ NodeDone
           \/ StepEnd \/ UNCHANGED vars
  <2>1. UNCHANGED <<outbox, fateVars, routeVars>>
    BY <1>9 DEF StepBegin, LaneTake, LaneNext, LanesDone, LaneRelease, ChannelDone, NodeDone, StepEnd, vars
  <2>2. QED  BY <2>1 DEF RestStep, fateVars, routeVars
<1>10. CASE \E mask \in Masks : SetRecordMask(mask)
  BY <1>10 DEF SetRecordMask, RestStep, fateVars
<1>11. QED
  BY <1>3, <1>4, <1>5, <1>6, <1>7, <1>8, <1>9, <1>10 DEF Next, StepGoesOn

-----------------------------------------------------------------------------
(* No refusal goes unreported.                                             *)

Told(s) == {j \in DOMAIN s : s[j].op \in Reports}

LEMMA NoticesCount ==
  ASSUME NEW s \in Seq(Message)
  PROVE  IsFiniteSet(Told(s)) /\ Notices(s) = Cardinality(Told(s)) /\ Notices(s) \in Nat
<1>1. DOMAIN s = 1 .. Len(s) /\ Len(s) \in Nat  OBVIOUS
<1>2. IsFiniteSet(1 .. Len(s))  BY <1>1, FS_Interval
<1>3. Told(s) \subseteq 1 .. Len(s)  BY <1>1 DEF Told
<1>4. IsFiniteSet(Told(s))  BY <1>2, <1>3, FS_Subset
<1>5. Notices(s) = Cardinality(Told(s))  BY DEF Notices, Told
<1>6. QED  BY <1>4, <1>5, FS_CardinalityType

LEMMA NoticesAppended ==
  ASSUME NEW s \in Seq(Message), NEW m \in Message
  PROVE  /\ Notices(Append(s, m)) = Notices(s) + (IF m.op \in Reports THEN 1 ELSE 0)
         /\ Append(s, m) \in Seq(Message)
<1> DEFINE q == Append(s, m)
           L == Len(s) + 1
<1>1. /\ q \in Seq(Message) /\ L \in DOMAIN q /\ q[L] = m /\ DOMAIN s = 1 .. Len(s) /\ Len(s) \in Nat
      /\ \A i \in DOMAIN s : i \in DOMAIN q /\ q[i] = s[i]
      /\ \A i \in DOMAIN q : i \in DOMAIN s \/ i = L
  BY Appended
<1>2. L \notin DOMAIN s  BY <1>1
<1> HIDE DEF q, L
<1>3. Told(q) = IF m.op \in Reports THEN Told(s) \cup {L} ELSE Told(s)  BY <1>1, <1>2 DEF Told
<1>4. L \notin Told(s)  BY <1>2 DEF Told
<1>5. Cardinality(Told(s) \cup {L}) = Cardinality(Told(s)) + 1
  BY <1>4, NoticesCount, FS_AddElement
<1>6. Notices(q) = Cardinality(Told(q)) /\ Notices(s) = Cardinality(Told(s)) /\ Notices(s) \in Nat
  BY <1>1, NoticesCount
<1>7. QED  BY <1>1, <1>3, <1>5, <1>6 DEF q

LEMMA NoticesTailed ==
  ASSUME NEW s \in Seq(Message), s # <<>>
  PROVE  Notices(s) = Notices(Tail(s)) + (IF Head(s).op \in Reports THEN 1 ELSE 0)
<1> DEFINE q == Tail(s)
           f == [i \in Told(q) |-> i + 1]
<1>1. /\ q \in Seq(Message) /\ Head(s) = s[1] /\ 1 \in DOMAIN s
      /\ DOMAIN q \subseteq Int /\ DOMAIN s \subseteq Int
      /\ \A i \in DOMAIN q : i + 1 \in DOMAIN s /\ i + 1 > 1 /\ q[i] = s[i + 1]
      /\ \A i \in DOMAIN s : i = 1 \/ (i - 1 \in DOMAIN q /\ q[i - 1] = s[i])
  BY Tailed
<1> HIDE DEF q
<1>2. Told(q) \subseteq Int /\ Told(s) \subseteq Int  BY <1>1 DEF Told
<1>3. \A i \in Told(q) : i + 1 \in Told(s) \ {1}  BY <1>1, <1>2 DEF Told
<1>4. \A j \in Told(s) \ {1} : j - 1 \in Told(q) /\ (j - 1) + 1 = j
  <2>1. \A j \in Told(s) \ {1} : (j - 1) + 1 = j  BY <1>2
  <2>2. \A j \in Told(s) \ {1} : j - 1 \in DOMAIN q /\ q[j - 1] = s[j] /\ s[j].op \in Reports
    BY <1>1 DEF Told
  <2>3. QED  BY <2>1, <2>2 DEF Told
<1>5. ExistsBijection(Told(q), Told(s) \ {1})
  <2>1. f \in [Told(q) -> Told(s) \ {1}]  BY <1>3
  <2>2. \A i, j \in Told(q) : f[i] = f[j] => i = j
    <3>1. \A i \in Told(q) : f[i] = i + 1 /\ i \in Int  BY <1>2
    <3> HIDE DEF f
    <3>2. QED  BY <3>1
  <2>3. \A j \in Told(s) \ {1} : \E i \in Told(q) : f[i] = j  BY <1>4
  <2> HIDE DEF f
  <2>4. f \in Bijection(Told(q), Told(s) \ {1})
    BY <2>1, <2>2, <2>3 DEF Bijection, Injection, IsInjective, Surjection
  <2>5. QED  BY <2>4 DEF ExistsBijection
<1>6. /\ IsFiniteSet(Told(q)) /\ Notices(q) = Cardinality(Told(q)) /\ Notices(q) \in Nat
      /\ IsFiniteSet(Told(s)) /\ Notices(s) = Cardinality(Told(s)) /\ Notices(s) \in Nat
  BY <1>1, NoticesCount
<1>7. Cardinality(Told(s) \ {1}) = Notices(q)
  <2>1. IsFiniteSet(Told(q)) /\ Notices(q) = Cardinality(Told(q))  BY <1>6
  <2>2. QED  BY <1>5, <2>1, FS_Bijection
<1>8. Cardinality(Told(s) \ {1}) = IF 1 \in Told(s) THEN Notices(s) - 1 ELSE Notices(s)
  BY <1>6, FS_RemoveElement
<1>9. 1 \in Told(s) <=> Head(s).op \in Reports  BY <1>1 DEF Told
<1>10. QED  BY <1>6, <1>7, <1>8, <1>9 DEF q

Losses == {"systemNonRt", "queueFull", "errorEx"}
Uncapped == \A counter \in Losses : dropped[counter] < CountMax
Counted == dropped.systemNonRt + dropped.queueFull + dropped.errorEx
Noticed == Notices(inbox[System]) + Notices(applied)

Reported == IsFiniteSet(refused) /\ (Uncapped => Cardinality(refused) <= Counted + Noticed)

LEMMA CountsKept ==
  ASSUME dropped \in DropTypes, dropped' = dropped \/ dropped' = ResultLost
  PROVE  Counted' = Counted /\ (Uncapped' <=> Uncapped)
<1>1. \A counter \in Losses : dropped'[counter] = dropped[counter]
  <2>1. \A counter \in Losses : counter # "result" /\ counter \in DOMAIN dropped
    BY DEF Losses, DropTypes
  <2>2. CASE dropped' = ResultLost
    <3>1. dropped' = [dropped EXCEPT !["result"] = dropped'["result"]]
      BY <2>2 DEF ResultLost, Bump, DropTypes
    <3>2. QED  BY <2>1, <3>1
  <2>3. QED  BY <2>2
<1>2. "systemNonRt" \in Losses /\ "queueFull" \in Losses /\ "errorEx" \in Losses  BY DEF Losses
<1>3. QED  BY <1>1, <1>2 DEF Counted, Uncapped

LEMMA CountsBumped ==
  ASSUME dropped \in DropTypes, NEW counter \in Losses, dropped' = Bump(counter), Uncapped'
  PROVE  Uncapped /\ Counted' = Counted + 1
<1> DEFINE n == IF dropped[counter] < CountMax THEN dropped[counter] + 1 ELSE dropped[counter]
<1>1. dropped' = [dropped EXCEPT ![counter] = n] /\ counter \in DOMAIN dropped
      /\ \A c \in Losses : c \in DOMAIN dropped /\ dropped[c] \in Nat
  BY DEF Bump, DropTypes, Losses
<1>2. n \in Nat /\ n >= dropped[counter] /\ (n < CountMax => n = dropped[counter] + 1)
  BY <1>1, CountAssumption
<1> HIDE DEF n
<1>3. dropped'[counter] = n /\ \A c \in Losses : c # counter => dropped'[c] = dropped[c]  BY <1>1
<1>4. n < CountMax  BY <1>3 DEF Uncapped
<1>5. Uncapped  BY <1>1, <1>2, <1>3, <1>4, CountAssumption DEF Uncapped
<1>6. /\ dropped.systemNonRt \in Nat /\ dropped.queueFull \in Nat /\ dropped.errorEx \in Nat
  BY DEF DropTypes
<1>7. CASE counter = "systemNonRt"
  BY <1>2, <1>3, <1>4, <1>5, <1>6, <1>7 DEF Counted, Losses
<1>8. CASE counter = "queueFull"
  BY <1>2, <1>3, <1>4, <1>5, <1>6, <1>8 DEF Counted, Losses
<1>9. CASE counter = "errorEx"
  BY <1>2, <1>3, <1>4, <1>5, <1>6, <1>9 DEF Counted, Losses
<1>10. QED  BY <1>5, <1>7, <1>8, <1>9 DEF Losses

LEMMA PushNoticed ==
  ASSUME FabricTypes, NEW nd \in Registered, NEW m \in Message, inbox' = Push(nd, m)
  PROVE  /\ Notices(inbox'[System]) \in Nat /\ Notices(inbox'[System]) >= Notices(inbox[System])
         /\ nd = System /\ m.op \in Reports => Notices(inbox'[System]) = Notices(inbox[System]) + 1
<1>1. System \in Registered  BY OpsApart
<1>2. inbox[System] \in Seq(Message)  BY <1>1 DEF FabricTypes
<1>3. Notices(inbox[System]) \in Nat  BY <1>2, NoticesCount
<1>4. inbox'[System] = inbox[System] \/ inbox'[System] = Append(inbox[System], m)
  BY <1>1, PushType
<1>5. nd = System => inbox'[System] = Append(inbox[System], m)  BY <1>1, PushType
<1>6. Notices(Append(inbox[System], m)) = Notices(inbox[System]) + (IF m.op \in Reports THEN 1 ELSE 0)
  BY <1>2, NoticesAppended
<1>7. \/ nd # System /\ Notices(inbox'[System]) = Notices(inbox[System])
      \/ Notices(inbox'[System]) = Notices(inbox[System]) + (IF m.op \in Reports THEN 1 ELSE 0)
  <2>1. CASE inbox'[System] = Append(inbox[System], m)  BY <1>6, <2>1
  <2>2. CASE inbox'[System] # Append(inbox[System], m)  BY <1>4, <1>5, <2>2
  <2>3. QED  BY <2>1, <2>2
<1>8. QED  BY <1>3, <1>7

LEMMA NoticedTypes ==
  ASSUME FabricTypes
  PROVE  /\ Notices(inbox[System]) \in Nat /\ Notices(applied) \in Nat /\ Counted \in Nat
         /\ dropped \in DropTypes /\ applied \in Seq(Message) /\ inbox[System] \in Seq(Message)
<1>1. System \in Registered  BY OpsApart
<1>2. applied \in Seq(Message) /\ inbox[System] \in Seq(Message) /\ dropped \in DropTypes
  BY <1>1 DEF FabricTypes, DropTypes
<1>3. dropped.systemNonRt \in Nat /\ dropped.queueFull \in Nat /\ dropped.errorEx \in Nat
  BY <1>2 DEF DropTypes
<1>4. QED  BY <1>2, <1>3, NoticesCount, SMTT(30) DEF Counted

LEMMA RouteReports ==
  ASSUME FabricTypes, Reported, NEW m, RouteStep(m)
  PROVE  Reported'
<1>1. m \in Message /\ Routed(m) /\ IsFiniteSet(refused)  BY DEF RouteStep, Reported
<1>2. CASE Delivered(m) \/ Handled(m)
  <2>1. UNCHANGED refused /\ (dropped' = dropped \/ dropped' = ResultLost)
        /\ (applied' = applied \/ applied' = Append(applied, m))
        /\ (UNCHANGED inbox \/ \E nd \in Registered, x \in Message : inbox' = Push(nd, x))
    BY <1>2, OpsApart DEF Delivered, Handled
  <2>2. Notices(applied') \in Nat /\ Notices(applied') >= Notices(applied)
    <3>1. Notices(Append(applied, m)) = Notices(applied) + (IF m.op \in Reports THEN 1 ELSE 0)
      BY <1>1, NoticedTypes, NoticesAppended
    <3>2. Notices(applied') \in {Notices(applied), Notices(applied) + 1}
      <4>1. applied' = applied => Notices(applied') = Notices(applied)  OBVIOUS
      <4>2. applied' = Append(applied, m) => Notices(applied') = Notices(Append(applied, m))  OBVIOUS
      <4>3. QED  BY <2>1, <3>1, <4>1, <4>2, NoticedTypes
    <3>3. QED  BY <3>2, NoticedTypes
  <2>3. Notices(inbox'[System]) \in Nat /\ Notices(inbox'[System]) >= Notices(inbox[System])
    BY <2>1, PushNoticed, NoticedTypes
  <2>4. Counted' = Counted /\ (Uncapped' <=> Uncapped)  BY <2>1, NoticedTypes, CountsKept
  <2>5. Cardinality(refused) \in Nat  BY <1>1, FS_CardinalityType
  <2>6. Noticed' >= Noticed /\ Noticed' \in Nat /\ Noticed \in Nat /\ Counted \in Nat
    BY <2>2, <2>3, NoticedTypes DEF Noticed
  <2>7. QED  BY <2>1, <2>4, <2>5, <2>6 DEF Reported
<1>3. CASE Thrown(m)
  <2>1. UNCHANGED applied /\ (refused' = refused \/ refused' = refused \cup {Key(m)})  BY <1>3 DEF Thrown
  <2>2. IsFiniteSet(refused') /\ Cardinality(refused') <= Cardinality(refused) + 1
        /\ Cardinality(refused') \in Nat /\ Cardinality(refused) \in Nat
    <3>1. /\ IsFiniteSet(refused \cup {Key(m)})
          /\ Cardinality(refused \cup {Key(m)}) \in {Cardinality(refused), Cardinality(refused) + 1}
      BY <1>1, FS_AddElement
    <3>2. Cardinality(refused) \in Nat  BY <1>1, FS_CardinalityType
    <3>3. QED  BY <1>1, <2>1, <3>1, <3>2
  <2>3. ASSUME Uncapped' PROVE Uncapped /\ Counted' + Noticed' = (Counted + Noticed) + 1
    <3>1. CASE UNCHANGED inbox /\ \E counter \in Losses : dropped' = Bump(counter)
      <4>1. Noticed' = Noticed /\ Noticed \in Nat /\ Counted \in Nat
        BY <2>1, <3>1, NoticedTypes DEF Noticed
      <4>2. Uncapped /\ Counted' = Counted + 1  BY <2>3, <3>1, NoticedTypes, CountsBumped
      <4>3. QED  BY <4>1, <4>2
    <3>2. CASE UNCHANGED dropped /\ \E x \in Message : x.op \in Reports /\ inbox' = Push(System, x)
      <4>1. Counted' = Counted /\ Uncapped  BY <2>3, <3>2 DEF Counted, Uncapped
      <4>2. Notices(inbox'[System]) = Notices(inbox[System]) + 1  BY <3>2, OpsApart, PushNoticed
      <4>3. QED  BY <2>1, <4>1, <4>2, NoticedTypes DEF Noticed
    <3>3. QED  BY <1>3, <3>1, <3>2 DEF Thrown, Losses
  <2>4. Counted \in Nat /\ Noticed \in Nat  BY NoticedTypes DEF Noticed
  <2>5. QED  BY <2>2, <2>3, <2>4 DEF Reported
<1>4. QED  BY <1>1, <1>2, <1>3 DEF Routed

LEMMA PopReports ==
  ASSUME FabricTypes, Reported, NEW nd, NEW m, PopStep(nd, m)
  PROVE  Reported'
<1>1. /\ Pops(nd, m) /\ m \in Message /\ UNCHANGED refused /\ (dropped' = dropped \/ dropped' = ResultLost)
      /\ applied' = Append(applied, m) /\ m = Head(inbox[nd]) /\ inbox[nd] # <<>>
  BY DEF PopStep, Pops
<1>2. Counted' = Counted /\ (Uncapped' <=> Uncapped)  BY <1>1, NoticedTypes, CountsKept
<1>3. Notices(applied') = Notices(applied) + (IF m.op \in Reports THEN 1 ELSE 0)
  BY <1>1, NoticedTypes, NoticesAppended
<1>4. Noticed' \in Nat /\ Noticed' >= Noticed
  <2>1. CASE nd = System
    <3>1. inbox'[System] = Tail(inbox[System])  BY <1>1, <2>1, PopsInbox
    <3>2. Notices(inbox[System]) = Notices(inbox'[System]) + (IF m.op \in Reports THEN 1 ELSE 0)
      BY <1>1, <2>1, <3>1, NoticedTypes, NoticesTailed
    <3>3. inbox'[System] \in Seq(Message)  BY <1>1, <2>1, <3>1, NoticedTypes, Tailed
    <3>4. Notices(inbox'[System]) \in Nat  BY <3>3, NoticesCount
    <3>5. QED  BY <1>3, <3>2, <3>4, NoticedTypes DEF Noticed
  <2>2. CASE nd # System
    <3>1. inbox'[System] = inbox[System]  BY <1>1, <2>2, PopsInbox, OpsApart
    <3>2. QED  BY <1>3, <3>1, NoticedTypes DEF Noticed
  <2>3. QED  BY <2>1, <2>2
<1>5. Cardinality(refused) \in Nat  BY FS_CardinalityType DEF Reported
<1>6. Noticed \in Nat /\ Counted \in Nat  BY NoticedTypes DEF Noticed
<1>7. QED  BY <1>1, <1>2, <1>4, <1>5, <1>6 DEF Reported

LEMMA ReportedAtFirst ==
  ASSUME FabricTypes, refused = {}
  PROVE  Reported
<1>1. IsFiniteSet(refused) /\ Cardinality(refused) = 0  BY FS_EmptySet
<1>2. QED  BY <1>1, NoticedTypes DEF Reported, Noticed

\* Every message hs_step throws away shows: it is counted in a drop counter,
\* or a QUEUE_FULL or ERROR_EX about it is on its way to the system node or
\* has been counted there.
THEOREM NoSilentLoss == Spec => []LossIsReported
<1>1. Init => Reported  BY InitHolds, ReportedAtFirst DEF FInv, Init
<1>2. ASSUME FInv, FInv', Reported, [Next]_vars PROVE Reported'
  <2>1. FabricTypes /\ FabricTypes'  BY <1>2 DEF FInv
  <2>2. CASE \E m : RouteStep(m)  BY <1>2, <2>1, <2>2, RouteReports
  <2>3. CASE \E nd, m : PopStep(nd, m)  BY <1>2, <2>1, <2>3, PopReports
  <2>4. CASE Clear
    <3>1. (FabricTypes /\ refused = {} => Reported)'  BY ReportedAtFirst, PTL
    <3>2. QED  BY <2>1, <2>4, <3>1 DEF Clear
  <2>5. CASE RestStep
    BY <1>2, <2>5 DEF RestStep, Reported, Uncapped, Counted, Noticed
  <2>6. QED  BY <1>2, <2>2, <2>3, <2>4, <2>5, StepKinds
<1>3. Reported /\ FInv => LossIsReported
  <2> SUFFICES ASSUME Reported, FInv PROVE LossIsReported
    OBVIOUS
  <2>1. FabricTypes  BY DEF FInv
  <2>2. Counted + Noticed = dropped.systemNonRt + dropped.queueFull + dropped.errorEx
                              + Notices(inbox[System]) + Notices(applied)
    <3>1. dropped.systemNonRt \in Nat /\ dropped.queueFull \in Nat /\ dropped.errorEx \in Nat
      BY <2>1, NoticedTypes DEF DropTypes
    <3>2. QED  BY <2>1, <3>1, NoticedTypes DEF Counted, Noticed
  <2>3. QED  BY <2>2 DEF LossIsReported, Reported, Uncapped, Losses
<1>4. QED  BY <1>1, <1>2, <1>3, Invariance, PTL DEF Spec

-----------------------------------------------------------------------------
(* No answer is missing that is not counted as lost.                       *)

\* The result of request id is somewhere.
HasResult(id) ==
  \/ Has(outbox, <<id, "RESULT">>) \/ Has(inbox[System], <<id, "RESULT">>)
  \/ Has(applied, <<id, "RESULT">>) \/ <<id, "RESULT">> \in refused

LEMMA ResultsAt ==
  FInv => \A id : Where(<<id, "RESULT">>) # {} <=> HasResult(id)
<1> SUFFICES ASSUME FInv, NEW id PROVE Where(<<id, "RESULT">>) # {} <=> HasResult(id)
  OBVIOUS
<1> DEFINE k == <<id, "RESULT">>
<1>1. FabricTypes /\ Batches /\ Contents  BY DEF FInv
<1>2. System \in Registered /\ "RESULT" \in SystemOps /\ "RESULT" \notin UserOps  BY OpsApart DEF SystemOps
<1>3. HasResult(id) => Where(k) # {}  BY <1>2, PlaceNames, AtPlaces DEF Where, HasResult
<1>4. ASSUME NEW x \in Place, Has(At(x), k) PROVE HasResult(id)
  <2>1. PICK i \in DOMAIN At(x) : Key(At(x)[i]) = k  BY <1>4 DEF Has
  <2>2. At(x)[i].op = "RESULT"  BY <2>1 DEF Key
  <2>3. ASSUME NEW c \in Channel, NEW l \in LaneIds, x = <<"lane", c, l>> PROVE FALSE
    BY <1>1, <1>2, <2>2, <2>3, AtPlaces DEF Contents
  <2>4. ASSUME NEW c \in Channel, x = <<"submit", c>> PROVE FALSE
    BY <1>1, <1>2, <2>2, <2>4, AtPlaces DEF Contents
  <2>5. ASSUME x = <<"ack">> PROVE FALSE
    <3>1. At(x) = Acking /\ i \in DOMAIN Acking  BY <2>5, AtPlaces
    <3>2. step.at = "ack" /\ Acking = <<step.ack>>  BY <3>1 DEF Acking
    <3>3. At(x)[i] = step.ack  BY <3>1, <3>2
    <3>4. QED  BY <1>1, <2>2, <3>2, <3>3 DEF Batches
  <2>6. ASSUME NEW nd \in Registered, x = <<"inbox", nd>> PROVE nd = System
    <3>1. inbox[nd] \in Seq(Message) /\ At(x) = inbox[nd]  BY <1>1, <2>6, AtPlaces DEF FabricTypes
    <3>2. inbox[nd][i].to = nd  BY <1>1, <2>1, <3>1 DEF Contents
    <3>3. inbox[nd][i] \in Message  BY <2>1, <3>1
    <3>4. inbox[nd][i].to = System  BY <1>2, <2>2, <3>1, <3>3, MessageFields
    <3>5. QED  BY <3>2, <3>4
  <2>7. QED  BY <1>4, <2>3, <2>4, <2>5, <2>6, PlaceCases, AtPlaces DEF HasResult
<1>5. Where(k) # {} => HasResult(id)  BY <1>4 DEF Where, HasResult
<1>6. QED  BY <1>3, <1>5

LEMMA HasPushed ==
  ASSUME FabricTypes, NEW nd \in Registered, NEW x \in Message, inbox' = Push(nd, x), NEW k
  PROVE  /\ Has(inbox[System], k) => Has(inbox'[System], k)
         /\ nd = System => Has(inbox'[System], Key(x))
<1>1. System \in Registered /\ inbox[System] \in Seq(Message)  BY OpsApart DEF FabricTypes
<1>2. inbox'[System] = inbox[System] \/ inbox'[System] = Append(inbox[System], x)  BY <1>1, PushType
<1>3. nd = System => inbox'[System] = Append(inbox[System], x)  BY <1>1, PushType
<1>4. Has(Append(inbox[System], x), Key(x)) /\ (Has(inbox[System], k) => Has(Append(inbox[System], x), k))
  BY <1>1, HasAppended
<1>5. QED  BY <1>2, <1>3, <1>4

LEMMA RouteAnswers ==
  ASSUME FabricTypes, NEW m, RouteStep(m)
  PROVE  /\ \A id : HasResult(id) => HasResult(id)'
         /\ \/ applied' = applied
            \/ /\ applied' = Append(applied, m)
               /\ ~ Answered(m) \/ HasResult(m.id)' \/ dropped' = ResultLost
<1>1. m \in Message /\ Routed(m) /\ applied \in Seq(Message) /\ outbox \in Seq(Message)
  BY DEF RouteStep, FabricTypes
<1>2. /\ applied' = applied \/ applied' = Append(applied, m)
      /\ refused \subseteq refused'
      /\ UNCHANGED inbox \/ \E nd \in Registered, x \in Message : inbox' = Push(nd, x)
  BY <1>1, OpsApart DEF Routed, Delivered, Handled, Thrown
<1>3. \A k : Has(applied, k) => Has(applied', k)  BY <1>1, <1>2, HasAppended
<1>4. \A k : Has(inbox[System], k) => Has(inbox'[System], k)  BY <1>2, HasPushed
<1>5. ASSUME NEW id, HasResult(id) PROVE HasResult(id)'
  <2> DEFINE k == <<id, "RESULT">>
  <2>1. CASE Has(inbox[System], k) \/ Has(applied, k) \/ k \in refused
    BY <1>2, <1>3, <1>4, <2>1 DEF HasResult
  <2>2. CASE Has(outbox, k)
    <3>1. CASE UNCHANGED outbox  BY <2>2, <3>1 DEF HasResult
    <3>2. CASE outbox # <<>> /\ outbox' = Tail(outbox) /\ m = Head(outbox) /\ Settled(m)
      <4>1. CASE k # Key(m)
        <5>1. Has(Tail(outbox), k)  BY <1>1, <2>2, <3>2, <4>1, HasTailed
        <5>2. QED  BY <3>2, <5>1 DEF HasResult
      <4>2. CASE k = Key(m)
        <5>1. m.op = "RESULT" /\ m.to = System  BY <1>1, <4>2, MessageFields DEF Key, SystemOps
        <5>2. CASE Delivered(m)
          <6>1. PICK x \in Message : Same(m, x) /\ inbox' = Push(System, x)  BY <5>1, <5>2 DEF Delivered
          <6>2. Key(x) = k  BY <4>2, <6>1 DEF Same, Key
          <6>3. Has(inbox'[System], k)  BY <6>1, <6>2, OpsApart, HasPushed
          <6>4. QED  BY <6>3 DEF HasResult
        <5>3. CASE Handled(m)  BY <5>1, <5>3 DEF Handled, FrameOps
        <5>4. CASE Thrown(m) /\ refused' = refused \cup {Key(m)}  BY <4>2, <5>4 DEF HasResult
        <5>5. QED  BY <3>2, <5>2, <5>3, <5>4 DEF Settled
      <4>3. QED  BY <4>1, <4>2
    <3>3. QED  BY <3>1, <3>2 DEF RouteStep
  <2>3. QED  BY <1>5, <2>1, <2>2 DEF HasResult
<1>6. ASSUME applied' = Append(applied, m), Handled(m)
      PROVE  ~ Answered(m) \/ HasResult(m.id)' \/ dropped' = ResultLost
  <2>1. CASE m.op # "FENCE"
    <3>1. m.op \in FrameOps  BY <1>6, <2>1 DEF Handled
    <3>2. m.op \notin ControlOps  BY <3>1 DEF FrameOps, ControlOps
    <3>3. QED  BY <3>2 DEF Answered
  <2>2. CASE \E x \in Message : Key(x) = <<m.id, "RESULT">> /\ inbox' = Push(System, x)
    <3>1. Has(inbox'[System], <<m.id, "RESULT">>)  BY <2>2, OpsApart, HasPushed
    <3>2. QED  BY <3>1 DEF HasResult
  <2>3. QED  BY <1>6, <2>1, <2>2 DEF Handled
<1>7. Delivered(m) \/ Thrown(m) => applied' = applied  BY DEF Delivered, Thrown
<1>8. QED  BY <1>1, <1>2, <1>5, <1>6, <1>7 DEF Routed

LEMMA PopAnswers ==
  ASSUME FabricTypes, NEW nd, NEW m, PopStep(nd, m)
  PROVE  /\ \A id : HasResult(id) => HasResult(id)'
         /\ applied' = Append(applied, m)
         /\ ~ Answered(m) \/ HasResult(m.id)' \/ dropped' = ResultLost
<1>1. /\ Pops(nd, m) /\ m \in Message /\ m = Head(inbox[nd]) /\ inbox[nd] # <<>>
      /\ applied' = Append(applied, m) /\ UNCHANGED refused
  BY DEF PopStep, Pops
<1>2. /\ inbox[nd] \in Seq(Message) /\ inbox'[nd] = Tail(inbox[nd]) /\ applied \in Seq(Message)
      /\ outbox \in Seq(Message) /\ (nd # System => inbox'[System] = inbox[System])
  BY <1>1, PopsInbox, OpsApart DEF FabricTypes
<1>3. \A k : (Has(applied, k) => Has(applied', k)) /\ Has(applied', Key(m))  BY <1>1, <1>2, HasAppended
<1>4. \A k : Has(inbox[System], k) => Has(inbox'[System], k) \/ k = Key(m)
  <2>1. CASE nd = System  BY <1>1, <1>2, <2>1, HasTailed
  <2>2. CASE nd # System  BY <1>2, <2>2
  <2>3. QED  BY <2>1, <2>2
<1>5. \/ UNCHANGED outbox
      \/ \E e \in Message : Key(e) = <<m.id, "RESULT">> /\ outbox' = Append(outbox, e)
  BY DEF PopStep
<1>6. \A k : Has(outbox, k) => Has(outbox', k)  BY <1>2, <1>5, HasAppended
<1>7. \A id : HasResult(id) => HasResult(id)'  BY <1>1, <1>3, <1>4, <1>6 DEF HasResult
<1>8. ASSUME NEW e \in Message, Key(e) = <<m.id, "RESULT">>, outbox' = Append(outbox, e)
      PROVE  HasResult(m.id)'
  <2>1. Has(outbox', <<m.id, "RESULT">>)  BY <1>2, <1>8, HasAppended
  <2>2. QED  BY <2>1 DEF HasResult
<1>9. ~ Answered(m) \/ HasResult(m.id)' \/ dropped' = ResultLost  BY <1>8 DEF PopStep
<1>10. QED  BY <1>1, <1>7, <1>9

\* What was applied, had to be answered, and has no answer.
Unanswered == {j \in DOMAIN applied : Answered(applied[j]) /\ ~ HasResult(applied[j].id)}
AnswersCounted ==
  /\ IsFiniteSet(Unanswered)
  /\ dropped.result < CountMax => Cardinality(Unanswered) <= dropped.result

LEMMA ResultDrops ==
  ASSUME FabricTypes, NEW m \in Message, Routed(m) \/ \E nd : PopStep(nd, m)
  PROVE  /\ dropped.result \in Nat /\ dropped'.result \in Nat /\ dropped'.result >= dropped.result
         /\ dropped' = ResultLost /\ dropped'.result < CountMax => dropped'.result = dropped.result + 1
<1>1. dropped \in DropTypes  BY DEF FabricTypes, DropTypes
<1>2. \A counter \in Losses \cup {"result"} : Bump(counter) \in DropTypes /\
        Bump(counter).result = IF counter # "result" \/ dropped.result >= CountMax
                                 THEN dropped.result ELSE dropped.result + 1
  <2> SUFFICES ASSUME NEW counter \in Losses \cup {"result"}
               PROVE  /\ Bump(counter) \in DropTypes
                      /\ Bump(counter).result = IF counter # "result" \/ dropped.result >= CountMax
                                                  THEN dropped.result ELSE dropped.result + 1
    OBVIOUS
  <2>1. Bump(counter) \in DropTypes  BY <1>1, BumpType DEF Losses
  <2>2. CASE counter = "result"  BY <1>1, <2>1, <2>2, CountAssumption DEF Bump, DropTypes
  <2>3. CASE counter # "result"  BY <1>1, <2>1, <2>3 DEF Bump, DropTypes
  <2>4. QED  BY <2>1, <2>2, <2>3
<1>3. \/ dropped' = dropped \/ dropped' = Bump("result")
      \/ \E counter \in Losses : dropped' = Bump(counter)
  BY DEF Routed, Delivered, Handled, Thrown, PopStep, ResultLost, Losses
<1>4. dropped.result \in Nat  BY <1>1 DEF DropTypes
<1>5. "result" \in Losses \cup {"result"} /\ "result" \notin Losses  BY DEF Losses
<1>6. QED  BY <1>2, <1>3, <1>4, <1>5, CountAssumption DEF ResultLost

LEMMA AppliedAnswers ==
  ASSUME FabricTypes, AnswersCounted, NEW m \in Message,
         Routed(m) \/ \E nd : PopStep(nd, m),
         \A id : HasResult(id) => HasResult(id)',
         \/ applied' = applied
         \/ /\ applied' = Append(applied, m)
            /\ ~ Answered(m) \/ HasResult(m.id)' \/ dropped' = ResultLost
  PROVE  AnswersCounted'
<1> DEFINE L == Len(applied) + 1
<1>1. applied \in Seq(Message)  BY DEF FabricTypes
<1>2. /\ dropped.result \in Nat /\ dropped'.result \in Nat /\ dropped'.result >= dropped.result
      /\ dropped' = ResultLost /\ dropped'.result < CountMax => dropped'.result = dropped.result + 1
  BY ResultDrops
<1>3. IsFiniteSet(Unanswered) /\ Cardinality(Unanswered) \in Nat
  BY FS_CardinalityType DEF AnswersCounted
<1>4. CASE Unanswered' \subseteq Unanswered
  <2>1. /\ IsFiniteSet(Unanswered') /\ Cardinality(Unanswered') <= Cardinality(Unanswered)
        /\ Cardinality(Unanswered') \in Nat
    BY <1>3, <1>4, FS_Subset, FS_CardinalityType
  <2>2. QED  BY <1>2, <1>3, <2>1, CountAssumption DEF AnswersCounted
<1>5. CASE Unanswered' \subseteq Unanswered \cup {L} /\ dropped' = ResultLost
  <2>1. /\ IsFiniteSet(Unanswered \cup {L})
        /\ Cardinality(Unanswered \cup {L}) \in {Cardinality(Unanswered), Cardinality(Unanswered) + 1}
    BY <1>3, FS_AddElement
  <2>2. IsFiniteSet(Unanswered') /\ Cardinality(Unanswered') <= Cardinality(Unanswered \cup {L})
    BY <1>5, <2>1, FS_Subset
  <2>3. Cardinality(Unanswered') \in Nat  BY <2>2, FS_CardinalityType
  <2>4. QED  BY <1>2, <1>3, <1>5, <2>1, <2>2, <2>3, CountAssumption DEF AnswersCounted
<1>6. CASE applied' = applied
  <2>1. Unanswered' \subseteq Unanswered  BY <1>6 DEF Unanswered
  <2>2. QED  BY <1>4, <2>1
<1>7. CASE applied' = Append(applied, m)
  <2>1. /\ \A i \in DOMAIN applied : applied'[i] = applied[i]
        /\ \A i \in DOMAIN applied' : i \in DOMAIN applied \/ i = L
        /\ applied'[L] = m
    BY <1>1, <1>7, Appended
  <2> HIDE DEF L
  <2>2. Unanswered' \subseteq Unanswered \cup {L}  BY <2>1 DEF Unanswered
  <2>3. ~ Answered(m) \/ HasResult(m.id)' => Unanswered' \subseteq Unanswered
    BY <2>1 DEF Unanswered
  <2>4. ~ Answered(m) \/ HasResult(m.id)' \/ dropped' = ResultLost \/ applied' = applied  OBVIOUS
  <2>5. QED  BY <1>4, <1>5, <1>6, <2>2, <2>3, <2>4
<1>8. QED  BY <1>6, <1>7

LEMMA AnswersCountedAtFirst ==
  ASSUME FabricTypes, applied = <<>>
  PROVE  AnswersCounted
<1>1. Unanswered = {}  BY DEF Unanswered
<1>2. dropped.result \in Nat  BY DEF FabricTypes
<1>3. QED  BY <1>1, <1>2, FS_EmptySet DEF AnswersCounted

\* An applied request for an acknowledgement has exactly one on its way, and
\* a query, setting or fence one result, unless the loss has been counted.
THEOREM EveryRequestIsAnswered == Spec => []AnsweredOnce
<1>1. Init => AnswersCounted  BY InitHolds, AnswersCountedAtFirst DEF FInv, Init
<1>2. ASSUME FInv, FInv', AnswersCounted, [Next]_vars PROVE AnswersCounted'
  <2>1. FabricTypes /\ FabricTypes'  BY <1>2 DEF FInv
  <2>2. ASSUME NEW m, RouteStep(m) PROVE AnswersCounted'
    <3>1. m \in Message /\ Routed(m)  BY <2>2 DEF RouteStep
    <3>2. QED  BY <1>2, <2>1, <2>2, <3>1, RouteAnswers, AppliedAnswers
  <2>3. ASSUME NEW nd, NEW m, PopStep(nd, m) PROVE AnswersCounted'
    <3>1. m \in Message  BY <2>3 DEF PopStep, Pops
    <3>2. QED  BY <1>2, <2>1, <2>3, <3>1, PopAnswers, AppliedAnswers
  <2>4. CASE Clear
    <3>1. (FabricTypes /\ applied = <<>> => AnswersCounted)'  BY AnswersCountedAtFirst, PTL
    <3>2. QED  BY <2>1, <2>4, <3>1 DEF Clear
  <2>5. CASE RestStep
    BY <1>2, <2>5 DEF RestStep, AnswersCounted, Unanswered, HasResult
  <2>6. QED  BY <1>2, <2>2, <2>3, <2>4, <2>5, StepKinds
<1>3. AnswersCounted /\ FInv => AnsweredOnce
  <2> SUFFICES ASSUME AnswersCounted, FInv PROVE AnsweredOnce
    OBVIOUS
  <2>1. FabricTypes /\ Batches /\ Fates  BY DEF FInv
  <2>2. ASSUME NEW j \in DOMAIN applied
        PROVE  Times(<<applied[j].id, "RESULT">>) = 0 <=> ~ HasResult(applied[j].id)
    <3> DEFINE k == <<applied[j].id, "RESULT">>
    <3>1. applied[j] \in Message  BY <2>1 DEF FabricTypes
    <3>2. k \in Tracked  BY <3>1, MessageFields DEF Tracked
    <3>3. Times(k) = IF Where(k) = {} THEN 0 ELSE 1  BY <2>1, <3>2, TimesOf DEF Fates
    <3>4. QED  BY <3>3, ResultsAt
  <2>3. {j \in DOMAIN applied : Answered(applied[j]) /\ Times(<<applied[j].id, "RESULT">>) = 0} = Unanswered
    BY <2>2 DEF Unanswered
  <2>4. QED  BY <2>3, AnsweredAtMostOnce DEF AnsweredOnce, AnswersCounted
<1>4. QED  BY <1>1, <1>2, <1>3, Invariance, PTL DEF Spec

-----------------------------------------------------------------------------
(* The recording follows what a node is given.                             *)

\* The draws for nd in s, by their keys, and which is prior to which.
Drawn(nd, s, k) == \E j \in DOMAIN s : DrawnBy(nd, s[j]) /\ Key(s[j]) = k
Prior(nd, s, k, l) ==
  \E i, j \in DOMAIN s :
    i < j /\ DrawnBy(nd, s[i]) /\ DrawnBy(nd, s[j]) /\ Key(s[i]) = k /\ Key(s[j]) = l

LEMMA DrawnAppended ==
  ASSUME NEW s \in Seq(Message), NEW m \in Message, NEW nd, NEW k, NEW l
  PROVE  /\ Drawn(nd, Append(s, m), k) <=> Drawn(nd, s, k) \/ (DrawnBy(nd, m) /\ Key(m) = k)
         /\ Prior(nd, Append(s, m), k, l) <=>
              Prior(nd, s, k, l) \/ (Drawn(nd, s, k) /\ DrawnBy(nd, m) /\ Key(m) = l)
<1> DEFINE q == Append(s, m)
           L == Len(s) + 1
<1>1. /\ L \in DOMAIN q /\ q[L] = m /\ DOMAIN s = 1 .. Len(s) /\ Len(s) \in Nat /\ L = Len(s) + 1
      /\ \A i \in DOMAIN s : i \in DOMAIN q /\ q[i] = s[i]
      /\ \A i \in DOMAIN q : i \in DOMAIN s \/ i = L
  BY Appended
<1> HIDE DEF q, L
<1>2. /\ \A i \in DOMAIN s : i < L /\ ~ (L < i)
      /\ ~ (L < L)
  BY <1>1
<1>3. Drawn(nd, q, k) <=> Drawn(nd, s, k) \/ (DrawnBy(nd, m) /\ Key(m) = k)  BY <1>1 DEF Drawn
<1>4. ASSUME Prior(nd, q, k, l)
      PROVE  Prior(nd, s, k, l) \/ (Drawn(nd, s, k) /\ DrawnBy(nd, m) /\ Key(m) = l)
  <2>1. PICK i, j \in DOMAIN q :
          i < j /\ DrawnBy(nd, q[i]) /\ DrawnBy(nd, q[j]) /\ Key(q[i]) = k /\ Key(q[j]) = l
    BY <1>4 DEF Prior
  <2>2. i \in DOMAIN s  BY <1>1, <1>2, <2>1
  <2>3. CASE j = L  BY <1>1, <2>1, <2>2, <2>3 DEF Drawn
  <2>4. CASE j \in DOMAIN s  BY <1>1, <2>1, <2>2, <2>4 DEF Prior
  <2>5. QED  BY <1>1, <2>3, <2>4
<1>5. Prior(nd, s, k, l) => Prior(nd, q, k, l)  BY <1>1 DEF Prior
<1>6. Drawn(nd, s, k) /\ DrawnBy(nd, m) /\ Key(m) = l => Prior(nd, q, k, l)
  BY <1>1, <1>2 DEF Drawn, Prior
<1>7. QED  BY <1>3, <1>4, <1>5, <1>6 DEF q

LEMMA DrawnTailed ==
  ASSUME NEW s \in Seq(Message), s # <<>>, NEW nd, NEW k, NEW l
  PROVE  /\ Drawn(nd, s, k) <=> Drawn(nd, Tail(s), k) \/ (DrawnBy(nd, Head(s)) /\ Key(Head(s)) = k)
         /\ Prior(nd, s, k, l) <=>
              \/ Prior(nd, Tail(s), k, l)
              \/ Drawn(nd, Tail(s), l) /\ DrawnBy(nd, Head(s)) /\ Key(Head(s)) = k
<1> DEFINE q == Tail(s)
<1>1. /\ Head(s) = s[1] /\ 1 \in DOMAIN s /\ DOMAIN q \subseteq Int /\ DOMAIN s \subseteq Int
      /\ \A i \in DOMAIN q : i + 1 \in DOMAIN s /\ i + 1 > 1 /\ q[i] = s[i + 1]
      /\ \A i \in DOMAIN s : i >= 1 /\ (i = 1 \/ (i - 1 \in DOMAIN q /\ q[i - 1] = s[i]))
  BY Tailed
<1> HIDE DEF q
<1>2. Drawn(nd, s, k) <=> Drawn(nd, q, k) \/ (DrawnBy(nd, s[1]) /\ Key(s[1]) = k)  BY <1>1 DEF Drawn
<1>3. ASSUME Prior(nd, s, k, l)
      PROVE  Prior(nd, q, k, l) \/ (Drawn(nd, q, l) /\ DrawnBy(nd, s[1]) /\ Key(s[1]) = k)
  <2>1. PICK i, j \in DOMAIN s :
          i < j /\ DrawnBy(nd, s[i]) /\ DrawnBy(nd, s[j]) /\ Key(s[i]) = k /\ Key(s[j]) = l
    BY <1>3 DEF Prior
  <2>2. j - 1 \in DOMAIN q /\ q[j - 1] = s[j]  BY <1>1, <2>1
  <2>3. CASE i = 1  BY <2>1, <2>2, <2>3 DEF Drawn
  <2>4. CASE i # 1
    <3>1. i - 1 \in DOMAIN q /\ q[i - 1] = s[i] /\ i - 1 < j - 1  BY <1>1, <2>1, <2>4
    <3>2. QED  BY <2>1, <2>2, <3>1 DEF Prior
  <2>5. QED  BY <2>3, <2>4
<1>4. ASSUME Prior(nd, q, k, l) PROVE Prior(nd, s, k, l)
  <2>1. PICK i, j \in DOMAIN q :
          i < j /\ DrawnBy(nd, q[i]) /\ DrawnBy(nd, q[j]) /\ Key(q[i]) = k /\ Key(q[j]) = l
    BY <1>4 DEF Prior
  <2>2. i + 1 \in DOMAIN s /\ j + 1 \in DOMAIN s /\ i + 1 < j + 1 /\ q[i] = s[i + 1] /\ q[j] = s[j + 1]
    BY <1>1, <2>1
  <2>3. QED  BY <2>1, <2>2 DEF Prior
<1>5. ASSUME Drawn(nd, q, l), DrawnBy(nd, s[1]), Key(s[1]) = k PROVE Prior(nd, s, k, l)
  <2>1. PICK j \in DOMAIN q : DrawnBy(nd, q[j]) /\ Key(q[j]) = l  BY <1>5 DEF Drawn
  <2>2. 1 < j + 1 /\ j + 1 \in DOMAIN s /\ q[j] = s[j + 1]  BY <1>1, <2>1
  <2>3. QED  BY <1>1, <1>5, <2>1, <2>2 DEF Prior
<1>6. QED  BY <1>1, <1>2, <1>3, <1>4, <1>5 DEF q

\* The recording has the draws that nd has applied or has before it, in that order.
Followed(nd) ==
  /\ \A k : Drawn(nd, log, k) <=> Drawn(nd, applied, k) \/ Drawn(nd, inbox[nd], k)
  /\ \A k, l : Prior(nd, log, k, l) <=>
       \/ Prior(nd, applied, k, l) \/ Prior(nd, inbox[nd], k, l)
       \/ Drawn(nd, applied, k) /\ Drawn(nd, inbox[nd], l)

\* From s to t no draw for nd has come or gone.
Quiet(nd, s, t) ==
  \A k, l : (Drawn(nd, t, k) <=> Drawn(nd, s, k)) /\ (Prior(nd, t, k, l) <=> Prior(nd, s, k, l))

LEMMA QuietAppended ==
  ASSUME NEW nd, NEW s \in Seq(Message), NEW m \in Message, ~ DrawnBy(nd, m)
  PROVE  Quiet(nd, s, Append(s, m))
BY DrawnAppended DEF Quiet

LEMMA QuietFollows ==
  ASSUME NEW nd, Followed(nd), Quiet(nd, log, log'), Quiet(nd, applied, applied'),
         Quiet(nd, inbox[nd], inbox'[nd])
  PROVE  Followed(nd)'
BY DEF Followed, Quiet

LEMMA RouteFollows ==
  ASSUME FabricTypes, NEW nd \in Registered \ {System}, Followed(nd), NEW m, RouteStep(m),
         recording', "RENDER" \in recordMask
  PROVE  Followed(nd)'
<1>1. /\ m \in Message /\ Routed(m) /\ log \in Seq(Message) /\ applied \in Seq(Message)
      /\ inbox[nd] \in Seq(Message)
  BY DEF RouteStep, FabricTypes
<1>2. \A s : Quiet(nd, s, s)  BY DEF Quiet
<1>3. \A x \in Message : inbox' = Push(System, x) => inbox'[nd] = inbox[nd]  BY OpsApart, PushType
<1>4. CASE Thrown(m)
  <2>1. log' = log /\ applied' = applied /\ inbox'[nd] = inbox[nd]  BY <1>3, <1>4 DEF Thrown
  <2>2. Quiet(nd, log, log') /\ Quiet(nd, applied, applied') /\ Quiet(nd, inbox[nd], inbox'[nd])
    BY <1>2, <2>1
  <2>3. QED  BY <2>2, QuietFollows
<1>5. CASE Handled(m)
  <2>1. \A x \in Message : Companion(m, x) => ~ DrawnBy(nd, x)
    <3> SUFFICES ASSUME NEW x \in Message, Companion(m, x) PROVE ~ DrawnBy(nd, x)
      OBVIOUS
    <3>1. CASE Same(m, x)  BY <1>5, <3>1 DEF Handled, Same, DrawnBy
    <3>2. CASE x.op = "RESULT"
      <4>1. x.to = System  BY <3>2, MessageFields DEF SystemOps
      <4>2. QED  BY <4>1 DEF DrawnBy
    <3>3. QED  BY <3>1, <3>2 DEF Companion
  <2>2. applied' = Append(applied, m) /\ ~ DrawnBy(nd, m)  BY <1>5 DEF Handled, DrawnBy
  <2>3. Quiet(nd, applied, applied')  BY <1>1, <2>2, QuietAppended
  <2>4. inbox'[nd] = inbox[nd]  BY <1>3, <1>5 DEF Handled
  <2>5. Quiet(nd, inbox[nd], inbox'[nd])  BY <1>2, <2>4
  <2>6. Quiet(nd, log, log')
    <3>1. CASE log' = log  BY <1>2, <3>1
    <3>2. CASE \E x \in Message : Companion(m, x) /\ log' = Append(log, x)
      BY <1>1, <2>1, <3>2, QuietAppended
    <3>3. CASE \E x, y \in Message : Companion(m, x) /\ Companion(m, y) /\ log' = Append(Append(log, x), y)
      <4>1. PICK x, y \in Message : Companion(m, x) /\ Companion(m, y) /\ log' = Append(Append(log, x), y)
        BY <3>3
      <4>2. Append(log, x) \in Seq(Message)  BY <1>1
      <4>3. Quiet(nd, log, Append(log, x))  BY <1>1, <2>1, <4>1, QuietAppended
      <4>4. Quiet(nd, Append(log, x), log')  BY <2>1, <4>1, <4>2, QuietAppended
      <4>5. QED  BY <4>3, <4>4 DEF Quiet
    <3>4. QED  BY <1>5, <3>1, <3>2, <3>3 DEF Handled
  <2>7. QED  BY <2>3, <2>5, <2>6, QuietFollows
<1>6. CASE Delivered(m)
  <2>1. PICK x \in Message :
          /\ Same(m, x) /\ inbox' = Push(m.to, x) /\ (log' = log \/ log' = Append(log, x))
          /\ m.ch \in recordMask => log' = Append(log, x)
    BY <1>6 DEF Delivered
  <2>2. applied' = applied /\ m.to \in Registered  BY <1>6 DEF Delivered
  <2>3. inbox'[nd] = IF nd = m.to THEN Append(inbox[nd], x) ELSE inbox[nd]  BY <2>1, <2>2, PushType, ZenonT(30)
  <2>4. CASE DrawnBy(nd, x)
    <3>1. nd = m.to /\ m.ch = "RENDER"  BY <2>1, <2>4 DEF DrawnBy, Same
    <3>2. log' = Append(log, x) /\ inbox'[nd] = Append(inbox[nd], x)  BY <2>1, <2>3, <3>1
    <3>3. \A k, l :
            /\ Drawn(nd, log', k) <=> Drawn(nd, log, k) \/ Key(x) = k
            /\ Prior(nd, log', k, l) <=> Prior(nd, log, k, l) \/ (Drawn(nd, log, k) /\ Key(x) = l)
            /\ Drawn(nd, inbox'[nd], k) <=> Drawn(nd, inbox[nd], k) \/ Key(x) = k
            /\ Prior(nd, inbox'[nd], k, l) <=>
                 Prior(nd, inbox[nd], k, l) \/ (Drawn(nd, inbox[nd], k) /\ Key(x) = l)
      <4>1. \A s \in Seq(Message) : \A k, l :
              /\ Drawn(nd, Append(s, x), k) <=> Drawn(nd, s, k) \/ Key(x) = k
              /\ Prior(nd, Append(s, x), k, l) <=> Prior(nd, s, k, l) \/ (Drawn(nd, s, k) /\ Key(x) = l)
        BY <2>4, DrawnAppended
      <4>2. \A k, l :
              /\ Drawn(nd, Append(log, x), k) <=> Drawn(nd, log, k) \/ Key(x) = k
              /\ Prior(nd, Append(log, x), k, l) <=> Prior(nd, log, k, l) \/ (Drawn(nd, log, k) /\ Key(x) = l)
        BY <1>1, <4>1
      <4>3. \A k, l :
              /\ Drawn(nd, Append(inbox[nd], x), k) <=> Drawn(nd, inbox[nd], k) \/ Key(x) = k
              /\ Prior(nd, Append(inbox[nd], x), k, l) <=>
                   Prior(nd, inbox[nd], k, l) \/ (Drawn(nd, inbox[nd], k) /\ Key(x) = l)
        BY <1>1, <4>1
      <4>4. QED  BY <3>2, <4>2, <4>3
    <3>4. \A k : Drawn(nd, log', k) <=> Drawn(nd, applied', k) \/ Drawn(nd, inbox'[nd], k)
      BY <2>2, <3>3 DEF Followed
    <3>5. \A k, l : Prior(nd, log', k, l) <=>
            \/ Prior(nd, applied', k, l) \/ Prior(nd, inbox'[nd], k, l)
            \/ Drawn(nd, applied', k) /\ Drawn(nd, inbox'[nd], l)
      <4> SUFFICES ASSUME NEW k, NEW l
                   PROVE  Prior(nd, log', k, l) <=>
                            \/ Prior(nd, applied', k, l) \/ Prior(nd, inbox'[nd], k, l)
                            \/ Drawn(nd, applied', k) /\ Drawn(nd, inbox'[nd], l)
        OBVIOUS
      <4>1. /\ Prior(nd, log, k, l) <=>
                 \/ Prior(nd, applied, k, l) \/ Prior(nd, inbox[nd], k, l)
                 \/ Drawn(nd, applied, k) /\ Drawn(nd, inbox[nd], l)
            /\ Drawn(nd, log, k) <=> Drawn(nd, applied, k) \/ Drawn(nd, inbox[nd], k)
        BY DEF Followed
      <4>2. /\ Prior(nd, log', k, l) <=> Prior(nd, log, k, l) \/ (Drawn(nd, log, k) /\ Key(x) = l)
            /\ Drawn(nd, inbox'[nd], l) <=> Drawn(nd, inbox[nd], l) \/ Key(x) = l
            /\ Prior(nd, inbox'[nd], k, l) <=>
                 Prior(nd, inbox[nd], k, l) \/ (Drawn(nd, inbox[nd], k) /\ Key(x) = l)
        BY <3>3
      <4>3. QED  BY <2>2, <4>1, <4>2
    <3>6. QED  BY <3>4, <3>5 DEF Followed
  <2>5. CASE ~ DrawnBy(nd, x)
    <3>1. Quiet(nd, log, log')  BY <1>1, <1>2, <2>1, <2>5, QuietAppended
    <3>2. Quiet(nd, inbox[nd], inbox'[nd])  BY <1>1, <1>2, <2>3, <2>5, QuietAppended
    <3>3. Quiet(nd, applied, applied')  BY <1>2, <2>2
    <3>4. QED  BY <3>1, <3>2, <3>3, QuietFollows
  <2>6. QED  BY <2>4, <2>5
<1>7. QED  BY <1>1, <1>4, <1>5, <1>6 DEF Routed

LEMMA PopFollows ==
  ASSUME FabricTypes, Contents, NEW nd \in Registered \ {System}, Followed(nd), NEW o, NEW m, PopStep(o, m)
  PROVE  Followed(nd)'
<1>1. /\ Pops(o, m) /\ m \in Message /\ m = Head(inbox[o]) /\ inbox[o] # <<>> /\ log' = log
      /\ applied' = Append(applied, m) /\ o \in Registered
  BY DEF PopStep, Pops
<1>2. /\ applied \in Seq(Message) /\ inbox[o] \in Seq(Message) /\ inbox'[o] = Tail(inbox[o])
      /\ nd # o => inbox'[nd] = inbox[nd]
  BY <1>1, PopsInbox
<1>3. CASE nd # o
  <2>1. m = inbox[o][1] /\ 1 \in DOMAIN inbox[o]  BY <1>1, <1>2, Tailed
  <2>2. m.to = o  BY <1>1, <2>1 DEF Contents
  <2>3. ~ DrawnBy(nd, m)  BY <1>3, <2>2 DEF DrawnBy
  <2>4. Quiet(nd, applied, applied')  BY <1>1, <1>2, <2>3, QuietAppended
  <2>5. Quiet(nd, log, log') /\ Quiet(nd, inbox[nd], inbox'[nd])  BY <1>1, <1>2, <1>3 DEF Quiet
  <2>6. QED  BY <2>4, <2>5, QuietFollows
<1>4. CASE nd = o
  <2>1. applied' = Append(applied, m) /\ inbox'[nd] = Tail(inbox[nd]) /\ log' = log
        /\ inbox[nd] \in Seq(Message) /\ inbox[nd] # <<>> /\ m = Head(inbox[nd])
    BY <1>1, <1>2, <1>4
  <2>2. ASSUME NEW k, NEW l
        PROVE  /\ Drawn(nd, log', k) <=> Drawn(nd, applied', k) \/ Drawn(nd, inbox'[nd], k)
               /\ Prior(nd, log', k, l) <=>
                    \/ Prior(nd, applied', k, l) \/ Prior(nd, inbox'[nd], k, l)
                    \/ Drawn(nd, applied', k) /\ Drawn(nd, inbox'[nd], l)
    <3> DEFINE own(key) == DrawnBy(nd, m) /\ Key(m) = key
    <3>1. /\ Drawn(nd, applied', k) <=> Drawn(nd, applied, k) \/ own(k)
          /\ Prior(nd, applied', k, l) <=> Prior(nd, applied, k, l) \/ (Drawn(nd, applied, k) /\ own(l))
      <4>1. /\ Drawn(nd, Append(applied, m), k) <=> Drawn(nd, applied, k) \/ own(k)
            /\ Prior(nd, Append(applied, m), k, l) <=>
                 Prior(nd, applied, k, l) \/ (Drawn(nd, applied, k) /\ own(l))
        BY <1>1, <1>2, DrawnAppended
      <4> HIDE DEF own
      <4>2. QED  BY <2>1, <4>1
    <3>2. /\ Drawn(nd, inbox[nd], k) <=> Drawn(nd, inbox'[nd], k) \/ own(k)
          /\ Drawn(nd, inbox[nd], l) <=> Drawn(nd, inbox'[nd], l) \/ own(l)
          /\ Prior(nd, inbox[nd], k, l) <=>
               Prior(nd, inbox'[nd], k, l) \/ (Drawn(nd, inbox'[nd], l) /\ own(k))
      <4> DEFINE s == inbox[nd]
      <4>1. s \in Seq(Message) /\ s # <<>> /\ Head(s) = m /\ Tail(s) = inbox'[nd]  BY <2>1
      <4> HIDE DEF s
      <4>2. /\ Drawn(nd, s, k) <=> Drawn(nd, Tail(s), k) \/ own(k)
            /\ Drawn(nd, s, l) <=> Drawn(nd, Tail(s), l) \/ own(l)
            /\ Prior(nd, s, k, l) <=> Prior(nd, Tail(s), k, l) \/ (Drawn(nd, Tail(s), l) /\ own(k))
        BY <4>1, DrawnTailed
      <4> HIDE DEF own
      <4>3. QED  BY <4>1, <4>2 DEF s
    <3>3. /\ Drawn(nd, log', k) <=> Drawn(nd, applied, k) \/ Drawn(nd, inbox[nd], k)
          /\ Prior(nd, log', k, l) <=>
               \/ Prior(nd, applied, k, l) \/ Prior(nd, inbox[nd], k, l)
               \/ Drawn(nd, applied, k) /\ Drawn(nd, inbox[nd], l)
      BY <2>1 DEF Followed
    <3> HIDE DEF own
    <3>4. QED  BY <3>1, <3>2, <3>3
  <2>3. QED  BY <2>2 DEF Followed
<1>5. QED  BY <1>3, <1>4

\* Concatenation, for the draws and their order.
LEMMA DrawnConcat ==
  ASSUME NEW s \in Seq(Message), NEW t \in Seq(Message), NEW nd, NEW k, NEW l
  PROVE  /\ Drawn(nd, s \o t, k) <=> Drawn(nd, s, k) \/ Drawn(nd, t, k)
         /\ Prior(nd, s \o t, k, l) <=>
              Prior(nd, s, k, l) \/ Prior(nd, t, k, l) \/ (Drawn(nd, s, k) /\ Drawn(nd, t, l))
<1> DEFINE q == s \o t
           N == Len(s)
<1>1. /\ N \in Nat /\ DOMAIN s = 1 .. N /\ Len(t) \in Nat /\ DOMAIN t = 1 .. Len(t)
      /\ DOMAIN q = 1 .. N + Len(t)
      /\ \A i \in 1 .. N + Len(t) : q[i] = IF i <= N THEN s[i] ELSE t[i - N]
  OBVIOUS
<1> HIDE DEF q, N
<1>2. /\ \A i \in DOMAIN s : i \in DOMAIN q /\ q[i] = s[i] /\ i <= N
      /\ \A i \in DOMAIN t : N + i \in DOMAIN q /\ q[N + i] = t[i] /\ N + i > N
  <2>1. \A i \in DOMAIN s : i \in DOMAIN q /\ q[i] = s[i] /\ i <= N  BY <1>1
  <2>2. ASSUME NEW i \in DOMAIN t PROVE N + i \in DOMAIN q /\ q[N + i] = t[i] /\ N + i > N
    <3>1. N + i \in 1 .. N + Len(t) /\ ~ (N + i <= N) /\ (N + i) - N = i  BY <1>1
    <3>2. q[N + i] = t[(N + i) - N]  BY <1>1, <3>1
    <3>3. QED  BY <1>1, <3>1, <3>2
  <2>3. QED  BY <2>1, <2>2
<1>3. \A i \in DOMAIN q : i \in DOMAIN s \/ (i - N \in DOMAIN t /\ N + (i - N) = i)  BY <1>1
<1>4. Drawn(nd, q, k) <=> Drawn(nd, s, k) \/ Drawn(nd, t, k)
  <2>1. ASSUME Drawn(nd, q, k) PROVE Drawn(nd, s, k) \/ Drawn(nd, t, k)
    <3>1. PICK i \in DOMAIN q : DrawnBy(nd, q[i]) /\ Key(q[i]) = k  BY <2>1 DEF Drawn
    <3>2. CASE i \in DOMAIN s  BY <1>2, <3>1, <3>2 DEF Drawn
    <3>3. CASE i - N \in DOMAIN t /\ N + (i - N) = i
      <4>1. q[i] = t[i - N]  BY <1>2, <3>3
      <4>2. QED  BY <3>1, <3>3, <4>1 DEF Drawn
    <3>4. QED  BY <1>3, <3>2, <3>3
  <2>2. Drawn(nd, s, k) => Drawn(nd, q, k)  BY <1>2 DEF Drawn
  <2>3. Drawn(nd, t, k) => Drawn(nd, q, k)  BY <1>2 DEF Drawn
  <2>4. QED  BY <2>1, <2>2, <2>3
<1>5. ASSUME Prior(nd, q, k, l)
      PROVE  Prior(nd, s, k, l) \/ Prior(nd, t, k, l) \/ (Drawn(nd, s, k) /\ Drawn(nd, t, l))
  <2>1. PICK i, j \in DOMAIN q :
          i < j /\ DrawnBy(nd, q[i]) /\ DrawnBy(nd, q[j]) /\ Key(q[i]) = k /\ Key(q[j]) = l
    BY <1>5 DEF Prior
  <2>2. CASE j \in DOMAIN s
    <3>1. i \in DOMAIN s  BY <1>1, <2>1, <2>2
    <3>2. QED  BY <1>2, <2>1, <2>2, <3>1 DEF Prior
  <2>3. CASE j \notin DOMAIN s
    <3>1. j - N \in DOMAIN t /\ q[j] = t[j - N]
      <4>1. j - N \in DOMAIN t /\ N + (j - N) = j  BY <1>3, <2>3
      <4>2. QED  BY <1>2, <4>1
    <3>2. CASE i \in DOMAIN s  BY <1>2, <2>1, <3>1, <3>2 DEF Drawn
    <3>3. CASE i \notin DOMAIN s
      <4>1. i - N \in DOMAIN t /\ N + (i - N) = i  BY <1>3, <3>3
      <4>2. q[i] = t[i - N]  BY <1>2, <4>1
      <4>3. i - N < j - N  BY <1>1, <2>1
      <4>4. QED  BY <2>1, <3>1, <4>1, <4>2, <4>3 DEF Prior
    <3>4. QED  BY <3>2, <3>3
  <2>4. QED  BY <2>2, <2>3
<1>6. Prior(nd, s, k, l) => Prior(nd, q, k, l)  BY <1>2 DEF Prior
<1>7. ASSUME Prior(nd, t, k, l) PROVE Prior(nd, q, k, l)
  <2>1. PICK i, j \in DOMAIN t :
          i < j /\ DrawnBy(nd, t[i]) /\ DrawnBy(nd, t[j]) /\ Key(t[i]) = k /\ Key(t[j]) = l
    BY <1>7 DEF Prior
  <2>2. N + i < N + j  BY <1>1, <2>1
  <2>3. QED  BY <1>2, <2>1, <2>2 DEF Prior
<1>8. ASSUME Drawn(nd, s, k), Drawn(nd, t, l) PROVE Prior(nd, q, k, l)
  <2>1. PICK i \in DOMAIN s : DrawnBy(nd, s[i]) /\ Key(s[i]) = k  BY <1>8 DEF Drawn
  <2>2. PICK j \in DOMAIN t : DrawnBy(nd, t[j]) /\ Key(t[j]) = l  BY <1>8 DEF Drawn
  <2>3. i < N + j  BY <1>1, <1>2
  <2>4. QED  BY <1>2, <2>1, <2>2, <2>3 DEF Prior
<1>9. QED  BY <1>4, <1>5, <1>6, <1>7, <1>8 DEF q

\* A draw is among the messages applied or in the inbox of its node only once.
LEMMA SeenOnce ==
  ASSUME FInv, NEW nd \in Registered \ {System}, NEW p, NEW r,
         p \in DOMAIN (applied \o inbox[nd]), r \in DOMAIN (applied \o inbox[nd]),
         DrawnBy(nd, (applied \o inbox[nd])[p]),
         Key((applied \o inbox[nd])[p]) = Key((applied \o inbox[nd])[r])
  PROVE  p = r
<1> DEFINE t == inbox[nd]
           N == Len(applied)
           q == applied \o t
           k == Key(q[p])
<1>1. FabricTypes /\ Batches /\ Fates  BY DEF FInv
<1>2. applied \in Seq(Message) /\ t \in Seq(Message)  BY <1>1 DEF FabricTypes
<1>3. /\ N \in Nat /\ DOMAIN applied = 1 .. N /\ Len(t) \in Nat /\ DOMAIN t = 1 .. Len(t)
      /\ DOMAIN q = 1 .. N + Len(t)
      /\ \A i \in 1 .. N + Len(t) : q[i] = IF i <= N THEN applied[i] ELSE t[i - N]
  BY <1>2
<1>4. \A i \in DOMAIN q :
        \/ i \in DOMAIN applied /\ q[i] = applied[i]
        \/ i \in Int /\ i - N \in DOMAIN t /\ q[i] = t[i - N]
  BY <1>3
<1>5. p \in DOMAIN q /\ r \in DOMAIN q /\ DrawnBy(nd, q[p]) /\ Key(q[r]) = k  OBVIOUS
<1> HIDE DEF q, N, k
<1>6. q[p] \in Message  BY <1>2, <1>4, <1>5
<1>7. k \in Tracked
  <2>1. q[p].to # System  BY <1>5 DEF DrawnBy
  <2>2. q[p].op \in UserOps  BY <1>6, <2>1, MessageFields DEF Op
  <2>3. QED  BY <1>6, <2>2, MessageFields DEF Tracked, k
<1>8. Single(k)  BY <1>1, <1>7 DEF Fates
<1> DEFINE x == <<"applied">>
           y == <<"inbox", nd>>
<1>9. x \in Place /\ y \in Place /\ At(x) = applied /\ At(y) = t /\ x # y
  BY PlaceNames, AtPlaces
<1> HIDE DEF t, x, y
<1>10. Once(applied, k) /\ Once(t, k)  BY <1>8, <1>9 DEF Single
<1>11. ~ (Has(applied, k) /\ Has(t, k))  BY <1>8, <1>9 DEF Single, Where
<1>12. Key(q[p]) = k  BY DEF k
<1>13. CASE p \in DOMAIN applied /\ q[p] = applied[p] /\ r \in DOMAIN applied /\ q[r] = applied[r]
  BY <1>5, <1>10, <1>12, <1>13 DEF Once
<1>14. CASE /\ p \in Int /\ p - N \in DOMAIN t /\ q[p] = t[p - N]
            /\ r \in Int /\ r - N \in DOMAIN t /\ q[r] = t[r - N]
  <2>1. p - N = r - N  BY <1>5, <1>10, <1>12, <1>14 DEF Once
  <2>2. QED  BY <1>3, <1>14, <2>1
<1>15. CASE p \in DOMAIN applied /\ q[p] = applied[p] /\ r - N \in DOMAIN t /\ q[r] = t[r - N]
  BY <1>5, <1>11, <1>12, <1>15 DEF Has
<1>16. CASE r \in DOMAIN applied /\ q[r] = applied[r] /\ p - N \in DOMAIN t /\ q[p] = t[p - N]
  BY <1>5, <1>11, <1>12, <1>16 DEF Has
<1>17. QED  BY <1>4, <1>5, <1>13, <1>14, <1>15, <1>16

LEMMA FollowedIsComplete ==
  ASSUME FInv, NEW nd \in Registered \ {System}, Followed(nd)
  PROVE  LET seen == applied \o inbox[nd]
             kept == {j \in DOMAIN log : DrawnBy(nd, log[j])}
             got  == {j \in DOMAIN seen : DrawnBy(nd, seen[j])}
         IN  /\ {Key(log[j]) : j \in kept} = {Key(seen[j]) : j \in got}
             /\ \A i, j \in kept, k, l \in got :
                  Key(log[i]) = Key(seen[k]) /\ Key(log[j]) = Key(seen[l]) => (i < j <=> k < l)
<1> DEFINE seen == applied \o inbox[nd]
           kept == {j \in DOMAIN log : DrawnBy(nd, log[j])}
           got == {j \in DOMAIN seen : DrawnBy(nd, seen[j])}
<1>1. applied \in Seq(Message) /\ inbox[nd] \in Seq(Message) /\ log \in Seq(Message)
  BY DEF FInv, FabricTypes
<1>2. \A k, l : /\ Drawn(nd, log, k) <=> Drawn(nd, seen, k)
                /\ Prior(nd, log, k, l) <=> Prior(nd, seen, k, l)
  BY <1>1, DrawnConcat DEF Followed
<1>3. \A p, r \in got : Key(seen[p]) = Key(seen[r]) => p = r  BY SeenOnce
<1>4. seen \in Seq(Message)  BY <1>1
<1>5. DOMAIN seen \subseteq Int /\ DOMAIN log \subseteq Int  BY <1>1, <1>4
<1> HIDE DEF seen
<1>6. \A k : /\ Drawn(nd, log, k) <=> \E j \in kept : Key(log[j]) = k
             /\ Drawn(nd, seen, k) <=> \E j \in got : Key(seen[j]) = k
  BY DEF Drawn
<1>7. \A k, l : /\ Prior(nd, log, k, l) <=> \E i, j \in kept : i < j /\ Key(log[i]) = k /\ Key(log[j]) = l
                /\ Prior(nd, seen, k, l) <=>
                     \E i, j \in got : i < j /\ Key(seen[i]) = k /\ Key(seen[j]) = l
  BY DEF Prior
<1>8. kept \subseteq Int /\ got \subseteq Int  BY <1>5
<1> HIDE DEF kept, got
<1>9. {Key(log[j]) : j \in kept} = {Key(seen[j]) : j \in got}  BY <1>2, <1>6
<1>10. \A k : ~ Prior(nd, seen, k, k)
  <2> SUFFICES ASSUME NEW k, Prior(nd, seen, k, k) PROVE FALSE
    OBVIOUS
  <2>1. PICK i, j \in got : i < j /\ Key(seen[i]) = k /\ Key(seen[j]) = k  BY <1>7
  <2>2. i = j  BY <1>3, <2>1
  <2>3. QED  BY <1>8, <2>1, <2>2
<1>11. \A i, j \in kept : Key(log[i]) = Key(log[j]) => i = j
  <2> SUFFICES ASSUME NEW i \in kept, NEW j \in kept, Key(log[i]) = Key(log[j]), i # j PROVE FALSE
    OBVIOUS
  <2>1. i < j \/ j < i  BY <1>8
  <2>2. Prior(nd, log, Key(log[i]), Key(log[i]))  BY <1>7, <2>1
  <2>3. QED  BY <1>2, <1>10, <2>2
<1>12. ASSUME NEW i \in kept, NEW j \in kept, NEW k \in got, NEW l \in got,
              Key(log[i]) = Key(seen[k]), Key(log[j]) = Key(seen[l])
       PROVE  i < j <=> k < l
  <2> DEFINE a == Key(log[i])
             b == Key(log[j])
  <2>1. ASSUME i < j PROVE k < l
    <3>1. Prior(nd, seen, a, b)  BY <1>2, <1>7, <2>1
    <3>2. PICK v, w \in got : v < w /\ Key(seen[v]) = a /\ Key(seen[w]) = b  BY <1>7, <3>1
    <3>3. v = k /\ w = l  BY <1>3, <1>12, <3>2
    <3>4. QED  BY <3>2, <3>3
  <2>2. ASSUME k < l PROVE i < j
    <3>1. Prior(nd, log, a, b)  BY <1>2, <1>7, <1>12, <2>2
    <3>2. PICK v, w \in kept : v < w /\ Key(log[v]) = a /\ Key(log[w]) = b  BY <1>7, <3>1
    <3>3. v = i /\ w = j  BY <1>11, <3>2
    <3>4. QED  BY <3>2, <3>3
  <2>3. QED  BY <2>1, <2>2
<1>13. QED  BY <1>9, <1>12 DEF seen, kept, got

LEMMA MaskKeepsRender ==
  ASSUME RenderStays, FabricTypes, "RENDER" \in recordMask, NEW nd, NEW m, PopStep(nd, m)
  PROVE  "RENDER" \in recordMask'
<1>1. m \in Message  BY DEF PopStep, Pops
<1>2. CASE Settings(m)
  <2>1. PICK a \in Decoded(m) :
          recordMask' = IF m.op = "SET_RECORD_MASK" /\ a # None THEN a.mask ELSE recordMask
    BY <1>2 DEF Settings
  <2>2. m.op = "SET_RECORD_MASK" => a = None \/ "RENDER" \in a.mask
    <3> SUFFICES ASSUME m.op = "SET_RECORD_MASK" PROVE a = None \/ "RENDER" \in a.mask
      OBVIOUS
    <3>1. a = None \/ a = m.arg \/ a \in Decodings["SET_RECORD_MASK"]  BY DEF Decoded
    <3>2. m.op \in UserOps  BY <1>1, MessageFields DEF Op, SystemOps
    <3>3. PICK t \in Templates : t.op = m.op /\ t.arg = m.arg  BY <1>1, <3>2, MessageFields DEF Asks
    <3>4. QED  BY <3>1, <3>3 DEF RenderStays
  <2>3. QED  BY <2>1, <2>2
<1>3. QED  BY <1>2 DEF PopStep

Recorded == "RENDER" \in recordMask /\ (recording => \A nd \in Registered \ {System} : Followed(nd))

LEMMA RecordedAtFirst ==
  ASSUME applied = <<>>, log = <<>>, inbox = [nd \in Registered |-> <<>>]
  PROVE  \A nd \in Registered \ {System} : Followed(nd)
<1>1. \A nd, k, l : ~ Drawn(nd, <<>>, k) /\ ~ Prior(nd, <<>>, k, l)  BY DEF Drawn, Prior
<1>2. QED  BY <1>1 DEF Followed

\* While the recording runs it holds exactly the draws given to each ordinary
\* node, in the order the node was given them, if nobody takes RENDER out of
\* the record mask.
THEOREM RecordingFollows == RenderStays => (Spec => []RecordingIsComplete)
<1> SUFFICES ASSUME RenderStays PROVE Spec => []RecordingIsComplete
  OBVIOUS
<1>1. Init => Recorded
  <2> SUFFICES ASSUME Init PROVE Recorded
    OBVIOUS
  <2>1. "RENDER" \in recordMask  BY DEF Init, RoutingInit
  <2>2. applied = <<>> /\ log = <<>> /\ inbox = [nd \in Registered |-> <<>>]  BY DEF Init, RoutingInit
  <2>3. QED  BY <2>1, <2>2, RecordedAtFirst DEF Recorded
<1>2. ASSUME FInv, Recorded, [Next]_vars PROVE Recorded'
  <2>1. FabricTypes /\ Contents  BY <1>2 DEF FInv
  <2>2. ASSUME NEW m, RouteStep(m) PROVE Recorded'
    <3>1. recording' => recording
      BY <2>2 DEF RouteStep, Routed, Delivered, Handled, Thrown
    <3>2. recordMask' = recordMask  BY <2>2 DEF RouteStep
    <3>3. ASSUME recording', NEW nd \in Registered \ {System} PROVE Followed(nd)'
      BY <1>2, <2>1, <2>2, <3>1, <3>3, RouteFollows DEF Recorded
    <3>4. QED  BY <1>2, <3>2, <3>3 DEF Recorded
  <2>3. ASSUME NEW o, NEW m, PopStep(o, m) PROVE Recorded'
    <3>1. recording' = recording  BY <2>3 DEF PopStep
    <3>2. "RENDER" \in recordMask'  BY <1>2, <2>1, <2>3, MaskKeepsRender DEF Recorded
    <3>3. ASSUME recording', NEW nd \in Registered \ {System} PROVE Followed(nd)'
      BY <1>2, <2>1, <2>3, <3>1, <3>3, PopFollows DEF Recorded
    <3>4. QED  BY <3>2, <3>3 DEF Recorded
  <2>4. CASE Clear
    <3>1. applied' = <<>> /\ log' = <<>> /\ inbox' = [nd \in Registered |-> <<>>] /\ recordMask' = recordMask
      BY <2>4 DEF Clear
    <3>2. \A nd \in Registered \ {System} : Followed(nd)'
      <4>1. \A nd, k, l : ~ Drawn(nd, <<>>, k) /\ ~ Prior(nd, <<>>, k, l)  BY DEF Drawn, Prior
      <4>2. QED  BY <3>1, <4>1 DEF Followed
    <3>3. QED  BY <1>2, <3>1, <3>2 DEF Recorded
  <2>5. CASE RestStep
    <3>1. UNCHANGED <<applied, log, inbox, recording>>  BY <2>5 DEF RestStep
    <3>2. "RENDER" \in recordMask'  BY <1>2, <2>5 DEF RestStep, Recorded, RenderStays
    <3>3. \A nd : Followed(nd)' <=> Followed(nd)  BY <3>1 DEF Followed
    <3>4. QED  BY <1>2, <3>1, <3>2, <3>3 DEF Recorded
  <2>6. QED  BY <1>2, <2>2, <2>3, <2>4, <2>5, StepKinds
<1>3. Recorded /\ FInv => RecordingIsComplete
  BY FollowedIsComplete DEF Recorded, RecordingIsComplete
<1>4. QED  BY <1>1, <1>2, <1>3, Invariance, PTL DEF Spec
=============================================================================
