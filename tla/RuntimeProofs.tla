--------------------------- MODULE RuntimeProofs ----------------------------
(***************************************************************************)
(* The sessions, for every model, user and sequence of calls: a session    *)
(* stands where the transformer stands on the tokens it was given.  The    *)
(* samplers, for any logits: the candidates are the best, and so is what   *)
(* is chosen of them.  The loader, for any files and any number of layers: *)
(* a model has every array and what was given for it, or none.             *)
(***************************************************************************)
EXTENDS InferenceProps, Sampling, Loader, FiniteSetTheorems, WellFoundedInduction, TLAPS

-----------------------------------------------------------------------------
(* Sessions: numbers, and the heads' places in a cache.                     *)

\* A set of numbers has one whose predecessor is not in it.
LEMMA FirstOfNat ==
  ASSUME NEW T, T \subseteq Nat, T # {}
  PROVE  \E n \in T : n = 0 \/ (n - 1 \in Nat /\ n - 1 \notin T)
<1>1. PICK n \in T : \A k \in T : ~ (<<k, n>> \in OpToRel(<, Nat))
  BY NatLessThanWellFounded, WFMin
<1>2. \A k \in T : ~ (k < n)
  <2>1. SUFFICES ASSUME NEW k \in T, k < n PROVE <<k, n>> \in OpToRel(<, Nat)
    BY <1>1
  <2>2. QED  BY <2>1 DEF OpToRel
<1>3. CASE n = 0  BY <1>3
<1>4. CASE n # 0
  <2>1. n \in Nat /\ n - 1 \in Nat /\ n - 1 < n  BY <1>4
  <2>2. n - 1 \notin T  BY <1>2, <2>1
  <2>3. QED  BY <2>1, <2>2
<1>5. QED  BY <1>3, <1>4

LEMMA ModelFacts ==
  ASSUME NEW m \in Models
  PROVE  /\ m.layers \in Nat \ {0} /\ m.context \in Nat \ {0}
         /\ m.heads \in Nat \ {0} /\ m.kvHeads \in Nat \ {0} /\ m.kvHeads <= m.heads
         /\ m.head \in {"f16", "trit", "gpu", "float"}
         /\ m.users \subseteq Users
         /\ m.head = "float" => m.users = {} /\ m.kvHeads = m.heads
<1>1. m.heads \in Nat \ {0} /\ m.kvHeads \in 1 .. m.heads  BY ModelsAssumption
<1>2. QED  BY <1>1, ModelsAssumption

LEMMA TimesOrder ==
  ASSUME NEW a \in Nat, NEW b \in Nat, NEW k \in Nat, a < b
  PROVE  a * k \in Nat /\ b * k \in Nat /\ (a + 1) * k = a * k + k /\ a * k + k <= b * k
<1>1. PICK d \in Nat : b = a + 1 + d
  <2>1. b - a - 1 \in Nat /\ b = a + 1 + (b - a - 1)  OBVIOUS
  <2>2. QED  BY <2>1
<1>2. b * k = a * k + k + d * k  BY <1>1, SMT
<1>3. (a + 1) * k = a * k + k  BY SMT
<1>4. a * k \in Nat /\ d * k \in Nat /\ b * k \in Nat  BY SMT
<1>5. QED  BY <1>2, <1>3, <1>4

\* A quotient is the one number with its product just below.
LEMMA QuotientIs ==
  ASSUME NEW x \in Nat, NEW n \in Nat \ {0}
  PROVE  /\ (x \div n) \in Nat
         /\ (x \div n) * n <= x /\ x < ((x \div n) + 1) * n
         /\ \A j \in Nat : j * n <= x /\ x < (j + 1) * n => j = x \div n
<1> DEFINE q == x \div n
<1>1. q \in Nat /\ q * n <= x /\ x < (q + 1) * n
  <2>1. x = n * q + (x % n) /\ x % n \in 0 .. n - 1 /\ q \in Int  BY SMT
  <2>2. q * n = n * q /\ (q + 1) * n = q * n + n  BY <2>1, SMT
  <2>3. q \in Nat  BY SMT
  <2>4. n * q \in Int  BY <2>1
  <2> HIDE DEF q
  <2>5. QED  BY <2>1, <2>2, <2>3, <2>4
<1>2. ASSUME NEW j \in Nat, j * n <= x, x < (j + 1) * n PROVE j = q
  <2> HIDE DEF q
  <2>1. ASSUME j < q PROVE FALSE
    <3>1. (j + 1) * n = j * n + n /\ j * n + n <= q * n  /\ j * n \in Nat /\ q * n \in Nat
      BY <1>1, <2>1, TimesOrder
    <3>2. QED  BY <1>1, <1>2, <3>1
  <2>2. ASSUME q < j PROVE FALSE
    <3>1. (q + 1) * n = q * n + n /\ q * n + n <= j * n  /\ j * n \in Nat /\ q * n \in Nat
      BY <1>1, <2>2, TimesOrder
    <3>2. QED  BY <1>1, <1>2, <3>1
  <2>3. QED  BY <1>1, <2>1, <2>2
<1>3. QED  BY <1>1, <1>2

\* The head of keys and values the code computes is that of the group.
LEMMA KvHeadIsGroup ==
  ASSUME NEW m \in Models, NEW h \in 0 .. m.heads - 1
  PROVE  /\ KvHead(h, m.heads, m.kvHeads) \in 0 .. m.kvHeads - 1
         /\ KvHead(h, m.heads, m.kvHeads) = Group(m, h)
<1> DEFINE n == m.heads
           k == m.kvHeads
           q == KvHead(h, n, k)
<1>1. n \in Nat \ {0} /\ k \in Nat \ {0} /\ k <= n /\ h \in Nat /\ h < n  BY ModelFacts
<1>2. h * k \in Nat /\ h * k < n * k /\ n * k = k * n /\ k * n \in Nat
  <2>1. h * k \in Nat /\ n * k \in Nat /\ h * k + k <= n * k  BY <1>1, TimesOrder
  <2>2. n * k = k * n  BY <1>1, SMT
  <2>3. QED  BY <1>1, <2>1, <2>2
<1>3. q = IF k < n THEN (h * k) \div n ELSE h  BY DEF KvHead
<1> HIDE DEF q, n, k
<1>9. q = (h * k) \div n
  <2>1. CASE k < n  BY <1>3, <2>1
  <2>2. CASE k = n
    <3>1. (h + 1) * n = h * n + n /\ h * n \in Nat  BY <1>1, TimesOrder
    <3>2. h * n <= h * n /\ h * n < (h + 1) * n  BY <1>1, <3>1
    <3>3. h = (h * n) \div n  BY <1>1, <3>1, <3>2, QuotientIs
    <3>4. QED  BY <1>1, <1>3, <2>2, <3>3
  <2>3. QED  BY <1>1, <2>1, <2>2
<1>4. q \in Nat /\ q * n <= h * k /\ h * k < (q + 1) * n
      /\ \A j \in Nat : j * n <= h * k /\ h * k < (j + 1) * n => j = q
  BY <1>1, <1>2, <1>9, QuotientIs
<1>5. q < k
  <2>1. SUFFICES ASSUME k <= q PROVE FALSE  BY <1>1, <1>4
  <2>2. k * n <= q * n /\ q * n \in Nat
    <3>1. CASE k = q  BY <3>1, <1>2
    <3>2. CASE k < q
      <4>1. k * n + n <= q * n /\ q * n \in Nat  BY <1>1, <1>4, <3>2, TimesOrder
      <4>2. QED  BY <1>1, <1>2, <4>1
    <3>3. QED  BY <1>1, <1>4, <2>1, <3>1, <3>2
  <2>3. QED  BY <1>2, <1>4, <2>2
<1>6. q \in 0 .. k - 1  BY <1>1, <1>4, <1>5
<1>7. Group(m, h) = q
  <2>1. Group(m, h) = CHOOSE j \in 0 .. k - 1 : j * n <= h * k /\ h * k < (j + 1) * n
    BY DEF Group, n, k
  <2>2. \A j \in 0 .. k - 1 : j \in Nat  BY <1>1
  <2>3. QED  BY <1>4, <1>6, <2>1, <2>2
<1>8. QED  BY <1>6, <1>7 DEF q, n, k

\* The places of position n's heads lie in the flat array, apart from those of earlier positions.
Placed(k, n, c) ==
  \A j \in 0 .. k - 1 :
     /\ n * k + j \in 0 .. c * k - 1 /\ n * k + j \in n * k .. n * k + k - 1 /\ (n * k + j) - n * k = j
     /\ \A t \in 0 .. n - 1 : t * k + j \in 0 .. c * k - 1 /\ t * k + j \notin n * k .. n * k + k - 1

LEMMA AllPlaced ==
  ASSUME NEW k \in Nat \ {0}, NEW n \in Nat, NEW c \in Nat, n < c  PROVE Placed(k, n, c)
<1>1. n * k \in Nat /\ c * k \in Nat /\ n * k + k <= c * k  BY TimesOrder
<1>2. ASSUME NEW j \in 0 .. k - 1
      PROVE  /\ n * k + j \in 0 .. c * k - 1
             /\ n * k + j \in n * k .. n * k + k - 1 /\ (n * k + j) - n * k = j
  BY <1>1
<1>3. ASSUME NEW j \in 0 .. k - 1, NEW t \in 0 .. n - 1
      PROVE  t * k + j \in 0 .. c * k - 1 /\ t * k + j \notin n * k .. n * k + k - 1
  <2>1. t \in Nat /\ t < n  OBVIOUS
  <2>2. t * k \in Nat /\ t * k + k <= n * k  BY <2>1, TimesOrder
  <2>3. QED  BY <1>1, <2>2
<1>4. QED  BY <1>2, <1>3, Zenon DEF Placed

\* The rows of hidden states exist.
LEMMA HiddenRows ==
  ASSUME NEW m \in Models, NEW tokens
  PROVE  /\ \A p \in 0 .. Len(tokens) - 1 : Hidden(m, tokens)[0][p] = [token |-> tokens[p + 1]]
         /\ \A l \in 1 .. m.layers : \A p \in 0 .. Len(tokens) - 1 :
               Hidden(m, tokens)[l][p] = LayerAt(m, l, Hidden(m, tokens)[l - 1], p)
<1> DEFINE P == 0 .. Len(tokens) - 1
           Zero == [p \in P |-> [token |-> tokens[p + 1]]]
           Row(l, below) == [p \in P |-> LayerAt(m, l, below, p)]
           Is(H, n) == H = [l \in 0 .. n |-> IF l = 0 THEN Zero ELSE Row(l, H[l - 1])]
           Bad == {n \in Nat : ~ \E H : Is(H, n)}
<1>1. Hidden(m, tokens) = CHOOSE H : Is(H, m.layers)  BY DEF Hidden
<1> HIDE DEF P, Zero, Row
<1>2. Bad = {}
  <2>1. SUFFICES ASSUME Bad # {} PROVE FALSE  OBVIOUS
  <2>2. PICK n \in Bad : n = 0 \/ (n - 1 \in Nat /\ n - 1 \notin Bad)  BY <2>1, FirstOfNat
  <2>3. CASE n = 0
    <3> DEFINE H == [l \in 0 .. 0 |-> Zero]
    <3>1. Is(H, 0)  OBVIOUS
    <3>2. QED  BY <2>3, <3>1
  <2>4. CASE n # 0
    <3>1. n \in Nat /\ n - 1 \in Nat  BY <2>2, <2>4
    <3>2. PICK G : Is(G, n - 1)  BY <2>2, <2>4
    <3> DEFINE H == [l \in 0 .. n |-> IF l = n THEN Row(n, G[n - 1]) ELSE G[l]]
    <3>3. ASSUME NEW l \in 0 .. n
          PROVE  H[l] = IF l = 0 THEN Zero ELSE Row(l, H[l - 1])
      <4>1. CASE l = n
        <5>1. n - 1 \in 0 .. n /\ n - 1 # n /\ l # 0  BY <3>1, <2>4, <4>1
        <5>2. H[n - 1] = G[n - 1]  BY <5>1
        <5>3. QED  BY <4>1, <5>1, <5>2
      <4>2. CASE l # n
        <5>1. l \in 0 .. n - 1  BY <3>1, <4>2
        <5>2. G[l] = IF l = 0 THEN Zero ELSE Row(l, G[l - 1])  BY <3>2, <5>1
        <5>3. CASE l = 0  BY <4>2, <5>2, <5>3
        <5>4. CASE l # 0
          <6>1. l - 1 \in 0 .. n /\ l - 1 # n  BY <3>1, <5>1, <5>4
          <6>2. H[l - 1] = G[l - 1]  BY <6>1
          <6>3. QED  BY <4>2, <5>2, <6>2
        <5>5. QED  BY <5>3, <5>4
      <4>3. QED  BY <4>1, <4>2
    <3>4. H = [l \in 0 .. n |-> H[l]]  OBVIOUS
    <3> HIDE DEF H
    <3>5. Is(H, n)  BY <3>3, <3>4
    <3>6. QED  BY <3>5
  <2>5. QED  BY <2>3, <2>4
<1>3. m.layers \in Nat /\ 0 \in 0 .. m.layers  BY ModelFacts
<1>4. \E H : Is(H, m.layers)  BY <1>2, <1>3
<1>5. Is(Hidden(m, tokens), m.layers)  BY <1>1, <1>4
<1>6. Hidden(m, tokens)[0] = Zero  BY <1>3, <1>5
<1>7. ASSUME NEW l \in 1 .. m.layers
      PROVE  Hidden(m, tokens)[l] = Row(l, Hidden(m, tokens)[l - 1])
  <2>1. l \in 0 .. m.layers /\ l # 0  BY <1>3
  <2>2. QED  BY <1>5, <2>1
<1>8. \A p \in P : Zero[p] = [token |-> tokens[p + 1]]  BY DEF Zero
<1>9. ASSUME NEW l \in 1 .. m.layers, NEW p \in P
      PROVE  Hidden(m, tokens)[l][p] = LayerAt(m, l, Hidden(m, tokens)[l - 1], p)
  <2>1. Row(l, Hidden(m, tokens)[l - 1])[p] = LayerAt(m, l, Hidden(m, tokens)[l - 1], p)
    BY DEF Row
  <2>2. QED  BY <1>7, <2>1
<1>10. QED  BY <1>6, <1>8, <1>9 DEF P

LEMMA HiddenNext ==
  ASSUME NEW m \in Models, NEW tokens, NEW l \in 1 .. m.layers, NEW p \in 0 .. Len(tokens) - 1
  PROVE  Hidden(m, tokens)[l][p] = LayerAt(m, l, Hidden(m, tokens)[l - 1], p)
BY HiddenRows

\* The states of a token's layers exist.
InTurn(m, S) == \A l \in 1 .. m.layers : S[l] = LayerStep(m, S[l - 1], l)

LEMMA TokenStatesAre ==
  ASSUME NEW m \in Models, NEW state, NEW token
  PROVE  /\ TokenStates(m, state, token)[0] = [hidden |-> [token |-> token], caches |-> state.caches]
         /\ InTurn(m, TokenStates(m, state, token))
<1> DEFINE Zero == [hidden |-> [token |-> token], caches |-> state.caches]
           Is(S, n) == S = [l \in 0 .. n |-> IF l = 0 THEN Zero ELSE LayerStep(m, S[l - 1], l)]
           Bad == {n \in Nat : ~ \E S : Is(S, n)}
<1>1. TokenStates(m, state, token) = CHOOSE S : Is(S, m.layers)  BY DEF TokenStates
<1> HIDE DEF Zero
<1>2. Bad = {}
  <2>1. SUFFICES ASSUME Bad # {} PROVE FALSE  OBVIOUS
  <2>2. PICK n \in Bad : n = 0 \/ (n - 1 \in Nat /\ n - 1 \notin Bad)  BY <2>1, FirstOfNat
  <2>3. CASE n = 0
    <3> DEFINE S == [l \in 0 .. 0 |-> Zero]
    <3>1. Is(S, 0)  OBVIOUS
    <3>2. QED  BY <2>3, <3>1
  <2>4. CASE n # 0
    <3>1. n \in Nat /\ n - 1 \in Nat  BY <2>2, <2>4
    <3>2. PICK G : Is(G, n - 1)  BY <2>2, <2>4
    <3> DEFINE S == [l \in 0 .. n |-> IF l = n THEN LayerStep(m, G[n - 1], n) ELSE G[l]]
    <3>3. ASSUME NEW l \in 0 .. n
          PROVE  S[l] = IF l = 0 THEN Zero ELSE LayerStep(m, S[l - 1], l)
      <4>1. CASE l = n
        <5>1. n - 1 \in 0 .. n /\ n - 1 # n /\ l # 0  BY <3>1, <2>4, <4>1
        <5>2. S[n - 1] = G[n - 1]  BY <5>1
        <5>3. QED  BY <4>1, <5>1, <5>2
      <4>2. CASE l # n
        <5>1. l \in 0 .. n - 1  BY <3>1, <4>2
        <5>2. G[l] = IF l = 0 THEN Zero ELSE LayerStep(m, G[l - 1], l)  BY <3>2, <5>1
        <5>3. CASE l = 0  BY <4>2, <5>2, <5>3
        <5>4. CASE l # 0
          <6>1. l - 1 \in 0 .. n /\ l - 1 # n  BY <3>1, <5>1, <5>4
          <6>2. S[l - 1] = G[l - 1]  BY <6>1
          <6>3. QED  BY <4>2, <5>2, <6>2
        <5>5. QED  BY <5>3, <5>4
      <4>3. QED  BY <4>1, <4>2
    <3>4. S = [l \in 0 .. n |-> S[l]]  OBVIOUS
    <3> HIDE DEF S
    <3>5. Is(S, n)  BY <3>3, <3>4
    <3>6. QED  BY <3>5
  <2>5. QED  BY <2>3, <2>4
<1>3. m.layers \in Nat /\ 0 \in 0 .. m.layers  BY ModelFacts
<1>4. \E S : Is(S, m.layers)  BY <1>2, <1>3
<1>5. Is(TokenStates(m, state, token), m.layers)  BY <1>1, <1>4
<1>6. TokenStates(m, state, token)[0] = Zero  BY <1>3, <1>5
<1>7. ASSUME NEW l \in 1 .. m.layers
      PROVE  TokenStates(m, state, token)[l] = LayerStep(m, TokenStates(m, state, token)[l - 1], l)
  <2>1. l \in 0 .. m.layers /\ l # 0  BY <1>3
  <2>2. QED  BY <1>5, <2>1
<1>8. QED  BY <1>6, <1>7 DEF Zero, InTurn

LEMMA TokenStatesNext ==
  ASSUME NEW m \in Models, NEW state, NEW token, NEW l \in 1 .. m.layers
  PROVE  TokenStates(m, state, token)[l] = LayerStep(m, TokenStates(m, state, token)[l - 1], l)
<1>1. InTurn(m, TokenStates(m, state, token))  BY TokenStatesAre
<1>2. QED  BY <1>1 DEF InTurn

\* And those of a sequence of tokens.
LEMMA TokensStatesAre ==
  ASSUME NEW m, NEW state, NEW tokens \in Seq(Tokens)
  PROVE  /\ TokensStates(m, state, tokens)[0] = state
         /\ \A n \in 1 .. Len(tokens) :
               TokensStates(m, state, tokens)[n] = TokenStep(m, TokensStates(m, state, tokens)[n - 1], tokens[n])
<1> DEFINE Is(S, n) == S = [l \in 0 .. n |-> IF l = 0 THEN state ELSE TokenStep(m, S[l - 1], tokens[l])]
           Bad == {n \in Nat : ~ \E S : Is(S, n)}
<1>1. TokensStates(m, state, tokens) = CHOOSE S : Is(S, Len(tokens))  BY DEF TokensStates
<1>2. Bad = {}
  <2>1. SUFFICES ASSUME Bad # {} PROVE FALSE  OBVIOUS
  <2>2. PICK n \in Bad : n = 0 \/ (n - 1 \in Nat /\ n - 1 \notin Bad)  BY <2>1, FirstOfNat
  <2>3. CASE n = 0
    <3> DEFINE S == [l \in 0 .. 0 |-> state]
    <3>1. Is(S, 0)  OBVIOUS
    <3>2. QED  BY <2>3, <3>1
  <2>4. CASE n # 0
    <3>1. n \in Nat /\ n - 1 \in Nat  BY <2>2, <2>4
    <3>2. PICK G : Is(G, n - 1)  BY <2>2, <2>4
    <3> DEFINE S == [l \in 0 .. n |-> IF l = n THEN TokenStep(m, G[n - 1], tokens[n]) ELSE G[l]]
    <3>3. ASSUME NEW l \in 0 .. n
          PROVE  S[l] = IF l = 0 THEN state ELSE TokenStep(m, S[l - 1], tokens[l])
      <4>1. CASE l = n
        <5>1. n - 1 \in 0 .. n /\ n - 1 # n /\ l # 0  BY <3>1, <2>4, <4>1
        <5>2. S[n - 1] = G[n - 1]  BY <5>1
        <5>3. QED  BY <4>1, <5>1, <5>2
      <4>2. CASE l # n
        <5>1. l \in 0 .. n - 1  BY <3>1, <4>2
        <5>2. G[l] = IF l = 0 THEN state ELSE TokenStep(m, G[l - 1], tokens[l])  BY <3>2, <5>1
        <5>3. CASE l = 0  BY <4>2, <5>2, <5>3
        <5>4. CASE l # 0
          <6>1. l - 1 \in 0 .. n /\ l - 1 # n  BY <3>1, <5>1, <5>4
          <6>2. S[l - 1] = G[l - 1]  BY <6>1
          <6>3. QED  BY <4>2, <5>2, <6>2
        <5>5. QED  BY <5>3, <5>4
      <4>3. QED  BY <4>1, <4>2
    <3>4. S = [l \in 0 .. n |-> S[l]]  OBVIOUS
    <3> HIDE DEF S
    <3>5. Is(S, n)  BY <3>3, <3>4
    <3>6. QED  BY <3>5
  <2>5. QED  BY <2>3, <2>4
<1>3. Len(tokens) \in Nat /\ 0 \in 0 .. Len(tokens)  OBVIOUS
<1>4. \E S : Is(S, Len(tokens))  BY <1>2, <1>3
<1>5. Is(TokensStates(m, state, tokens), Len(tokens))  BY <1>1, <1>4
<1>6. TokensStates(m, state, tokens)[0] = state  BY <1>3, <1>5
<1>7. ASSUME NEW n \in 1 .. Len(tokens)
      PROVE  TokensStates(m, state, tokens)[n] = TokenStep(m, TokensStates(m, state, tokens)[n - 1], tokens[n])
  <2>1. n \in 0 .. Len(tokens) /\ n # 0  BY <1>3
  <2>2. QED  BY <1>5, <2>1
<1>8. QED  BY <1>6, <1>7

\* A prefix of the tokens has the hidden states it has in the whole.
LEMMA HiddenOfPrefix ==
  ASSUME NEW m \in Models, NEW s \in Seq(Tokens), NEW t \in Seq(Tokens),
         Len(s) <= Len(t), \A i \in 1 .. Len(s) : s[i] = t[i]
  PROVE  \A l \in 0 .. m.layers : \A p \in 0 .. Len(s) - 1 : Hidden(m, t)[l][p] = Hidden(m, s)[l][p]
<1> DEFINE Good(l) == \A p \in 0 .. Len(s) - 1 : Hidden(m, t)[l][p] = Hidden(m, s)[l][p]
           Bad == {l \in 0 .. m.layers : ~ Good(l)}
<1>1. m.layers \in Nat /\ Len(s) \in Nat /\ Len(t) \in Nat  BY ModelFacts
<1>2. Good(0)
  <2>1. SUFFICES ASSUME NEW p \in 0 .. Len(s) - 1
        PROVE Hidden(m, t)[0][p] = Hidden(m, s)[0][p]
    OBVIOUS
  <2>2. p \in 0 .. Len(t) - 1 /\ p + 1 \in 1 .. Len(s)  BY <1>1
  <2>3. s[p + 1] = t[p + 1]  BY <2>2
  <2>5. Hidden(m, t)[0][p] = [token |-> t[p + 1]] /\ Hidden(m, s)[0][p] = [token |-> s[p + 1]]
    BY <2>2, HiddenRows
  <2>6. QED  BY <2>3, <2>5
<1>3. ASSUME NEW l \in 1 .. m.layers, Good(l - 1) PROVE Good(l)
  <2>1. SUFFICES ASSUME NEW p \in 0 .. Len(s) - 1
        PROVE Hidden(m, t)[l][p] = Hidden(m, s)[l][p]
    OBVIOUS
  <2> DEFINE S == Hidden(m, s)[l - 1]
             T == Hidden(m, t)[l - 1]
  <2>2. p \in 0 .. Len(t) - 1  BY <1>1
  <2>3. Hidden(m, t)[l][p] = LayerAt(m, l, T, p) /\ Hidden(m, s)[l][p] = LayerAt(m, l, S, p)
    BY <2>2, HiddenRows
  <2>4. \A q \in 0 .. p : T[q] = S[q]  BY <1>1, <1>3
  <2> HIDE DEF S, T
  <2>5. LayerAt(m, l, T, p) = LayerAt(m, l, S, p)
    <3>1. T[p] = S[p]  BY <1>1, <2>4
    <3>2. QED  BY <2>4, <3>1 DEF LayerAt
  <2>6. QED  BY <2>3, <2>5
<1> HIDE DEF Good
<1>4. Bad = {}
  <2>1. SUFFICES ASSUME Bad # {} PROVE FALSE  OBVIOUS
  <2>2. Bad \subseteq Nat  BY <1>1
  <2>3. PICK l \in Bad : l = 0 \/ (l - 1 \in Nat /\ l - 1 \notin Bad)  BY <2>1, <2>2, FirstOfNat
  <2>4. l # 0  BY <1>2
  <2>5. l \in 1 .. m.layers /\ l - 1 \in 0 .. m.layers  BY <1>1, <2>3, <2>4
  <2>6. Good(l - 1)  BY <2>3, <2>4, <2>5
  <2>7. QED  BY <1>3, <2>5, <2>6
<1>5. QED  BY <1>4 DEF Good

\* The cache of layer l holds the keys and values of all positions, each in its place.
CacheHolds(m, c, l, tokens) ==
  /\ c = [ok |-> TRUE, k |-> c.k, v |-> c.v, len |-> Len(tokens)]
  /\ DOMAIN c.k = 0 .. m.context * m.kvHeads - 1
  /\ DOMAIN c.v = 0 .. m.context * m.kvHeads - 1
  /\ \A t \in 0 .. Len(tokens) - 1 : \A j \in 0 .. m.kvHeads - 1 :
        /\ c.k[t * m.kvHeads + j] = KeyOf(Hidden(m, tokens)[l - 1][t], j, t)
        /\ c.v[t * m.kvHeads + j] = ValueOf(Hidden(m, tokens)[l - 1][t], j)

IsCache(c) == c = [ok |-> c.ok, k |-> c.k, v |-> c.v, len |-> c.len] /\ c.ok \in BOOLEAN

\* The cache after has x at its end, and all else as c has it.
Grown(c, x, heads, after) ==
  /\ after = [ok |-> TRUE, k |-> after.k, v |-> after.v, len |-> c.len + 1]
  /\ DOMAIN after.k = DOMAIN c.k /\ DOMAIN after.v = DOMAIN c.v
  /\ \A i \in DOMAIN c.k :
        after.k[i] = IF i \in c.len * heads .. c.len * heads + heads - 1
                     THEN KeyOf(x, i - c.len * heads, c.len) ELSE c.k[i]
  /\ \A i \in DOMAIN c.v :
        after.v[i] = IF i \in c.len * heads .. c.len * heads + heads - 1
                     THEN ValueOf(x, i - c.len * heads) ELSE c.v[i]

\* What CacheAfter stores, and where.
LEMMA CacheAfterIs ==
  ASSUME NEW c, NEW x, NEW heads, IsCache(c)
  PROVE  /\ ~ c.ok => CacheAfter(c, x, heads) = c
         /\ c.ok => Grown(c, x, heads, CacheAfter(c, x, heads))
<1>1. c = [ok |-> c.ok, k |-> c.k, v |-> c.v, len |-> c.len] /\ c.ok \in BOOLEAN  BY DEF IsCache
<1>2. CASE ~ c.ok  BY <1>2 DEF CacheAfter
<1>3. CASE c.ok
  <2> DEFINE K == HeadsStored(c.k, c.len * heads, heads, LAMBDA j : KeyOf(x, j, c.len))
             V == HeadsStored(c.v, c.len * heads, heads, LAMBDA j : ValueOf(x, j))
  <2>1. CacheAfter(c, x, heads) = [c EXCEPT !.k = K, !.v = V, !.len = @ + 1]
    BY <1>3 DEF CacheAfter
  <2>2. K = [i \in DOMAIN c.k |-> IF i \in c.len * heads .. c.len * heads + heads - 1
                                  THEN KeyOf(x, i - c.len * heads, c.len) ELSE c.k[i]]
    BY DEF HeadsStored
  <2>3. V = [i \in DOMAIN c.v |-> IF i \in c.len * heads .. c.len * heads + heads - 1
                                  THEN ValueOf(x, i - c.len * heads) ELSE c.v[i]]
    BY DEF HeadsStored
  <2> HIDE DEF K, V
  <2>4. CacheAfter(c, x, heads) = [ok |-> TRUE, k |-> K, v |-> V, len |-> c.len + 1]
    BY <1>1, <1>3, <2>1
  <2> DEFINE after == CacheAfter(c, x, heads)
  <2>5. after.k = K /\ after.v = V  BY <2>4
  <2>6. after = [ok |-> TRUE, k |-> after.k, v |-> after.v, len |-> c.len + 1]  BY <2>4, <2>5
  <2> HIDE DEF after
  <2>7. /\ DOMAIN after.k = DOMAIN c.k
        /\ \A i \in DOMAIN c.k :
              after.k[i] = IF i \in c.len * heads .. c.len * heads + heads - 1
                           THEN KeyOf(x, i - c.len * heads, c.len) ELSE c.k[i]
    BY <2>2, <2>5, Zenon
  <2>8. /\ DOMAIN after.v = DOMAIN c.v
        /\ \A i \in DOMAIN c.v :
              after.v[i] = IF i \in c.len * heads .. c.len * heads + heads - 1
                           THEN ValueOf(x, i - c.len * heads) ELSE c.v[i]
    BY <2>3, <2>5, Zenon
  <2>9. QED  BY <1>3, <2>6, <2>7, <2>8, Zenon DEF after, Grown
<1>4. QED  BY <1>1, <1>2, <1>3, Zenon

LEMMA AppendFacts ==
  ASSUME NEW s \in Seq(Tokens), NEW token \in Tokens
  PROVE  /\ Append(s, token) \in Seq(Tokens) /\ Len(Append(s, token)) = Len(s) + 1
         /\ Len(s) \in Nat /\ Append(s, token)[Len(s) + 1] = token
         /\ \A i \in 1 .. Len(s) : s[i] = Append(s, token)[i]
OBVIOUS

\* With the next position the cache holds one token more.
LEMMA CacheAfterHolds ==
  ASSUME NEW m \in Models, NEW c, NEW l \in 1 .. m.layers, NEW s \in Seq(Tokens), NEW token \in Tokens,
         NEW x, x = Hidden(m, Append(s, token))[l - 1][Len(s)],
         CacheHolds(m, c, l, s), Len(s) < m.context
  PROVE  CacheHolds(m, CacheAfter(c, x, m.kvHeads), l, Append(s, token))
<1> DEFINE n == Len(s)
           k == m.kvHeads
           T == Append(s, token)
           below == Hidden(m, T)[l - 1]
           after == CacheAfter(c, x, k)
<1>1. n \in Nat /\ Len(T) = n + 1 /\ k \in Nat \ {0} /\ m.context \in Nat /\ n < m.context
      /\ l - 1 \in 0 .. m.layers
  BY ModelFacts, AppendFacts
<1>2. /\ c = [ok |-> TRUE, k |-> c.k, v |-> c.v, len |-> n]
      /\ DOMAIN c.k = 0 .. m.context * k - 1 /\ DOMAIN c.v = 0 .. m.context * k - 1
  BY DEF CacheHolds
<1>3. c.ok = TRUE /\ c.len = n  BY <1>2
<1>4. IsCache(c)  BY <1>2, <1>3 DEF IsCache
<1>5. \A t \in 0 .. n - 1 : \A j \in 0 .. k - 1 :
         c.k[t * k + j] = KeyOf(below[t], j, t) /\ c.v[t * k + j] = ValueOf(below[t], j)
  <2>1. \A t \in 0 .. n - 1 : below[t] = Hidden(m, s)[l - 1][t]
    <3>1. T \in Seq(Tokens) /\ n <= Len(T) /\ \A i \in 1 .. n : s[i] = T[i]  BY <1>1, AppendFacts
    <3>2. \A q \in 0 .. m.layers : \A p \in 0 .. n - 1 : Hidden(m, T)[q][p] = Hidden(m, s)[q][p]
      BY <3>1, HiddenOfPrefix
    <3>3. QED  BY <1>1, <3>2
  <2>2. \A t \in 0 .. n - 1 : \A j \in 0 .. k - 1 :
           c.k[t * k + j] = KeyOf(Hidden(m, s)[l - 1][t], j, t)
             /\ c.v[t * k + j] = ValueOf(Hidden(m, s)[l - 1][t], j)
    BY DEF CacheHolds
  <2> HIDE DEF n, k, below
  <2>3. QED  BY <2>1, <2>2
<1>6. /\ after = [ok |-> TRUE, k |-> after.k, v |-> after.v, len |-> n + 1]
      /\ DOMAIN after.k = 0 .. m.context * k - 1 /\ DOMAIN after.v = 0 .. m.context * k - 1
      /\ \A i \in 0 .. m.context * k - 1 :
            /\ after.k[i] = IF i \in n * k .. n * k + k - 1 THEN KeyOf(x, i - n * k, n) ELSE c.k[i]
            /\ after.v[i] = IF i \in n * k .. n * k + k - 1 THEN ValueOf(x, i - n * k) ELSE c.v[i]
  <2>1. c.ok  BY <1>3
  <2>2. Grown(c, x, k, after)  BY <1>4, <2>1, CacheAfterIs
  <2> HIDE DEF after, k, n
  <2>3. QED  BY <1>2, <1>3, <2>2, Zenon DEF Grown
<1>7. x = below[n]  OBVIOUS
<1> HIDE DEF n, k, below, after
<1>8. ASSUME NEW t \in 0 .. n, NEW j \in 0 .. k - 1
      PROVE  after.k[t * k + j] = KeyOf(below[t], j, t) /\ after.v[t * k + j] = ValueOf(below[t], j)
  <2>0. Placed(k, n, m.context)  BY <1>1, AllPlaced
  <2>1. CASE t = n
    <3>1. /\ n * k + j \in 0 .. m.context * k - 1 /\ n * k + j \in n * k .. n * k + k - 1
          /\ (n * k + j) - n * k = j
      BY <2>0, Zenon DEF Placed
    <3> DEFINE a == n * k + j
    <3>2. a \in 0 .. m.context * k - 1 /\ a \in n * k .. n * k + k - 1 /\ a - n * k = j  BY <3>1, Zenon
    <3> HIDE DEF a
    <3>3. after.k[a] = KeyOf(x, j, n) /\ after.v[a] = ValueOf(x, j)  BY <1>6, <3>2
    <3>4. a = t * k + j  BY <2>1 DEF a
    <3>5. QED  BY <1>7, <2>1, <3>3, <3>4
  <2>2. CASE t # n
    <3>1. t \in 0 .. n - 1  BY <1>1, <2>2
    <3>2. t * k + j \in 0 .. m.context * k - 1 /\ t * k + j \notin n * k .. n * k + k - 1
      BY <2>0, <3>1, Zenon DEF Placed
    <3>3. QED  BY <1>5, <1>6, <3>1, <3>2
  <2>3. QED  BY <2>1, <2>2
<1>9. /\ after = [ok |-> TRUE, k |-> after.k, v |-> after.v, len |-> n + 1]
      /\ DOMAIN after.k = 0 .. m.context * k - 1 /\ DOMAIN after.v = 0 .. m.context * k - 1
  BY <1>6, Zenon
<1>10. 0 .. Len(T) - 1 = 0 .. n  BY <1>1
<1>11. CacheHolds(m, after, l, T)  BY <1>1, <1>8, <1>9, <1>10 DEF CacheHolds, k, below
<1>12. QED  BY <1>11 DEF after, k

\* The models of which the reference is the measure: hs_ml.c's with one head.
Sound(m) == m.head = "float" => m.heads = 1

\* Either forward pass makes the same of a cache.
LEMMA LayerCacheIs ==
  ASSUME NEW m \in Models, NEW l, NEW x, NEW c
  PROVE  LayerForward(m, l, x, c).cache = CacheAfter(c, x, m.kvHeads)
<1>1. CASE m.head # "float"
  <2>1. LayerForward(m, l, x, c) = hs_mlt_layer_forward(m, l, x, c)  BY <1>1 DEF LayerForward
  <2>2. QED  BY <2>1 DEF hs_mlt_layer_forward
<1>2. CASE m.head = "float"
  <2>1. LayerForward(m, l, x, c) = hs_ml_layer_forward(m, l, x, c)  BY <1>2 DEF LayerForward
  <2>2. m.heads = m.kvHeads  BY <1>2, ModelFacts
  <2>3. QED  BY <2>1, <2>2 DEF hs_ml_layer_forward
<1>3. QED  BY <1>1, <1>2

\* And attends to what it holds then.
LEMMA LayerForwardIs ==
  ASSUME NEW m \in Models, Sound(m), NEW l, NEW x, NEW c
  PROVE  LayerForward(m, l, x, c).hidden =
              LayerOut(l, x, c.len,
                [h \in 0 .. m.heads - 1 |->
                   [t \in 0 .. CacheAfter(c, x, m.kvHeads).len - 1 |->
                      <<CacheAfter(c, x, m.kvHeads).k[t * m.kvHeads + KvHead(h, m.heads, m.kvHeads)],
                        CacheAfter(c, x, m.kvHeads).v[t * m.kvHeads + KvHead(h, m.heads, m.kvHeads)]>>]])
<1> DEFINE after == CacheAfter(c, x, m.kvHeads)
<1>1. CASE m.head # "float"
  <2>1. LayerForward(m, l, x, c) = hs_mlt_layer_forward(m, l, x, c)  BY <1>1 DEF LayerForward
  <2>2. QED  BY <2>1 DEF hs_mlt_layer_forward, Attended
<1>2. CASE m.head = "float"
  <2>1. LayerForward(m, l, x, c) = hs_ml_layer_forward(m, l, x, c)  BY <1>2 DEF LayerForward
  <2>2. m.heads = 1 /\ m.kvHeads = 1
    <3>1. m.heads = 1 /\ m.kvHeads = m.heads  BY <1>2, ModelFacts DEF Sound
    <3>2. QED  BY <3>1
  <2>3. hs_ml_layer_forward(m, l, x, c).hidden =
             LayerOut(l, x, c.len, [h \in 0 .. m.heads - 1 |-> MlAttended(after, h)])
    BY <2>2 DEF hs_ml_layer_forward
  <2> HIDE DEF after
  <2>4. ASSUME NEW h \in 0 .. m.heads - 1
        PROVE  MlAttended(after, h) =
                 [t \in 0 .. after.len - 1 |->
                    <<after.k[t * m.kvHeads + KvHead(h, m.heads, m.kvHeads)],
                      after.v[t * m.kvHeads + KvHead(h, m.heads, m.kvHeads)]>>]
    <3>1. h = 0  BY <2>2
    <3>2. \A t \in 0 .. after.len - 1 : h + t = t * m.kvHeads + KvHead(h, m.heads, m.kvHeads)
      BY <2>2, <3>1 DEF KvHead
    <3>3. QED  BY <3>2 DEF MlAttended
  <2>5. [h \in 0 .. m.heads - 1 |-> MlAttended(after, h)] =
          [h \in 0 .. m.heads - 1 |->
             [t \in 0 .. after.len - 1 |->
                <<after.k[t * m.kvHeads + KvHead(h, m.heads, m.kvHeads)],
                  after.v[t * m.kvHeads + KvHead(h, m.heads, m.kvHeads)]>>]]
    BY <2>4, Zenon
  <2>6. QED  BY <2>1, <2>3, <2>5, Zenon DEF after
<1>3. QED  BY <1>1, <1>2

\* So a layer makes of the state below, with the positions before in its cache, the
\* state the reference has.
LEMMA LayerIsTransformer ==
  ASSUME NEW m \in Models, Sound(m), NEW c, NEW l \in 1 .. m.layers,
         NEW s \in Seq(Tokens), NEW token \in Tokens,
         CacheHolds(m, c, l, s), Len(s) < m.context
  PROVE  LayerForward(m, l, Hidden(m, Append(s, token))[l - 1][Len(s)], c).hidden
           = Hidden(m, Append(s, token))[l][Len(s)]
<1> DEFINE n == Len(s)
           k == m.kvHeads
           T == Append(s, token)
           below == Hidden(m, T)[l - 1]
           x == below[n]
           after == CacheAfter(c, x, k)
           kv(h) == KvHead(h, m.heads, k)
<1>1. n \in Nat /\ Len(T) = n + 1  BY AppendFacts
<1>2. c.len = n  BY DEF CacheHolds
<1>3. CacheHolds(m, after, l, T)  BY CacheAfterHolds
<1>4. after.len = n + 1  BY <1>1, <1>3 DEF CacheHolds
<1>5. LayerForward(m, l, x, c).hidden =
        LayerOut(l, x, n, [h \in 0 .. m.heads - 1 |->
                             [t \in 0 .. after.len - 1 |-> <<after.k[t * k + kv(h)], after.v[t * k + kv(h)]>>]])
  BY <1>2, LayerForwardIs
<1>6. \A t \in 0 .. n : \A j \in 0 .. k - 1 :
         after.k[t * k + j] = KeyOf(below[t], j, t) /\ after.v[t * k + j] = ValueOf(below[t], j)
  <2>1. 0 .. Len(T) - 1 = 0 .. n  BY <1>1
  <2>2. QED  BY <1>3, <2>1 DEF CacheHolds
<1>7. \A h \in 0 .. m.heads - 1 : kv(h) \in 0 .. k - 1 /\ kv(h) = Group(m, h)  BY KvHeadIsGroup
<1>8. 0 .. after.len - 1 = 0 .. n  BY <1>1, <1>4
<1>9. x = below[n]  OBVIOUS
<1>10. Hidden(m, T)[l][n] = LayerAt(m, l, below, n)
  <2>1. n \in 0 .. Len(T) - 1  BY <1>1
  <2> HIDE DEF n, T, x, after, kv
  <2>2. QED  BY <2>1, HiddenNext
<1> HIDE DEF n, k, T, below, x, after, kv
<1>11. ASSUME NEW h \in 0 .. m.heads - 1, NEW t \in 0 .. n
       PROVE  <<after.k[t * k + kv(h)], after.v[t * k + kv(h)]>> =
              <<[key |-> below[t], head |-> Group(m, h), pos |-> t],
                [value |-> below[t], head |-> Group(m, h)]>>
  <2>1. /\ after.k[t * k + kv(h)] = KeyOf(below[t], kv(h), t)
        /\ after.v[t * k + kv(h)] = ValueOf(below[t], kv(h))
    BY <1>6, <1>7, Zenon
  <2>2. QED  BY <1>7, <2>1 DEF KeyOf, ValueOf
<1>12. [h \in 0 .. m.heads - 1 |-> [t \in 0 .. n |-> <<after.k[t * k + kv(h)], after.v[t * k + kv(h)]>>]]
         = [h \in 0 .. m.heads - 1 |-> [t \in 0 .. n |->
              <<[key |-> below[t], head |-> Group(m, h), pos |-> t],
                [value |-> below[t], head |-> Group(m, h)]>>]]
  <2>1. ASSUME NEW h \in 0 .. m.heads - 1
        PROVE  [t \in 0 .. n |-> <<after.k[t * k + kv(h)], after.v[t * k + kv(h)]>>] =
               [t \in 0 .. n |-> <<[key |-> below[t], head |-> Group(m, h), pos |-> t],
                                   [value |-> below[t], head |-> Group(m, h)]>>]
    BY <1>11, Zenon
  <2>2. QED  BY <2>1, Zenon
<1>13. LayerForward(m, l, x, c).hidden = LayerAt(m, l, below, n)
  BY <1>5, <1>8, <1>9, <1>12, Zenon DEF LayerOut, LayerAt
<1>14. QED  BY <1>10, <1>13 DEF T, n, x, below

\* The caches of all layers after these tokens; one that was not allocated holds nothing.
AllOk(m, caches) == \A l \in 1 .. m.layers : caches[l].ok
AreCaches(m, caches) ==
  /\ caches = [l \in 1 .. m.layers |-> caches[l]]
  /\ \A l \in 1 .. m.layers : IsCache(caches[l])
CachesHold(m, caches, tokens) ==
  AllOk(m, caches) => \A l \in 1 .. m.layers : CacheHolds(m, caches[l], l, tokens)
SameOk(m, caches, after) == \A l \in 1 .. m.layers : after[l].ok = caches[l].ok

LEMMA CacheAfterIsCache ==
  ASSUME NEW c, NEW x, NEW heads, IsCache(c)
  PROVE  IsCache(CacheAfter(c, x, heads)) /\ CacheAfter(c, x, heads).ok = c.ok
<1> DEFINE after == CacheAfter(c, x, heads)
<1>1. CASE ~ c.ok
  <2>1. after = c  BY <1>1, CacheAfterIs
  <2>2. QED  BY <2>1
<1>2. CASE c.ok
  <2>1. Grown(c, x, heads, after)  BY <1>2, CacheAfterIs
  <2>2. c.ok = TRUE  BY <1>2 DEF IsCache
  <2> HIDE DEF after
  <2>3. after = [ok |-> TRUE, k |-> after.k, v |-> after.v, len |-> c.len + 1]  BY <2>1 DEF Grown
  <2>4. after.ok = TRUE /\ after.len = c.len + 1  BY <2>3
  <2>5. QED  BY <2>2, <2>3, <2>4 DEF IsCache, after
<1>3. QED  BY <1>1, <1>2

\* What the layers up to l have made of a token that follows the tokens s.
Reached(m, caches, s, token, l, st) ==
  /\ AreCaches(m, st.caches) /\ SameOk(m, caches, st.caches)
  /\ \A i \in l + 1 .. m.layers : st.caches[i] = caches[i]
  /\ AllOk(m, caches) =>
       /\ st.hidden = Hidden(m, Append(s, token))[l][Len(s)]
       /\ \A i \in 1 .. l : CacheHolds(m, st.caches[i], i, Append(s, token))

LEMMA LayerReaches ==
  ASSUME NEW m \in Models, Sound(m), NEW s \in Seq(Tokens), NEW token \in Tokens, NEW caches,
         AreCaches(m, caches), CachesHold(m, caches, s), Len(s) < m.context,
         NEW l \in 1 .. m.layers, NEW st, Reached(m, caches, s, token, l - 1, st)
  PROVE  Reached(m, caches, s, token, l, LayerStep(m, st, l))
<1> DEFINE c == st.caches[l]
           out == LayerForward(m, l, st.hidden, c)
           after == CacheAfter(c, st.hidden, m.kvHeads)
           new == LayerStep(m, st, l)
<1>1. m.layers \in Nat /\ l \in Nat /\ l \in (l - 1) + 1 .. m.layers  BY ModelFacts
<1>2. out.cache = after  BY LayerCacheIs
<1>3. new.hidden = out.hidden /\ new.caches = [st.caches EXCEPT ![l] = after]
  BY <1>2 DEF LayerStep
<1>4. st.caches = [i \in 1 .. m.layers |-> st.caches[i]]
      /\ \A i \in 1 .. m.layers : IsCache(st.caches[i]) /\ st.caches[i].ok = caches[i].ok
  BY DEF Reached, AreCaches, SameOk
<1>5. c = caches[l]  BY <1>1 DEF Reached
<1>6. IsCache(after) /\ after.ok = c.ok
  <2>1. IsCache(c)  BY <1>4
  <2> HIDE DEF c
  <2>2. QED  BY <2>1, CacheAfterIsCache
<1> HIDE DEF new, c, after, out
<1>7. /\ new.caches = [i \in 1 .. m.layers |-> new.caches[i]]
      /\ new.caches[l] = after
      /\ \A i \in 1 .. m.layers : i # l => new.caches[i] = st.caches[i]
  BY <1>3, <1>4
<1>8. AreCaches(m, new.caches) /\ SameOk(m, caches, new.caches)
  BY <1>4, <1>5, <1>6, <1>7 DEF AreCaches, SameOk
<1>9. \A i \in l + 1 .. m.layers : new.caches[i] = caches[i]
  <2>1. SUFFICES ASSUME NEW i \in l + 1 .. m.layers PROVE new.caches[i] = caches[i]  OBVIOUS
  <2>2. i \in (l - 1) + 1 .. m.layers /\ i \in 1 .. m.layers /\ i # l  BY <1>1
  <2>3. QED  BY <1>7, <2>2 DEF Reached
<1>10. ASSUME AllOk(m, caches)
       PROVE  /\ new.hidden = Hidden(m, Append(s, token))[l][Len(s)]
              /\ \A i \in 1 .. l : CacheHolds(m, new.caches[i], i, Append(s, token))
  <2>1. /\ st.hidden = Hidden(m, Append(s, token))[l - 1][Len(s)]
        /\ \A i \in 1 .. l - 1 : CacheHolds(m, st.caches[i], i, Append(s, token))
    BY <1>10 DEF Reached
  <2>2. CacheHolds(m, c, l, s)  BY <1>5, <1>10 DEF CachesHold
  <2>3. new.hidden = Hidden(m, Append(s, token))[l][Len(s)]
    <3>1. LayerForward(m, l, Hidden(m, Append(s, token))[l - 1][Len(s)], c).hidden
            = Hidden(m, Append(s, token))[l][Len(s)]
      BY <2>2, LayerIsTransformer
    <3>2. LayerForward(m, l, st.hidden, c).hidden = Hidden(m, Append(s, token))[l][Len(s)]
      BY <2>1, <3>1, Zenon
    <3>3. QED  BY <1>3, <3>2 DEF out
  <2>4. CacheHolds(m, after, l, Append(s, token))  BY <2>1, <2>2, CacheAfterHolds DEF after
  <2>5. ASSUME NEW i \in 1 .. l PROVE CacheHolds(m, new.caches[i], i, Append(s, token))
    <3>1. CASE i = l  BY <1>7, <2>4, <3>1
    <3>2. CASE i # l
      <4>1. i \in 1 .. l - 1 /\ i \in 1 .. m.layers  BY <1>1, <3>2
      <4>2. QED  BY <1>7, <2>1, <3>2, <4>1
    <3>3. QED  BY <3>1, <3>2
  <2>6. QED  BY <2>3, <2>5
<1>11. QED  BY <1>8, <1>9, <1>10 DEF Reached, new

\* The state where the transformer stands on these tokens, if all caches are there.
Stands(m, caches, st, tokens) ==
  /\ AreCaches(m, st.caches) /\ SameOk(m, caches, st.caches)
  /\ CachesHold(m, st.caches, tokens)
  /\ AllOk(m, caches) => st.hidden = HiddenAt(m, tokens)

\* A token's step: the state of its position, and the caches with it.
LEMMA TokenIsTransformer ==
  ASSUME NEW m \in Models, Sound(m), NEW s \in Seq(Tokens), NEW token \in Tokens, NEW st,
         AreCaches(m, st.caches), CachesHold(m, st.caches, s), Len(s) < m.context
  PROVE  Stands(m, st.caches, TokenStep(m, st, token), Append(s, token))
<1> DEFINE T == Append(s, token)
           S == TokenStates(m, st, token)
           Good(l) == Reached(m, st.caches, s, token, l, S[l])
           Bad == {l \in 0 .. m.layers : ~ Good(l)}
<1>1. m.layers \in Nat \ {0} /\ T \in Seq(Tokens) /\ Len(T) = Len(s) + 1 /\ Len(s) \in Nat
      /\ T[Len(s) + 1] = token
  BY ModelFacts, AppendFacts
<1>2. Good(0)
  <2>1. S[0] = [hidden |-> [token |-> token], caches |-> st.caches]  BY TokenStatesAre
  <2>2. Hidden(m, T)[0][Len(s)] = [token |-> token]
    <3>1. Len(s) \in 0 .. Len(T) - 1  BY <1>1
    <3> HIDE DEF T
    <3>2. Hidden(m, T)[0][Len(s)] = [token |-> T[Len(s) + 1]]  BY <3>1, HiddenRows
    <3>3. QED  BY <1>1, <3>2
  <2> HIDE DEF S
  <2>3. S[0].hidden = [token |-> token] /\ S[0].caches = st.caches  BY <2>1
  <2>4. QED  BY <2>2, <2>3 DEF Reached, SameOk
<1>3. ASSUME NEW l \in 1 .. m.layers, Good(l - 1) PROVE Good(l)
  <2>1. S[l] = LayerStep(m, S[l - 1], l)  BY TokenStatesNext
  <2>2. QED  BY <1>3, <2>1, LayerReaches
<1> HIDE DEF Good
<1>4. Bad = {}
  <2>1. SUFFICES ASSUME Bad # {} PROVE FALSE  OBVIOUS
  <2>2. Bad \subseteq Nat  BY <1>1
  <2>3. PICK l \in Bad : l = 0 \/ (l - 1 \in Nat /\ l - 1 \notin Bad)  BY <2>1, <2>2, FirstOfNat
  <2>4. l # 0  BY <1>2
  <2>5. l \in 1 .. m.layers /\ l - 1 \in 0 .. m.layers  BY <1>1, <2>3, <2>4
  <2>6. Good(l - 1)  BY <2>3, <2>4, <2>5
  <2>7. QED  BY <1>3, <2>5, <2>6
<1> DEFINE new == TokenStep(m, st, token)
<1>5. Reached(m, st.caches, s, token, m.layers, new)
  <2>1. m.layers \in 0 .. m.layers  BY <1>1
  <2>2. QED  BY <1>4, <2>1 DEF Good, TokenStep
<1>6. HiddenAt(m, T) = Hidden(m, T)[m.layers][Len(s)]  BY <1>1 DEF HiddenAt
<1> HIDE DEF new
<1>7. AllOk(m, new.caches) <=> AllOk(m, st.caches)  BY <1>5 DEF Reached, SameOk, AllOk
<1>8. QED  BY <1>5, <1>6, <1>7 DEF Reached, CachesHold, Stands, new

\* And a sequence of tokens.
LEMMA TokensAreTransformer ==
  ASSUME NEW m \in Models, Sound(m), NEW s \in Seq(Tokens), NEW tokens \in Seq(Tokens), NEW st,
         AreCaches(m, st.caches), CachesHold(m, st.caches, s), Len(s) + Len(tokens) <= m.context
  PROVE  tokens # <<>> => Stands(m, st.caches, TokensStep(m, st, tokens), s \o tokens)
<1> DEFINE S == TokensStates(m, st, tokens)
           Past(n) == s \o SubSeq(tokens, 1, n)
           Good(n) == /\ AreCaches(m, S[n].caches) /\ SameOk(m, st.caches, S[n].caches)
                      /\ CachesHold(m, S[n].caches, Past(n))
                      /\ AllOk(m, st.caches) /\ n # 0 => S[n].hidden = HiddenAt(m, Past(n))
           Bad == {n \in 0 .. Len(tokens) : ~ Good(n)}
<1>1. Len(tokens) \in Nat /\ Len(s) \in Nat /\ m.context \in Nat  BY ModelFacts
<1>2. Past(0) = s /\ Past(Len(tokens)) = s \o tokens
  OBVIOUS
<1>3. ASSUME NEW n \in 1 .. Len(tokens)
      PROVE  /\ Past(n - 1) \in Seq(Tokens) /\ Len(Past(n - 1)) = Len(s) + n - 1
             /\ tokens[n] \in Tokens
             /\ Past(n) = Append(Past(n - 1), tokens[n])
  <2>1. SubSeq(tokens, 1, n - 1) \in Seq(Tokens) /\ Len(SubSeq(tokens, 1, n - 1)) = n - 1  OBVIOUS
  <2>2. SubSeq(tokens, 1, n) = Append(SubSeq(tokens, 1, n - 1), tokens[n])  OBVIOUS
  <2>3. QED  BY <2>1, <2>2
<1> HIDE DEF Past
<1>4. Good(0)
  <2>1. S[0] = st  BY TokensStatesAre
  <2>2. QED  BY <1>2, <2>1 DEF SameOk
<1>5. ASSUME NEW n \in 1 .. Len(tokens), Good(n - 1) PROVE Good(n)
  <2>1. S[n] = TokenStep(m, S[n - 1], tokens[n])  BY TokensStatesAre
  <2>2. Len(Past(n - 1)) < m.context  BY <1>1, <1>3
  <2> HIDE DEF S
  <2>3. Stands(m, S[n - 1].caches, S[n], Past(n))
    <3>1. AreCaches(m, S[n - 1].caches) /\ CachesHold(m, S[n - 1].caches, Past(n - 1))  BY <1>5
    <3>2. Stands(m, S[n - 1].caches, TokenStep(m, S[n - 1], tokens[n]), Append(Past(n - 1), tokens[n]))
      BY <1>3, <2>2, <3>1, TokenIsTransformer
    <3>3. QED  BY <1>3, <2>1, <3>2
  <2>4. SameOk(m, st.caches, S[n].caches) /\ (AllOk(m, st.caches) => AllOk(m, S[n - 1].caches))
    BY <1>5, <2>3 DEF Stands, SameOk, AllOk
  <2>5. QED  BY <2>3, <2>4 DEF Stands
<1> HIDE DEF Good
<1>6. Bad = {}
  <2>1. SUFFICES ASSUME Bad # {} PROVE FALSE  OBVIOUS
  <2>2. Bad \subseteq Nat  BY <1>1
  <2>3. PICK n \in Bad : n = 0 \/ (n - 1 \in Nat /\ n - 1 \notin Bad)  BY <2>1, <2>2, FirstOfNat
  <2>4. n # 0  BY <1>4
  <2>5. n \in 1 .. Len(tokens) /\ n - 1 \in 0 .. Len(tokens)  BY <1>1, <2>3, <2>4
  <2>6. Good(n - 1)  BY <2>3, <2>4, <2>5
  <2>7. QED  BY <1>5, <2>5, <2>6
<1>7. Good(Len(tokens))
  <2>1. Len(tokens) \in 0 .. Len(tokens)  BY <1>1
  <2>2. QED  BY <1>6, <2>1
<1>8. TokensStep(m, st, tokens) = S[Len(tokens)]  BY DEF TokensStep
<1>9. tokens # <<>> => Len(tokens) # 0  OBVIOUS
<1>10. QED  BY <1>2, <1>7, <1>8, <1>9 DEF Good, Stands

LEMMA ClearedIs ==
  ASSUME NEW len, NEW c, c = [ok |-> TRUE, k |-> c.k, v |-> c.v, len |-> len]
  PROVE  hs_kv_cache_clear(c) = [ok |-> TRUE, k |-> [i \in DOMAIN c.k |-> Unset],
                                 v |-> [i \in DOMAIN c.v |-> Unset], len |-> 0]
<1> DEFINE K == [i \in DOMAIN c.k |-> Unset]
           V == [i \in DOMAIN c.v |-> Unset]
           d == hs_kv_cache_clear(c)
<1>1. d = [c EXCEPT !.k = K, !.v = V, !.len = 0]  BY DEF hs_kv_cache_clear
<1>2. c.ok = TRUE /\ c.len = len  OBVIOUS
<1>3. c = [ok |-> c.ok, k |-> c.k, v |-> c.v, len |-> c.len]  BY <1>2
<1> HIDE DEF K, V, d
<1>4. d = [ok |-> TRUE, k |-> K, v |-> V, len |-> 0]
  <2>1. ASSUME NEW x, x = [ok |-> x.ok, k |-> x.k, v |-> x.v, len |-> x.len], NEW k, NEW v,
               NEW y, y = [x EXCEPT !.k = k, !.v = v, !.len = 0]
        PROVE  y = [ok |-> x.ok, k |-> k, v |-> v, len |-> 0]
    BY <2>1
  <2>2. QED  BY <1>1, <1>2, <1>3, <2>1
<1>5. QED  BY <1>4 DEF K, V, d

\* New caches hold nothing, of no token.
LEMMA EmptyCachesHold ==
  ASSUME NEW m \in Models
  PROVE  /\ AreCaches(m, EmptyCaches(m)) /\ AllOk(m, EmptyCaches(m))
         /\ CachesHold(m, EmptyCaches(m), <<>>)
         /\ AreCaches(m, [EmptyCaches(m) EXCEPT ![1] = NoCache])
         /\ ~ AllOk(m, [EmptyCaches(m) EXCEPT ![1] = NoCache])
<1> DEFINE zero == [i \in 0 .. m.context * m.kvHeads - 1 |-> Unset]
           new == [ok |-> TRUE, k |-> zero, v |-> zero, len |-> 0]
           caches == EmptyCaches(m)
           lost == [EmptyCaches(m) EXCEPT ![1] = NoCache]
<1>1. m.layers \in Nat /\ 1 \in 1 .. m.layers  BY ModelFacts
<1>2. caches = [l \in 1 .. m.layers |-> new]  BY DEF EmptyCaches, hs_kv_cache_init
<1>3. DOMAIN zero = 0 .. m.context * m.kvHeads - 1  OBVIOUS
<1> HIDE DEF zero
<1>4. new.ok = TRUE /\ new.k = zero /\ new.v = zero /\ new.len = 0  OBVIOUS
<1>5. IsCache(new)
  <2>1. new = [ok |-> new.ok, k |-> new.k, v |-> new.v, len |-> new.len]  BY <1>4
  <2>2. QED  BY <1>4, <2>1 DEF IsCache
<1>6. ASSUME NEW l PROVE CacheHolds(m, new, l, <<>>)
  <2>1. Len(<<>>) = 0 /\ 0 .. 0 - 1 = {}  OBVIOUS
  <2>2. QED  BY <1>3, <1>4, <2>1 DEF CacheHolds
<1> HIDE DEF new
<1>7. \A l \in 1 .. m.layers : caches[l] = new  BY <1>2
<1>8. caches = [l \in 1 .. m.layers |-> caches[l]]  BY <1>2
<1>9. lost = [l \in 1 .. m.layers |-> lost[l]] /\ lost[1] = NoCache
      /\ \A l \in 1 .. m.layers : l # 1 => lost[l] = new
  BY <1>1, <1>2
<1>10. IsCache(NoCache) /\ NoCache.ok = FALSE  BY DEF NoCache, IsCache
<1> HIDE DEF caches, lost
<1>11. AreCaches(m, caches) /\ AllOk(m, caches) /\ CachesHold(m, caches, <<>>)
  BY <1>4, <1>5, <1>6, <1>7, <1>8 DEF AreCaches, AllOk, CachesHold
<1>12. AreCaches(m, lost)
  <2>1. ASSUME NEW l \in 1 .. m.layers PROVE IsCache(lost[l])
    <3>1. CASE l = 1  BY <1>9, <1>10, <3>1
    <3>2. CASE l # 1  BY <1>5, <1>9, <3>2
    <3>3. QED  BY <3>1, <3>2
  <2>2. QED  BY <1>9, <2>1 DEF AreCaches
<1>13. ~ AllOk(m, lost)  BY <1>1, <1>9, <1>10 DEF AllOk
<1>14. QED  BY <1>11, <1>12, <1>13 DEF caches, lost

\* So do cleared ones.
LEMMA ClearedCachesHold ==
  ASSUME NEW m \in Models, NEW caches, NEW s, AreCaches(m, caches), CachesHold(m, caches, s),
         AllOk(m, caches), NEW after, after = [l \in DOMAIN caches |-> hs_kv_cache_clear(caches[l])]
  PROVE  AreCaches(m, after) /\ AllOk(m, after) /\ CachesHold(m, after, <<>>)
<1>1. DOMAIN caches = 1 .. m.layers  BY DEF AreCaches
<1>2. after = [l \in 1 .. m.layers |-> after[l]]
      /\ \A l \in 1 .. m.layers : after[l] = hs_kv_cache_clear(caches[l])
  BY <1>1
<1>3. ASSUME NEW l \in 1 .. m.layers
      PROVE  IsCache(after[l]) /\ after[l].ok = TRUE /\ CacheHolds(m, after[l], l, <<>>)
  <2> DEFINE c == caches[l]
             K == [i \in DOMAIN c.k |-> Unset]
             V == [i \in DOMAIN c.v |-> Unset]
             new == [ok |-> TRUE, k |-> K, v |-> V, len |-> 0]
  <2>1. CacheHolds(m, c, l, s)  BY DEF CachesHold
  <2>2. /\ c = [ok |-> TRUE, k |-> c.k, v |-> c.v, len |-> Len(s)]
        /\ DOMAIN c.k = 0 .. m.context * m.kvHeads - 1 /\ DOMAIN c.v = 0 .. m.context * m.kvHeads - 1
    BY <2>1 DEF CacheHolds
  <2>3. after[l] = [ok |-> TRUE, k |-> K, v |-> V, len |-> 0]  BY <1>2, <2>2, ClearedIs
  <2>4. DOMAIN K = 0 .. m.context * m.kvHeads - 1 /\ DOMAIN V = 0 .. m.context * m.kvHeads - 1
    BY <2>2
  <2> HIDE DEF c, K, V
  <2>5. after[l] = new  BY <2>3
  <2>6. new.ok = TRUE /\ new.k = K /\ new.v = V /\ new.len = 0  OBVIOUS
  <2>7. IsCache(new)
    <3>1. new = [ok |-> new.ok, k |-> new.k, v |-> new.v, len |-> new.len]  BY <2>6
    <3>2. QED  BY <2>6, <3>1 DEF IsCache
  <2>8. CacheHolds(m, new, l, <<>>)
    <3>1. Len(<<>>) = 0 /\ 0 .. 0 - 1 = {}  OBVIOUS
    <3>2. QED  BY <2>4, <2>6, <3>1 DEF CacheHolds
  <2>9. QED  BY <2>5, <2>6, <2>7, <2>8
<1>4. QED  BY <1>2, <1>3 DEF AreCaches, AllOk, CachesHold

\* A forward pass over these tokens is the transformer's.
LEMMA ForwardIsTransformer ==
  ASSUME NEW m \in Models, Sound(m), NEW tokens \in Seq(Tokens), tokens # <<>>,
         Len(tokens) <= m.context
  PROVE  FromNothing(m, tokens) = HiddenAt(m, tokens)
<1> DEFINE st == [hidden |-> Unset, caches |-> EmptyCaches(m)]
<1>1. st.caches = EmptyCaches(m)  OBVIOUS
<1>2. FromNothing(m, tokens) = TokensStep(m, st, tokens).hidden  BY DEF FromNothing
<1> HIDE DEF st
<1>3. AreCaches(m, st.caches) /\ AllOk(m, st.caches) /\ CachesHold(m, st.caches, <<>>)
  BY <1>1, EmptyCachesHold
<1>4. <<>> \in Seq(Tokens) /\ Len(<<>>) = 0 /\ Len(tokens) \in Nat /\ <<>> \o tokens = tokens
  OBVIOUS
<1>5. Len(<<>>) + Len(tokens) <= m.context  BY <1>4
<1>6. Stands(m, st.caches, TokensStep(m, st, tokens), <<>> \o tokens)
  BY <1>3, <1>4, <1>5, TokensAreTransformer
<1>7. QED  BY <1>2, <1>3, <1>4, <1>6 DEF Stands

-----------------------------------------------------------------------------

IsSession(x) ==
  /\ x = [ready |-> x.ready, hidden |-> x.hidden, caches |-> x.caches,
          seqLen |-> x.seqLen, coarse |-> x.coarse]
  /\ x.ready \in BOOLEAN

\* The session x of a model stands on the tokens s.
SessionStands(m, x, s) ==
  /\ IsSession(x)
  /\ s \in Seq(Tokens) /\ x.seqLen = Len(s) /\ Len(s) <= m.context
  /\ x.ready => /\ m.head # "float"
                /\ AreCaches(m, x.caches)
                /\ CachesHold(m, x.caches, s)
                /\ AllOk(m, x.caches) /\ s # <<>> => x.hidden = HiddenAt(m, s)

IsGeneration(g) ==
  /\ g = [tokens |-> g.tokens, prompt |-> g.prompt, count |-> g.count]
  /\ g.tokens \in Seq(Tokens) /\ g.tokens # <<>>

SessionsStand ==
  /\ sessions = [u \in Users |-> sessions[u]]
  /\ seen = [u \in Users |-> seen[u]]
  /\ \A u \in Users : SessionStands(model, sessions[u], seen[u])

\* The invariant of a run: every session stands on its tokens, and the last answer
\* is made of the tokens it was asked for.
InferInv ==
  /\ model \in Models
  /\ SessionsStand
  /\ generation = None \/ IsGeneration(generation)
  /\ LogitsAreCurrent

LEMMA PromptFacts ==
  ASSUME NEW tokens \in Prompts
  PROVE  tokens \in Seq(Tokens) /\ tokens # <<>> /\ Len(tokens) \in Nat
<1>1. PICK n \in 1 .. MaxPrompt : tokens \in [1 .. n -> Tokens]  BY DEF Prompts
<1>2. n \in Nat /\ n # 0  BY BoundsAssumption
<1>3. tokens \in Seq(Tokens)  BY <1>1, <1>2
<1>4. Len(tokens) = n  BY <1>1, <1>2
<1>5. QED  BY <1>2, <1>3, <1>4

\* A session fed more tokens stands on those too.
LEMMA FedStands ==
  ASSUME model \in Models, NEW x, NEW s, SessionStands(model, x, s), x.ready,
         NEW tokens \in Seq(Tokens), tokens # <<>>, x.seqLen + Len(tokens) <= model.context
  PROVE  SessionStands(model, Fed(x, tokens), s \o tokens) /\ Fed(x, tokens).ready = TRUE
<1> DEFINE st == [hidden |-> x.hidden, caches |-> x.caches]
           after == TokensStep(model, st, tokens)
           new == Fed(x, tokens)
           all == s \o tokens
<1>1. IsSession(x) /\ s \in Seq(Tokens) /\ x.seqLen = Len(s) /\ model.head # "float"
      /\ AreCaches(model, x.caches) /\ CachesHold(model, x.caches, s)
  BY DEF SessionStands
<1>2. st.caches = x.caches  OBVIOUS
<1>3. new = [x EXCEPT !.hidden = after.hidden, !.caches = after.caches, !.seqLen = @ + Len(tokens)]
  BY DEF Fed
<1>4. Sound(model)  BY <1>1 DEF Sound
<1> HIDE DEF st
<1>5. Stands(model, x.caches, after, all)
  <2>1. Len(s) + Len(tokens) <= model.context  BY <1>1
  <2>2. Stands(model, st.caches, after, all)
    BY <1>1, <1>2, <1>4, <2>1, TokensAreTransformer
  <2>3. QED  BY <1>2, <2>2
<1>6. all \in Seq(Tokens) /\ Len(all) = Len(s) + Len(tokens)  BY <1>1
<1> HIDE DEF after, new, all
<1>7. x = [ready |-> x.ready, hidden |-> x.hidden, caches |-> x.caches,
           seqLen |-> x.seqLen, coarse |-> x.coarse] /\ x.ready = TRUE
  BY <1>1 DEF IsSession
<1>8. new = [ready |-> TRUE, hidden |-> after.hidden, caches |-> after.caches,
             seqLen |-> x.seqLen + Len(tokens), coarse |-> x.coarse]
  BY <1>3, <1>7
<1>9. new.ready = TRUE /\ new.hidden = after.hidden /\ new.caches = after.caches
      /\ new.seqLen = x.seqLen + Len(tokens) /\ new.coarse = x.coarse
  BY <1>8
<1>10. IsSession(new)  BY <1>8, <1>9 DEF IsSession
<1>11. AllOk(model, new.caches) => AllOk(model, x.caches)
  BY <1>5, <1>9 DEF Stands, SameOk, AllOk
<1>12. Len(all) <= model.context /\ new.seqLen = Len(all)  BY <1>1, <1>6, <1>9
<1>13. QED  BY <1>1, <1>5, <1>6, <1>9, <1>10, <1>11, <1>12 DEF Stands, SessionStands, new, all

\* Only the session u changed, and it stands again.
LEMMA OthersStand ==
  ASSUME SessionsStand, model' = model, NEW u \in Users, NEW x, NEW s,
         sessions' = [sessions EXCEPT ![u] = x], seen' = [seen EXCEPT ![u] = s],
         SessionStands(model, x, s)
  PROVE  SessionsStand'
<1>1. /\ sessions = [v \in Users |-> sessions[v]] /\ seen = [v \in Users |-> seen[v]]
      /\ \A v \in Users : SessionStands(model, sessions[v], seen[v])
  BY DEF SessionsStand
<1>2. /\ sessions' = [v \in Users |-> sessions'[v]] /\ sessions'[u] = x
      /\ \A v \in Users : v # u => sessions'[v] = sessions[v]
  BY <1>1
<1>3. /\ seen' = [v \in Users |-> seen'[v]] /\ seen'[u] = s
      /\ \A v \in Users : v # u => seen'[v] = seen[v]
  BY <1>1
<1>4. ASSUME NEW v \in Users PROVE SessionStands(model', sessions'[v], seen'[v])
  <2>1. CASE v = u  BY <1>2, <1>3, <2>1
  <2>2. CASE v # u  BY <1>1, <1>2, <1>3, <2>2
  <2>3. QED  BY <2>1, <2>2
<1>5. QED  BY <1>2, <1>3, <1>4 DEF SessionsStand

LEMMA NoSessionStands ==
  ASSUME NEW m \in Models
  PROVE  SessionStands(m, NoSession, <<>>)
<1>1. m.context \in Nat  BY ModelFacts
<1>2. /\ NoSession.ready = FALSE /\ NoSession.hidden = Unset /\ NoSession.caches = <<>>
      /\ NoSession.seqLen = 0 /\ NoSession.coarse = Unset
  BY DEF NoSession
<1>3. IsSession(NoSession)
  <2>1. NoSession = [ready |-> FALSE, hidden |-> Unset, caches |-> <<>>, seqLen |-> 0, coarse |-> Unset]
    BY DEF NoSession
  <2>2. QED  BY <1>2, <2>1 DEF IsSession
<1>4. <<>> \in Seq(Tokens) /\ Len(<<>>) = 0  OBVIOUS
<1>5. QED  BY <1>1, <1>2, <1>3, <1>4 DEF SessionStands

LEMMA InferInvInit == InferenceInit => InferInv
<1> SUFFICES ASSUME InferenceInit PROVE InferInv  OBVIOUS
<1>1. model \in Models /\ sessions = [u \in Users |-> NoSession] /\ seen = [u \in Users |-> <<>>]
      /\ generation = None /\ answer = None
  BY DEF InferenceInit
<1>2. SessionsStand
  <2>1. sessions = [u \in Users |-> sessions[u]] /\ seen = [u \in Users |-> seen[u]]
        /\ \A u \in Users : sessions[u] = NoSession /\ seen[u] = <<>>
    BY <1>1
  <2>2. QED  BY <1>1, <2>1, NoSessionStands DEF SessionsStand
<1>3. QED  BY <1>1, <1>2 DEF InferInv, LogitsAreCurrent

\* A session with some of its fields changed.
LEMMA SessionChanged ==
  ASSUME NEW x, IsSession(x), NEW caches
  PROVE  /\ \A y : y = [x EXCEPT !.ready = TRUE, !.caches = caches] =>
                 y = [ready |-> TRUE, hidden |-> x.hidden, caches |-> caches,
                      seqLen |-> x.seqLen, coarse |-> x.coarse]
         /\ \A y : y = [x EXCEPT !.seqLen = 0, !.caches = caches] =>
                 y = [ready |-> x.ready, hidden |-> x.hidden, caches |-> caches,
                      seqLen |-> 0, coarse |-> x.coarse]
<1>1. x = [ready |-> x.ready, hidden |-> x.hidden, caches |-> x.caches,
           seqLen |-> x.seqLen, coarse |-> x.coarse]
  BY DEF IsSession
<1>2. ASSUME NEW y, y = [x EXCEPT !.ready = TRUE, !.caches = caches]
      PROVE  y = [ready |-> TRUE, hidden |-> x.hidden, caches |-> caches,
                  seqLen |-> x.seqLen, coarse |-> x.coarse]
  BY <1>1, <1>2
<1>3. ASSUME NEW y, y = [x EXCEPT !.seqLen = 0, !.caches = caches]
      PROVE  y = [ready |-> x.ready, hidden |-> x.hidden, caches |-> caches,
                  seqLen |-> 0, coarse |-> x.coarse]
  BY <1>1, <1>3
<1>4. QED  BY <1>2, <1>3

LEMMA SessionInitStep ==
  ASSUME InferInv, NEW u \in Users, SessionInit(u)
  PROVE  InferInv'
<1>1. PICK caches \in NewCaches :
         sessions' = [sessions EXCEPT ![u] = [NoSession EXCEPT !.ready = TRUE, !.caches = caches]]
  BY DEF SessionInit
<1>2. /\ u \in model.users /\ seen' = [seen EXCEPT ![u] = <<>>] /\ answer' = None
      /\ model' = model /\ generation' = generation
  BY DEF SessionInit
<1>3. model \in Models /\ SessionsStand /\ (generation = None \/ IsGeneration(generation))
  BY DEF InferInv
<1> DEFINE new == [NoSession EXCEPT !.ready = TRUE, !.caches = caches]
<1>4. new = [ready |-> TRUE, hidden |-> Unset, caches |-> caches, seqLen |-> 0, coarse |-> Unset]
  <2>1. IsSession(NoSession)  BY <1>3, NoSessionStands DEF SessionStands
  <2>2. NoSession.hidden = Unset /\ NoSession.seqLen = 0 /\ NoSession.coarse = Unset
    BY DEF NoSession
  <2> DEFINE was == NoSession
  <2>3. new = [ready |-> TRUE, hidden |-> was.hidden, caches |-> caches,
               seqLen |-> was.seqLen, coarse |-> was.coarse]
    BY <2>1, SessionChanged, Zenon
  <2>4. QED  BY <2>2, <2>3
<1> HIDE DEF new
<1>5. new.ready = TRUE /\ new.caches = caches /\ new.seqLen = 0 /\ new.hidden = Unset
      /\ new.coarse = Unset
  BY <1>4
<1>6. IsSession(new)  BY <1>4, <1>5 DEF IsSession
<1>7. AreCaches(model, caches) /\ CachesHold(model, caches, <<>>)
  <2>1. CASE caches = EmptyCaches(model)  BY <1>3, <2>1, EmptyCachesHold
  <2>2. CASE caches = [EmptyCaches(model) EXCEPT ![1] = NoCache]
    <3>1. AreCaches(model, caches) /\ ~ AllOk(model, caches)  BY <1>3, <2>2, EmptyCachesHold
    <3>2. QED  BY <3>1 DEF CachesHold
  <2>3. QED  BY <2>1, <2>2 DEF NewCaches
<1>8. model.head # "float" /\ model.context \in Nat
  <2>1. model.head = "float" => model.users = {}  BY <1>3, ModelFacts
  <2>2. QED  BY <1>2, <1>3, <2>1, ModelFacts
<1>9. SessionStands(model, new, <<>>)
  <2>1. <<>> \in Seq(Tokens) /\ Len(<<>>) = 0  OBVIOUS
  <2>2. QED  BY <1>5, <1>6, <1>7, <1>8, <2>1 DEF SessionStands
<1>10. SessionsStand'
  <2>1. sessions' = [sessions EXCEPT ![u] = new]  BY <1>1 DEF new
  <2>2. QED  BY <1>2, <1>3, <1>9, <2>1, OthersStand
<1>11. QED  BY <1>2, <1>3, <1>10 DEF InferInv, LogitsAreCurrent, IsGeneration

LEMMA SessionFreeStep ==
  ASSUME InferInv, NEW u \in Users, SessionFree(u)
  PROVE  InferInv'
<1>1. /\ sessions' = [sessions EXCEPT ![u] = NoSession]
      /\ seen' = [seen EXCEPT ![u] = <<>>] /\ answer' = None
      /\ model' = model /\ generation' = generation
  BY DEF SessionFree
<1>2. model \in Models /\ SessionsStand /\ (generation = None \/ IsGeneration(generation))
  BY DEF InferInv
<1>3. SessionsStand'  BY <1>1, <1>2, NoSessionStands, OthersStand
<1>4. QED  BY <1>1, <1>2, <1>3 DEF InferInv, LogitsAreCurrent, IsGeneration

LEMMA SessionResetStep ==
  ASSUME InferInv, NEW u \in Users, SessionReset(u)
  PROVE  InferInv'
<1> DEFINE x == sessions[u]
           cleared == [l \in DOMAIN x.caches |-> hs_kv_cache_clear(x.caches[l])]
           new == [x EXCEPT !.seqLen = 0, !.caches = cleared]
<1>1. /\ x.ready /\ \A l \in DOMAIN x.caches : x.caches[l].ok
      /\ sessions' = [sessions EXCEPT ![u].seqLen = 0,
                        ![u].caches = [l \in DOMAIN @ |-> hs_kv_cache_clear(@[l])]]
      /\ seen' = [seen EXCEPT ![u] = <<>>] /\ answer' = None
      /\ model' = model /\ generation' = generation
  BY DEF SessionReset
<1>2. model \in Models /\ SessionsStand /\ (generation = None \/ IsGeneration(generation))
  BY DEF InferInv
<1>3. SessionStands(model, x, seen[u]) /\ sessions = [v \in Users |-> sessions[v]]
  BY <1>2 DEF SessionsStand
<1>4. sessions' = [sessions EXCEPT ![u] = new]  BY <1>1, <1>3
<1>5. AreCaches(model, x.caches) /\ CachesHold(model, x.caches, seen[u]) /\ model.head # "float"
      /\ IsSession(x)
  BY <1>1, <1>3 DEF SessionStands
<1>6. AllOk(model, x.caches)
  <2>1. DOMAIN x.caches = 1 .. model.layers  BY <1>5 DEF AreCaches
  <2>2. QED  BY <1>1, <2>1 DEF AllOk
<1> HIDE DEF x
<1>7. AreCaches(model, cleared) /\ CachesHold(model, cleared, <<>>)
  BY <1>2, <1>5, <1>6, ClearedCachesHold
<1>8. x = [ready |-> x.ready, hidden |-> x.hidden, caches |-> x.caches,
           seqLen |-> x.seqLen, coarse |-> x.coarse]
  BY <1>5 DEF IsSession
<1> HIDE DEF cleared
<1>9. new = [ready |-> x.ready, hidden |-> x.hidden, caches |-> cleared,
             seqLen |-> 0, coarse |-> x.coarse]
  BY <1>5, SessionChanged, Zenon
<1> HIDE DEF new
<1>10. new.ready = x.ready /\ new.hidden = x.hidden /\ new.caches = cleared
       /\ new.seqLen = 0 /\ new.coarse = x.coarse
  BY <1>9
<1>11. IsSession(new)  BY <1>5, <1>9, <1>10 DEF IsSession
<1>12. SessionStands(model, new, <<>>)
  <2>1. <<>> \in Seq(Tokens) /\ Len(<<>>) = 0 /\ model.context \in Nat  BY <1>2, ModelFacts
  <2>2. QED  BY <1>5, <1>7, <1>10, <1>11, <2>1 DEF SessionStands
<1>13. SessionsStand'  BY <1>1, <1>2, <1>4, <1>12, OthersStand
<1>14. QED  BY <1>1, <1>2, <1>13 DEF InferInv, LogitsAreCurrent, IsGeneration

LEMMA PrefillStep ==
  ASSUME InferInv, NEW u \in Users, Prefill(u)
  PROVE  InferInv'
<1>1. PICK tokens \in Prompts :
        /\ Fits(u, Len(tokens))
        /\ sessions' = [sessions EXCEPT ![u] = Fed(@, tokens)]
        /\ seen' = [seen EXCEPT ![u] = @ \o tokens]
  BY DEF Prefill
<1>2. sessions[u].ready /\ answer' = None /\ model' = model /\ generation' = generation
  BY DEF Prefill
<1>3. model \in Models /\ SessionsStand /\ (generation = None \/ IsGeneration(generation))
  BY DEF InferInv
<1>4. SessionStands(model, sessions[u], seen[u])
      /\ sessions = [v \in Users |-> sessions[v]] /\ seen = [v \in Users |-> seen[v]]
  BY <1>3 DEF SessionsStand
<1>5. SessionStands(model, Fed(sessions[u], tokens), seen[u] \o tokens)
  <2>1. sessions[u].seqLen + Len(tokens) <= model.context  BY <1>1 DEF Fits
  <2>2. QED  BY <1>2, <1>3, <1>4, <2>1, PromptFacts, FedStands
<1>6. sessions' = [sessions EXCEPT ![u] = Fed(sessions[u], tokens)]
      /\ seen' = [seen EXCEPT ![u] = seen[u] \o tokens]
  BY <1>1, <1>4
<1>7. SessionsStand'  BY <1>2, <1>3, <1>5, <1>6, OthersStand
<1>8. QED  BY <1>2, <1>3, <1>7 DEF InferInv, LogitsAreCurrent, IsGeneration

\* The coarse logits are no part of where a session stands.
LEMMA CoarseStands ==
  ASSUME NEW m, NEW x, NEW s, SessionStands(m, x, s), NEW rough, NEW y,
         y = [x EXCEPT !.coarse = rough]
  PROVE  /\ SessionStands(m, y, s)
         /\ y.hidden = x.hidden /\ y.caches = x.caches /\ y.ready = x.ready /\ y.coarse = rough
<1>1. IsSession(x)  BY DEF SessionStands
<1>2. x = [ready |-> x.ready, hidden |-> x.hidden, caches |-> x.caches,
           seqLen |-> x.seqLen, coarse |-> x.coarse]
  BY <1>1 DEF IsSession
<1>3. y = [ready |-> x.ready, hidden |-> x.hidden, caches |-> x.caches,
           seqLen |-> x.seqLen, coarse |-> rough]
  BY <1>2
<1>4. y.ready = x.ready /\ y.hidden = x.hidden /\ y.caches = x.caches /\ y.seqLen = x.seqLen
      /\ y.coarse = rough
  BY <1>3
<1>5. IsSession(y)  BY <1>1, <1>3, <1>4 DEF IsSession
<1>6. QED  BY <1>4, <1>5 DEF SessionStands

\* The logits of a session that stands.
LEMMA LogitsStep ==
  ASSUME InferInv, NEW u \in Users, NEW x, NEW s, SessionStands(model, x, s), x.ready,
         Logits(u, x), seen' = [seen EXCEPT ![u] = s], model' = model, generation' = generation
  PROVE  InferInv'
<1> DEFINE others == [sessions EXCEPT ![u] = x]
<1>1. model \in Models /\ SessionsStand /\ (generation = None \/ IsGeneration(generation))
  BY DEF InferInv
<1>2. /\ sessions = [v \in Users |-> sessions[v]] /\ seen = [v \in Users |-> seen[v]]
      /\ \A v \in Users : SessionStands(model, sessions[v], seen[v])
  BY <1>1 DEF SessionsStand
<1>3. /\ seen' = [v \in Users |-> seen'[v]] /\ seen'[u] = s
      /\ others = [v \in Users |-> others[v]] /\ others[u] = x
      /\ \A v \in Users : v # u => others[v] = sessions[v] /\ seen'[v] = seen[v]
  BY <1>2
<1> HIDE DEF others
<1>4. \A v \in Users : SessionStands(model, others[v], seen'[v])
  <2>1. SUFFICES ASSUME NEW v \in Users PROVE SessionStands(model, others[v], seen'[v])  OBVIOUS
  <2>2. CASE v = u  BY <1>3, <2>2
  <2>3. CASE v # u  BY <1>2, <1>3, <2>3
  <2>4. QED  BY <2>2, <2>3
\* The session keeps its state, and the answer is made of it.
<1> DEFINE After(after, rough) ==
             /\ sessions' = after /\ after = [v \in Users |-> after[v]]
             /\ \A v \in Users : SessionStands(model, after[v], seen'[v])
             /\ after[u].caches = x.caches
             /\ answer' = [session |-> u, coarse |-> rough, fine |-> x.hidden]
             /\ model.head # "gpu" => rough = x.hidden
<1>5. model.head \in {"f16", "trit", "gpu"}
  <2>1. model.head # "float"  BY DEF SessionStands
  <2>2. QED  BY <1>1, <2>1, ModelFacts
<1>6. \E after, rough : After(after, rough)
  <2>1. CASE model.head = "f16"
    <3>1. /\ answer' = [session |-> u, coarse |-> x.hidden, fine |-> x.hidden]
          /\ sessions' = others
      BY <2>1 DEF Logits, others
    <3>2. After(others, x.hidden)  BY <1>3, <1>4, <3>1
    <3>3. QED  BY <3>2
  <2>2. CASE model.head = "trit"
    <3> DEFINE y == [x EXCEPT !.coarse = x.hidden]
               after == [sessions EXCEPT ![u] = y]
    <3>1. /\ answer' = [session |-> u, coarse |-> x.hidden, fine |-> x.hidden]
          /\ sessions' = after
      BY <2>2 DEF Logits
    <3>2. SessionStands(model, y, s) /\ y.caches = x.caches  BY CoarseStands
    <3> HIDE DEF y
    <3>3. after = [v \in Users |-> after[v]] /\ after[u] = y
          /\ \A v \in Users : v # u => after[v] = sessions[v]
      BY <1>2
    <3> HIDE DEF after
    <3>4. ASSUME NEW v \in Users PROVE SessionStands(model, after[v], seen'[v])
      <4>1. CASE v = u  BY <1>3, <3>2, <3>3, <4>1
      <4>2. CASE v # u  BY <1>2, <1>3, <3>3, <4>2
      <4>3. QED  BY <4>1, <4>2
    <3>5. After(after, x.hidden)  BY <3>1, <3>2, <3>3, <3>4
    <3>6. QED  BY <3>5
  <2>3. CASE model.head = "gpu"
    <3> DEFINE Waited(v) == IF pending # None /\ pending.for = v
                            THEN [others[v] EXCEPT !.coarse = pending.of] ELSE others[v]
               after == [v \in Users |-> Waited(v)]
    <3>1. /\ answer' = [session |-> u, coarse |-> after[u].coarse, fine |-> x.hidden]
          /\ sessions' = after
      BY <2>3 DEF Logits, others
    <3>2. ASSUME NEW v \in Users
          PROVE  SessionStands(model, Waited(v), seen'[v]) /\ Waited(v).caches = others[v].caches
      <4>1. SessionStands(model, others[v], seen'[v])  BY <1>4
      <4>2. CASE pending # None /\ pending.for = v
        <5>1. Waited(v) = [others[v] EXCEPT !.coarse = pending.of]  BY <4>2
        <5> HIDE DEF Waited
        <5>2. QED  BY <4>1, <5>1, CoarseStands
      <4>3. CASE ~ (pending # None /\ pending.for = v)
        <5>1. Waited(v) = others[v]  BY <4>3
        <5>2. QED  BY <4>1, <5>1
      <4>4. QED  BY <4>2, <4>3
    <3> HIDE DEF Waited
    <3>3. After(after, after[u].coarse)  BY <1>3, <2>3, <3>1, <3>2
    <3>4. QED  BY <3>3
  <2>4. QED  BY <1>5, <2>1, <2>2, <2>3
<1>7. PICK after, rough : After(after, rough)  BY <1>6
<1>8. SessionsStand'  BY <1>3, <1>7 DEF SessionsStand
<1>9. Whole(u)' <=> AllOk(model, x.caches)
  <2>1. sessions'[u].caches = x.caches  BY <1>7
  <2>2. AreCaches(model, x.caches)  BY DEF SessionStands
  <2>3. DOMAIN x.caches = 1 .. model.layers  BY <2>2 DEF AreCaches
  <2>4. QED  BY <2>1, <2>3 DEF Whole, AllOk
<1>10. LogitsAreCurrent'
  <2>1. answer' = [session |-> u, coarse |-> rough, fine |-> x.hidden]  BY <1>7
  <2>2. answer'.session = u /\ answer'.coarse = rough /\ answer'.fine = x.hidden
        /\ "tokens" \notin DOMAIN answer'
    BY <2>1
  <2>3. ASSUME Whole(u)', s # <<>>
        PROVE  x.hidden = HiddenAt(model, s)
    BY <1>9, <2>3 DEF SessionStands
  <2>4. model.head # "gpu" => rough = x.hidden  BY <1>7
  <2>5. QED  BY <1>3, <2>2, <2>3, <2>4 DEF LogitsAreCurrent
<1>11. QED  BY <1>1, <1>8, <1>10 DEF InferInv, IsGeneration

LEMMA SessionLogitsStep ==
  ASSUME InferInv, NEW u \in Users, SessionLogits(u)
  PROVE  InferInv'
<1>1. /\ sessions[u].ready /\ Logits(u, sessions[u])
      /\ model' = model /\ seen' = seen /\ generation' = generation
  BY DEF SessionLogits
<1>2. SessionStands(model, sessions[u], seen[u]) /\ seen = [v \in Users |-> seen[v]]
  BY DEF InferInv, SessionsStand
<1>3. seen' = [seen EXCEPT ![u] = seen[u]]  BY <1>1, <1>2
<1>4. QED  BY <1>1, <1>2, <1>3, LogitsStep

LEMMA DecodeStep ==
  ASSUME InferInv, NEW u \in Users, Decode(u)
  PROVE  InferInv'
<1>1. PICK token \in Tokens :
        /\ Logits(u, Fed(sessions[u], <<token>>))
        /\ seen' = [seen EXCEPT ![u] = Append(@, token)]
  BY DEF Decode
<1>2. sessions[u].ready /\ Fits(u, 1) /\ model' = model /\ generation' = generation
  BY DEF Decode
<1>3. model \in Models /\ SessionStands(model, sessions[u], seen[u]) /\ seen = [v \in Users |-> seen[v]]
  BY DEF InferInv, SessionsStand
<1>4. <<token>> \in Seq(Tokens) /\ <<token>> # <<>> /\ Len(<<token>>) = 1  OBVIOUS
<1>5. seen[u] \in Seq(Tokens)  BY <1>3 DEF SessionStands
<1>6. Append(seen[u], token) = seen[u] \o <<token>>  BY <1>5
<1>7. /\ SessionStands(model, Fed(sessions[u], <<token>>), seen[u] \o <<token>>)
      /\ Fed(sessions[u], <<token>>).ready
  <2>1. sessions[u].seqLen + Len(<<token>>) <= model.context  BY <1>2, <1>4 DEF Fits
  <2>2. QED  BY <1>2, <1>3, <1>4, <2>1, FedStands
<1>8. seen' = [seen EXCEPT ![u] = seen[u] \o <<token>>]  BY <1>1, <1>3, <1>6
<1>9. QED  BY <1>1, <1>2, <1>7, <1>8, LogitsStep

\* The answer of a pass over these tokens.
LEMMA ForwardAnswer ==
  ASSUME model \in Models, NEW tokens \in Seq(Tokens), tokens # <<>>,
         Len(tokens) <= model.context, model' = model,
         NEW x, x = FromNothing(model, tokens),
         answer' = [tokens |-> tokens, coarse |-> x, fine |-> x]
  PROVE  LogitsAreCurrent'
<1>1. answer'.tokens = tokens /\ answer'.fine = x /\ "session" \notin DOMAIN answer'  OBVIOUS
<1>2. Sound(model) => x = HiddenAt(model, tokens)  BY ForwardIsTransformer
<1>3. QED  BY <1>1, <1>2 DEF LogitsAreCurrent, Sound

LEMMA ForwardStep ==
  ASSUME InferInv, Forward
  PROVE  InferInv'
<1>1. PICK tokens \in Prompts :
        /\ Len(tokens) <= model.context
        /\ answer' = [tokens |-> tokens, coarse |-> FromNothing(model, tokens),
                      fine |-> FromNothing(model, tokens)]
  BY DEF Forward
<1>2. model' = model /\ sessions' = sessions /\ seen' = seen /\ generation' = generation
  BY DEF Forward
<1>3. model \in Models  BY DEF InferInv
<1>4. LogitsAreCurrent'  BY <1>1, <1>2, <1>3, PromptFacts, ForwardAnswer
<1>5. QED  BY <1>2, <1>4 DEF InferInv, SessionsStand, IsGeneration

LEMMA GenerateBeginStep ==
  ASSUME InferInv, GenerateBegin
  PROVE  InferInv'
<1>1. PICK tokens \in Prompts :
        generation' = [tokens |-> tokens, prompt |-> Len(tokens), count |-> 0]
  BY DEF GenerateBegin
<1>2. model' = model /\ sessions' = sessions /\ seen' = seen /\ answer' = None
  BY DEF GenerateBegin
<1>3. IsGeneration(generation')
  <2>1. generation'.tokens = tokens /\ generation'.prompt = Len(tokens) /\ generation'.count = 0
    BY <1>1
  <2>2. QED  BY <1>1, <2>1, PromptFacts DEF IsGeneration
<1>4. QED  BY <1>2, <1>3 DEF InferInv, SessionsStand, LogitsAreCurrent, IsGeneration

LEMMA GenerateTokenStep ==
  ASSUME InferInv, GenerateToken
  PROVE  InferInv'
<1>1. PICK next \in Tokens :
        generation' = [generation EXCEPT !.tokens = Append(@, next), !.count = @ + 1]
  BY DEF GenerateToken
<1> DEFINE g == generation
<1>2. /\ g # None /\ Len(g.tokens) <= model.context
      /\ answer' = [tokens |-> g.tokens, coarse |-> FromNothing(model, g.tokens),
                    fine |-> FromNothing(model, g.tokens)]
      /\ model' = model /\ sessions' = sessions /\ seen' = seen
  BY DEF GenerateToken
<1>3. IsGeneration(g) /\ model \in Models  BY <1>2 DEF InferInv
<1>4. g = [tokens |-> g.tokens, prompt |-> g.prompt, count |-> g.count]
      /\ g.tokens \in Seq(Tokens) /\ g.tokens # <<>>
  BY <1>3 DEF IsGeneration
<1>5. LogitsAreCurrent'  BY <1>2, <1>3, <1>4, ForwardAnswer
<1>6. IsGeneration(generation')
  <2> DEFINE h == generation'
             ts == Append(g.tokens, next)
  <2>1. ts \in Seq(Tokens) /\ ts # <<>>  BY <1>4
  <2>2. h = [g EXCEPT !.tokens = ts, !.count = @ + 1]  BY <1>1
  <2> HIDE DEF g, h, ts
  <2>3. h = [tokens |-> ts, prompt |-> g.prompt, count |-> g.count + 1]  BY <1>4, <2>2
  <2>4. h.tokens = ts /\ h.prompt = g.prompt /\ h.count = g.count + 1  BY <2>3
  <2>5. IsGeneration(h)  BY <2>1, <2>3, <2>4 DEF IsGeneration
  <2>6. QED  BY <2>5 DEF h
<1>7. QED  BY <1>2, <1>5, <1>6 DEF InferInv, SessionsStand, IsGeneration

LEMMA GenerateEndStep ==
  ASSUME InferInv, GenerateEnd
  PROVE  InferInv'
<1>1. /\ generation' = None /\ answer' = None
      /\ model' = model /\ sessions' = sessions /\ seen' = seen
  BY DEF GenerateEnd
<1>2. QED  BY <1>1 DEF InferInv, SessionsStand, LogitsAreCurrent, IsGeneration

LEMMA InferInvStep == InferInv /\ [InferenceNext]_inferVars => InferInv'
<1> SUFFICES ASSUME InferInv, [InferenceNext]_inferVars PROVE InferInv'  OBVIOUS
<1>1. ASSUME NEW u \in Users, SessionInit(u) PROVE InferInv'  BY <1>1, SessionInitStep
<1>2. ASSUME NEW u \in Users, SessionFree(u) PROVE InferInv'  BY <1>2, SessionFreeStep
<1>3. ASSUME NEW u \in Users, SessionReset(u) PROVE InferInv'  BY <1>3, SessionResetStep
<1>4. ASSUME NEW u \in Users, Prefill(u) PROVE InferInv'  BY <1>4, PrefillStep
<1>5. ASSUME NEW u \in Users, SessionLogits(u) PROVE InferInv'  BY <1>5, SessionLogitsStep
<1>6. ASSUME NEW u \in Users, Decode(u) PROVE InferInv'  BY <1>6, DecodeStep
<1>7. CASE Forward  BY <1>7, ForwardStep
<1>8. CASE GenerateBegin  BY <1>8, GenerateBeginStep
<1>9. CASE GenerateToken  BY <1>9, GenerateTokenStep
<1>10. CASE GenerateEnd  BY <1>10, GenerateEndStep
<1>11. CASE UNCHANGED inferVars
  BY <1>11 DEF inferVars, InferInv, SessionsStand, LogitsAreCurrent, Whole, IsGeneration
<1>12. QED
  BY <1>1, <1>2, <1>3, <1>4, <1>5, <1>6, <1>7, <1>8, <1>9, <1>10, <1>11 DEF InferenceNext

\* A session that stands is where the property says it is.
LEMMA StandingIsCurrent == InferInv => SessionIsTransformer
<1> SUFFICES ASSUME InferInv PROVE SessionIsTransformer  OBVIOUS
<1>1. ASSUME NEW u \in Users, sessions[u].ready, Whole(u)
      PROVE  /\ sessions[u].seqLen = Len(seen[u])
             /\ \A l \in DOMAIN sessions[u].caches : sessions[u].caches[l].len = Len(seen[u])
             /\ seen[u] # <<>> => sessions[u].hidden = HiddenAt(model, seen[u])
  <2> DEFINE x == sessions[u]
  <2>1. SessionStands(model, x, seen[u])  BY DEF InferInv, SessionsStand
  <2>2. /\ x.seqLen = Len(seen[u]) /\ AreCaches(model, x.caches)
        /\ CachesHold(model, x.caches, seen[u])
        /\ AllOk(model, x.caches) /\ seen[u] # <<>> => x.hidden = HiddenAt(model, seen[u])
    BY <1>1, <2>1 DEF SessionStands
  <2>3. DOMAIN x.caches = 1 .. model.layers  BY <2>2 DEF AreCaches
  <2>4. AllOk(model, x.caches)  BY <1>1, <2>3 DEF Whole, AllOk
  <2>5. ASSUME NEW l \in DOMAIN x.caches PROVE x.caches[l].len = Len(seen[u])
    <3>1. CacheHolds(model, x.caches[l], l, seen[u])  BY <2>2, <2>3, <2>4 DEF CachesHold
    <3>2. QED  BY <3>1 DEF CacheHolds
  <2>6. QED  BY <2>2, <2>4, <2>5
<1>2. StateIsCurrent  BY <1>1 DEF StateIsCurrent
<1>3. QED  BY <1>2 DEF InferInv, SessionIsTransformer

\* Whatever models, users, tokens and prompts there are: a session fed by any mix of
\* calls stands where the transformer stands on its tokens, and every answer is made
\* of the tokens it was asked for (hs_mlt_prefill, hs_mlt_decode, hs_mlt_forward).
THEOREM SessionsStandWithTransformer == InferSpec => []SessionIsTransformer
<1>1. InferenceInit => InferInv  BY InferInvInit
<1>2. InferInv /\ [InferenceNext]_inferVars => InferInv'  BY InferInvStep
<1>3. InferInv => SessionIsTransformer  BY StandingIsCurrent
<1>4. QED  BY <1>1, <1>2, <1>3, PTL DEF InferSpec

-----------------------------------------------------------------------------
(* The samplers.  The heap of candidates is one from the last node that has *)
(* children up; the entries in it are of different tokens, and no token it *)
(* has met and left out has a larger logit than any of them.               *)

\* The states of a loop, of which the first is given and each comes from the one before.
InSifting(S, heap, size, p) ==
  /\ S[0] = [heap |-> heap, p |-> p]
  /\ \A n \in 1 .. size : S[n] = Sinking(S[n - 1], size)
LEMMA SiftStatesAre ==
  ASSUME NEW heap, NEW size \in Nat, NEW p
  PROVE  InSifting(SiftStates(heap, size, p), heap, size, p)
<1> DEFINE Zero == [heap |-> heap, p |-> p]
           Is(S, n) == S = [l \in 0 .. n |-> IF l = 0 THEN Zero ELSE Sinking(S[l - 1], size)]
           Bad == {n \in Nat : ~ \E S : Is(S, n)}
<1>1. SiftStates(heap, size, p) = CHOOSE S : Is(S, size)  BY DEF SiftStates
<1> HIDE DEF Zero
<1>2. Bad = {}
  <2>1. SUFFICES ASSUME Bad # {} PROVE FALSE  OBVIOUS
  <2>2. PICK n \in Bad : n = 0 \/ (n - 1 \in Nat /\ n - 1 \notin Bad)  BY <2>1, FirstOfNat
  <2>3. CASE n = 0
    <3> DEFINE S == [l \in 0 .. 0 |-> Zero]
    <3>1. Is(S, 0)  OBVIOUS
    <3>2. QED  BY <2>3, <3>1
  <2>4. CASE n # 0
    <3>1. n \in Nat /\ n - 1 \in Nat  BY <2>2, <2>4
    <3>2. PICK G : Is(G, n - 1)  BY <2>2, <2>4
    <3> DEFINE S == [l \in 0 .. n |-> IF l = n THEN Sinking(G[n - 1], size) ELSE G[l]]
    <3>3. ASSUME NEW l \in 0 .. n
          PROVE  S[l] = IF l = 0 THEN Zero ELSE Sinking(S[l - 1], size)
      <4>1. CASE l = n
        <5>1. n - 1 \in 0 .. n /\ n - 1 # n /\ l # 0  BY <3>1, <2>4, <4>1
        <5>2. S[n - 1] = G[n - 1]  BY <5>1
        <5>3. QED  BY <4>1, <5>1, <5>2
      <4>2. CASE l # n
        <5>1. l \in 0 .. n - 1  BY <3>1, <4>2
        <5>2. G[l] = IF l = 0 THEN Zero ELSE Sinking(G[l - 1], size)  BY <3>2, <5>1
        <5>3. CASE l = 0  BY <4>2, <5>2, <5>3
        <5>4. CASE l # 0
          <6>1. l - 1 \in 0 .. n /\ l - 1 # n  BY <3>1, <5>1, <5>4
          <6>2. S[l - 1] = G[l - 1]  BY <6>1
          <6>3. QED  BY <4>2, <5>2, <6>2
        <5>5. QED  BY <5>3, <5>4
      <4>3. QED  BY <4>1, <4>2
    <3>4. S = [l \in 0 .. n |-> S[l]]  OBVIOUS
    <3> HIDE DEF S
    <3>5. Is(S, n)  BY <3>3, <3>4
    <3>6. QED  BY <3>5
  <2>5. QED  BY <2>3, <2>4
<1>3. \E S : Is(S, size)  BY <1>2
<1>4. Is(SiftStates(heap, size, p), size)  BY <1>1, <1>3
<1>5. SiftStates(heap, size, p)[0] = Zero  BY <1>4
<1>6. ASSUME NEW n \in 1 .. size
      PROVE  SiftStates(heap, size, p)[n] = Sinking(SiftStates(heap, size, p)[n - 1], size)
  <2>1. n \in 0 .. size /\ n # 0  OBVIOUS
  <2>2. QED  BY <1>4, <2>1
<1>7. QED  BY <1>5, <1>6 DEF Zero, InSifting

-----------------------------------------------------------------------------

\* A heap of n entries, the values of which are numbers.
IsHeap(h, n) == DOMAIN h = 0 .. n - 1 /\ \A q \in 0 .. n - 1 : h[q].val \in Int

\* g holds the entries of h in another order.
Distinct(h, n) == \A q, r \in 0 .. n - 1 : h[q].idx = h[r].idx => q = r
Rearranged(h, g, n) ==
  /\ DOMAIN g = 0 .. n - 1
  /\ \A q \in 0 .. n - 1 : \E r \in 0 .. n - 1 : g[q] = h[r]
  /\ \A r \in 0 .. n - 1 : \E q \in 0 .. n - 1 : g[q] = h[r]
  /\ Distinct(h, n) => Distinct(g, n)

\* The entry at q is not above its children.
HeapAt(h, n, q) == \A c \in {2 * q + 1, 2 * q + 2} : c < n => h[q].val <= h[c].val
HeapFrom(h, n, a) == \A q \in a .. n - 1 : HeapAt(h, n, q)

LEMMA RearrangedSelf ==
  ASSUME NEW n \in Nat, NEW h, DOMAIN h = 0 .. n - 1
  PROVE  Rearranged(h, h, n)
BY DEF Rearranged

LEMMA RearrangedTwice ==
  ASSUME NEW n \in Nat, NEW f, NEW g, NEW h, Rearranged(f, g, n), Rearranged(g, h, n)
  PROVE  Rearranged(f, h, n)
<1>1. ASSUME NEW q \in 0 .. n - 1 PROVE \E r \in 0 .. n - 1 : h[q] = f[r]
  <2>1. PICK t \in 0 .. n - 1 : h[q] = g[t]  BY DEF Rearranged
  <2>2. PICK r \in 0 .. n - 1 : g[t] = f[r]  BY <2>1 DEF Rearranged
  <2>3. QED  BY <2>1, <2>2
<1>2. ASSUME NEW r \in 0 .. n - 1 PROVE \E q \in 0 .. n - 1 : h[q] = f[r]
  <2>1. PICK t \in 0 .. n - 1 : g[t] = f[r]  BY DEF Rearranged
  <2>2. PICK q \in 0 .. n - 1 : h[q] = g[t]  BY <2>1 DEF Rearranged
  <2>3. QED  BY <2>1, <2>2
<1>3. QED  BY <1>1, <1>2 DEF Rearranged

LEMMA RearrangedHeap ==
  ASSUME NEW n \in Nat, NEW h, NEW g, IsHeap(h, n), Rearranged(h, g, n)
  PROVE  IsHeap(g, n)
BY DEF IsHeap, Rearranged

Exchanged(n, h, p, m) ==
  /\ Rearranged(h, Swapped(h, p, m), n)
  /\ Swapped(h, p, m)[p] = h[m] /\ Swapped(h, p, m)[m] = h[p]
  /\ \A q \in 0 .. n - 1 : q # p /\ q # m => Swapped(h, p, m)[q] = h[q]
LEMMA SwappedIs ==
  ASSUME NEW n \in Nat, NEW h, DOMAIN h = 0 .. n - 1, NEW p \in 0 .. n - 1, NEW m \in 0 .. n - 1
  PROVE  Exchanged(n, h, p, m)
<1> DEFINE g == Swapped(h, p, m)
<1>1. g = [h EXCEPT ![p] = h[m], ![m] = h[p]]  BY DEF Swapped
<1> HIDE DEF g
<1>2. DOMAIN g = 0 .. n - 1 /\ g[p] = h[m] /\ g[m] = h[p]
      /\ \A q \in 0 .. n - 1 : q # p /\ q # m => g[q] = h[q]
  BY <1>1
<1>3. \A q \in 0 .. n - 1 : \E r \in 0 .. n - 1 : g[q] = h[r]  BY <1>2
<1>4. \A r \in 0 .. n - 1 : \E q \in 0 .. n - 1 : g[q] = h[r]
  <2>1. SUFFICES ASSUME NEW r \in 0 .. n - 1 PROVE \E q \in 0 .. n - 1 : g[q] = h[r]  OBVIOUS
  <2>2. CASE r = p  BY <1>2, <2>2
  <2>3. CASE r = m  BY <1>2, <2>3
  <2>4. CASE r # p /\ r # m  BY <1>2, <2>4
  <2>5. QED  BY <2>2, <2>3, <2>4
<1>5. ASSUME Distinct(h, n) PROVE Distinct(g, n)
  <2> DEFINE at(q) == IF q = p THEN m ELSE IF q = m THEN p ELSE q
  <2>1. ASSUME NEW q \in 0 .. n - 1 PROVE g[q] = h[at(q)] /\ at(q) \in 0 .. n - 1
    <3>1. CASE q = p  BY <1>2, <3>1
    <3>2. CASE q = m  BY <1>2, <3>2
    <3>3. CASE q # p /\ q # m  BY <1>2, <3>3
    <3>4. QED  BY <3>1, <3>2, <3>3
  <2>2. \A q, r \in 0 .. n - 1 : at(q) = at(r) => q = r  OBVIOUS
  <2> HIDE DEF at
  <2>3. SUFFICES ASSUME NEW q \in 0 .. n - 1, NEW r \in 0 .. n - 1, g[q].idx = g[r].idx PROVE q = r
    BY DEF Distinct
  <2>4. at(q) = at(r)  BY <1>5, <2>1, <2>3 DEF Distinct
  <2>5. QED  BY <2>2, <2>4
<1>6. QED  BY <1>2, <1>3, <1>4, <1>5 DEF Rearranged, g, Exchanged

LEMMA SmallestIs ==
  ASSUME NEW n \in Nat, NEW h, IsHeap(h, n), NEW p \in 0 .. n - 1
  PROVE  LET m == Smallest(h, n, p)
         IN /\ m \in 0 .. n - 1
            /\ m = p \/ ((m = 2 * p + 1 \/ m = 2 * p + 2) /\ h[m].val < h[p].val)
            /\ \A c \in {2 * p + 1, 2 * p + 2} : c < n => h[m].val <= h[c].val
<1> DEFINE l == 2 * p + 1
           r == 2 * p + 2
           k == IF l < n /\ h[l].val < h[p].val THEN l ELSE p
           m == IF r < n /\ h[r].val < h[k].val THEN r ELSE k
<1>1. Smallest(h, n, p) = m  BY DEF Smallest
<1>2. h[p].val \in Int /\ (l < n => l \in 0 .. n - 1 /\ h[l].val \in Int)
      /\ (r < n => r \in 0 .. n - 1 /\ h[r].val \in Int)
  BY DEF IsHeap
<1> HIDE DEF l, r
<1>3. k \in 0 .. n - 1 /\ (k = p \/ (k = l /\ h[k].val < h[p].val)) /\ h[k].val <= h[p].val
      /\ (l < n => h[k].val <= h[l].val) /\ h[k].val \in Int
  BY <1>2
<1> HIDE DEF k
<1>4. m \in 0 .. n - 1 /\ (m = p \/ ((m = l \/ m = r) /\ h[m].val < h[p].val))
      /\ (l < n => h[m].val <= h[l].val) /\ (r < n => h[m].val <= h[r].val)
  BY <1>2, <1>3
<1> HIDE DEF m
<1>5. QED  BY <1>1, <1>4 DEF l, r

\* The loop that lets the entry at a sink, after k rounds: the heap below a is one
\* again but for the entry that sinks, the parent of which is above nothing below it.
Sunk(h, n, a, k, st) ==
  /\ st = [heap |-> st.heap, p |-> st.p]
  /\ Rearranged(h, st.heap, n)
  /\ st.p \in a .. n - 1
  /\ \A q \in a .. n - 1 : q # st.p => HeapAt(st.heap, n, q)
  /\ \A q \in a .. n - 1 : st.p \in {2 * q + 1, 2 * q + 2} =>
        \A c \in {2 * st.p + 1, 2 * st.p + 2} : c < n => st.heap[q].val <= st.heap[c].val
  /\ st.p >= a + k \/ HeapAt(st.heap, n, st.p)

LEMMA SinkingSinks ==
  ASSUME NEW n \in Nat, NEW h, IsHeap(h, n), NEW a \in 0 .. n - 1, NEW k \in Nat, NEW st,
         Sunk(h, n, a, k, st)
  PROVE  Sunk(h, n, a, k + 1, Sinking(st, n))
<1> DEFINE f == st.heap
           p == st.p
           m == Smallest(f, n, p)
           g == Swapped(f, p, m)
           new == Sinking(st, n)
<1>1. /\ st = [heap |-> f, p |-> p] /\ Rearranged(h, f, n) /\ p \in a .. n - 1
      /\ \A q \in a .. n - 1 : q # p => HeapAt(f, n, q)
      /\ \A q \in a .. n - 1 : p \in {2 * q + 1, 2 * q + 2} =>
            \A c \in {2 * p + 1, 2 * p + 2} : c < n => f[q].val <= f[c].val
      /\ p >= a + k \/ HeapAt(f, n, p)
  BY DEF Sunk
<1>2. IsHeap(f, n) /\ p \in 0 .. n - 1  BY <1>1, RearrangedHeap
<1>3. DOMAIN f = 0 .. n - 1 /\ \A q \in 0 .. n - 1 : f[q].val \in Int  BY <1>2 DEF IsHeap
<1>4. /\ m \in 0 .. n - 1
      /\ m = p \/ ((m = 2 * p + 1 \/ m = 2 * p + 2) /\ f[m].val < f[p].val)
      /\ \A c \in {2 * p + 1, 2 * p + 2} : c < n => f[m].val <= f[c].val
  BY <1>2, SmallestIs
<1>5. CASE m = p
  <2>1. new = st  BY <1>5 DEF Sinking
  <2>2. HeapAt(f, n, p)  BY <1>4, <1>5 DEF HeapAt
  <2>3. QED  BY <1>1, <2>1, <2>2 DEF Sunk
<1>6. CASE m # p
  <2>1. new = [heap |-> g, p |-> m]  BY <1>6 DEF Sinking
  <2>0. m \in 0 .. n - 1 /\ p \in 0 .. n - 1 /\ DOMAIN f = 0 .. n - 1  BY <1>2, <1>3, <1>4
  <2> HIDE DEF f, p, m, new
  <2>12. Exchanged(n, f, p, m)  BY <2>0, SwappedIs
  <2>2. /\ Rearranged(f, g, n) /\ g[p] = f[m] /\ g[m] = f[p]
        /\ \A q \in 0 .. n - 1 : q # p /\ q # m => g[q] = f[q]
    BY <2>12 DEF Exchanged
  <2> HIDE DEF g
  <2>3. (m = 2 * p + 1 \/ m = 2 * p + 2) /\ f[m].val < f[p].val /\ m > p /\ m \in a .. n - 1
    BY <1>1, <1>4, <1>6
  <2>4. Rearranged(h, g, n)  BY <1>1, <2>2, RearrangedTwice
  <2>5. ASSUME NEW q \in a .. n - 1, q # m, NEW c \in {2 * q + 1, 2 * q + 2}, c < n
        PROVE  g[q].val <= g[c].val
    <3>1. q \in 0 .. n - 1 /\ c \in 0 .. n - 1 /\ c # q  BY <2>5
    <3>2. CASE q = p
      <4>1. CASE c = m  BY <1>2, <1>3, <1>4, <2>2, <2>3, <3>2, <4>1
      <4>2. CASE c # m
        <5>1. g[c] = f[c]  BY <2>2, <3>1, <3>2, <4>2
        <5>2. f[m].val <= f[c].val  BY <1>4, <2>5, <3>2
        <5>3. QED  BY <2>2, <3>2, <5>1, <5>2
      <4>3. QED  BY <4>1, <4>2
    <3>3. CASE q # p
      <4>1. g[q] = f[q]  BY <2>2, <2>5, <3>1, <3>3
      <4>2. c # m
        <5>1. p \in Int /\ q \in Int /\ c \in Int  BY <2>0
        <5>2. c = 2 * q + 1 \/ c = 2 * q + 2  BY <2>5
        <5>3. m = 2 * p + 1 \/ m = 2 * p + 2  BY <2>3
        <5> HIDE DEF f
        <5>4. QED  BY <5>1, <5>2, <5>3, <3>3
      <4>3. CASE c = p
        <5>1. p \in {2 * q + 1, 2 * q + 2} /\ m \in {2 * p + 1, 2 * p + 2} /\ m < n
          BY <2>3, <2>5, <4>3
        <5>2. f[q].val <= f[m].val  BY <1>1, <5>1
        <5>3. QED  BY <2>2, <4>1, <4>3, <5>2
      <4>4. CASE c # p
        <5>1. g[c] = f[c]  BY <2>2, <3>1, <4>2, <4>4
        <5>2. HeapAt(f, n, q)  BY <1>1, <3>3
        <5>3. QED  BY <2>5, <4>1, <5>1, <5>2 DEF HeapAt
      <4>5. QED  BY <4>3, <4>4
    <3>4. QED  BY <3>2, <3>3
  <2>6. ASSUME NEW q \in a .. n - 1, m \in {2 * q + 1, 2 * q + 2},
               NEW c \in {2 * m + 1, 2 * m + 2}, c < n
        PROVE  g[q].val <= g[c].val
    <3>1. q = p  BY <1>2, <2>3, <2>6
    <3>2. c \in 0 .. n - 1 /\ c # p /\ c # m  BY <2>3, <2>6
    <3>3. g[c] = f[c]  BY <2>2, <3>2
    <3>4. f[m].val <= f[c].val
      <4>1. HeapAt(f, n, m)  BY <1>1, <1>6, <2>3
      <4>2. QED  BY <2>6, <4>1 DEF HeapAt
    <3>5. QED  BY <2>2, <3>1, <3>3, <3>4
  <2>7. m >= a + (k + 1) \/ HeapAt(g, n, m)
    <3>1. CASE p >= a + k  BY <1>1, <2>3, <3>1
    <3>2. CASE HeapAt(f, n, p)
      <4>1. f[p].val <= f[m].val  BY <2>3, <3>2 DEF HeapAt
      <4>2. QED  BY <1>2, <1>3, <1>4, <2>3, <4>1
    <3>3. QED  BY <1>1, <3>1, <3>2
  <2>8. new.heap = g /\ new.p = m  BY <2>1
  <2>9. \A q \in a .. n - 1 : q # m => HeapAt(g, n, q)  BY <2>5 DEF HeapAt
  <2>10. Sunk(h, n, a, k + 1, new)  BY <2>1, <2>3, <2>4, <2>6, <2>7, <2>8, <2>9 DEF Sunk
  <2>11. QED  BY <2>10 DEF new
<1>7. QED  BY <1>5, <1>6

\* What sinks leaves a heap from a on.
LEMMA SiftDownIs ==
  ASSUME NEW n \in Nat, NEW h, IsHeap(h, n), NEW a \in 0 .. n - 1, HeapFrom(h, n, a + 1)
  PROVE  /\ Rearranged(h, SiftDown(h, n, a), n) /\ IsHeap(SiftDown(h, n, a), n)
         /\ HeapFrom(SiftDown(h, n, a), n, a)
<1> DEFINE S == SiftStates(h, n, a)
           Good(k) == Sunk(h, n, a, k, S[k])
           Bad == {k \in 0 .. n : ~ Good(k)}
<1>0. InSifting(S, h, n, a)  BY SiftStatesAre
<1>9. SiftDown(h, n, a) = S[n].heap  BY DEF SiftDown
<1> HIDE DEF S
<1>1. Good(0)
  <2>1. S[0] = [heap |-> h, p |-> a]  BY <1>0 DEF InSifting
  <2>2. S[0].heap = h /\ S[0].p = a  BY <2>1
  <2>3. Rearranged(h, h, n)  BY RearrangedSelf DEF IsHeap
  <2>4. \A q \in a .. n - 1 : q # a => HeapAt(h, n, q)
    <3>1. SUFFICES ASSUME NEW q \in a .. n - 1, q # a PROVE HeapAt(h, n, q)  OBVIOUS
    <3>2. q \in a + 1 .. n - 1  BY <3>1
    <3>3. QED  BY <3>2 DEF HeapFrom
  <2>5. \A q \in a .. n - 1 : ~ (a \in {2 * q + 1, 2 * q + 2})  OBVIOUS
  <2>6. QED  BY <2>1, <2>2, <2>3, <2>4, <2>5 DEF Sunk
<1>2. ASSUME NEW k \in 1 .. n, Good(k - 1) PROVE Good(k)
  <2>1. S[k] = Sinking(S[k - 1], n)  BY <1>0 DEF InSifting
  <2>2. k - 1 \in Nat /\ (k - 1) + 1 = k  OBVIOUS
  <2>3. Sunk(h, n, a, (k - 1) + 1, Sinking(S[k - 1], n))  BY <1>2, <2>2, SinkingSinks
  <2>4. QED  BY <2>1, <2>2, <2>3
<1> HIDE DEF Good
<1>3. Bad = {}
  <2>1. SUFFICES ASSUME Bad # {} PROVE FALSE  OBVIOUS
  <2>2. Bad \subseteq Nat  OBVIOUS
  <2>3. PICK k \in Bad : k = 0 \/ (k - 1 \in Nat /\ k - 1 \notin Bad)  BY <2>1, <2>2, FirstOfNat
  <2>4. k # 0  BY <1>1
  <2>5. k \in 1 .. n /\ k - 1 \in 0 .. n  BY <2>3, <2>4
  <2>6. Good(k - 1)  BY <2>3, <2>4, <2>5
  <2>7. QED  BY <1>2, <2>5, <2>6
<1>4. Good(n)  BY <1>3
<1> DEFINE g == SiftDown(h, n, a)
           p == S[n].p
<1>5. g = S[n].heap  BY <1>9
<1>6. /\ Rearranged(h, g, n) /\ p \in a .. n - 1
      /\ \A q \in a .. n - 1 : q # p => HeapAt(g, n, q)
      /\ p >= a + n \/ HeapAt(g, n, p)
  BY <1>4, <1>5 DEF Good, Sunk
<1> HIDE DEF g, p
<1>7. HeapFrom(g, n, a)  BY <1>6 DEF HeapFrom
<1>8. QED  BY <1>6, <1>7, RearrangedHeap DEF g

\* The heap as it is made, node by node from the last that has children.
InHeapifying(S, heap, size) ==
  /\ S[0] = heap
  /\ \A n \in 1 .. (size \div 2) : S[n] = SiftDown(S[n - 1], size, (size \div 2) - n)
LEMMA HeapifyStatesAre ==
  ASSUME NEW heap, NEW size \in Nat
  PROVE  InHeapifying(HeapifyStates(heap, size), heap, size)
<1> DEFINE Top == (size \div 2)
           Zero == heap
           Is(S, n) == S = [l \in 0 .. n |-> IF l = 0 THEN Zero ELSE SiftDown(S[l - 1], size, (size \div 2) - l)]
           Bad == {n \in Nat : ~ \E S : Is(S, n)}
<1>0. Top \in Nat  OBVIOUS
<1>1. HeapifyStates(heap, size) = CHOOSE S : Is(S, Top)  BY DEF HeapifyStates
<1> HIDE DEF Zero, Top
<1>2. Bad = {}
  <2>1. SUFFICES ASSUME Bad # {} PROVE FALSE  OBVIOUS
  <2>2. PICK n \in Bad : n = 0 \/ (n - 1 \in Nat /\ n - 1 \notin Bad)  BY <2>1, FirstOfNat
  <2>3. CASE n = 0
    <3> DEFINE S == [l \in 0 .. 0 |-> Zero]
    <3>1. Is(S, 0)  OBVIOUS
    <3>2. QED  BY <2>3, <3>1
  <2>4. CASE n # 0
    <3>1. n \in Nat /\ n - 1 \in Nat  BY <2>2, <2>4
    <3>2. PICK G : Is(G, n - 1)  BY <2>2, <2>4
    <3> DEFINE S == [l \in 0 .. n |-> IF l = n THEN SiftDown(G[n - 1], size, (size \div 2) - n) ELSE G[l]]
    <3>3. ASSUME NEW l \in 0 .. n
          PROVE  S[l] = IF l = 0 THEN Zero ELSE SiftDown(S[l - 1], size, (size \div 2) - l)
      <4>1. CASE l = n
        <5>1. n - 1 \in 0 .. n /\ n - 1 # n /\ l # 0  BY <3>1, <2>4, <4>1
        <5>2. S[n - 1] = G[n - 1]  BY <5>1
        <5>3. QED  BY <4>1, <5>1, <5>2
      <4>2. CASE l # n
        <5>1. l \in 0 .. n - 1  BY <3>1, <4>2
        <5>2. G[l] = IF l = 0 THEN Zero ELSE SiftDown(G[l - 1], size, (size \div 2) - l)  BY <3>2, <5>1
        <5>3. CASE l = 0  BY <4>2, <5>2, <5>3
        <5>4. CASE l # 0
          <6>1. l - 1 \in 0 .. n /\ l - 1 # n  BY <3>1, <5>1, <5>4
          <6>2. S[l - 1] = G[l - 1]  BY <6>1
          <6>3. QED  BY <4>2, <5>2, <6>2
        <5>5. QED  BY <5>3, <5>4
      <4>3. QED  BY <4>1, <4>2
    <3>4. S = [l \in 0 .. n |-> S[l]]  OBVIOUS
    <3> HIDE DEF S
    <3>5. Is(S, n)  BY <3>3, <3>4
    <3>6. QED  BY <3>5
  <2>5. QED  BY <2>3, <2>4
<1> DEFINE F == HeapifyStates(heap, size)
<1> HIDE DEF F
<1>4. Is(F, Top)  BY <1>0, <1>1, <1>2 DEF F
<1>5. F[0] = Zero  BY <1>0, <1>4
<1>6. ASSUME NEW n \in 1 .. Top
      PROVE  F[n] = SiftDown(F[n - 1], size, (size \div 2) - n)
  <2>1. n \in 0 .. Top /\ n # 0  BY <1>0
  <2>2. QED  BY <1>4, <2>1
<1>7. QED  BY <1>5, <1>6 DEF Zero, Top, F, InHeapifying

\* The heap after each of the logits.
InTopping(S, src, size) ==
  /\ S[0] = NoLogits
  /\ \A n \in 1 .. Count(src) : S[n] = HeapAfter(S[n - 1], [val |-> src[n - 1], idx |-> n - 1], size)
LEMMA TopStatesAre ==
  ASSUME NEW src, Count(src) \in Nat, NEW size
  PROVE  InTopping(TopStates(src, size), src, size)
<1> DEFINE Top == Count(src)
           Zero == NoLogits
           Is(S, n) == S = [l \in 0 .. n |-> IF l = 0 THEN Zero ELSE HeapAfter(S[l - 1], [val |-> src[l - 1], idx |-> l - 1], size)]
           Bad == {n \in Nat : ~ \E S : Is(S, n)}
<1>0. Top \in Nat  OBVIOUS
<1>1. TopStates(src, size) = CHOOSE S : Is(S, Top)  BY DEF TopStates
<1> HIDE DEF Zero, Top
<1>2. Bad = {}
  <2>1. SUFFICES ASSUME Bad # {} PROVE FALSE  OBVIOUS
  <2>2. PICK n \in Bad : n = 0 \/ (n - 1 \in Nat /\ n - 1 \notin Bad)  BY <2>1, FirstOfNat
  <2>3. CASE n = 0
    <3> DEFINE S == [l \in 0 .. 0 |-> Zero]
    <3>1. Is(S, 0)  OBVIOUS
    <3>2. QED  BY <2>3, <3>1
  <2>4. CASE n # 0
    <3>1. n \in Nat /\ n - 1 \in Nat  BY <2>2, <2>4
    <3>2. PICK G : Is(G, n - 1)  BY <2>2, <2>4
    <3> DEFINE S == [l \in 0 .. n |-> IF l = n THEN HeapAfter(G[n - 1], [val |-> src[n - 1], idx |-> n - 1], size) ELSE G[l]]
    <3>3. ASSUME NEW l \in 0 .. n
          PROVE  S[l] = IF l = 0 THEN Zero ELSE HeapAfter(S[l - 1], [val |-> src[l - 1], idx |-> l - 1], size)
      <4>1. CASE l = n
        <5>1. n - 1 \in 0 .. n /\ n - 1 # n /\ l # 0  BY <3>1, <2>4, <4>1
        <5>2. S[n - 1] = G[n - 1]  BY <5>1
        <5>3. QED  BY <4>1, <5>1, <5>2
      <4>2. CASE l # n
        <5>1. l \in 0 .. n - 1  BY <3>1, <4>2
        <5>2. G[l] = IF l = 0 THEN Zero ELSE HeapAfter(G[l - 1], [val |-> src[l - 1], idx |-> l - 1], size)  BY <3>2, <5>1
        <5>3. CASE l = 0  BY <4>2, <5>2, <5>3
        <5>4. CASE l # 0
          <6>1. l - 1 \in 0 .. n /\ l - 1 # n  BY <3>1, <5>1, <5>4
          <6>2. S[l - 1] = G[l - 1]  BY <6>1
          <6>3. QED  BY <4>2, <5>2, <6>2
        <5>5. QED  BY <5>3, <5>4
      <4>3. QED  BY <4>1, <4>2
    <3>4. S = [l \in 0 .. n |-> S[l]]  OBVIOUS
    <3> HIDE DEF S
    <3>5. Is(S, n)  BY <3>3, <3>4
    <3>6. QED  BY <3>5
  <2>5. QED  BY <2>3, <2>4
<1> DEFINE F == TopStates(src, size)
<1> HIDE DEF F
<1>4. Is(F, Top)  BY <1>0, <1>1, <1>2 DEF F
<1>5. F[0] = Zero  BY <1>0, <1>4
<1>6. ASSUME NEW n \in 1 .. Top
      PROVE  F[n] = HeapAfter(F[n - 1], [val |-> src[n - 1], idx |-> n - 1], size)
  <2>1. n \in 0 .. Top /\ n # 0  BY <1>0
  <2>2. QED  BY <1>4, <2>1
<1>7. QED  BY <1>5, <1>6 DEF Zero, Top, F, InTopping

\* The best so far, token by token.
InBesting(S, a) ==
  /\ S[0] = 0
  /\ \A n \in 1 .. (Count(a) - 1) : S[n] = IF a[n] > a[S[n - 1]] THEN n ELSE S[n - 1]
LEMMA BestStatesAre ==
  ASSUME NEW a, Count(a) \in Nat \ {0}
  PROVE  InBesting(BestStates(a), a)
<1> DEFINE Top == (Count(a) - 1)
           Zero == 0
           Is(S, n) == S = [l \in 0 .. n |-> IF l = 0 THEN Zero ELSE IF a[l] > a[S[l - 1]] THEN l ELSE S[l - 1]]
           Bad == {n \in Nat : ~ \E S : Is(S, n)}
<1>0. Top \in Nat  OBVIOUS
<1>1. BestStates(a) = CHOOSE S : Is(S, Top)  BY DEF BestStates
<1> HIDE DEF Zero, Top
<1>2. Bad = {}
  <2>1. SUFFICES ASSUME Bad # {} PROVE FALSE  OBVIOUS
  <2>2. PICK n \in Bad : n = 0 \/ (n - 1 \in Nat /\ n - 1 \notin Bad)  BY <2>1, FirstOfNat
  <2>3. CASE n = 0
    <3> DEFINE S == [l \in 0 .. 0 |-> Zero]
    <3>1. Is(S, 0)  OBVIOUS
    <3>2. QED  BY <2>3, <3>1
  <2>4. CASE n # 0
    <3>1. n \in Nat /\ n - 1 \in Nat  BY <2>2, <2>4
    <3>2. PICK G : Is(G, n - 1)  BY <2>2, <2>4
    <3> DEFINE S == [l \in 0 .. n |-> IF l = n THEN IF a[n] > a[G[n - 1]] THEN n ELSE G[n - 1] ELSE G[l]]
    <3>3. ASSUME NEW l \in 0 .. n
          PROVE  S[l] = IF l = 0 THEN Zero ELSE IF a[l] > a[S[l - 1]] THEN l ELSE S[l - 1]
      <4>1. CASE l = n
        <5>1. n - 1 \in 0 .. n /\ n - 1 # n /\ l # 0  BY <3>1, <2>4, <4>1
        <5>2. S[n - 1] = G[n - 1]  BY <5>1
        <5>3. QED  BY <4>1, <5>1, <5>2
      <4>2. CASE l # n
        <5>1. l \in 0 .. n - 1  BY <3>1, <4>2
        <5>2. G[l] = IF l = 0 THEN Zero ELSE IF a[l] > a[G[l - 1]] THEN l ELSE G[l - 1]  BY <3>2, <5>1
        <5>3. CASE l = 0  BY <4>2, <5>2, <5>3
        <5>4. CASE l # 0
          <6>1. l - 1 \in 0 .. n /\ l - 1 # n  BY <3>1, <5>1, <5>4
          <6>2. S[l - 1] = G[l - 1]  BY <6>1
          <6>3. QED  BY <4>2, <5>2, <6>2
        <5>5. QED  BY <5>3, <5>4
      <4>3. QED  BY <4>1, <4>2
    <3>4. S = [l \in 0 .. n |-> S[l]]  OBVIOUS
    <3> HIDE DEF S
    <3>5. Is(S, n)  BY <3>3, <3>4
    <3>6. QED  BY <3>5
  <2>5. QED  BY <2>3, <2>4
<1> DEFINE F == BestStates(a)
<1> HIDE DEF F
<1>4. Is(F, Top)  BY <1>0, <1>1, <1>2 DEF F
<1>5. F[0] = Zero  BY <1>0, <1>4
<1>6. ASSUME NEW n \in 1 .. Top
      PROVE  F[n] = IF a[n] > a[F[n - 1]] THEN n ELSE F[n - 1]
  <2>1. n \in 0 .. Top /\ n # 0  BY <1>0
  <2>2. QED  BY <1>4, <2>1
<1>7. QED  BY <1>5, <1>6 DEF Zero, Top, F, InBesting

\* The least so far of those kept.
InLeasting(S, a, kept) ==
  /\ S[0] = 0
  /\ \A n \in 1 .. (Count(kept) - 1) : S[n] = IF a[kept[n]] < a[kept[S[n - 1]]] THEN n ELSE S[n - 1]
LEMMA LeastStatesAre ==
  ASSUME NEW a, NEW kept, Count(kept) \in Nat \ {0}
  PROVE  InLeasting(LeastStates(a, kept), a, kept)
<1> DEFINE Top == (Count(kept) - 1)
           Zero == 0
           Is(S, n) == S = [l \in 0 .. n |-> IF l = 0 THEN Zero ELSE IF a[kept[l]] < a[kept[S[l - 1]]] THEN l ELSE S[l - 1]]
           Bad == {n \in Nat : ~ \E S : Is(S, n)}
<1>0. Top \in Nat  OBVIOUS
<1>1. LeastStates(a, kept) = CHOOSE S : Is(S, Top)  BY DEF LeastStates
<1> HIDE DEF Zero, Top
<1>2. Bad = {}
  <2>1. SUFFICES ASSUME Bad # {} PROVE FALSE  OBVIOUS
  <2>2. PICK n \in Bad : n = 0 \/ (n - 1 \in Nat /\ n - 1 \notin Bad)  BY <2>1, FirstOfNat
  <2>3. CASE n = 0
    <3> DEFINE S == [l \in 0 .. 0 |-> Zero]
    <3>1. Is(S, 0)  OBVIOUS
    <3>2. QED  BY <2>3, <3>1
  <2>4. CASE n # 0
    <3>1. n \in Nat /\ n - 1 \in Nat  BY <2>2, <2>4
    <3>2. PICK G : Is(G, n - 1)  BY <2>2, <2>4
    <3> DEFINE S == [l \in 0 .. n |-> IF l = n THEN IF a[kept[n]] < a[kept[G[n - 1]]] THEN n ELSE G[n - 1] ELSE G[l]]
    <3>3. ASSUME NEW l \in 0 .. n
          PROVE  S[l] = IF l = 0 THEN Zero ELSE IF a[kept[l]] < a[kept[S[l - 1]]] THEN l ELSE S[l - 1]
      <4>1. CASE l = n
        <5>1. n - 1 \in 0 .. n /\ n - 1 # n /\ l # 0  BY <3>1, <2>4, <4>1
        <5>2. S[n - 1] = G[n - 1]  BY <5>1
        <5>3. QED  BY <4>1, <5>1, <5>2
      <4>2. CASE l # n
        <5>1. l \in 0 .. n - 1  BY <3>1, <4>2
        <5>2. G[l] = IF l = 0 THEN Zero ELSE IF a[kept[l]] < a[kept[G[l - 1]]] THEN l ELSE G[l - 1]  BY <3>2, <5>1
        <5>3. CASE l = 0  BY <4>2, <5>2, <5>3
        <5>4. CASE l # 0
          <6>1. l - 1 \in 0 .. n /\ l - 1 # n  BY <3>1, <5>1, <5>4
          <6>2. S[l - 1] = G[l - 1]  BY <6>1
          <6>3. QED  BY <4>2, <5>2, <6>2
        <5>5. QED  BY <5>3, <5>4
      <4>3. QED  BY <4>1, <4>2
    <3>4. S = [l \in 0 .. n |-> S[l]]  OBVIOUS
    <3> HIDE DEF S
    <3>5. Is(S, n)  BY <3>3, <3>4
    <3>6. QED  BY <3>5
  <2>5. QED  BY <2>3, <2>4
<1> DEFINE F == LeastStates(a, kept)
<1> HIDE DEF F
<1>4. Is(F, Top)  BY <1>0, <1>1, <1>2 DEF F
<1>5. F[0] = Zero  BY <1>0, <1>4
<1>6. ASSUME NEW n \in 1 .. Top
      PROVE  F[n] = IF a[kept[n]] < a[kept[F[n - 1]]] THEN n ELSE F[n - 1]
  <2>1. n \in 0 .. Top /\ n # 0  BY <1>0
  <2>2. QED  BY <1>4, <2>1
<1>7. QED  BY <1>5, <1>6 DEF Zero, Top, F, InLeasting

\* Those kept, token by token.
InKeeping(S, a, size) ==
  /\ S[0] = [j \in 0 .. size - 1 |-> j]
  /\ \A n \in 1 .. (Count(a) - size) : S[n] = KeptWith(a, S[n - 1], size + n - 1)
LEMMA KeptStatesAre ==
  ASSUME NEW a, NEW size, Count(a) - size \in Nat
  PROVE  InKeeping(KeptStates(a, size), a, size)
<1> DEFINE Top == (Count(a) - size)
           Zero == [j \in 0 .. size - 1 |-> j]
           Is(S, n) == S = [l \in 0 .. n |-> IF l = 0 THEN Zero ELSE KeptWith(a, S[l - 1], size + l - 1)]
           Bad == {n \in Nat : ~ \E S : Is(S, n)}
<1>0. Top \in Nat  OBVIOUS
<1>1. KeptStates(a, size) = CHOOSE S : Is(S, Top)  BY DEF KeptStates
<1> HIDE DEF Zero, Top
<1>2. Bad = {}
  <2>1. SUFFICES ASSUME Bad # {} PROVE FALSE  OBVIOUS
  <2>2. PICK n \in Bad : n = 0 \/ (n - 1 \in Nat /\ n - 1 \notin Bad)  BY <2>1, FirstOfNat
  <2>3. CASE n = 0
    <3> DEFINE S == [l \in 0 .. 0 |-> Zero]
    <3>1. Is(S, 0)  OBVIOUS
    <3>2. QED  BY <2>3, <3>1
  <2>4. CASE n # 0
    <3>1. n \in Nat /\ n - 1 \in Nat  BY <2>2, <2>4
    <3>2. PICK G : Is(G, n - 1)  BY <2>2, <2>4
    <3> DEFINE S == [l \in 0 .. n |-> IF l = n THEN KeptWith(a, G[n - 1], size + n - 1) ELSE G[l]]
    <3>3. ASSUME NEW l \in 0 .. n
          PROVE  S[l] = IF l = 0 THEN Zero ELSE KeptWith(a, S[l - 1], size + l - 1)
      <4>1. CASE l = n
        <5>1. n - 1 \in 0 .. n /\ n - 1 # n /\ l # 0  BY <3>1, <2>4, <4>1
        <5>2. S[n - 1] = G[n - 1]  BY <5>1
        <5>3. QED  BY <4>1, <5>1, <5>2
      <4>2. CASE l # n
        <5>1. l \in 0 .. n - 1  BY <3>1, <4>2
        <5>2. G[l] = IF l = 0 THEN Zero ELSE KeptWith(a, G[l - 1], size + l - 1)  BY <3>2, <5>1
        <5>3. CASE l = 0  BY <4>2, <5>2, <5>3
        <5>4. CASE l # 0
          <6>1. l - 1 \in 0 .. n /\ l - 1 # n  BY <3>1, <5>1, <5>4
          <6>2. S[l - 1] = G[l - 1]  BY <6>1
          <6>3. QED  BY <4>2, <5>2, <6>2
        <5>5. QED  BY <5>3, <5>4
      <4>3. QED  BY <4>1, <4>2
    <3>4. S = [l \in 0 .. n |-> S[l]]  OBVIOUS
    <3> HIDE DEF S
    <3>5. Is(S, n)  BY <3>3, <3>4
    <3>6. QED  BY <3>5
  <2>5. QED  BY <2>3, <2>4
<1> DEFINE F == KeptStates(a, size)
<1> HIDE DEF F
<1>4. Is(F, Top)  BY <1>0, <1>1, <1>2 DEF F
<1>5. F[0] = Zero  BY <1>0, <1>4
<1>6. ASSUME NEW n \in 1 .. Top
      PROVE  F[n] = KeptWith(a, F[n - 1], size + n - 1)
  <2>1. n \in 0 .. Top /\ n # 0  BY <1>0
  <2>2. QED  BY <1>4, <2>1
<1>7. QED  BY <1>5, <1>6 DEF Zero, Top, F, InKeeping

\* A heap made node by node.
LEMMA HeapifiedIs ==
  ASSUME NEW n \in Nat \ {0}, NEW h, IsHeap(h, n)
  PROVE  /\ Rearranged(h, Heapified(h, n), n) /\ IsHeap(Heapified(h, n), n)
         /\ HeapFrom(Heapified(h, n), n, 0)
<1> DEFINE S == HeapifyStates(h, n)
           N == n \div 2
           Good(j) == Rearranged(h, S[j], n) /\ HeapFrom(S[j], n, N - j)
           Bad == {j \in 0 .. N : ~ Good(j)}
<1>1. InHeapifying(S, h, n)  BY HeapifyStatesAre
<1>2. Heapified(h, n) = S[N]  BY DEF Heapified
<1>3. N \in Nat /\ N <= n /\ 2 * N <= n /\ n <= 2 * N + 1  OBVIOUS
<1>4. S[0] = h /\ \A j \in 1 .. N : S[j] = SiftDown(S[j - 1], n, N - j)  BY <1>1 DEF InHeapifying
<1> HIDE DEF S, N
<1>5. Good(0)
  <2>1. \A q \in N .. n - 1 : 2 * q + 1 >= n /\ 2 * q + 2 >= n  BY <1>3
  <2>2. HeapFrom(h, n, N)  BY <2>1, <1>3 DEF HeapFrom, HeapAt
  <2>3. Rearranged(h, h, n)  BY RearrangedSelf DEF IsHeap
  <2>4. N - 0 = N  BY <1>3
  <2>5. QED  BY <1>4, <2>2, <2>3, <2>4
<1>6. ASSUME NEW j \in 1 .. N, Good(j - 1) PROVE Good(j)
  <2>1. N - j \in 0 .. n - 1 /\ N - (j - 1) = (N - j) + 1  BY <1>3
  <2>2. IsHeap(S[j - 1], n) /\ HeapFrom(S[j - 1], n, (N - j) + 1)  BY <1>6, <2>1, RearrangedHeap
  <2>3. /\ Rearranged(S[j - 1], SiftDown(S[j - 1], n, N - j), n)
        /\ HeapFrom(SiftDown(S[j - 1], n, N - j), n, N - j)
    BY <2>1, <2>2, SiftDownIs
  <2>4. S[j] = SiftDown(S[j - 1], n, N - j)  BY <1>4
  <2>5. Rearranged(h, S[j], n)  BY <1>6, <2>3, <2>4, RearrangedTwice
  <2>6. QED  BY <2>3, <2>4, <2>5
<1> HIDE DEF Good
<1>7. Bad = {}
  <2>1. SUFFICES ASSUME Bad # {} PROVE FALSE  OBVIOUS
  <2>2. Bad \subseteq Nat  OBVIOUS
  <2>3. PICK j \in Bad : j = 0 \/ (j - 1 \in Nat /\ j - 1 \notin Bad)  BY <2>1, <2>2, FirstOfNat
  <2>4. j # 0  BY <1>5
  <2>5. j \in 1 .. N /\ j - 1 \in 0 .. N  BY <1>3, <2>3, <2>4
  <2>6. Good(j - 1)  BY <2>3, <2>4, <2>5
  <2>7. QED  BY <1>6, <2>5, <2>6
<1>8. Good(N)  BY <1>3, <1>7
<1>9. N - N = 0  BY <1>3
<1>10. Rearranged(h, S[N], n) /\ HeapFrom(S[N], n, 0)  BY <1>8, <1>9 DEF Good
<1>11. QED  BY <1>2, <1>10, RearrangedHeap

\* The smallest is on top.
LEMMA TopIsLeast ==
  ASSUME NEW n \in Nat, NEW h, IsHeap(h, n), HeapFrom(h, n, 0)
  PROVE  \A q \in 0 .. n - 1 : h[0].val <= h[q].val
<1> DEFINE Bad == {q \in 0 .. n - 1 : \E r \in 0 .. q : ~ (h[0].val <= h[r].val)}
<1>1. SUFFICES ASSUME Bad # {} PROVE FALSE  OBVIOUS
<1>2. Bad \subseteq Nat  OBVIOUS
<1>3. PICK q \in Bad : q = 0 \/ (q - 1 \in Nat /\ q - 1 \notin Bad)  BY <1>1, <1>2, FirstOfNat
<1>4. \A r \in 0 .. n - 1 : h[r].val \in Int  BY DEF IsHeap
<1>5. q # 0  BY <1>4
<1>6. q - 1 \in 0 .. n - 1 /\ \A r \in 0 .. q - 1 : h[0].val <= h[r].val  BY <1>3, <1>5
<1>7. ~ (h[0].val <= h[q].val)  BY <1>3, <1>6
<1>8. PICK r \in 0 .. q - 1 : q = 2 * r + 1 \/ q = 2 * r + 2
  <2>1. (q - 1) \div 2 \in 0 .. q - 1
        /\ (q = 2 * ((q - 1) \div 2) + 1 \/ q = 2 * ((q - 1) \div 2) + 2)
    BY <1>5, <1>6
  <2>2. QED  BY <2>1
<1>9. HeapAt(h, n, r)  BY <1>6 DEF HeapFrom
<1>10. h[r].val <= h[q].val  BY <1>8, <1>9 DEF HeapAt
<1>11. h[0].val <= h[r].val  BY <1>6
<1>12. h[0].val \in Int /\ h[r].val \in Int /\ h[q].val \in Int  BY <1>4, <1>6
<1>13. QED  BY <1>7, <1>10, <1>11, <1>12

-----------------------------------------------------------------------------

\* An array of numbers, from 0.
IsArray(src) ==
  /\ Count(src) \in Nat /\ DOMAIN src = 0 .. Count(src) - 1
  /\ \A v \in DOMAIN src : src[v] \in Int

\* The n entries of h are of different ones of the first i of src.
Entries(src, h, n, i) ==
  /\ DOMAIN h = 0 .. n - 1
  /\ \A q \in 0 .. n - 1 : h[q].idx \in 0 .. i - 1 /\ h[q].val = src[h[q].idx]
  /\ Distinct(h, n)

\* None of those of the first i that are not in h is above any that is.
Leaves(src, h, n, i) ==
  \A j \in 0 .. i - 1 : \/ \E q \in 0 .. n - 1 : h[q].idx = j
                        \/ \A q \in 0 .. n - 1 : src[j] <= h[q].val

\* The heap after i of src: of all of them, until there are enough, and of the best.
TopOk(src, size, h, i) ==
  \/ /\ i < size /\ Entries(src, h, i, i)
     /\ \A j \in 0 .. i - 1 : h[j].idx = j
  \/ i >= size /\ Entries(src, h, size, i) /\ HeapFrom(h, size, 0) /\ Leaves(src, h, size, i)

LEMMA EntriesRearranged ==
  ASSUME NEW src, NEW n \in Nat, NEW i \in Nat, NEW f, NEW g, Entries(src, f, n, i), Rearranged(f, g, n)
  PROVE  Entries(src, g, n, i) /\ (Leaves(src, f, n, i) => Leaves(src, g, n, i))
<1>1. ASSUME NEW q \in 0 .. n - 1 PROVE g[q].idx \in 0 .. i - 1 /\ g[q].val = src[g[q].idx]
  <2>1. PICK r \in 0 .. n - 1 : g[q] = f[r]  BY DEF Rearranged
  <2>2. QED  BY <2>1 DEF Entries
<1>2. Entries(src, g, n, i)  BY <1>1 DEF Entries, Rearranged
<1>3. ASSUME Leaves(src, f, n, i), NEW j \in 0 .. i - 1, ~ \E q \in 0 .. n - 1 : g[q].idx = j,
             NEW q \in 0 .. n - 1
      PROVE  src[j] <= g[q].val
  <2>1. PICK r \in 0 .. n - 1 : g[q] = f[r]  BY DEF Rearranged
  <2>2. ASSUME NEW s \in 0 .. n - 1 PROVE f[s].idx # j
    <3>1. PICK t \in 0 .. n - 1 : g[t] = f[s]  BY DEF Rearranged
    <3>2. QED  BY <1>3, <3>1
  <2>3. src[j] <= f[r].val  BY <1>3, <2>2 DEF Leaves
  <2>4. QED  BY <2>1, <2>3
<1>4. QED  BY <1>2, <1>3 DEF Leaves

LEMMA EntriesHeap ==
  ASSUME NEW src, IsArray(src), NEW n \in Nat, NEW i \in 0 .. Count(src), NEW h, Entries(src, h, n, i)
  PROVE  IsHeap(h, n) /\ Count(h) = n
<1>1. ASSUME NEW q \in 0 .. n - 1 PROVE h[q].val \in Int
  <2>1. h[q].idx \in DOMAIN src /\ h[q].val = src[h[q].idx]  BY DEF Entries, IsArray
  <2>2. QED  BY <2>1 DEF IsArray
<1>2. Count(h) = n
  <2>1. DOMAIN h = 0 .. n - 1  BY DEF Entries
  <2>2. 0 \in Int /\ n - 1 \in Int  OBVIOUS
  <2>3. Cardinality(0 .. n - 1) = IF 0 > n - 1 THEN 0 ELSE (n - 1) - 0 + 1  BY <2>2, FS_Interval
  <2>4. Cardinality(0 .. n - 1) = n  BY <2>3
  <2>5. QED  BY <2>1, <2>4 DEF Count
<1>3. QED  BY <1>1, <1>2 DEF Entries, IsHeap

LEMMA TopStart ==
  ASSUME NEW src, NEW size \in Nat \ {0}
  PROVE  TopOk(src, size, NoLogits, 0)
<1>1. DOMAIN NoLogits = 0 .. 0 - 1  BY DEF NoLogits
<1>2. Entries(src, NoLogits, 0, 0)  BY <1>1 DEF Entries, Distinct
<1>3. QED  BY <1>2 DEF TopOk

\* While there are not enough, the next goes to the end; the last makes a heap.
LEMMA TopGrows ==
  ASSUME NEW src, IsArray(src), NEW size \in Nat \ {0}, NEW k \in Nat, k < Count(src), k < size,
         NEW h, TopOk(src, size, h, k)
  PROVE  TopOk(src, size, HeapAfter(h, [val |-> src[k], idx |-> k], size), k + 1)
<1> DEFINE e == [val |-> src[k], idx |-> k]
           put == [q \in 0 .. k |-> IF q = k THEN e ELSE h[q]]
           after == HeapAfter(h, e, size)
<1>1. Entries(src, h, k, k) /\ \A j \in 0 .. k - 1 : h[j].idx = j  BY DEF TopOk
<1>2. Count(src) \in Nat  BY DEF IsArray
<1>3. Count(h) = k  BY <1>1, <1>2, EntriesHeap
<1>4. after = IF k < size - 1 THEN put ELSE Heapified(put, size)  BY <1>3 DEF HeapAfter
<1>5. e.val = src[k] /\ e.idx = k  OBVIOUS
<1> HIDE DEF e, after
<1>6. DOMAIN put = 0 .. k /\ put[k] = e /\ \A q \in 0 .. k - 1 : put[q] = h[q]  OBVIOUS
<1> HIDE DEF put
<1>7. (k + 1) - 1 = k  OBVIOUS
<1>8. \A j \in 0 .. (k + 1) - 1 : put[j].idx = j /\ put[j].val = src[put[j].idx]
  <2>1. SUFFICES ASSUME NEW j \in 0 .. k PROVE put[j].idx = j /\ put[j].val = src[put[j].idx]
    BY <1>7
  <2>2. CASE j = k  BY <1>5, <1>6, <2>2
  <2>3. CASE j # k
    <3>1. j \in 0 .. k - 1  BY <2>3
    <3>2. QED  BY <1>1, <1>6, <3>1 DEF Entries
  <2>4. QED  BY <2>2, <2>3
<1>9. Entries(src, put, k + 1, k + 1)
  <2>1. Distinct(put, k + 1)  BY <1>8 DEF Distinct
  <2>2. DOMAIN put = 0 .. (k + 1) - 1  BY <1>6, <1>7
  <2>3. QED  BY <1>8, <2>1, <2>2 DEF Entries
<1>10. CASE k < size - 1
  <2>1. k + 1 < size  BY <1>10
  <2>2. QED  BY <1>4, <1>8, <1>9, <1>10, <2>1 DEF TopOk, after, e
<1>11. CASE k >= size - 1
  <2>1. size = k + 1 /\ k + 1 \in 0 .. Count(src)  BY <1>2, <1>11
  <2>2. IsHeap(put, size)  BY <1>9, <2>1, EntriesHeap
  <2> DEFINE g == Heapified(put, size)
  <2>3. Rearranged(put, g, size) /\ HeapFrom(g, size, 0)  BY <2>2, HeapifiedIs
  <2> HIDE DEF g
  <2>4. Leaves(src, put, size, k + 1)  BY <1>8, <2>1 DEF Leaves
  <2>5. Entries(src, put, size, k + 1)  BY <1>9, <2>1
  <2>6. Entries(src, g, size, k + 1) /\ Leaves(src, g, size, k + 1)
    BY <2>1, <2>3, <2>4, <2>5, EntriesRearranged
  <2>7. TopOk(src, size, g, k + 1)  BY <2>1, <2>3, <2>6 DEF TopOk
  <2>8. QED  BY <1>4, <1>11, <2>7 DEF g, after, e
<1>12. QED  BY <1>10, <1>11

\* Then a larger one takes the place of the smallest.
LEMMA TopReplaces ==
  ASSUME NEW src, IsArray(src), NEW size \in Nat \ {0}, NEW k \in Nat, k < Count(src), k >= size,
         NEW h, TopOk(src, size, h, k)
  PROVE  TopOk(src, size, HeapAfter(h, [val |-> src[k], idx |-> k], size), k + 1)
<1> DEFINE e == [val |-> src[k], idx |-> k]
           f == [h EXCEPT ![0] = e]
           after == HeapAfter(h, e, size)
<1>1. Entries(src, h, size, k) /\ HeapFrom(h, size, 0) /\ Leaves(src, h, size, k)  BY DEF TopOk
<1>2. Count(src) \in Nat /\ src[k] \in Int  BY DEF IsArray
<1>3. Count(h) = size /\ IsHeap(h, size)  BY <1>1, <1>2, EntriesHeap
<1>4. after = IF e.val > h[0].val THEN SiftDown(f, size, 0) ELSE h  BY <1>3 DEF HeapAfter
<1>5. e.val = src[k] /\ e.idx = k  OBVIOUS
<1> HIDE DEF e, after
<1>6. DOMAIN h = 0 .. size - 1 /\ 0 \in 0 .. size - 1 /\ \A q \in 0 .. size - 1 : h[q].val \in Int
  BY <1>3 DEF IsHeap
<1>7. \A q \in 0 .. size - 1 : h[0].val <= h[q].val  BY <1>1, <1>3, TopIsLeast
<1>8. DOMAIN f = 0 .. size - 1 /\ f[0] = e /\ \A q \in 1 .. size - 1 : f[q] = h[q]  BY <1>6
<1> HIDE DEF f
<1>9. \A q \in 0 .. size - 1 : h[q].idx \in 0 .. k - 1 /\ h[q].val = src[h[q].idx]  BY <1>1 DEF Entries
<1>10. CASE src[k] > h[0].val
  <2>1. ASSUME NEW q \in 0 .. size - 1
        PROVE  f[q].idx \in 0 .. (k + 1) - 1 /\ f[q].val = src[f[q].idx] /\ f[q].val \in Int
    <3>1. CASE q = 0  BY <1>2, <1>5, <1>8, <3>1
    <3>2. CASE q # 0
      <4>1. f[q] = h[q]  BY <1>8, <3>2
      <4>2. QED  BY <1>6, <1>9, <4>1
    <3>3. QED  BY <3>1, <3>2
  <2>2. Distinct(f, size)
    <3>1. SUFFICES ASSUME NEW q \in 0 .. size - 1, NEW r \in 0 .. size - 1, f[q].idx = f[r].idx, q # r
                   PROVE  FALSE
      BY DEF Distinct
    <3>2. \A s \in 1 .. size - 1 : f[s].idx = h[s].idx /\ h[s].idx # k  BY <1>8, <1>9
    <3>3. f[0].idx = k  BY <1>5, <1>8
    <3>4. q # 0 /\ r # 0
      <4>1. CASE q = 0
        <5>1. r \in 1 .. size - 1  BY <3>1, <4>1
        <5>2. QED  BY <3>1, <3>2, <3>3, <4>1, <5>1
      <4>2. CASE r = 0
        <5>1. q \in 1 .. size - 1  BY <3>1, <4>2
        <5>2. QED  BY <3>1, <3>2, <3>3, <4>2, <5>1
      <4>3. QED  BY <4>1, <4>2
    <3>5. q \in 1 .. size - 1 /\ r \in 1 .. size - 1  BY <3>4
    <3>6. h[q].idx = h[r].idx  BY <3>1, <3>2, <3>5
    <3>7. QED  BY <1>1, <3>1, <3>6 DEF Entries, Distinct
  <2>3. Entries(src, f, size, k + 1)  BY <1>8, <2>1, <2>2 DEF Entries
  <2>4. IsHeap(f, size)  BY <1>8, <2>1 DEF IsHeap
  <2>5. HeapFrom(f, size, 0 + 1)
    <3>1. SUFFICES ASSUME NEW q \in 1 .. size - 1, NEW c \in {2 * q + 1, 2 * q + 2}, c < size
                   PROVE  f[q].val <= f[c].val
      BY DEF HeapFrom, HeapAt
    <3>2. c \in 1 .. size - 1  BY <3>1
    <3>3. h[q].val <= h[c].val  BY <1>1, <3>1 DEF HeapFrom, HeapAt
    <3>4. QED  BY <1>8, <3>2, <3>3
  <2>6. Leaves(src, f, size, k + 1)
    <3>1. SUFFICES ASSUME NEW j \in 0 .. k, ~ \E q \in 0 .. size - 1 : f[q].idx = j,
                          NEW q \in 0 .. size - 1
                   PROVE  src[j] <= f[q].val
      BY DEF Leaves
    <3>2. j # k  BY <1>5, <1>6, <1>8, <3>1
    <3>3. j \in 0 .. k - 1 /\ src[j] \in Int  BY <1>2, <3>2 DEF IsArray
    <3>4. src[j] <= h[0].val
      <4>1. CASE h[0].idx = j  BY <1>6, <1>9, <3>3, <4>1
      <4>2. CASE h[0].idx # j
        <5>1. ASSUME NEW s \in 0 .. size - 1 PROVE h[s].idx # j
          <6>1. CASE s = 0  BY <4>2, <6>1
          <6>2. CASE s # 0
            <7>1. f[s] = h[s]  BY <1>8, <6>2
            <7>2. QED  BY <3>1, <7>1
          <6>3. QED  BY <6>1, <6>2
        <5>2. QED  BY <1>1, <1>6, <3>3, <5>1 DEF Leaves
      <4>3. QED  BY <4>1, <4>2
    <3>5. h[0].val <= f[q].val
      <4>1. CASE q = 0  BY <1>2, <1>5, <1>6, <1>8, <1>10, <4>1
      <4>2. CASE q # 0  BY <1>7, <1>8, <4>2
      <4>3. QED  BY <4>1, <4>2
    <3>6. h[0].val \in Int /\ f[q].val \in Int  BY <1>6, <2>1
    <3>7. QED  BY <3>3, <3>4, <3>5, <3>6
  <2> DEFINE g == SiftDown(f, size, 0)
  <2>7. Rearranged(f, g, size) /\ HeapFrom(g, size, 0)
    <3>1. 0 \in 0 .. size - 1  OBVIOUS
    <3>2. QED  BY <2>4, <2>5, <3>1, SiftDownIs
  <2> HIDE DEF g
  <2>8. Entries(src, g, size, k + 1) /\ Leaves(src, g, size, k + 1)
    BY <2>3, <2>6, <2>7, EntriesRearranged
  <2>9. TopOk(src, size, g, k + 1)  BY <2>7, <2>8 DEF TopOk
  <2>10. QED  BY <1>4, <1>5, <1>10, <2>9 DEF g, after, e
<1>11. CASE ~ (src[k] > h[0].val)
  <2>1. Entries(src, h, size, k + 1)  BY <1>1, <1>9 DEF Entries
  <2>2. Leaves(src, h, size, k + 1)
    <3>1. SUFFICES ASSUME NEW j \in 0 .. k, ~ \E q \in 0 .. size - 1 : h[q].idx = j,
                          NEW q \in 0 .. size - 1
                   PROVE  src[j] <= h[q].val
      BY DEF Leaves
    <3>2. CASE j = k  BY <1>2, <1>6, <1>7, <1>11, <3>2
    <3>3. CASE j # k  BY <1>1, <3>1, <3>3 DEF Leaves
    <3>4. QED  BY <3>2, <3>3
  <2>3. TopOk(src, size, h, k + 1)  BY <1>1, <2>1, <2>2 DEF TopOk
  <2>4. QED  BY <1>4, <1>5, <1>11, <2>3 DEF after, e
<1>12. QED  BY <1>10, <1>11

\* The candidates are as many as asked for, and none left out is above any of them.
TopGood(src, size, Cands) ==
  /\ Cands \subseteq DOMAIN src /\ IsFiniteSet(Cands) /\ Cardinality(Cands) = size
  /\ \A j \in DOMAIN src : j \notin Cands => \A v \in Cands : src[j] <= src[v]

LEMMA TopIs ==
  ASSUME NEW src, IsArray(src), NEW size \in Nat \ {0}, size <= Count(src)
  PROVE  TopGood(src, size, partial_top_c(src, size))
<1> DEFINE S == TopStates(src, size)
           N == Count(src)
           Good(i) == TopOk(src, size, S[i], i)
           Bad == {i \in 0 .. N : ~ Good(i)}
<1>1. N \in Nat /\ DOMAIN src = 0 .. N - 1  BY DEF IsArray
<1>2. InTopping(S, src, size)  BY <1>1, TopStatesAre
<1>3. S[0] = NoLogits
      /\ \A i \in 1 .. N : S[i] = HeapAfter(S[i - 1], [val |-> src[i - 1], idx |-> i - 1], size)
  BY <1>2 DEF InTopping
<1>4. partial_top_c(src, size) = {S[N][q].idx : q \in DOMAIN S[N]}  BY DEF partial_top_c
<1> HIDE DEF S
<1>5. Good(0)  BY <1>3, TopStart
<1>6. ASSUME NEW i \in 1 .. N, Good(i - 1) PROVE Good(i)
  <2>1. i - 1 \in Nat /\ i - 1 < N /\ (i - 1) + 1 = i  BY <1>1
  <2>2. TopOk(src, size, HeapAfter(S[i - 1], [val |-> src[i - 1], idx |-> i - 1], size), (i - 1) + 1)
    <3>1. CASE i - 1 < size  BY <1>6, <2>1, <3>1, TopGrows
    <3>2. CASE i - 1 >= size  BY <1>6, <2>1, <3>2, TopReplaces
    <3>3. QED  BY <2>1, <3>1, <3>2
  <2>3. QED  BY <1>3, <2>1, <2>2
<1> HIDE DEF Good, N
<1>7. Bad = {}
  <2>1. SUFFICES ASSUME Bad # {} PROVE FALSE  OBVIOUS
  <2>2. Bad \subseteq Nat  OBVIOUS
  <2>3. PICK i \in Bad : i = 0 \/ (i - 1 \in Nat /\ i - 1 \notin Bad)  BY <2>1, <2>2, FirstOfNat
  <2>4. i # 0  BY <1>5
  <2>5. i \in 1 .. N /\ i - 1 \in 0 .. N  BY <1>1, <2>3, <2>4
  <2>6. Good(i - 1)  BY <2>3, <2>4, <2>5
  <2>7. QED  BY <1>6, <2>5, <2>6
<1>8. Good(N)  BY <1>1, <1>7
<1> DEFINE h == S[N]
           Cands == {h[q].idx : q \in 0 .. size - 1}
<1>9. Entries(src, h, size, N) /\ Leaves(src, h, size, N)
  <2>1. size <= N  BY DEF N
  <2>2. ~ (N < size)  BY <1>1, <2>1
  <2>3. QED  BY <1>8, <2>2 DEF Good, TopOk
<1>10. DOMAIN h = 0 .. size - 1  BY <1>9 DEF Entries
<1>11. partial_top_c(src, size) = Cands  BY <1>4, <1>10
<1> HIDE DEF h
<1>12. Cands \subseteq DOMAIN src  BY <1>1, <1>9 DEF Entries
<1>13. IsFiniteSet(Cands) /\ Cardinality(Cands) = size
  <2> DEFINE at == [q \in 0 .. size - 1 |-> h[q].idx]
  <2>1. at \in Surjection(0 .. size - 1, Cands)  BY DEF Surjection
  <2>2. at \in Injection(0 .. size - 1, Cands)  BY <1>9 DEF Injection, IsInjective, Entries, Distinct
  <2>3. 0 \in Int /\ size - 1 \in Int  OBVIOUS
  <2>4. IsFiniteSet(0 .. size - 1) /\ Cardinality(0 .. size - 1) = size  BY <2>3, FS_Interval
  <2> HIDE DEF at, Cands
  <2>5. QED  BY <2>1, <2>2, <2>4, FS_Surjection
<1>14. ASSUME NEW j \in DOMAIN src, j \notin Cands, NEW v \in Cands PROVE src[j] <= src[v]
  <2>1. PICK q \in 0 .. size - 1 : v = h[q].idx  OBVIOUS
  <2>2. j \in 0 .. N - 1 /\ ~ \E r \in 0 .. size - 1 : h[r].idx = j  BY <1>1, <1>14
  <2>3. src[j] <= h[q].val  BY <1>9, <2>2 DEF Leaves
  <2>4. h[q].val = src[v]  BY <1>9, <2>1 DEF Entries
  <2>5. QED  BY <2>3, <2>4
<1> HIDE DEF Cands
<1>15. QED  BY <1>11, <1>12, <1>13, <1>14 DEF TopGood

-----------------------------------------------------------------------------

\* The greedy choice is the largest.
LEMMA GreedyIs ==
  ASSUME NEW a, IsArray(a), Count(a) > 0
  PROVE  sample_greedy(a) \in DOMAIN a /\ \A v \in DOMAIN a : a[v] <= a[sample_greedy(a)]
<1> DEFINE S == BestStates(a)
           N == Count(a) - 1
           Good(i) == S[i] \in 0 .. i /\ \A v \in 0 .. i : a[v] <= a[S[i]]
           Bad == {i \in 0 .. N : ~ Good(i)}
<1>1. Count(a) \in Nat \ {0} /\ N \in Nat /\ DOMAIN a = 0 .. N /\ \A v \in 0 .. N : a[v] \in Int
  BY DEF IsArray
<1>2. InBesting(S, a)  BY <1>1, BestStatesAre
<1>3. S[0] = 0 /\ \A i \in 1 .. N : S[i] = IF a[i] > a[S[i - 1]] THEN i ELSE S[i - 1]
  BY <1>2 DEF InBesting
<1>4. sample_greedy(a) = S[N]  BY DEF sample_greedy
<1> HIDE DEF S, N
<1>5. Good(0)  BY <1>1, <1>3
<1>6. ASSUME NEW i \in 1 .. N, Good(i - 1) PROVE Good(i)
  <2>1. i \in 0 .. N /\ S[i - 1] \in 0 .. N /\ i \in Nat  BY <1>1, <1>6
  <2>2. ASSUME NEW v \in 0 .. i, v # i PROVE a[v] <= a[S[i - 1]]
    <3>1. v \in 0 .. i - 1  BY <2>2
    <3>2. QED  BY <1>6, <3>1
  <2>3. \A v \in 0 .. i : a[v] \in Int  BY <1>1, <2>1
  <2>4. a[i] \in Int /\ a[S[i - 1]] \in Int  BY <1>1, <2>1
  <2>5. CASE a[i] > a[S[i - 1]]
    <3>1. S[i] = i  BY <1>3, <2>5
    <3>2. QED  BY <2>1, <2>2, <2>3, <2>4, <2>5, <3>1
  <2>6. CASE ~ (a[i] > a[S[i - 1]])
    <3>1. S[i] = S[i - 1]  BY <1>3, <2>6
    <3>2. S[i] \in 0 .. i  BY <1>6, <3>1
    <3>3. QED  BY <2>2, <2>4, <2>6, <3>1, <3>2
  <2>7. QED  BY <2>5, <2>6
<1> HIDE DEF Good
<1>7. Bad = {}
  <2>1. SUFFICES ASSUME Bad # {} PROVE FALSE  OBVIOUS
  <2>2. Bad \subseteq Nat  OBVIOUS
  <2>3. PICK i \in Bad : i = 0 \/ (i - 1 \in Nat /\ i - 1 \notin Bad)  BY <2>1, <2>2, FirstOfNat
  <2>4. i # 0  BY <1>5
  <2>5. i \in 1 .. N /\ i - 1 \in 0 .. N  BY <1>1, <2>3, <2>4
  <2>6. Good(i - 1)  BY <2>3, <2>4, <2>5
  <2>7. QED  BY <1>6, <2>5, <2>6
<1>8. Good(N)  BY <1>1, <1>7
<1>9. QED  BY <1>1, <1>4, <1>8 DEF Good

\* Tokens kept: size different ones of the first n, and none of the others is better.
KeptOk(a, kept, size, n) ==
  /\ DOMAIN kept = 0 .. size - 1
  /\ \A j \in 0 .. size - 1 : kept[j] \in 0 .. n - 1
  /\ \A i, j \in 0 .. size - 1 : kept[i] = kept[j] => i = j
  /\ \A v \in 0 .. n - 1 : (\E j \in 0 .. size - 1 : kept[j] = v)
                           \/ \A j \in 0 .. size - 1 : a[v] <= a[kept[j]]

LEMMA KeptCount ==
  ASSUME NEW size \in Nat, NEW kept, DOMAIN kept = 0 .. size - 1
  PROVE  Count(kept) = size
<1>1. 0 \in Int /\ size - 1 \in Int  OBVIOUS
<1>2. Cardinality(0 .. size - 1) = IF 0 > size - 1 THEN 0 ELSE (size - 1) - 0 + 1  BY <1>1, FS_Interval
<1>3. Cardinality(0 .. size - 1) = size  BY <1>2
<1>4. QED  BY <1>3 DEF Count

LEMMA LeastIs ==
  ASSUME NEW a, IsArray(a), NEW size \in Nat \ {0}, NEW n \in 0 .. Count(a), NEW kept,
         KeptOk(a, kept, size, n)
  PROVE  /\ LeastKept(a, kept) \in 0 .. size - 1
         /\ \A j \in 0 .. size - 1 : a[kept[LeastKept(a, kept)]] <= a[kept[j]]
<1> DEFINE S == LeastStates(a, kept)
           N == size - 1
           Good(i) == S[i] \in 0 .. i /\ \A v \in 0 .. i : a[kept[S[i]]] <= a[kept[v]]
           Bad == {i \in 0 .. N : ~ Good(i)}
<1>1. Count(kept) = size  BY KeptCount DEF KeptOk
<1>2. InLeasting(S, a, kept)  BY <1>1, LeastStatesAre
<1>3. S[0] = 0 /\ \A i \in 1 .. N : S[i] = IF a[kept[i]] < a[kept[S[i - 1]]] THEN i ELSE S[i - 1]
  BY <1>1, <1>2 DEF InLeasting
<1>4. LeastKept(a, kept) = S[N]  BY <1>1 DEF LeastKept
<1>10. N \in Nat /\ \A v \in 0 .. N : a[kept[v]] \in Int
  <2>1. SUFFICES ASSUME NEW v \in 0 .. N PROVE a[kept[v]] \in Int  OBVIOUS
  <2>2. kept[v] \in DOMAIN a  BY DEF KeptOk, IsArray
  <2>3. QED  BY <2>2 DEF IsArray
<1> HIDE DEF S
<1>5. Good(0)  BY <1>3, <1>10
<1>6. ASSUME NEW i \in 1 .. N, Good(i - 1) PROVE Good(i)
  <2>1. i \in 0 .. N /\ S[i - 1] \in 0 .. N /\ i \in Nat  BY <1>6
  <2>2. ASSUME NEW v \in 0 .. i, v # i PROVE a[kept[S[i - 1]]] <= a[kept[v]]
    <3>1. v \in 0 .. i - 1  BY <2>2
    <3>2. QED  BY <1>6, <3>1
  <2>3. \A v \in 0 .. i : a[kept[v]] \in Int  BY <1>10, <2>1
  <2>4. a[kept[i]] \in Int /\ a[kept[S[i - 1]]] \in Int  BY <1>10, <2>1
  <2>5. CASE a[kept[i]] < a[kept[S[i - 1]]]
    <3>1. S[i] = i  BY <1>3, <2>5
    <3>2. QED  BY <2>1, <2>2, <2>3, <2>4, <2>5, <3>1
  <2>6. CASE ~ (a[kept[i]] < a[kept[S[i - 1]]])
    <3>1. S[i] = S[i - 1]  BY <1>3, <2>6
    <3>2. S[i] \in 0 .. i  BY <1>6, <3>1
    <3>3. QED  BY <2>2, <2>4, <2>6, <3>1, <3>2
  <2>7. QED  BY <2>5, <2>6
<1> HIDE DEF Good
<1>7. Bad = {}
  <2>1. SUFFICES ASSUME Bad # {} PROVE FALSE  OBVIOUS
  <2>2. Bad \subseteq Nat  OBVIOUS
  <2>3. PICK i \in Bad : i = 0 \/ (i - 1 \in Nat /\ i - 1 \notin Bad)  BY <2>1, <2>2, FirstOfNat
  <2>4. i # 0  BY <1>5
  <2>5. i \in 1 .. N /\ i - 1 \in 0 .. N  BY <2>3, <2>4
  <2>6. Good(i - 1)  BY <2>3, <2>4, <2>5
  <2>7. QED  BY <1>6, <2>5, <2>6
<1>8. Good(N)  BY <1>7, <1>10
<1>9. QED  BY <1>4, <1>8 DEF Good

LEMMA KeptStep ==
  ASSUME NEW a, IsArray(a), NEW size \in Nat \ {0}, NEW n \in Nat, n < Count(a), NEW kept,
         KeptOk(a, kept, size, n)
  PROVE  KeptOk(a, KeptWith(a, kept, n), size, n + 1)
<1> DEFINE m == LeastKept(a, kept)
           f == [kept EXCEPT ![m] = n]
<1>1. Count(a) \in Nat /\ DOMAIN a = 0 .. Count(a) - 1 /\ \A v \in DOMAIN a : a[v] \in Int
  BY DEF IsArray
<1>2. m \in 0 .. size - 1 /\ \A j \in 0 .. size - 1 : a[kept[m]] <= a[kept[j]]
  <2>1. n \in 0 .. Count(a)  BY <1>1
  <2>2. QED  BY <2>1, LeastIs, Zenon
<1>3. KeptWith(a, kept, n) = IF a[n] > a[kept[m]] THEN f ELSE kept  BY DEF KeptWith
<1>4. /\ DOMAIN kept = 0 .. size - 1
      /\ \A j \in 0 .. size - 1 : kept[j] \in 0 .. n - 1
      /\ \A i, j \in 0 .. size - 1 : kept[i] = kept[j] => i = j
      /\ \A v \in 0 .. n - 1 : (\E j \in 0 .. size - 1 : kept[j] = v)
                               \/ \A j \in 0 .. size - 1 : a[v] <= a[kept[j]]
  BY DEF KeptOk
<1> HIDE DEF m
<1>5. DOMAIN f = 0 .. size - 1 /\ f[m] = n /\ \A j \in 0 .. size - 1 : j # m => f[j] = kept[j]
  BY <1>2, <1>4
<1> HIDE DEF f
<1>6. a[n] \in Int /\ \A j \in 0 .. size - 1 : a[kept[j]] \in Int
  <2>1. SUFFICES ASSUME NEW j \in 0 .. size - 1 PROVE a[kept[j]] \in Int  BY <1>1
  <2>2. kept[j] \in DOMAIN a  BY <1>1, <1>4
  <2>3. QED  BY <1>1, <2>2
<1>7. CASE a[n] > a[kept[m]]
  <2>1. \A j \in 0 .. size - 1 : f[j] \in 0 .. (n + 1) - 1
    <3>1. SUFFICES ASSUME NEW j \in 0 .. size - 1 PROVE f[j] \in 0 .. n  OBVIOUS
    <3>2. CASE j = m  BY <1>5, <3>2
    <3>3. CASE j # m
      <4>1. f[j] = kept[j] /\ kept[j] \in 0 .. n - 1  BY <1>4, <1>5, <3>3
      <4>2. QED  BY <4>1
    <3>4. QED  BY <3>2, <3>3
  <2>2. \A i, j \in 0 .. size - 1 : f[i] = f[j] => i = j
    <3>1. SUFFICES ASSUME NEW i \in 0 .. size - 1, NEW j \in 0 .. size - 1, f[i] = f[j], i # j
                   PROVE  FALSE
      OBVIOUS
    <3>2. \A k \in 0 .. size - 1 : k # m => f[k] # n  BY <1>4, <1>5
    <3>3. i # m /\ j # m  BY <1>5, <3>1, <3>2
    <3>4. kept[i] = kept[j]  BY <1>5, <3>1, <3>3
    <3>5. QED  BY <1>4, <3>1, <3>4
  <2>3. ASSUME NEW v \in 0 .. (n + 1) - 1, ~ \E j \in 0 .. size - 1 : f[j] = v, NEW j \in 0 .. size - 1
        PROVE  a[v] <= a[f[j]]
    <3>1. v # n  BY <1>2, <1>5, <2>3
    <3>2. v \in 0 .. n - 1 /\ v \in DOMAIN a  BY <1>1, <2>3, <3>1
    <3>3. a[v] \in Int  BY <1>1, <3>2
    <3>4. a[v] <= a[kept[m]]
      <4>1. CASE v = kept[m]  BY <3>3, <4>1
      <4>2. CASE v # kept[m]
        <5>1. ASSUME NEW k \in 0 .. size - 1 PROVE kept[k] # v
          <6>1. CASE k = m  BY <4>2, <6>1
          <6>2. CASE k # m
            <7>1. f[k] = kept[k]  BY <1>5, <6>2
            <7>2. QED  BY <2>3, <7>1
          <6>3. QED  BY <6>1, <6>2
        <5>2. QED  BY <1>2, <1>4, <3>2, <5>1
      <4>3. QED  BY <4>1, <4>2
    <3>5. CASE j = m
      <4>1. a[f[j]] = a[n]  BY <1>5, <3>5
      <4>2. a[kept[m]] \in Int  BY <1>2, <1>6
      <4>3. QED  BY <1>6, <1>7, <3>3, <3>4, <4>1, <4>2
    <3>6. CASE j # m
      <4>1. a[f[j]] = a[kept[j]]  BY <1>5, <3>6
      <4>2. a[kept[m]] <= a[kept[j]] /\ a[kept[m]] \in Int /\ a[kept[j]] \in Int  BY <1>2, <1>6
      <4>3. QED  BY <3>3, <3>4, <4>1, <4>2
    <3>7. QED  BY <3>5, <3>6
  <2>4. KeptOk(a, f, size, n + 1)  BY <1>5, <2>1, <2>2, <2>3 DEF KeptOk
  <2>5. QED  BY <1>3, <1>7, <2>4
<1>8. CASE ~ (a[n] > a[kept[m]])
  <2>1. ASSUME NEW v \in 0 .. (n + 1) - 1, ~ \E j \in 0 .. size - 1 : kept[j] = v,
               NEW j \in 0 .. size - 1
        PROVE  a[v] <= a[kept[j]]
    <3>1. CASE v = n
      <4>1. a[kept[m]] <= a[kept[j]] /\ a[kept[m]] \in Int /\ a[kept[j]] \in Int  BY <1>2, <1>6
      <4>2. a[n] \in Int  BY <1>6
      <4>3. a[n] <= a[kept[j]]  BY <1>8, <4>1, <4>2
      <4>4. QED  BY <3>1, <4>3
    <3>2. CASE v # n
      <4>1. v \in 0 .. n - 1  BY <2>1, <3>2
      <4>2. QED  BY <1>4, <2>1, <4>1, Zenon
    <3>3. QED  BY <3>1, <3>2
  <2>2. \A j \in 0 .. size - 1 : kept[j] \in 0 .. (n + 1) - 1  BY <1>4
  <2>3. KeptOk(a, kept, size, n + 1)  BY <1>4, <2>1, <2>2 DEF KeptOk
  <2>4. QED  BY <1>3, <1>8, <2>3
<1>9. QED  BY <1>7, <1>8

LEMMA KeptIs ==
  ASSUME NEW a, IsArray(a), NEW size \in Nat \ {0}, size <= Count(a)
  PROVE  KeptOk(a, KeptStates(a, size)[Count(a) - size], size, Count(a))
<1> DEFINE S == KeptStates(a, size)
           N == Count(a) - size
           Good(i) == KeptOk(a, S[i], size, size + i)
           Bad == {i \in 0 .. N : ~ Good(i)}
<1>1. Count(a) \in Nat /\ N \in Nat  BY DEF IsArray
<1>2. InKeeping(S, a, size)  BY <1>1, KeptStatesAre
<1>3. S[0] = [j \in 0 .. size - 1 |-> j]
      /\ \A i \in 1 .. N : S[i] = KeptWith(a, S[i - 1], size + i - 1)
  BY <1>2 DEF InKeeping
<1>4. Count(a) = size + N  BY <1>1
<1> HIDE DEF S, N
<1>5. Good(0)
  <2>1. size + 0 = size  OBVIOUS
  <2>2. KeptOk(a, S[0], size, size)  BY <1>3 DEF KeptOk
  <2>3. QED  BY <2>1, <2>2
<1>6. ASSUME NEW i \in 1 .. N, Good(i - 1) PROVE Good(i)
  <2> DEFINE n == size + (i - 1)
  <2>1. n \in Nat /\ n < Count(a) /\ n + 1 = size + i /\ size + i - 1 = n  BY <1>1, <1>4
  <2>2. KeptOk(a, S[i - 1], size, n)  BY <1>6
  <2> HIDE DEF n
  <2>3. KeptOk(a, KeptWith(a, S[i - 1], n), size, n + 1)  BY <2>1, <2>2, KeptStep
  <2>4. QED  BY <1>3, <2>1, <2>3
<1> HIDE DEF Good
<1>7. Bad = {}
  <2>1. SUFFICES ASSUME Bad # {} PROVE FALSE  OBVIOUS
  <2>2. Bad \subseteq Nat  OBVIOUS
  <2>3. PICK i \in Bad : i = 0 \/ (i - 1 \in Nat /\ i - 1 \notin Bad)  BY <2>1, <2>2, FirstOfNat
  <2>4. i # 0  BY <1>5
  <2>5. i \in 1 .. N /\ i - 1 \in 0 .. N  BY <1>1, <2>3, <2>4
  <2>6. Good(i - 1)  BY <2>3, <2>4, <2>5
  <2>7. QED  BY <1>6, <2>5, <2>6
<1>8. Good(N)  BY <1>1, <1>7
<1>9. QED  BY <1>4, <1>8 DEF Good, S, N

\* Fewer than k tokens are better than one of the best k.
LEMMA TopKIs ==
  ASSUME NEW a, IsArray(a), Count(a) > 0, NEW k \in Nat \ {0}, NEW t \in hs_ml_sample_topk(a, k)
  PROVE  Cardinality({v \in DOMAIN a : a[v] > a[t]}) < k
<1> DEFINE size == IF k > Count(a) THEN Count(a) ELSE k
           kept == KeptStates(a, size)[Count(a) - size]
           K == {kept[j] : j \in 0 .. size - 1}
           B == {v \in DOMAIN a : a[v] > a[t]}
<1>1. Count(a) \in Nat /\ DOMAIN a = 0 .. Count(a) - 1 /\ \A v \in DOMAIN a : a[v] \in Int
  BY DEF IsArray
<1>2. size \in Nat \ {0} /\ size <= Count(a) /\ size <= k  BY <1>1
<1>3. hs_ml_sample_topk(a, k) = {kept[j] : j \in DOMAIN kept}  BY DEF hs_ml_sample_topk
<1> HIDE DEF size
<1>4. KeptOk(a, kept, size, Count(a))  BY <1>2, KeptIs
<1> HIDE DEF kept
<1>5. /\ DOMAIN kept = 0 .. size - 1
      /\ \A j \in 0 .. size - 1 : kept[j] \in 0 .. Count(a) - 1
      /\ \A v \in 0 .. Count(a) - 1 : (\E j \in 0 .. size - 1 : kept[j] = v)
                                      \/ \A j \in 0 .. size - 1 : a[v] <= a[kept[j]]
  BY <1>4 DEF KeptOk
<1>6. t \in K  BY <1>3, <1>5
<1>7. PICK s \in 0 .. size - 1 : t = kept[s]  BY <1>6
<1>8. t \in DOMAIN a /\ a[t] \in Int  BY <1>1, <1>5, <1>7
<1>9. B \subseteq K \ {t}
  <2>1. SUFFICES ASSUME NEW v \in DOMAIN a, a[v] > a[t] PROVE v \in K \ {t}  OBVIOUS
  <2>2. a[v] \in Int /\ v # t  BY <1>1, <1>8, <2>1
  <2>3. ~ (a[v] <= a[kept[s]])  BY <1>7, <1>8, <2>1, <2>2
  <2>4. v \in K  BY <1>1, <1>5, <2>1, <2>3
  <2>5. QED  BY <2>2, <2>4
<1>10. IsFiniteSet(K) /\ Cardinality(K) <= size
  <2> DEFINE at == [j \in 0 .. size - 1 |-> kept[j]]
  <2>1. at \in Surjection(0 .. size - 1, K)  BY DEF Surjection
  <2>2. 0 \in Int /\ size - 1 \in Int  BY <1>2
  <2>5. IsFiniteSet(0 .. size - 1)
        /\ Cardinality(0 .. size - 1) = IF 0 > size - 1 THEN 0 ELSE (size - 1) - 0 + 1
    BY <2>2, FS_Interval
  <2>3. IsFiniteSet(0 .. size - 1) /\ Cardinality(0 .. size - 1) = size  BY <1>2, <2>5
  <2> HIDE DEF at, K
  <2>4. QED  BY <2>1, <2>3, FS_Surjection
<1> HIDE DEF K, B
<1>11. IsFiniteSet(K \ {t}) /\ Cardinality(K \ {t}) = Cardinality(K) - 1  BY <1>6, <1>10, FS_RemoveElement
<1>12. Cardinality(B) <= Cardinality(K \ {t}) /\ IsFiniteSet(B)  BY <1>9, <1>11, FS_Subset
<1>13. Cardinality(K) \in Nat /\ Cardinality(B) \in Nat  BY <1>10, <1>12, FS_CardinalityType
<1>14. QED  BY <1>2, <1>10, <1>11, <1>12, <1>13 DEF B

-----------------------------------------------------------------------------

\* The coarse logits of the token being made, and what the last planes add to them.
Made(c, d) ==
  /\ c \in CoarseLogits /\ Count(c) >= Candidates
  /\ d \in [DOMAIN c -> {-Details, 0, Details}]

\* A choice is one its sampler may make of these logits.
ChoiceOf(l, ch) ==
  \/ ch.by = "greedy" /\ ch.token = sample_greedy(l)
  \/ ch.by = "topk" /\ ch.k \in TopKs /\ ch.token \in hs_ml_sample_topk(l, ch.k)

SampleInv ==
  /\ coarse # NoLogits => Made(coarse, detail)
  /\ logits # NoLogits => coarse # NoLogits /\ logits = session_logits_trit(coarse, detail)
  /\ choice # NoChoice => logits # NoLogits /\ ChoiceOf(logits, choice)

\* The logits of the two stages: exact for the candidates, low for the others.
LEMMA TwoStagesAre ==
  ASSUME NEW c, NEW d, Made(c, d)
  PROVE  LET l == session_logits_trit(c, d)
             Cands == partial_top_c(c, Candidates)
         IN /\ IsArray(c) /\ IsArray(l) /\ Count(l) > 0 /\ DOMAIN l = DOMAIN c
            /\ TopGood(c, Candidates, Cands)
            /\ \A v \in DOMAIN c : d[v] \in Int /\ -Details <= d[v] /\ d[v] <= Details
            /\ \A v \in DOMAIN c : v \in Cands => l[v] = c[v] + d[v] /\ l[v] > Low
            /\ \A v \in DOMAIN c : v \notin Cands => l[v] = Low
<1> DEFINE l == session_logits_trit(c, d)
           Cands == partial_top_c(c, Candidates)
<1>1. Candidates \in Nat \ {0} /\ Details \in Nat  BY SamplingAssumption
<1>2. /\ Count(c) \in Nat \ {0} /\ DOMAIN c = 0 .. Count(c) - 1
      /\ \A v \in DOMAIN c : c[v] \in Int /\ c[v] - Details > Low
  BY SamplingAssumption DEF Made
<1>3. IsArray(c) /\ Candidates <= Count(c)  BY <1>1, <1>2 DEF IsArray, Made
<1>4. TopGood(c, Candidates, Cands)  BY <1>1, <1>3, TopIs
<1>5. l = [v \in DOMAIN c |-> IF v \in Cands THEN c[v] + d[v] ELSE Low]  BY DEF session_logits_trit
<1> HIDE DEF Cands, l
<1>6. ASSUME NEW v \in DOMAIN c PROVE d[v] \in Int /\ -Details <= d[v] /\ d[v] <= Details
  <2>1. d[v] \in {-Details, 0, Details}  BY DEF Made
  <2>2. QED  BY <1>1, <2>1
<1>7. Low \in Int  BY DEF Low
<1>8. DOMAIN l = DOMAIN c  BY <1>5
<1>9. ASSUME NEW v \in DOMAIN c
      PROVE  /\ l[v] \in Int /\ (v \in Cands => l[v] = c[v] + d[v] /\ l[v] > Low)
             /\ v \notin Cands => l[v] = Low
  <2>1. c[v] \in Int /\ c[v] - Details > Low  BY <1>2
  <2>2. d[v] \in Int /\ -Details <= d[v]  BY <1>6
  <2>3. l[v] = IF v \in Cands THEN c[v] + d[v] ELSE Low  BY <1>5
  <2>4. c[v] + d[v] \in Int /\ c[v] + d[v] > Low  BY <1>1, <1>7, <2>1, <2>2
  <2>5. QED  BY <1>7, <2>3, <2>4
<1>10. Count(l) = Count(c)  BY <1>8 DEF Count
<1>11. IsArray(l) /\ Count(l) > 0  BY <1>2, <1>8, <1>9, <1>10 DEF IsArray
<1>12. QED  BY <1>3, <1>4, <1>6, <1>8, <1>9, <1>11 DEF l, Cands

LEMMA SampleInvInit == SamplingInit => SampleInv
BY DEF SamplingInit, SampleInv

LEMMA SampleInvStep == SampleInv /\ [SamplingNext]_sampleVars => SampleInv'
<1> SUFFICES ASSUME SampleInv, [SamplingNext]_sampleVars PROVE SampleInv'  OBVIOUS
<1>1. CASE Products4
  <2>1. Made(coarse', detail')  BY <1>1 DEF Products4, Made
  <2>2. coarse = NoLogits /\ logits' = logits /\ choice' = choice  BY <1>1 DEF Products4
  <2>3. logits = NoLogits /\ choice = NoChoice  BY <2>2 DEF SampleInv
  <2>4. QED  BY <2>1, <2>2, <2>3 DEF SampleInv
<1>2. CASE TwoStages
  <2>1. /\ coarse # NoLogits /\ logits = NoLogits /\ logits' = session_logits_trit(coarse, detail)
        /\ coarse' = coarse /\ detail' = detail /\ choice' = choice
    BY <1>2 DEF TwoStages
  <2>2. choice = NoChoice  BY <2>1 DEF SampleInv
  <2>3. QED  BY <2>1, <2>2 DEF SampleInv
<1>3. CASE SampleGreedy
  <2>1. /\ logits # NoLogits /\ coarse' = coarse /\ detail' = detail /\ logits' = logits
        /\ choice' = [by |-> "greedy", k |-> 1, token |-> sample_greedy(logits)]
    BY <1>3 DEF SampleGreedy
  <2>2. choice'.by = "greedy" /\ choice'.token = sample_greedy(logits)  BY <2>1
  <2>3. ChoiceOf(logits, choice')  BY <2>2 DEF ChoiceOf
  <2>4. QED  BY <2>1, <2>3 DEF SampleInv
<1>4. CASE SampleTopK
  <2>1. logits # NoLogits /\ coarse' = coarse /\ detail' = detail /\ logits' = logits
    BY <1>4 DEF SampleTopK
  <2>2. PICK k \in TopKs : \E t \in hs_ml_sample_topk(logits, k) :
          choice' = [by |-> "topk", k |-> k, token |-> t]
    BY <1>4 DEF SampleTopK
  <2>3. PICK t \in hs_ml_sample_topk(logits, k) : choice' = [by |-> "topk", k |-> k, token |-> t]
    BY <2>2
  <2>4. choice'.by = "topk" /\ choice'.k = k /\ choice'.token = t  BY <2>3
  <2>5. ChoiceOf(logits, choice')  BY <2>3, <2>4 DEF ChoiceOf
  <2>6. QED  BY <2>1, <2>5 DEF SampleInv
<1>5. CASE NextToken  BY <1>5 DEF NextToken, SampleInv
<1>6. CASE UNCHANGED sampleVars  BY <1>6 DEF sampleVars, SampleInv
<1>7. QED  BY <1>1, <1>2, <1>3, <1>4, <1>5, <1>6 DEF SamplingNext

\* What the samplers make of two stages is what the property says.
LEMMA ChoiceIsBest == SampleInv => BestIsChosen
<1> SUFFICES ASSUME SampleInv PROVE BestIsChosen  OBVIOUS
<1> DEFINE Cands == partial_top_c(coarse, Candidates)
<1>1. CASE logits = NoLogits
  <2>1. choice = NoChoice  BY <1>1 DEF SampleInv
  <2>2. choice.by = "none"  BY <2>1 DEF NoChoice
  <2>3. QED  BY <1>1, <2>2 DEF BestIsChosen
<1>2. CASE logits # NoLogits
  <2>1. coarse # NoLogits /\ logits = session_logits_trit(coarse, detail)  BY <1>2 DEF SampleInv
  <2>2. Made(coarse, detail)  BY <2>1 DEF SampleInv
  <2>3. /\ IsArray(coarse) /\ IsArray(logits) /\ Count(logits) > 0 /\ DOMAIN logits = DOMAIN coarse
        /\ TopGood(coarse, Candidates, Cands)
        /\ \A v \in DOMAIN coarse : detail[v] \in Int /\ -Details <= detail[v] /\ detail[v] <= Details
        /\ \A v \in DOMAIN coarse : v \in Cands => logits[v] = coarse[v] + detail[v] /\ logits[v] > Low
        /\ \A v \in DOMAIN coarse : v \notin Cands => logits[v] = Low
    BY <2>1, <2>2, TwoStagesAre
  <2> HIDE DEF Cands
  <2>4. /\ Cands \subseteq DOMAIN coarse /\ IsFiniteSet(Cands) /\ Cardinality(Cands) = Candidates
        /\ \A j \in DOMAIN coarse : j \notin Cands => \A v \in Cands : coarse[j] <= coarse[v]
    BY <2>3 DEF TopGood
  <2>5. Low \in Int /\ Details \in Nat /\ Candidates \in Nat \ {0}  BY SamplingAssumption DEF Low
  <2>6. \A v \in DOMAIN coarse : coarse[v] \in Int  BY <2>3 DEF IsArray
  <2>7. {v \in DOMAIN logits : logits[v] # Low} = Cands
    <3>1. ASSUME NEW v \in Cands PROVE v \in DOMAIN logits /\ logits[v] # Low
      <4>1. v \in DOMAIN coarse /\ logits[v] = coarse[v] + detail[v] /\ logits[v] > Low  BY <2>3, <2>4
      <4>2. QED  BY <2>3, <2>5, <4>1
    <3>2. QED  BY <2>3, <3>1
  <2>8. ASSUME choice.by = "greedy"
        PROVE  /\ \A v \in DOMAIN coarse : Exact(choice.token) >= Exact(v) - 2 * Details
               /\ \A v \in DOMAIN coarse :
                    coarse[v] > coarse[choice.token] => Exact(choice.token) >= Exact(v)
    <3> DEFINE t == choice.token
    <3>1. choice # NoChoice /\ "greedy" # "topk"  BY <2>8 DEF NoChoice
    <3>2. t = sample_greedy(logits)  BY <2>8, <3>1 DEF SampleInv, ChoiceOf
    <3>3. t \in DOMAIN logits /\ \A v \in DOMAIN logits : logits[v] <= logits[t]  BY <2>3, <3>2, GreedyIs
    <3> HIDE DEF t
    <3>4. t \in Cands
      <4>1. Cands # {}  BY <2>4, <2>5, FS_EmptySet
      <4>2. PICK v \in Cands : TRUE  BY <4>1
      <4>3. v \in DOMAIN logits /\ logits[v] > Low /\ logits[v] <= logits[t]  BY <2>3, <2>4, <3>3
      <4>4. logits[v] \in Int /\ logits[t] \in Int  BY <2>3, <3>3, <4>3 DEF IsArray
      <4>5. logits[t] # Low  BY <2>5, <4>3, <4>4
      <4>6. QED  BY <2>3, <3>3, <4>5
    <3>5. logits[t] = coarse[t] + detail[t] /\ t \in DOMAIN coarse  BY <2>3, <2>4, <3>4
    <3>6. ASSUME NEW v \in DOMAIN coarse, v \in Cands PROVE coarse[v] + detail[v] <= coarse[t] + detail[t]
      <4>1. logits[v] = coarse[v] + detail[v]  BY <2>3, <3>6
      <4>2. QED  BY <2>3, <3>3, <3>5, <4>1
    <3>7. ASSUME NEW v \in DOMAIN coarse
          PROVE  /\ coarse[t] + detail[t] >= (coarse[v] + detail[v]) - 2 * Details
                 /\ coarse[v] > coarse[t] => coarse[t] + detail[t] >= coarse[v] + detail[v]
      <4>1. /\ coarse[v] \in Int /\ coarse[t] \in Int /\ detail[v] \in Int /\ detail[t] \in Int
            /\ -Details <= detail[t] /\ detail[v] <= Details
        BY <2>3, <2>6, <3>5
      <4>2. CASE v \in Cands  BY <2>5, <3>6, <4>1, <4>2
      <4>3. CASE v \notin Cands
        <5>1. coarse[v] <= coarse[t]  BY <2>4, <3>4, <4>3
        <5>2. QED  BY <2>5, <4>1, <5>1
      <4>4. QED  BY <4>2, <4>3
    <3>8. ASSUME NEW v \in DOMAIN coarse
          PROVE  /\ Exact(t) >= Exact(v) - 2 * Details
                 /\ coarse[v] > coarse[t] => Exact(t) >= Exact(v)
      <4>1. Exact(v) = coarse[v] + detail[v] /\ Exact(t) = coarse[t] + detail[t]  BY DEF Exact
      <4>2. QED  BY <3>7, <4>1
    <3>10. QED  BY <3>8 DEF t
  <2>9. ASSUME choice.by = "topk", choice.k > 0
        PROVE  Cardinality({v \in DOMAIN logits : logits[v] > logits[choice.token]}) < choice.k
    <3>1. choice # NoChoice /\ "greedy" # "topk"  BY <2>9 DEF NoChoice
    <3>2. choice.k \in TopKs /\ choice.token \in hs_ml_sample_topk(logits, choice.k)
      BY <2>9, <3>1 DEF SampleInv, ChoiceOf
    <3>5. TopKs \subseteq Nat  BY SamplingAssumption
    <3>6. choice.k \in Nat  BY <3>2, <3>5
    <3>3. choice.k \in Nat \ {0}  BY <2>9, <3>6
    <3>4. QED  BY <2>3, <3>2, <3>3, TopKIs
  <2>10. QED  BY <2>4, <2>7, <2>8, <2>9 DEF BestIsChosen
<1>3. QED  BY <1>1, <1>2

\* Whatever the logits and whatever the last planes add: there are as many candidates
\* as there should be, the greedy sampler chooses the best of them, and a token of the
\* top k has fewer than k above it (partial_top_c, session_logits_trit, the samplers).
THEOREM SamplersChooseBest == SamplingSpec => []BestIsChosen
<1>1. SamplingInit => SampleInv  BY SampleInvInit
<1>2. SampleInv /\ [SamplingNext]_sampleVars => SampleInv'  BY SampleInvStep
<1>3. SampleInv => BestIsChosen  BY ChoiceIsBest
<1>4. QED  BY <1>1, <1>2, <1>3, PTL DEF SamplingSpec
-----------------------------------------------------------------------------
(* The loader of a ternary model.  A model in the making has the arrays    *)
(* taken so far, a failure gives all of them back, and between the calls   *)
(* a model has all its arrays or none.                                     *)

\* The metadata, key by key.
InMeta(S, m, file) ==
  /\ S[0] = m
  /\ \A n \in 1 .. Len(file.meta) : S[n] = MetaStep(S[n - 1], file, file.meta[n])
LEMMA MetaStatesAre ==
  ASSUME NEW m, NEW file, Len(file.meta) \in Nat
  PROVE  InMeta(MetaStates(m, file), m, file)
<1> DEFINE Top == Len(file.meta)
           Zero == m
           Is(S, n) == S = [l \in 0 .. n |-> IF l = 0 THEN Zero ELSE MetaStep(S[l - 1], file, file.meta[l])]
           Bad == {n \in Nat : ~ \E S : Is(S, n)}
<1>0. Top \in Nat  OBVIOUS
<1>1. MetaStates(m, file) = CHOOSE S : Is(S, Top)  BY DEF MetaStates
<1> HIDE DEF Zero, Top
<1>2. Bad = {}
  <2>1. SUFFICES ASSUME Bad # {} PROVE FALSE  OBVIOUS
  <2>2. PICK n \in Bad : n = 0 \/ (n - 1 \in Nat /\ n - 1 \notin Bad)  BY <2>1, FirstOfNat
  <2>3. CASE n = 0
    <3> DEFINE S == [l \in 0 .. 0 |-> Zero]
    <3>1. Is(S, 0)  OBVIOUS
    <3>2. QED  BY <2>3, <3>1
  <2>4. CASE n # 0
    <3>1. n \in Nat /\ n - 1 \in Nat  BY <2>2, <2>4
    <3>2. PICK G : Is(G, n - 1)  BY <2>2, <2>4
    <3> DEFINE S == [l \in 0 .. n |-> IF l = n THEN MetaStep(G[n - 1], file, file.meta[n]) ELSE G[l]]
    <3>3. ASSUME NEW l \in 0 .. n
          PROVE  S[l] = IF l = 0 THEN Zero ELSE MetaStep(S[l - 1], file, file.meta[l])
      <4>1. CASE l = n
        <5>1. n - 1 \in 0 .. n /\ n - 1 # n /\ l # 0  BY <3>1, <2>4, <4>1
        <5>2. S[n - 1] = G[n - 1]  BY <5>1
        <5>3. QED  BY <4>1, <5>1, <5>2
      <4>2. CASE l # n
        <5>1. l \in 0 .. n - 1  BY <3>1, <4>2
        <5>2. G[l] = IF l = 0 THEN Zero ELSE MetaStep(G[l - 1], file, file.meta[l])  BY <3>2, <5>1
        <5>3. CASE l = 0  BY <4>2, <5>2, <5>3
        <5>4. CASE l # 0
          <6>1. l - 1 \in 0 .. n /\ l - 1 # n  BY <3>1, <5>1, <5>4
          <6>2. S[l - 1] = G[l - 1]  BY <6>1
          <6>3. QED  BY <4>2, <5>2, <6>2
        <5>5. QED  BY <5>3, <5>4
      <4>3. QED  BY <4>1, <4>2
    <3>4. S = [l \in 0 .. n |-> S[l]]  OBVIOUS
    <3> HIDE DEF S
    <3>5. Is(S, n)  BY <3>3, <3>4
    <3>6. QED  BY <3>5
  <2>5. QED  BY <2>3, <2>4
<1> DEFINE F == MetaStates(m, file)
<1> HIDE DEF F
<1>4. Is(F, Top)  BY <1>0, <1>1, <1>2 DEF F
<1>5. F[0] = Zero  BY <1>0, <1>4
<1>6. ASSUME NEW n \in 1 .. Top
      PROVE  F[n] = MetaStep(F[n - 1], file, file.meta[n])
  <2>1. n \in 0 .. Top /\ n # 0  BY <1>0
  <2>2. QED  BY <1>4, <2>1
<1>7. QED  BY <1>5, <1>6 DEF Zero, Top, F, InMeta

\* The weights of a layer, one after another.
InProjs(S, m, file, k) ==
  /\ S[0] = m
  /\ \A n \in 1 .. Len(ProjTurns) : S[n] = load_ternary_proj(S[n - 1], file, k, ProjTurns[n])
LEMMA ProjStatesAre ==
  ASSUME NEW m, NEW file, NEW k
  PROVE  InProjs(ProjStates(m, file, k), m, file, k)
<1> DEFINE Top == Len(ProjTurns)
           Zero == m
           Is(S, n) == S = [l \in 0 .. n |-> IF l = 0 THEN Zero ELSE load_ternary_proj(S[l - 1], file, k, ProjTurns[l])]
           Bad == {n \in Nat : ~ \E S : Is(S, n)}
<1>0. Top \in Nat  BY DEF ProjTurns
<1>1. ProjStates(m, file, k) = CHOOSE S : Is(S, Top)  BY DEF ProjStates
<1> HIDE DEF Zero, Top
<1>2. Bad = {}
  <2>1. SUFFICES ASSUME Bad # {} PROVE FALSE  OBVIOUS
  <2>2. PICK n \in Bad : n = 0 \/ (n - 1 \in Nat /\ n - 1 \notin Bad)  BY <2>1, FirstOfNat
  <2>3. CASE n = 0
    <3> DEFINE S == [l \in 0 .. 0 |-> Zero]
    <3>1. Is(S, 0)  OBVIOUS
    <3>2. QED  BY <2>3, <3>1
  <2>4. CASE n # 0
    <3>1. n \in Nat /\ n - 1 \in Nat  BY <2>2, <2>4
    <3>2. PICK G : Is(G, n - 1)  BY <2>2, <2>4
    <3> DEFINE S == [l \in 0 .. n |-> IF l = n THEN load_ternary_proj(G[n - 1], file, k, ProjTurns[n]) ELSE G[l]]
    <3>3. ASSUME NEW l \in 0 .. n
          PROVE  S[l] = IF l = 0 THEN Zero ELSE load_ternary_proj(S[l - 1], file, k, ProjTurns[l])
      <4>1. CASE l = n
        <5>1. n - 1 \in 0 .. n /\ n - 1 # n /\ l # 0  BY <3>1, <2>4, <4>1
        <5>2. S[n - 1] = G[n - 1]  BY <5>1
        <5>3. QED  BY <4>1, <5>1, <5>2
      <4>2. CASE l # n
        <5>1. l \in 0 .. n - 1  BY <3>1, <4>2
        <5>2. G[l] = IF l = 0 THEN Zero ELSE load_ternary_proj(G[l - 1], file, k, ProjTurns[l])  BY <3>2, <5>1
        <5>3. CASE l = 0  BY <4>2, <5>2, <5>3
        <5>4. CASE l # 0
          <6>1. l - 1 \in 0 .. n /\ l - 1 # n  BY <3>1, <5>1, <5>4
          <6>2. S[l - 1] = G[l - 1]  BY <6>1
          <6>3. QED  BY <4>2, <5>2, <6>2
        <5>5. QED  BY <5>3, <5>4
      <4>3. QED  BY <4>1, <4>2
    <3>4. S = [l \in 0 .. n |-> S[l]]  OBVIOUS
    <3> HIDE DEF S
    <3>5. Is(S, n)  BY <3>3, <3>4
    <3>6. QED  BY <3>5
  <2>5. QED  BY <2>3, <2>4
<1> DEFINE F == ProjStates(m, file, k)
<1> HIDE DEF F
<1>4. Is(F, Top)  BY <1>0, <1>1, <1>2 DEF F
<1>5. F[0] = Zero  BY <1>0, <1>4
<1>6. ASSUME NEW n \in 1 .. Top
      PROVE  F[n] = load_ternary_proj(F[n - 1], file, k, ProjTurns[n])
  <2>1. n \in 0 .. Top /\ n # 0  BY <1>0
  <2>2. QED  BY <1>4, <2>1
<1>7. QED  BY <1>5, <1>6 DEF Zero, Top, F, InProjs

\* The layers, one after another.
InLoading(S, m, file) ==
  /\ S[0] = m
  /\ \A n \in 1 .. Depth : S[n] = LayerLoaded(S[n - 1], file, n)
LEMMA LayerStatesAre ==
  ASSUME NEW m, NEW file
  PROVE  InLoading(LayerStates(m, file), m, file)
<1> DEFINE Top == Depth
           Zero == m
           Is(S, n) == S = [l \in 0 .. n |-> IF l = 0 THEN Zero ELSE LayerLoaded(S[l - 1], file, l)]
           Bad == {n \in Nat : ~ \E S : Is(S, n)}
<1>0. Top \in Nat  BY BlocksAssumption
<1>1. LayerStates(m, file) = CHOOSE S : Is(S, Top)  BY DEF LayerStates
<1> HIDE DEF Zero, Top
<1>2. Bad = {}
  <2>1. SUFFICES ASSUME Bad # {} PROVE FALSE  OBVIOUS
  <2>2. PICK n \in Bad : n = 0 \/ (n - 1 \in Nat /\ n - 1 \notin Bad)  BY <2>1, FirstOfNat
  <2>3. CASE n = 0
    <3> DEFINE S == [l \in 0 .. 0 |-> Zero]
    <3>1. Is(S, 0)  OBVIOUS
    <3>2. QED  BY <2>3, <3>1
  <2>4. CASE n # 0
    <3>1. n \in Nat /\ n - 1 \in Nat  BY <2>2, <2>4
    <3>2. PICK G : Is(G, n - 1)  BY <2>2, <2>4
    <3> DEFINE S == [l \in 0 .. n |-> IF l = n THEN LayerLoaded(G[n - 1], file, n) ELSE G[l]]
    <3>3. ASSUME NEW l \in 0 .. n
          PROVE  S[l] = IF l = 0 THEN Zero ELSE LayerLoaded(S[l - 1], file, l)
      <4>1. CASE l = n
        <5>1. n - 1 \in 0 .. n /\ n - 1 # n /\ l # 0  BY <3>1, <2>4, <4>1
        <5>2. S[n - 1] = G[n - 1]  BY <5>1
        <5>3. QED  BY <4>1, <5>1, <5>2
      <4>2. CASE l # n
        <5>1. l \in 0 .. n - 1  BY <3>1, <4>2
        <5>2. G[l] = IF l = 0 THEN Zero ELSE LayerLoaded(G[l - 1], file, l)  BY <3>2, <5>1
        <5>3. CASE l = 0  BY <4>2, <5>2, <5>3
        <5>4. CASE l # 0
          <6>1. l - 1 \in 0 .. n /\ l - 1 # n  BY <3>1, <5>1, <5>4
          <6>2. S[l - 1] = G[l - 1]  BY <6>1
          <6>3. QED  BY <4>2, <5>2, <6>2
        <5>5. QED  BY <5>3, <5>4
      <4>3. QED  BY <4>1, <4>2
    <3>4. S = [l \in 0 .. n |-> S[l]]  OBVIOUS
    <3> HIDE DEF S
    <3>5. Is(S, n)  BY <3>3, <3>4
    <3>6. QED  BY <3>5
  <2>5. QED  BY <2>3, <2>4
<1> DEFINE F == LayerStates(m, file)
<1> HIDE DEF F
<1>4. Is(F, Top)  BY <1>0, <1>1, <1>2 DEF F
<1>5. F[0] = Zero  BY <1>0, <1>4
<1>6. ASSUME NEW n \in 1 .. Top
      PROVE  F[n] = LayerLoaded(F[n - 1], file, n)
  <2>1. n \in 0 .. Top /\ n # 0  BY <1>0
  <2>2. QED  BY <1>4, <2>1
<1>7. QED  BY <1>5, <1>6 DEF Zero, Top, F, InLoading

\* A file of norms, entry by entry.
InPlacing(S, holds, norms) ==
  /\ S[0] = [holds |-> holds, end |-> FALSE]
  /\ \A n \in 1 .. Len(norms) : S[n] = NormPlaced(S[n - 1], norms[n])
LEMMA PlacedStatesAre ==
  ASSUME NEW holds, NEW norms, Len(norms) \in Nat
  PROVE  InPlacing(PlacedStates(holds, norms), holds, norms)
<1> DEFINE Top == Len(norms)
           Zero == [holds |-> holds, end |-> FALSE]
           Is(S, n) == S = [l \in 0 .. n |-> IF l = 0 THEN Zero ELSE NormPlaced(S[l - 1], norms[l])]
           Bad == {n \in Nat : ~ \E S : Is(S, n)}
<1>0. Top \in Nat  OBVIOUS
<1>1. PlacedStates(holds, norms) = CHOOSE S : Is(S, Top)  BY DEF PlacedStates
<1> HIDE DEF Zero, Top
<1>2. Bad = {}
  <2>1. SUFFICES ASSUME Bad # {} PROVE FALSE  OBVIOUS
  <2>2. PICK n \in Bad : n = 0 \/ (n - 1 \in Nat /\ n - 1 \notin Bad)  BY <2>1, FirstOfNat
  <2>3. CASE n = 0
    <3> DEFINE S == [l \in 0 .. 0 |-> Zero]
    <3>1. Is(S, 0)  OBVIOUS
    <3>2. QED  BY <2>3, <3>1
  <2>4. CASE n # 0
    <3>1. n \in Nat /\ n - 1 \in Nat  BY <2>2, <2>4
    <3>2. PICK G : Is(G, n - 1)  BY <2>2, <2>4
    <3> DEFINE S == [l \in 0 .. n |-> IF l = n THEN NormPlaced(G[n - 1], norms[n]) ELSE G[l]]
    <3>3. ASSUME NEW l \in 0 .. n
          PROVE  S[l] = IF l = 0 THEN Zero ELSE NormPlaced(S[l - 1], norms[l])
      <4>1. CASE l = n
        <5>1. n - 1 \in 0 .. n /\ n - 1 # n /\ l # 0  BY <3>1, <2>4, <4>1
        <5>2. S[n - 1] = G[n - 1]  BY <5>1
        <5>3. QED  BY <4>1, <5>1, <5>2
      <4>2. CASE l # n
        <5>1. l \in 0 .. n - 1  BY <3>1, <4>2
        <5>2. G[l] = IF l = 0 THEN Zero ELSE NormPlaced(G[l - 1], norms[l])  BY <3>2, <5>1
        <5>3. CASE l = 0  BY <4>2, <5>2, <5>3
        <5>4. CASE l # 0
          <6>1. l - 1 \in 0 .. n /\ l - 1 # n  BY <3>1, <5>1, <5>4
          <6>2. S[l - 1] = G[l - 1]  BY <6>1
          <6>3. QED  BY <4>2, <5>2, <6>2
        <5>5. QED  BY <5>3, <5>4
      <4>3. QED  BY <4>1, <4>2
    <3>4. S = [l \in 0 .. n |-> S[l]]  OBVIOUS
    <3> HIDE DEF S
    <3>5. Is(S, n)  BY <3>3, <3>4
    <3>6. QED  BY <3>5
  <2>5. QED  BY <2>3, <2>4
<1> DEFINE F == PlacedStates(holds, norms)
<1> HIDE DEF F
<1>4. Is(F, Top)  BY <1>0, <1>1, <1>2 DEF F
<1>5. F[0] = Zero  BY <1>0, <1>4
<1>6. ASSUME NEW n \in 1 .. Top
      PROVE  F[n] = NormPlaced(F[n - 1], norms[n])
  <2>1. n \in 0 .. Top /\ n # 0  BY <1>0
  <2>2. QED  BY <1>4, <2>1
<1>7. QED  BY <1>5, <1>6 DEF Zero, Top, F, InPlacing

\* The layers of a random model, one after another.
InRandom(S, m) ==
  /\ S[0] = m
  /\ \A n \in 1 .. Depth : S[n] = RandomLayer(S[n - 1], n)
LEMMA RandomStatesAre ==
  ASSUME NEW m
  PROVE  InRandom(RandomStates(m), m)
<1> DEFINE Top == Depth
           Zero == m
           Is(S, n) == S = [l \in 0 .. n |-> IF l = 0 THEN Zero ELSE RandomLayer(S[l - 1], l)]
           Bad == {n \in Nat : ~ \E S : Is(S, n)}
<1>0. Top \in Nat  BY BlocksAssumption
<1>1. RandomStates(m) = CHOOSE S : Is(S, Top)  BY DEF RandomStates
<1> HIDE DEF Zero, Top
<1>2. Bad = {}
  <2>1. SUFFICES ASSUME Bad # {} PROVE FALSE  OBVIOUS
  <2>2. PICK n \in Bad : n = 0 \/ (n - 1 \in Nat /\ n - 1 \notin Bad)  BY <2>1, FirstOfNat
  <2>3. CASE n = 0
    <3> DEFINE S == [l \in 0 .. 0 |-> Zero]
    <3>1. Is(S, 0)  OBVIOUS
    <3>2. QED  BY <2>3, <3>1
  <2>4. CASE n # 0
    <3>1. n \in Nat /\ n - 1 \in Nat  BY <2>2, <2>4
    <3>2. PICK G : Is(G, n - 1)  BY <2>2, <2>4
    <3> DEFINE S == [l \in 0 .. n |-> IF l = n THEN RandomLayer(G[n - 1], n) ELSE G[l]]
    <3>3. ASSUME NEW l \in 0 .. n
          PROVE  S[l] = IF l = 0 THEN Zero ELSE RandomLayer(S[l - 1], l)
      <4>1. CASE l = n
        <5>1. n - 1 \in 0 .. n /\ n - 1 # n /\ l # 0  BY <3>1, <2>4, <4>1
        <5>2. S[n - 1] = G[n - 1]  BY <5>1
        <5>3. QED  BY <4>1, <5>1, <5>2
      <4>2. CASE l # n
        <5>1. l \in 0 .. n - 1  BY <3>1, <4>2
        <5>2. G[l] = IF l = 0 THEN Zero ELSE RandomLayer(G[l - 1], l)  BY <3>2, <5>1
        <5>3. CASE l = 0  BY <4>2, <5>2, <5>3
        <5>4. CASE l # 0
          <6>1. l - 1 \in 0 .. n /\ l - 1 # n  BY <3>1, <5>1, <5>4
          <6>2. S[l - 1] = G[l - 1]  BY <6>1
          <6>3. QED  BY <4>2, <5>2, <6>2
        <5>5. QED  BY <5>3, <5>4
      <4>3. QED  BY <4>1, <4>2
    <3>4. S = [l \in 0 .. n |-> S[l]]  OBVIOUS
    <3> HIDE DEF S
    <3>5. Is(S, n)  BY <3>3, <3>4
    <3>6. QED  BY <3>5
  <2>5. QED  BY <2>3, <2>4
<1> DEFINE F == RandomStates(m)
<1> HIDE DEF F
<1>4. Is(F, Top)  BY <1>0, <1>1, <1>2 DEF F
<1>5. F[0] = Zero  BY <1>0, <1>4
<1>6. ASSUME NEW n \in 1 .. Top
      PROVE  F[n] = RandomLayer(F[n - 1], n)
  <2>1. n \in 0 .. Top /\ n # 0  BY <1>0
  <2>2. QED  BY <1>4, <2>1
<1>7. QED  BY <1>5, <1>6 DEF Zero, Top, F, InRandom

-----------------------------------------------------------------------------
\* A model is a record of the fields; what each of the helpers changes of it.
Fields == {"ptr", "holds", "tokens", "vocab", "i2s", "trit", "loaded", "ok", "fails", "heap", "lost", "harm"}
IsModel(m) == DOMAIN m = Fields

AllocGood(m, n, fs) ==
  /\ IsModel(n)
  /\ n.ptr = (m.ptr \ fs) \cup (fs \ {m.fails})
  /\ n.heap = m.heap \cup (fs \ {m.fails})
  /\ n.lost = m.lost \cup ((fs \ {m.fails}) \cap m.ptr \cap m.heap)
  /\ n.holds = m.holds /\ n.tokens = m.tokens /\ n.vocab = m.vocab
  /\ n.i2s = m.i2s /\ n.trit = m.trit /\ n.loaded = m.loaded
  /\ n.ok = m.ok /\ n.fails = m.fails /\ n.harm = m.harm
LEMMA AllocIs ==
  ASSUME NEW m, IsModel(m), NEW fs
  PROVE  AllocGood(m, Alloc(m, fs), fs)
BY DEF Alloc, AllocGood, IsModel, Fields

FreeGood(m, n) ==
  /\ IsModel(n)
  /\ n.ptr = {} /\ n.holds = [f \in {} |-> "one"] /\ n.tokens = 0 /\ n.vocab = 0
  /\ n.i2s = FALSE /\ n.trit = FALSE /\ n.loaded = FALSE /\ n.ok = TRUE /\ n.fails = << >>
  /\ n.heap = m.heap \ (m.ptr \cup IF Vocab \in m.ptr /\ m.vocab >= m.tokens THEN {TokenStrings} ELSE {})
  /\ n.lost = m.lost \cup (m.ptr \cap {Ranks})
  /\ n.harm = (m.harm \/ ~(m.ptr \subseteq m.heap) \/ (Vocab \in m.ptr /\ m.vocab > m.tokens))
LEMMA FreeIs ==
  ASSUME NEW m, IsModel(m)
  PROVE  FreeGood(m, hs_mlt_free(m))
BY DEF hs_mlt_free, hs_mlt_init, NoModel, FreeGood, IsModel, Fields

\* The heap of a model: what may be lost, and, unless it was spoiled, that the arrays on
\* it are the model's.
HeapSound(m, clean) ==
  /\ IsModel(m)
  /\ m.harm \in BOOLEAN /\ m.tokens \in Nat /\ m.vocab \in Nat
  /\ m.lost \subseteq {Ranks} \cup AllScales
  /\ TokenStrings \notin m.ptr /\ m.heap \ {TokenStrings} \subseteq m.ptr
  /\ clean => /\ m.harm = FALSE /\ m.ptr \subseteq m.heap
              /\ TokenStrings \in m.heap => Vocab \in m.ptr
              /\ Vocab \in m.ptr => m.vocab = m.tokens

\* A model in the making, with the arrays S and perhaps the tokenizer's; a call that has
\* failed has given all back.
Making(m, clean, fails, S) ==
  /\ HeapSound(m, clean)
  /\ m.fails \notin m.ptr /\ m.loaded = FALSE /\ m.trit = FALSE /\ m.ok \in BOOLEAN
  /\ ~m.ok => m.ptr = {}
  /\ m.ok => m.fails = fails /\ S \subseteq m.ptr /\ m.ptr \subseteq S \cup {Vocab, Merges}

LEMMA SoundLess ==
  ASSUME NEW m, NEW c \in BOOLEAN, NEW d \in BOOLEAN, HeapSound(m, c), d => c
  PROVE  HeapSound(m, d)
BY DEF HeapSound

LEMMA FreeSound ==
  ASSUME NEW m, NEW c \in BOOLEAN, HeapSound(m, c), NEW n, FreeGood(m, n)
  PROVE  HeapSound(n, c) /\ n.ptr = {} /\ n.fails \notin n.ptr /\ n.loaded = FALSE /\ n.trit = FALSE
<1>1. /\ IsModel(n) /\ n.ptr = {} /\ n.tokens = 0 /\ n.vocab = 0
      /\ n.trit = FALSE /\ n.loaded = FALSE
      /\ n.heap = m.heap \ (m.ptr \cup IF Vocab \in m.ptr /\ m.vocab >= m.tokens THEN {TokenStrings} ELSE {})
      /\ n.lost = m.lost \cup (m.ptr \cap {Ranks})
      /\ n.harm = (m.harm \/ ~(m.ptr \subseteq m.heap) \/ (Vocab \in m.ptr /\ m.vocab > m.tokens))
  BY DEF FreeGood
<1>2. n.lost \subseteq {Ranks} \cup AllScales  BY <1>1 DEF HeapSound
<1>3. n.heap \ {TokenStrings} = {}  BY <1>1 DEF HeapSound
<1>4. n.harm \in BOOLEAN  BY <1>1
<1>5. ASSUME c PROVE n.harm = FALSE /\ TokenStrings \notin n.heap
  <2>1. m.harm = FALSE /\ m.ptr \subseteq m.heap /\ (TokenStrings \in m.heap => Vocab \in m.ptr)
        /\ (Vocab \in m.ptr => m.vocab = m.tokens) /\ m.vocab \in Nat /\ m.tokens \in Nat
    BY <1>5 DEF HeapSound
  <2>2. Vocab \in m.ptr => ~ (m.vocab > m.tokens) /\ m.vocab >= m.tokens  BY <2>1
  <2>3. n.harm = FALSE  BY <1>1, <2>1, <2>2
  <2>4. TokenStrings \notin n.heap  BY <1>1, <2>1, <2>2
  <2>5. QED  BY <2>3, <2>4
<1>6. QED  BY <1>1, <1>2, <1>3, <1>4, <1>5 DEF HeapSound

LEMMA FailedIs ==
  ASSUME NEW m, NEW c \in BOOLEAN, HeapSound(m, c), NEW fails, NEW S
  PROVE  Making(Failed(m), c, fails, S) /\ ~Failed(m).ok
<1> DEFINE f == hs_mlt_free(m)
           n == [f EXCEPT !.ok = FALSE]
<1>1. IsModel(m)  BY DEF HeapSound
<1>2. FreeGood(m, f)  BY <1>1, FreeIs
<1>3. Failed(m) = n  BY DEF Failed
<1> HIDE DEF f
<1>4. HeapSound(f, c) /\ f.ptr = {} /\ f.fails \notin f.ptr /\ f.loaded = FALSE /\ f.trit = FALSE
  BY <1>2, FreeSound
<1>5. IsModel(f)  BY <1>4 DEF HeapSound
<1>6. /\ IsModel(n) /\ n.ok = FALSE /\ n.ptr = f.ptr /\ n.fails = f.fails /\ n.loaded = f.loaded
      /\ n.trit = f.trit /\ n.heap = f.heap /\ n.lost = f.lost /\ n.harm = f.harm
      /\ n.tokens = f.tokens /\ n.vocab = f.vocab
  BY <1>5 DEF IsModel, Fields
<1> HIDE DEF n
<1>7. HeapSound(n, c)  BY <1>4, <1>6 DEF HeapSound
<1>8. QED  BY <1>3, <1>4, <1>6, <1>7 DEF Making

\* Arrays that a model in the making does not have.
Fresh(fs, S) == \A f \in fs : f \notin S /\ f # Vocab /\ f # Merges /\ f # TokenStrings

LEMMA AllocSound ==
  ASSUME NEW m, NEW c \in BOOLEAN, HeapSound(m, c), NEW fs, m.fails \notin m.ptr,
         TokenStrings \notin fs, Vocab \notin fs, fs \cap m.ptr \subseteq AllScales
  PROVE  HeapSound(Alloc(m, fs), c)
<1> DEFINE n == Alloc(m, fs)
<1>1. IsModel(m)  BY DEF HeapSound
<1>2. AllocGood(m, n, fs)  BY <1>1, AllocIs
<1> HIDE DEF n
<1>3. /\ IsModel(n) /\ n.ptr = (m.ptr \ fs) \cup (fs \ {m.fails}) /\ n.heap = m.heap \cup (fs \ {m.fails})
      /\ n.lost = m.lost \cup ((fs \ {m.fails}) \cap m.ptr \cap m.heap)
      /\ n.tokens = m.tokens /\ n.vocab = m.vocab /\ n.harm = m.harm
  BY <1>2 DEF AllocGood
<1>4. n.lost \subseteq {Ranks} \cup AllScales  BY <1>3 DEF HeapSound
<1>5. m.ptr \subseteq n.ptr  BY <1>3
<1>6. TokenStrings \notin n.ptr /\ n.heap \ {TokenStrings} \subseteq n.ptr  BY <1>3, <1>5 DEF HeapSound
<1>7. ASSUME c PROVE n.ptr \subseteq n.heap /\ (TokenStrings \in n.heap => Vocab \in n.ptr)
                     /\ (Vocab \in n.ptr => n.vocab = n.tokens)
  BY <1>3, <1>5, <1>7 DEF HeapSound
<1>8. QED  BY <1>3, <1>4, <1>6, <1>7 DEF HeapSound, n

LEMMA AllocAllMaking ==
  ASSUME NEW m, NEW c \in BOOLEAN, NEW fails, NEW S, Making(m, c, fails, S), NEW fs, Fresh(fs, S)
  PROVE  /\ Making(AllocAll(m, fs), c, fails, S \cup fs)
         /\ AllocAll(m, fs).ok => m.ok /\ AllocAll(m, fs).holds = m.holds /\ AllocAll(m, fs).i2s = m.i2s
<1> DEFINE n == Alloc(m, fs)
<1>1. CASE ~m.ok
  <2>1. AllocAll(m, fs) = m  BY <1>1 DEF AllocAll
  <2>2. QED  BY <1>1, <2>1 DEF Making
<1>2. CASE m.ok
  <2>1. HeapSound(m, c) /\ m.fails \notin m.ptr /\ m.loaded = FALSE /\ m.trit = FALSE /\ m.fails = fails
        /\ S \subseteq m.ptr /\ m.ptr \subseteq S \cup {Vocab, Merges}
    BY <1>2 DEF Making
  <2>2. fs \cap m.ptr = {} /\ TokenStrings \notin fs /\ Vocab \notin fs  BY <2>1 DEF Fresh
  <2>3. HeapSound(n, c)  BY <2>1, <2>2, AllocSound
  <2>4. IsModel(m)  BY <2>1 DEF HeapSound
  <2>5. AllocGood(m, n, fs)  BY <2>4, AllocIs
  <2>6. AllocAll(m, fs) = IF m.fails \in fs THEN Failed(n) ELSE n  BY <1>2 DEF AllocAll
  <2> HIDE DEF n
  <2>7. CASE m.fails \in fs
    <3>1. Making(Failed(n), c, fails, S \cup fs) /\ ~Failed(n).ok  BY <2>3, FailedIs
    <3>2. QED  BY <2>6, <2>7, <3>1
  <2>8. CASE m.fails \notin fs
    <3>1. n.ptr = m.ptr \cup fs /\ n.fails = m.fails /\ n.loaded = FALSE /\ n.trit = FALSE
          /\ n.ok = m.ok /\ n.holds = m.holds /\ n.i2s = m.i2s
      BY <2>1, <2>5, <2>8 DEF AllocGood
    <3>2. Making(n, c, fails, S \cup fs)  BY <1>2, <2>1, <2>3, <2>8, <3>1 DEF Making
    <3>3. QED  BY <2>6, <2>8, <3>1, <3>2, <1>2
  <2>9. QED  BY <2>7, <2>8
<1>3. QED  BY <1>1, <1>2

\* Filling arrays touches only what they hold.
HeldGood(m, n, fs) ==
  /\ IsModel(n)
  /\ n.ptr = m.ptr /\ n.heap = m.heap /\ n.lost = m.lost /\ n.tokens = m.tokens /\ n.vocab = m.vocab
  /\ n.i2s = m.i2s /\ n.trit = m.trit /\ n.loaded = m.loaded
  /\ n.ok = m.ok /\ n.fails = m.fails /\ n.harm = m.harm

LEMMA HeldMaking ==
  ASSUME NEW m, NEW c \in BOOLEAN, NEW fails, NEW S, Making(m, c, fails, S), NEW n, NEW fs,
         HeldGood(m, n, fs)
  PROVE  Making(n, c, fails, S)
BY DEF HeldGood, Making, HeapSound

-----------------------------------------------------------------------------
\* What a file's norm becomes, and what is known of the arrays H that were filled.
NormOf(file, fails, f) == IF Reads(Tensor(file, f)) /\ Besides(f, "raw") # fails THEN "file" ELSE "one"

\* The scales of a projection and what they hold.
ScaleField(f) == Scale(f[1], f[2])
ScaleIs(m, file, f) ==
  /\ ScaleField(f) \in DOMAIN m.holds
  /\ m.holds[ScaleField(f)] = ScaleRead(Tensor(file, ScaleField(f)), Tensor(file, f).type)
WeightIs(m, file, f) ==
  /\ f \in DOMAIN m.holds /\ m.holds[f] = Tensor(file, f).type
  /\ Tensor(file, f).type \in {"I2_S", "F32"}
  /\ Tensor(file, f).type = "I2_S" => m.i2s
  /\ ScaleIs(m, file, f)

\* The embedding and the head.
OwnHead(file) == Tensor(file, LmHead).type = "F16" /\ Tensor(file, LmHead).whole
EndOf(file, f) == IF f = Embedding \/ OwnHead(file) THEN "file" ELSE "embedding"

FieldIs(m, file, fails, f) ==
  /\ f \in NormFields => f \in DOMAIN m.holds /\ m.holds[f] = NormOf(file, fails, f)
  /\ f \in InLayers(Projs) => WeightIs(m, file, f)
  /\ f \in {Embedding, LmHead} => f \in DOMAIN m.holds /\ m.holds[f] = EndOf(file, f)
Content(m, file, fails, H) ==
  /\ m.i2s \in BOOLEAN
  /\ \A f \in H : FieldIs(m, file, fails, f)
  /\ m.i2s => \E g \in InLayers(Projs) : Tensor(file, g).type = "I2_S"

Stage(m, c, file, fails, S, H) == Making(m, c, fails, S) /\ (m.ok => Content(m, file, fails, H))

LEMMA NormsAreNoWeights == NormFields \cap InLayers(Projs) = {}
BY DEF NormFields, InLayers, InLayer, Norms, Projs, Attention, Ffn, FinalNorm

LEMMA OthersAreNoNorms ==
  /\ Embedding \notin NormFields \cup InLayers(Projs)
  /\ LmHead \notin NormFields \cup InLayers(Projs)
  /\ \A l, p : Scale(l, p) \notin NormFields \cup InLayers(Projs)
  /\ \A l, p : Scale(l, p) # Embedding /\ Scale(l, p) # LmHead
  /\ Embedding # LmHead
<1>1. Embedding \notin NormFields \cup InLayers(Projs) /\ LmHead \notin NormFields \cup InLayers(Projs)
  BY DEF NormFields, InLayers, InLayer, Norms, Projs, Attention, Ffn, FinalNorm, Embedding, LmHead
<1>2. \A l, p : Scale(l, p) \notin NormFields \cup InLayers(Projs)
  BY DEF NormFields, InLayers, InLayer, Norms, Projs, Attention, Ffn, FinalNorm, Scale
<1>3. \A l, p : Scale(l, p) # Embedding /\ Scale(l, p) # LmHead  BY DEF Embedding, LmHead, Scale
<1>4. Embedding # LmHead  BY DEF Embedding, LmHead
<1>5. QED  BY <1>1, <1>2, <1>3, <1>4

LEMMA WeightName ==
  ASSUME NEW l \in 1 .. Depth, NEW p \in Projs
  PROVE  <<l, p>> \in InLayers(Projs) /\ ScaleField(<<l, p>>) = Scale(l, p)
BY DEF InLayers, InLayer, ScaleField
LEMMA ScaleOfOne ==
  ASSUME NEW f \in InLayers(Projs), NEW g \in InLayers(Projs), ScaleField(f) = ScaleField(g)
  PROVE  f = g
<1>1. PICK l \in 1 .. Depth, p \in Projs : f = <<l, p>>  BY DEF InLayers, InLayer
<1>2. PICK k \in 1 .. Depth, q \in Projs : g = <<k, q>>  BY DEF InLayers, InLayer
<1>3. Scale(l, p) = Scale(k, q)  BY <1>1, <1>2 DEF ScaleField
<1>4. l = k /\ p = q  BY <1>3 DEF Scale
<1>5. QED  BY <1>1, <1>2, <1>4

\* What an array was filled with stays while others are filled.
Untouched(m, n, T) == \A f \in DOMAIN m.holds : f \notin T => f \in DOMAIN n.holds /\ n.holds[f] = m.holds[f]
LEMMA FieldStays ==
  ASSUME NEW m, NEW n, NEW T, Untouched(m, n, T), m.i2s => n.i2s, NEW file, NEW fails, NEW f,
         FieldIs(m, file, fails, f), f \notin T, f \in InLayers(Projs) => ScaleField(f) \notin T
  PROVE  FieldIs(n, file, fails, f)
<1>1. ASSUME f \in NormFields
      PROVE  f \in DOMAIN n.holds /\ n.holds[f] = NormOf(file, fails, f)
  BY <1>1 DEF FieldIs, Untouched
<1>2. ASSUME f \in {Embedding, LmHead}
      PROVE  f \in DOMAIN n.holds /\ n.holds[f] = EndOf(file, f)
  BY <1>2 DEF FieldIs, Untouched
<1>3. ASSUME f \in InLayers(Projs) PROVE WeightIs(n, file, f)
  <2>1. WeightIs(m, file, f)  BY <1>3 DEF FieldIs
  <2>2. ScaleIs(n, file, f)  BY <1>3, <2>1 DEF WeightIs, ScaleIs, Untouched
  <2>3. f \in DOMAIN n.holds /\ n.holds[f] = m.holds[f]  BY <2>1 DEF WeightIs, Untouched
  <2>4. QED  BY <2>1, <2>2, <2>3 DEF WeightIs
<1>4. QED  BY <1>1, <1>2, <1>3 DEF FieldIs

LEMMA StageAlloc ==
  ASSUME NEW m, NEW c \in BOOLEAN, NEW file, NEW fails, NEW S, NEW H, Stage(m, c, file, fails, S, H),
         NEW fs, Fresh(fs, S)
  PROVE  Stage(AllocAll(m, fs), c, file, fails, S \cup fs, H)
<1> DEFINE n == AllocAll(m, fs)
<1>1. Making(m, c, fails, S)  BY DEF Stage
<1>2. Making(n, c, fails, S \cup fs) /\ (n.ok => m.ok /\ n.holds = m.holds /\ n.i2s = m.i2s)
  BY <1>1, AllocAllMaking
<1> HIDE DEF n
<1>3. ASSUME n.ok PROVE Content(n, file, fails, H)
  <2>1. Content(m, file, fails, H) /\ n.holds = m.holds /\ n.i2s = m.i2s  BY <1>2, <1>3 DEF Stage
  <2>2. Untouched(m, n, {})  BY <2>1 DEF Untouched
  <2>3. \A f \in H : FieldIs(n, file, fails, f)  BY <2>1, <2>2, FieldStays DEF Content
  <2>4. QED  BY <2>1, <2>3 DEF Content
<1>4. QED  BY <1>2, <1>3 DEF Stage, n

LEMMA StageNorms ==
  ASSUME NEW m, NEW c \in BOOLEAN, NEW file, NEW fails, NEW S, NEW H, Stage(m, c, file, fails, S, H),
         NEW fs, fs \subseteq NormFields
  PROVE  Stage(NormsLoaded(m, file, fs), c, file, fails, S, H \cup fs)
<1> DEFINE n == NormsLoaded(m, file, fs)
           holds == [f \in fs \cup DOMAIN m.holds |->
                       IF f \in fs
                       THEN IF load_as_f32(m, Tensor(file, f), Besides(f, "raw")) THEN "file" ELSE "one"
                       ELSE m.holds[f]]
<1>1. CASE ~m.ok
  <2>1. n = m  BY <1>1 DEF NormsLoaded, Holding
  <2>2. QED  BY <1>1, <2>1 DEF Stage, Making
<1>2. CASE m.ok
  <2>1. Making(m, c, fails, S) /\ Content(m, file, fails, H) /\ m.fails = fails  BY <1>2 DEF Stage, Making
  <2>2. n = [m EXCEPT !.holds = holds]  BY <1>2 DEF NormsLoaded, Holding
  <2>3. DOMAIN m = Fields  BY <2>1 DEF Making, HeapSound, IsModel
  <2>4. DOMAIN holds = fs \cup DOMAIN m.holds
        /\ (\A f \in fs : holds[f] = IF load_as_f32(m, Tensor(file, f), Besides(f, "raw")) THEN "file" ELSE "one")
        /\ \A f \in DOMAIN m.holds : f \notin fs => holds[f] = m.holds[f]
    OBVIOUS
  <2> HIDE DEF holds, n
  <2>5. n.holds = holds /\ HeldGood(m, n, fs)  BY <2>2, <2>3 DEF HeldGood, IsModel, Fields
  <2>6. Making(n, c, fails, S)  BY <2>1, <2>5, HeldMaking
  <2>7. \A f \in fs : f \in DOMAIN holds /\ holds[f] = NormOf(file, fails, f)
    BY <2>1, <2>4 DEF NormOf, load_as_f32
  <2>10. n.i2s = m.i2s  BY <2>5 DEF HeldGood
  <2>8. Untouched(m, n, fs)  BY <2>4, <2>5 DEF Untouched
  <2>9. \A f \in H \cup fs : FieldIs(n, file, fails, f)
    <3>1. SUFFICES ASSUME NEW f \in H \cup fs PROVE FieldIs(n, file, fails, f)
      OBVIOUS
    <3>2. CASE f \in fs
      <4>1. f \in NormFields /\ f \notin InLayers(Projs) /\ f \notin {Embedding, LmHead}
        BY <3>2, NormsAreNoWeights, OthersAreNoNorms
      <4>2. QED  BY <2>5, <2>7, <3>2, <4>1 DEF FieldIs
    <3>3. CASE f \notin fs
      <4>1. f \in H /\ FieldIs(m, file, fails, f)  BY <2>1, <3>3 DEF Content
      <4>2. ScaleField(f) \notin fs  BY OthersAreNoNorms DEF ScaleField
      <4>3. QED  BY <2>8, <2>10, <3>3, <4>1, <4>2, FieldStays
    <3>4. QED  BY <3>2, <3>3
  <2>11. Content(n, file, fails, H \cup fs)  BY <2>1, <2>9, <2>10 DEF Content
  <2>12. QED  BY <2>6, <2>11 DEF Stage, n
<1>3. QED  BY <1>1, <1>2

\* The embedding and the head, filled one at a time.
With(m, g, what) == [m EXCEPT !.holds = [f \in {g} \cup DOMAIN @ |-> IF f \in {g} THEN what ELSE @[f]]]
LEMMA StageEnd ==
  ASSUME NEW m, NEW c \in BOOLEAN, NEW file, NEW fails, NEW S, NEW H, Stage(m, c, file, fails, S, H), m.ok,
         NEW g \in {Embedding, LmHead}
  PROVE  Stage(With(m, g, EndOf(file, g)), c, file, fails, S, H \cup {g})
<1> DEFINE what == EndOf(file, g)
           n == With(m, g, what)
           holds == [f \in {g} \cup DOMAIN m.holds |-> IF f \in {g} THEN what ELSE m.holds[f]]
<1>1. Making(m, c, fails, S) /\ Content(m, file, fails, H)  BY DEF Stage
<1>2. DOMAIN m = Fields  BY <1>1 DEF Making, HeapSound, IsModel
<1>3. /\ \A f \in DOMAIN m.holds : f # g => f \in DOMAIN holds /\ holds[f] = m.holds[f]
      /\ g \in DOMAIN holds /\ holds[g] = what
  OBVIOUS
<1>4. n = [m EXCEPT !.holds = holds]  BY DEF With
<1> HIDE DEF holds, n, what
<1>5. n.holds = holds /\ HeldGood(m, n, {g})  BY <1>2, <1>4 DEF HeldGood, IsModel, Fields
<1>6. Making(n, c, fails, S)  BY <1>1, <1>5, HeldMaking
<1>7. n.i2s = m.i2s  BY <1>5 DEF HeldGood
<1>8. Untouched(m, n, {g})  BY <1>3, <1>5 DEF Untouched
<1>9. ASSUME NEW f \in H \cup {g} PROVE FieldIs(n, file, fails, f)
  <2>1. CASE f = g
    <3>1. f \notin NormFields /\ f \notin InLayers(Projs)  BY <2>1, OthersAreNoNorms
    <3>2. f \in DOMAIN n.holds /\ n.holds[f] = EndOf(file, f)  BY <1>3, <1>5, <2>1 DEF what
    <3>3. QED  BY <3>1, <3>2 DEF FieldIs
  <2>2. CASE f # g
    <3>1. FieldIs(m, file, fails, f)  BY <1>1, <2>2 DEF Content
    <3>2. ScaleField(f) \notin {g}  BY OthersAreNoNorms DEF ScaleField
    <3>3. f \notin {g}  BY <2>2
    <3>4. QED  BY <1>7, <1>8, <3>1, <3>2, <3>3, FieldStays
  <2>3. QED  BY <2>1, <2>2
<1>10. Content(n, file, fails, H \cup {g})  BY <1>1, <1>7, <1>9 DEF Content
<1>11. QED  BY <1>6, <1>10 DEF Stage, n, what

LEMMA StageEmbedding ==
  ASSUME NEW m, NEW c \in BOOLEAN, NEW file, NEW fails, NEW S, NEW H, Stage(m, c, file, fails, S, H)
  PROVE  Stage(EmbeddingLoaded(m, file), c, file, fails, S, H \cup {Embedding})
<1>1. CASE ~m.ok
  <2>1. EmbeddingLoaded(m, file) = m  BY <1>1 DEF EmbeddingLoaded
  <2>2. QED  BY <1>1, <2>1 DEF Stage
<1>2. CASE m.ok /\ load_as_f32(m, Tensor(file, Embedding), <<0, "raw">>)
  <2>1. EmbeddingLoaded(m, file) = With(m, Embedding, "file")
    BY <1>2 DEF EmbeddingLoaded, Holding, With
  <2>2. EndOf(file, Embedding) = "file"  BY DEF EndOf
  <2>3. m.ok  BY <1>2
  <2>4. Stage(With(m, Embedding, EndOf(file, Embedding)), c, file, fails, S, H \cup {Embedding})
    BY <2>3, StageEnd
  <2>5. QED  BY <2>1, <2>2, <2>4
<1>3. CASE m.ok /\ ~load_as_f32(m, Tensor(file, Embedding), <<0, "raw">>)
  <2>1. EmbeddingLoaded(m, file) = Failed(m)  BY <1>3 DEF EmbeddingLoaded
  <2>2. HeapSound(m, c)  BY DEF Stage, Making
  <2>3. QED  BY <2>1, <2>2, FailedIs DEF Stage
<1>4. QED  BY <1>1, <1>2, <1>3

LEMMA StageLmHead ==
  ASSUME NEW m, NEW c \in BOOLEAN, NEW file, NEW fails, NEW S, NEW H, Stage(m, c, file, fails, S, H)
  PROVE  Stage(LmHeadLoaded(m, file), c, file, fails, S, H \cup {LmHead})
<1> DEFINE t == Tensor(file, LmHead)
           what == IF t.type = "F16" /\ t.whole THEN "file" ELSE "embedding"
<1>1. CASE ~m.ok
  <2>1. LmHeadLoaded(m, file) = m  BY <1>1 DEF LmHeadLoaded, Holding
  <2>2. QED  BY <1>1, <2>1 DEF Stage
<1>2. CASE m.ok
  <2>1. LmHeadLoaded(m, file) = With(m, LmHead, what)
    BY <1>2 DEF LmHeadLoaded, Holding, With
  <2>2. what = EndOf(file, LmHead)  BY OthersAreNoNorms DEF EndOf, OwnHead
  <2> HIDE DEF what
  <2>3. Stage(With(m, LmHead, EndOf(file, LmHead)), c, file, fails, S, H \cup {LmHead})  BY <1>2, StageEnd
  <2>4. QED  BY <2>1, <2>2, <2>3
<1>3. QED  BY <1>1, <1>2

\* One projection of a layer: its array is new, that of its scales takes the place of
\* the one it had.
LEMMA StageProj ==
  ASSUME NEW m, NEW c \in BOOLEAN, NEW file, NEW fails, NEW S, NEW H, Stage(m, c, file, fails, S, H),
         NEW l \in 1 .. Depth, NEW p \in Projs, Fresh({<<l, p>>}, S), Scale(l, p) \in S
  PROVE  Stage(load_ternary_proj(m, file, l, p), c, file, fails, S \cup {<<l, p>>}, H \cup {<<l, p>>})
<1> DEFINE f == <<l, p>>
           s == Scale(l, p)
           t == Tensor(file, f)
           able == /\ t.type \in {"I2_S", "F32"} /\ t.whole
                   /\ m.fails \notin {Besides(f, "scales"), f, Besides(f, "raw")}
           n == Alloc(m, {f, s})
           n2 == [n EXCEPT !.i2s = @ \/ t.type = "I2_S"]
           holds == [g \in {f, s} \cup DOMAIN n2.holds |->
                      IF g \in {f, s}
                      THEN IF g = f THEN t.type ELSE ScaleRead(Tensor(file, g), t.type)
                      ELSE n2.holds[g]]
           n3 == [n2 EXCEPT !.holds = holds]
           new == load_ternary_proj(m, file, l, p)
<1>1. f \in InLayers(Projs) /\ f \notin NormFields
  <2>1. f \in InLayers(Projs)  BY DEF InLayers, InLayer
  <2>2. QED  BY <2>1, NormsAreNoWeights
<1>2. s \notin NormFields /\ s \notin InLayers(Projs) /\ s = ScaleField(f) /\ s # f
  BY <1>1, OthersAreNoNorms, WeightName
<1>3. Making(m, c, fails, S)  BY DEF Stage
<1>4. CASE ~m.ok
  <2>1. new = m  BY <1>4 DEF load_ternary_proj
  <2>2. QED  BY <1>3, <1>4, <2>1 DEF Stage, Making
<1>5. CASE m.ok /\ ~able
  <2>1. new = Failed(m)  BY <1>5 DEF load_ternary_proj
  <2>2. HeapSound(m, c)  BY <1>3 DEF Making
  <2>3. Making(Failed(m), c, fails, S \cup {f}) /\ ~Failed(m).ok  BY <2>2, FailedIs
  <2>4. QED  BY <2>1, <2>3 DEF Stage
<1>6. CASE m.ok /\ able
  <2>1. t.type \in {"I2_S", "F32"} /\ m.fails # f  BY <1>6
  <2>2. HeapSound(m, c) /\ m.fails \notin m.ptr /\ m.loaded = FALSE /\ m.trit = FALSE /\ m.fails = fails
        /\ S \subseteq m.ptr /\ m.ptr \subseteq S \cup {Vocab, Merges} /\ Content(m, file, fails, H)
    BY <1>3, <1>6 DEF Making, Stage
  <2>3. IsModel(m)  BY <2>2 DEF HeapSound
  <2>4. AllocGood(m, n, {f, s})  BY <2>3, AllocIs
  <2>14. s \in AllScales  BY DEF AllScales, Scales
  <2>5. f \notin m.ptr /\ s \in m.ptr /\ TokenStrings \notin {f, s} /\ Vocab \notin {f, s}
    <3>1. s # TokenStrings /\ s # Vocab  BY DEF Scale, TokenStrings, Vocab, Projs, Attention, Ffn
    <3>2. f \notin m.ptr /\ f # TokenStrings /\ f # Vocab  BY <2>2 DEF Fresh
    <3>3. QED  BY <2>2, <3>1, <3>2
  <2>6. HeapSound(n, c)  BY <2>2, <2>5, <2>14, AllocSound
  <2>15. n2.ok = n.ok /\ n.ok = m.ok  BY <2>4 DEF AllocGood, IsModel, Fields
  <2>7. new = n3  BY <1>6, <2>15 DEF load_ternary_proj, Holding
  <2>16. \A g \in DOMAIN n2.holds : g # f /\ g # s => g \in DOMAIN holds /\ holds[g] = n2.holds[g]  OBVIOUS
  <2>17. f \in DOMAIN holds /\ holds[f] = t.type  OBVIOUS
  <2>18. s \in DOMAIN holds /\ holds[s] = ScaleRead(Tensor(file, s), t.type)  BY <1>2
  <2> HIDE DEF holds, new, n, t, s
  <2>8. /\ IsModel(n3) /\ n3.ptr = n.ptr /\ n3.heap = n.heap /\ n3.lost = n.lost
        /\ n3.tokens = n.tokens /\ n3.vocab = n.vocab /\ n3.trit = n.trit /\ n3.loaded = n.loaded
        /\ n3.ok = n.ok /\ n3.fails = n.fails /\ n3.harm = n.harm
        /\ n3.holds = holds /\ n3.i2s = (n.i2s \/ t.type = "I2_S") /\ n2.holds = n.holds
    BY <2>4 DEF AllocGood, IsModel, Fields
  <2> HIDE DEF n2, n3
  <2>9. n3.ptr = m.ptr \cup {f} /\ n3.fails = m.fails /\ n3.loaded = FALSE /\ n3.trit = FALSE /\ n3.ok = m.ok
        /\ n.holds = m.holds /\ n.i2s = m.i2s
    <3>1. m.fails # s  BY <2>2, <2>5
    <3>2. n.ptr = (m.ptr \ {f, s}) \cup ({f, s} \ {m.fails})  BY <2>4 DEF AllocGood
    <3>3. n.ptr = m.ptr \cup {f}  BY <2>1, <2>5, <3>1, <3>2
    <3>4. QED  BY <2>2, <2>4, <2>8, <3>3 DEF AllocGood
  <2>10. HeapSound(n3, c)  BY <2>6, <2>8 DEF HeapSound
  <2>11. Making(n3, c, fails, S \cup {f})  BY <2>1, <2>2, <2>9, <2>10, <1>3 DEF Making
  <2>12. Content(n3, file, fails, H \cup {f})
    <3>1. n3.i2s \in BOOLEAN /\ (m.i2s => n3.i2s) /\ (t.type = "I2_S" => n3.i2s)
          /\ (n3.i2s => m.i2s \/ t.type = "I2_S")
      BY <2>8, <2>9
    <3>2. Untouched(m, n3, {f, s})  BY <2>8, <2>9, <2>16 DEF Untouched
    <3>3. \A g \in H \cup {f} : FieldIs(n3, file, fails, g)
      <4>1. SUFFICES ASSUME NEW g \in H \cup {f} PROVE FieldIs(n3, file, fails, g)
        OBVIOUS
      <4>2. CASE g = f
        <5>1. ScaleIs(n3, file, f)  BY <1>2, <2>8, <2>18 DEF ScaleIs, t
        <5>2. WeightIs(n3, file, f)  BY <2>1, <2>8, <2>17, <3>1, <5>1 DEF WeightIs, t
        <5>3. f \notin {Embedding, LmHead}  BY <1>1, OthersAreNoNorms
        <5>4. QED  BY <1>1, <4>2, <5>2, <5>3 DEF FieldIs
      <4>3. CASE g # f
        <5>1. g \in H /\ FieldIs(m, file, fails, g)  BY <2>2, <4>3 DEF Content
        <5>2. CASE g = s
          <6>1. g \notin {Embedding, LmHead}  BY <5>2, OthersAreNoNorms DEF s
          <6>2. QED  BY <1>2, <5>2, <6>1 DEF FieldIs
        <5>3. CASE g # s
          <6>1. ASSUME g \in InLayers(Projs) PROVE ScaleField(g) \notin {f, s}
            <7>1. ScaleField(g) # s  BY <1>1, <1>2, <4>3, <6>1, ScaleOfOne
            <7>2. ScaleField(g) # f  BY <1>1, OthersAreNoNorms DEF ScaleField
            <7>3. QED  BY <7>1, <7>2
          <6>2. g \notin {f, s}  BY <4>3, <5>3
          <6>3. QED  BY <3>1, <3>2, <5>1, <6>1, <6>2, FieldStays
        <5>4. QED  BY <5>2, <5>3
      <4>4. QED  BY <4>2, <4>3
    <3>4. n3.i2s => \E g \in InLayers(Projs) : Tensor(file, g).type = "I2_S"
      BY <1>1, <2>2, <3>1 DEF Content, t
    <3>5. QED  BY <3>1, <3>3, <3>4 DEF Content
  <2>13. QED  BY <2>7, <2>11, <2>12 DEF Stage, new
<1>7. QED  BY <1>4, <1>5, <1>6

-----------------------------------------------------------------------------
\* The arrays of a layer, and that they are its own.
LayerSet(l) == InLayer(l, Norms) \cup Scales(l, Projs) \cup InLayer(l, Projs)
NewLayer(l, S) == LayerSet(l) \cap S = {}

LEMMA LayerNames ==
  ASSUME NEW l
  PROVE  \A f \in LayerSet(l) : f[1] = l
BY DEF LayerSet, InLayer, Scales, Scale

LEMMA FreshInLayer ==
  ASSUME NEW l \in Nat, l # 0, NEW fs, fs \subseteq LayerSet(l), NEW S, fs \cap S = {}
  PROVE  Fresh(fs, S)
<1>1. Vocab[1] = 0 /\ Merges[1] = 0 /\ TokenStrings[1] = 0  BY DEF Vocab, Merges, TokenStrings
<1>2. \A f \in fs : f[1] = l  BY LayerNames
<1>3. QED  BY <1>1, <1>2 DEF Fresh

LEMMA LayerParts ==
  ASSUME NEW l
  PROVE  /\ InLayer(l, Norms) \cap Scales(l, Projs) = {}
         /\ InLayer(l, Norms) \cap InLayer(l, Projs) = {}
         /\ Scales(l, Projs) \cap InLayer(l, Projs) = {}
<1>1. \A n, p : <<l, n>> # Scale(l, p)  BY DEF Scale
<1>2. \A n \in Norms : \A p \in Projs : <<l, n>> # <<l, p>>  BY DEF Norms, Projs, Attention, Ffn
<1>3. QED  BY <1>1, <1>2 DEF InLayer, Scales

\* The projections of a layer in the order in which they are read.
Turned(l, i) == {<<l, ProjTurns[j]>> : j \in 1 .. i}
LEMMA TurnsAre ==
  /\ Len(ProjTurns) = 7
  /\ \A i \in 1 .. 7 : ProjTurns[i] \in Projs
  /\ \A i, j \in 1 .. 7 : ProjTurns[i] = ProjTurns[j] => i = j
  /\ \A p \in Projs : \E i \in 1 .. 7 : ProjTurns[i] = p
<1>1. /\ ProjTurns[1] = "q_proj" /\ ProjTurns[2] = "k_proj" /\ ProjTurns[3] = "v_proj"
      /\ ProjTurns[4] = "o_proj" /\ ProjTurns[5] = "gate_proj" /\ ProjTurns[6] = "up_proj"
      /\ ProjTurns[7] = "down_proj" /\ Len(ProjTurns) = 7
  BY DEF ProjTurns
<1>2. \A i \in 1 .. 7 : i = 1 \/ i = 2 \/ i = 3 \/ i = 4 \/ i = 5 \/ i = 6 \/ i = 7  OBVIOUS
<1>3. \A i \in 1 .. 7 : ProjTurns[i] \in Projs  BY <1>1, <1>2 DEF Projs, Attention, Ffn
<1>4. \A i, j \in 1 .. 7 : ProjTurns[i] = ProjTurns[j] => i = j  BY <1>1, <1>2
<1>5. 1 \in 1 .. 7 /\ 2 \in 1 .. 7 /\ 3 \in 1 .. 7 /\ 4 \in 1 .. 7 /\ 5 \in 1 .. 7 /\ 6 \in 1 .. 7 /\ 7 \in 1 .. 7
  OBVIOUS
<1>6. \A p \in Projs : \E i \in 1 .. 7 : ProjTurns[i] = p  BY <1>1, <1>5 DEF Projs, Attention, Ffn
<1>7. QED  BY <1>1, <1>3, <1>4, <1>6

LEMMA StageProjs ==
  ASSUME NEW m, NEW c \in BOOLEAN, NEW file, NEW fails, NEW S, NEW H, Stage(m, c, file, fails, S, H),
         NEW l \in 1 .. Depth, InLayer(l, Projs) \cap S = {}, Scales(l, Projs) \subseteq S
  PROVE  Stage(ProjStates(m, file, l)[Len(ProjTurns)], c, file, fails,
               S \cup InLayer(l, Projs), H \cup InLayer(l, Projs))
<1> DEFINE A == ProjStates(m, file, l)
           Upto(i) == Stage(A[i], c, file, fails, S \cup Turned(l, i), H \cup Turned(l, i))
           Bad == {i \in 0 .. 7 : ~ Upto(i)}
<1>1. InProjs(A, m, file, l)  BY ProjStatesAre
<1> HIDE DEF A
<1>2. A[0] = m /\ \A n \in 1 .. 7 : A[n] = load_ternary_proj(A[n - 1], file, l, ProjTurns[n])
  BY <1>1, TurnsAre DEF InProjs
<1>3. Upto(0)
  <2>1. Turned(l, 0) = {}  BY DEF Turned
  <2>2. S \cup {} = S /\ H \cup {} = H  OBVIOUS
  <2>3. QED  BY <1>2, <2>1, <2>2
<1>4. ASSUME NEW i \in 1 .. 7, Upto(i - 1) PROVE Upto(i)
  <2> DEFINE p == ProjTurns[i]
             T == S \cup Turned(l, i - 1)
             G == H \cup Turned(l, i - 1)
  <2>1. p \in Projs  BY TurnsAre
  <2>2. <<l, p>> \notin Turned(l, i - 1)
    <3>1. ASSUME NEW j \in 1 .. i - 1, <<l, p>> = <<l, ProjTurns[j]>> PROVE FALSE
      <4>1. j \in 1 .. 7 /\ j # i  OBVIOUS
      <4>2. QED  BY <3>1, <4>1, TurnsAre
    <3>2. QED  BY <3>1 DEF Turned
  <2>3. <<l, p>> \in LayerSet(l) /\ <<l, p>> \in InLayer(l, Projs)  BY <2>1 DEF LayerSet, InLayer
  <2>4. <<l, p>> \notin T  BY <2>2, <2>3
  <2>5. Scale(l, p) \in T  BY <2>1 DEF Scales
  <2>6. Turned(l, i) = Turned(l, i - 1) \cup {<<l, p>>}
    <3>1. 1 .. i = (1 .. i - 1) \cup {i}  OBVIOUS
    <3>2. QED  BY <3>1 DEF Turned
  <2>7. S \cup Turned(l, i) = T \cup {<<l, p>>} /\ H \cup Turned(l, i) = G \cup {<<l, p>>}
    BY <2>6
  <2>8. Stage(A[i - 1], c, file, fails, T, G)  BY <1>4
  <2> HIDE DEF T, G, p
  <2>9. Fresh({<<l, p>>}, T)
    <3>1. l \in Nat /\ l # 0  BY BlocksAssumption
    <3>2. {<<l, p>>} \subseteq LayerSet(l) /\ {<<l, p>>} \cap T = {}  BY <2>3, <2>4
    <3>3. QED  BY <3>1, <3>2, FreshInLayer
  <2>10. Stage(load_ternary_proj(A[i - 1], file, l, p), c, file, fails, T \cup {<<l, p>>}, G \cup {<<l, p>>})
    BY <2>1, <2>5, <2>8, <2>9, StageProj
  <2>11. A[i] = load_ternary_proj(A[i - 1], file, l, p)  BY <1>2 DEF p
  <2>12. QED  BY <2>7, <2>10, <2>11
<1>5. Upto(7)
  <2> HIDE DEF Upto
  <2>1. SUFFICES ASSUME Bad # {} PROVE FALSE  OBVIOUS
  <2>2. Bad \subseteq Nat  OBVIOUS
  <2>3. PICK i \in Bad : i = 0 \/ (i - 1 \in Nat /\ i - 1 \notin Bad)  BY <2>1, <2>2, FirstOfNat
  <2>4. i # 0  BY <1>3, <2>3
  <2>5. i \in 1 .. 7 /\ Upto(i - 1)  BY <2>3, <2>4
  <2>6. QED  BY <1>4, <2>3, <2>5
<1>6. Turned(l, 7) = InLayer(l, Projs)  BY TurnsAre DEF Turned, InLayer
<1>7. QED  BY <1>5, <1>6, TurnsAre DEF A

LEMMA StageLayer ==
  ASSUME NEW m, NEW c \in BOOLEAN, NEW file, NEW fails, NEW S, NEW H, Stage(m, c, file, fails, S, H),
         NEW l \in 1 .. Depth, NewLayer(l, S)
  PROVE  Stage(LayerLoaded(m, file, l), c, file, fails, S \cup LayerSet(l),
               H \cup InLayer(l, Norms) \cup InLayer(l, Projs))
<1> DEFINE N == InLayer(l, Norms)
           Cs == Scales(l, Projs)
           P == InLayer(l, Projs)
           m1 == AllocAll(m, N)
           m2 == NormsLoaded(m1, file, N)
           m3 == AllocAll(m2, Cs)
<1>1. N \cap Cs = {} /\ N \cap P = {} /\ Cs \cap P = {}  BY LayerParts
<1>2. LayerSet(l) = N \cup Cs \cup P /\ N \cap S = {} /\ Cs \cap S = {} /\ P \cap S = {}
  BY DEF LayerSet, NewLayer
<1>3. l \in Nat /\ l # 0  BY BlocksAssumption
<1>4. N \subseteq NormFields  BY DEF NormFields, InLayers
<1>5. LayerLoaded(m, file, l) = ProjStates(m3, file, l)[Len(ProjTurns)]  BY DEF LayerLoaded
<1> HIDE DEF N, Cs, P, m1, m2, m3
<1>6. Stage(m1, c, file, fails, S \cup N, H)
  <2>1. Fresh(N, S)  BY <1>2, <1>3, FreshInLayer
  <2>2. QED  BY <2>1, StageAlloc DEF m1
<1>7. Stage(m2, c, file, fails, S \cup N, H \cup N)  BY <1>4, <1>6, StageNorms DEF m2
<1>8. Stage(m3, c, file, fails, (S \cup N) \cup Cs, H \cup N)
  <2>1. Cs \subseteq LayerSet(l) /\ Cs \cap (S \cup N) = {}  BY <1>1, <1>2
  <2>2. Fresh(Cs, S \cup N)  BY <1>3, <2>1, FreshInLayer
  <2>3. QED  BY <1>7, <2>2, StageAlloc DEF m3
<1>9. P \cap ((S \cup N) \cup Cs) = {} /\ Cs \subseteq (S \cup N) \cup Cs  BY <1>1, <1>2
<1>10. Stage(ProjStates(m3, file, l)[Len(ProjTurns)], c, file, fails, ((S \cup N) \cup Cs) \cup P, (H \cup N) \cup P)
  BY <1>8, <1>9, StageProjs DEF P, Cs
<1>11. ((S \cup N) \cup Cs) \cup P = S \cup LayerSet(l)  BY <1>2
<1>12. QED  BY <1>5, <1>10, <1>11 DEF N, P

\* The layers from the first on.
LayersUpto(l) == UNION {LayerSet(k) : k \in 1 .. l}
Filled(l) == UNION {InLayer(k, Norms) \cup InLayer(k, Projs) : k \in 1 .. l}
LEMMA LayersStep ==
  ASSUME NEW l \in Nat, l # 0
  PROVE  /\ LayersUpto(l) = LayersUpto(l - 1) \cup LayerSet(l)
         /\ Filled(l) = Filled(l - 1) \cup InLayer(l, Norms) \cup InLayer(l, Projs)
         /\ LayerSet(l) \cap LayersUpto(l - 1) = {}
<1>1. 1 .. l = (1 .. l - 1) \cup {l}  OBVIOUS
<1>2. LayersUpto(l) = LayersUpto(l - 1) \cup LayerSet(l)  BY <1>1 DEF LayersUpto
<1>3. Filled(l) = Filled(l - 1) \cup InLayer(l, Norms) \cup InLayer(l, Projs)  BY <1>1 DEF Filled
<1>4. ASSUME NEW f \in LayerSet(l), NEW k \in 1 .. l - 1, f \in LayerSet(k) PROVE FALSE
  <2>1. f[1] = l /\ f[1] = k  BY <1>4, LayerNames
  <2>2. QED  BY <2>1
<1>5. LayerSet(l) \cap LayersUpto(l - 1) = {}  BY <1>4 DEF LayersUpto
<1>6. QED  BY <1>2, <1>3, <1>5

LEMMA StageLayers ==
  ASSUME NEW m, NEW c \in BOOLEAN, NEW file, NEW fails, NEW S, NEW H, Stage(m, c, file, fails, S, H),
         \A f \in S : f[1] = 0
  PROVE  Stage(LayerStates(m, file)[Depth], c, file, fails, S \cup LayersUpto(Depth), H \cup Filled(Depth))
<1> DEFINE A == LayerStates(m, file)
           Upto(l) == Stage(A[l], c, file, fails, S \cup LayersUpto(l), H \cup Filled(l))
           Bad == {l \in 0 .. Depth : ~ Upto(l)}
<1>0. Depth \in Nat  BY BlocksAssumption
<1>1. InLoading(A, m, file)  BY LayerStatesAre
<1> HIDE DEF A
<1>2. A[0] = m /\ \A n \in 1 .. Depth : A[n] = LayerLoaded(A[n - 1], file, n)
  BY <1>1 DEF InLoading
<1>3. Upto(0)
  <2>1. LayersUpto(0) = {} /\ Filled(0) = {}  BY DEF LayersUpto, Filled
  <2>2. S \cup {} = S /\ H \cup {} = H  OBVIOUS
  <2>3. QED  BY <1>2, <2>1, <2>2
<1>4. ASSUME NEW l \in 1 .. Depth, Upto(l - 1) PROVE Upto(l)
  <2> DEFINE T == S \cup LayersUpto(l - 1)
             G == H \cup Filled(l - 1)
  <2>1. l \in Nat /\ l # 0  BY <1>0
  <2>2. /\ LayersUpto(l) = LayersUpto(l - 1) \cup LayerSet(l)
        /\ Filled(l) = Filled(l - 1) \cup InLayer(l, Norms) \cup InLayer(l, Projs)
        /\ LayerSet(l) \cap LayersUpto(l - 1) = {}
    BY <2>1, LayersStep
  <2>3. LayerSet(l) \cap S = {}
    <3>1. \A f \in LayerSet(l) : f[1] = l  BY LayerNames
    <3>2. QED  BY <2>1, <3>1
  <2>4. NewLayer(l, T)  BY <2>2, <2>3 DEF NewLayer
  <2>5. Stage(A[l - 1], c, file, fails, T, G)  BY <1>4
  <2>6. S \cup LayersUpto(l) = T \cup LayerSet(l)
        /\ H \cup Filled(l) = G \cup InLayer(l, Norms) \cup InLayer(l, Projs)
    BY <2>2
  <2> HIDE DEF T, G
  <2>7. Stage(LayerLoaded(A[l - 1], file, l), c, file, fails, T \cup LayerSet(l),
              G \cup InLayer(l, Norms) \cup InLayer(l, Projs))
    BY <2>4, <2>5, StageLayer
  <2>8. A[l] = LayerLoaded(A[l - 1], file, l)  BY <1>2
  <2>9. QED  BY <2>6, <2>7, <2>8
<1>5. Upto(Depth)
  <2> HIDE DEF Upto
  <2>1. SUFFICES ASSUME Bad # {} PROVE FALSE  BY <1>0
  <2>2. Bad \subseteq Nat  BY <1>0
  <2>3. PICK i \in Bad : i = 0 \/ (i - 1 \in Nat /\ i - 1 \notin Bad)  BY <2>1, <2>2, FirstOfNat
  <2>4. i # 0  BY <1>3, <2>3
  <2>5. i \in 1 .. Depth /\ Upto(i - 1)  BY <1>0, <2>3, <2>4
  <2>6. QED  BY <1>4, <2>3, <2>5
<1>6. QED  BY <1>5 DEF A

-----------------------------------------------------------------------------
\* The model's own arrays.
Arrays == Unquantized \cup {LayerArray} \cup LayersUpto(Depth) \cup Scratch

LEMMA OwnNames ==
  /\ Fresh(Unquantized, {})
  /\ Fresh({LayerArray}, Unquantized)
  /\ Fresh(Scratch, Unquantized \cup {LayerArray})
  /\ \A f \in Unquantized \cup {LayerArray} \cup Scratch : f[1] = 0
<1>1. Fresh(Unquantized, {})
  BY DEF Fresh, Unquantized, Embedding, LmHead, FinalNorm, Vocab, Merges, TokenStrings
<1>2. Fresh({LayerArray}, Unquantized)
  BY DEF Fresh, Unquantized, Embedding, LmHead, FinalNorm, LayerArray, Vocab, Merges, TokenStrings
<1>3. Fresh(Scratch, Unquantized \cup {LayerArray})
  BY DEF Fresh, Scratch, Own, InLayer, Unquantized, Embedding, LmHead, FinalNorm, LayerArray, Vocab,
         Merges, TokenStrings
<1>4. \A f \in Unquantized \cup {LayerArray} \cup Scratch : f[1] = 0
  BY DEF Scratch, Own, InLayer, Unquantized, Embedding, LmHead, FinalNorm, LayerArray
<1>5. QED  BY <1>1, <1>2, <1>3, <1>4

LEMMA FreshScratch == Fresh(Scratch, Unquantized \cup {LayerArray} \cup LayersUpto(Depth))
<1>1. ASSUME NEW f \in Scratch PROVE f \notin LayersUpto(Depth)
  <2>1. f[1] = 0  BY OwnNames
  <2>2. ASSUME NEW k \in 1 .. Depth PROVE f \notin LayerSet(k)
    <3>1. k # 0  BY BlocksAssumption
    <3>2. QED  BY <2>1, <3>1, LayerNames
  <2>3. QED  BY <2>2 DEF LayersUpto
<1>2. Fresh(Scratch, Unquantized \cup {LayerArray})  BY OwnNames
<1>3. QED  BY <1>1, <1>2 DEF Fresh

LEMMA BaseIs ==
  /\ LayersUpto(Depth) = InLayers(Norms) \cup AllScales \cup InLayers(Projs)
  /\ NormFields \cup InLayers(Projs) \subseteq {FinalNorm} \cup Filled(Depth)
BY DEF LayersUpto, Filled, LayerSet, InLayers, AllScales, NormFields

\* A model that is given back.
Blank(m, c, fails) ==
  /\ HeapSound(m, c)
  /\ m.ptr = {} /\ m.fails = fails /\ m.ok = TRUE /\ m.loaded = FALSE /\ m.trit = FALSE /\ m.i2s = FALSE
  /\ m.tokens = 0 /\ m.vocab = 0
LEMMA FreedIsBlank ==
  ASSUME NEW m, NEW c \in BOOLEAN, HeapSound(m, c), NEW fails
  PROVE  /\ Blank([hs_mlt_free(m) EXCEPT !.fails = fails], c, fails)
         /\ Blank([hs_mlt_init(hs_mlt_free(m)) EXCEPT !.fails = fails], c, fails)
<1> DEFINE f == hs_mlt_free(m)
           i == hs_mlt_init(f)
<1>1. IsModel(m)  BY DEF HeapSound
<1>2. FreeGood(m, f)  BY <1>1, FreeIs
<1>3. HeapSound(f, c) /\ IsModel(f)  BY <1>2, FreeSound DEF FreeGood
<1> HIDE DEF f
<1>4. /\ IsModel(i) /\ i.ptr = {} /\ i.tokens = 0 /\ i.vocab = 0 /\ i.i2s = FALSE /\ i.trit = FALSE
      /\ i.loaded = FALSE /\ i.ok = TRUE /\ i.heap = f.heap /\ i.lost = f.lost /\ i.harm = f.harm
  BY DEF hs_mlt_init, NoModel, IsModel, Fields
<1>5. /\ f.ptr = {} /\ f.tokens = 0 /\ f.vocab = 0 /\ f.i2s = FALSE /\ f.trit = FALSE
      /\ f.loaded = FALSE /\ f.ok = TRUE
  BY <1>2 DEF FreeGood
<1> HIDE DEF i
<1>6. ASSUME NEW n, IsModel(n), n.ptr = {}, n.tokens = 0, n.vocab = 0, n.i2s = FALSE, n.trit = FALSE,
             n.loaded = FALSE, n.ok = TRUE, n.heap = f.heap, n.lost = f.lost, n.harm = f.harm
      PROVE  Blank([n EXCEPT !.fails = fails], c, fails)
  <2> DEFINE e == [n EXCEPT !.fails = fails]
  <2>1. /\ IsModel(e) /\ e.ptr = {} /\ e.tokens = 0 /\ e.vocab = 0 /\ e.i2s = FALSE /\ e.trit = FALSE
        /\ e.loaded = FALSE /\ e.ok = TRUE /\ e.heap = f.heap /\ e.lost = f.lost /\ e.harm = f.harm
        /\ e.fails = fails
    BY <1>6 DEF IsModel, Fields
  <2> HIDE DEF e
  <2>2. HeapSound(e, c)  BY <1>3, <1>5, <2>1 DEF HeapSound
  <2>3. QED  BY <2>1, <2>2 DEF Blank, e
<1>7. Blank([f EXCEPT !.fails = fails], c, fails)  BY <1>3, <1>5, <1>6
<1>8. Blank([i EXCEPT !.fails = fails], c, fails)  BY <1>4, <1>6
<1>9. QED  BY <1>7, <1>8 DEF f, i

-----------------------------------------------------------------------------
\* While the metadata are read only the arrays of the tokenizer are taken, each once.
MetaOk(n, c, file, fails, i) ==
  /\ IsModel(n) /\ n.ok \in BOOLEAN /\ n.fails = fails
  /\ n.loaded = FALSE /\ n.trit = FALSE /\ n.i2s = FALSE /\ n.vocab = 0 /\ n.tokens \in Nat
  /\ n.harm \in BOOLEAN /\ n.lost \subseteq {Ranks} \cup AllScales
  /\ n.ptr \subseteq {Vocab, Merges} /\ fails \notin n.ptr
  /\ n.heap \ {TokenStrings} \subseteq n.ptr
  /\ c => /\ n.harm = FALSE /\ n.ptr \subseteq n.heap
          /\ TokenStrings \in n.heap => Vocab \in n.ptr
  /\ Vocab \in n.ptr => n.tokens = file.tokens /\ \E j \in 1 .. i : file.meta[j] = "tokens"
  /\ Merges \in n.ptr => \E j \in 1 .. i : file.meta[j] = "merges"

LEMMA MetaStepOk ==
  ASSUME NEW n, NEW c \in BOOLEAN, NEW file \in Files, NEW fails, NEW i \in 1 .. Len(file.meta),
         MetaOk(n, c, file, fails, i - 1)
  PROVE  MetaOk(MetaStep(n, file, file.meta[i]), c, file, fails, i)
<1> DEFINE key == file.meta[i]
           new == MetaStep(n, file, key)
<1>1. /\ DOMAIN file.meta = 1 .. Len(file.meta) /\ Len(file.meta) \in Nat /\ file.tokens \in Nat
      /\ \A j, k \in DOMAIN file.meta : file.meta[j] = file.meta[k] => j = k
  BY FilesAssumption
<1>2. \A j \in 1 .. i - 1 : j \in 1 .. i /\ file.meta[j] # key  BY <1>1
<1>3. i \in 1 .. i  BY <1>1
<1>4. IsModel(n)  BY DEF MetaOk
<1>5. Vocab # Merges /\ Vocab # TokenStrings /\ Merges # TokenStrings
  BY DEF Vocab, Merges, TokenStrings
<1> HIDE DEF key
<1>6. CASE ~n.ok
  <2>1. new = n  BY <1>6 DEF MetaStep
  <2>2. QED  BY <1>2, <2>1 DEF MetaOk, key
<1>7. CASE n.ok /\ key = "end"
  <2>1. new = [n EXCEPT !.ok = FALSE]  BY <1>7 DEF MetaStep
  <2>2. /\ IsModel(new) /\ new.ok = FALSE /\ new.fails = n.fails /\ new.loaded = n.loaded /\ new.trit = n.trit
        /\ new.i2s = n.i2s /\ new.vocab = n.vocab /\ new.tokens = n.tokens /\ new.harm = n.harm
        /\ new.lost = n.lost /\ new.ptr = n.ptr /\ new.heap = n.heap
    BY <1>4, <2>1 DEF IsModel, Fields
  <2> HIDE DEF new
  <2>3. QED  BY <1>2, <2>2 DEF MetaOk, new, key
<1>8. CASE n.ok /\ key = "tokens"
  <2> DEFINE a == Alloc(n, {Vocab})
             b == [a EXCEPT !.tokens = file.tokens, !.heap = @ \cup {TokenStrings}]
  <2>1. new = IF Vocab \in a.ptr THEN b ELSE a  BY <1>8 DEF MetaStep
  <2>2. AllocGood(n, a, {Vocab})  BY <1>4, AllocIs
  <2>3. Vocab \notin n.ptr  BY <1>2, <1>8 DEF MetaOk
  <2> HIDE DEF a
  <2>4. /\ IsModel(b) /\ b.ok = a.ok /\ b.fails = a.fails /\ b.loaded = a.loaded /\ b.trit = a.trit
        /\ b.i2s = a.i2s /\ b.vocab = a.vocab /\ b.tokens = file.tokens /\ b.harm = a.harm
        /\ b.lost = a.lost /\ b.ptr = a.ptr /\ b.heap = a.heap \cup {TokenStrings}
    BY <2>2 DEF AllocGood, IsModel, Fields
  <2> HIDE DEF b, new
  <2>5. CASE fails = Vocab
    <3>1. a.ptr = n.ptr /\ a.heap = n.heap /\ a.lost = n.lost /\ Vocab \notin a.ptr
      BY <2>2, <2>3, <2>5 DEF AllocGood, MetaOk
    <3>2. QED  BY <1>2, <2>1, <2>2, <3>1 DEF MetaOk, AllocGood, new, key
  <2>6. CASE fails # Vocab
    <3>1. a.ptr = n.ptr \cup {Vocab} /\ a.heap = n.heap \cup {Vocab} /\ a.lost = n.lost
      BY <2>2, <2>3, <2>6 DEF AllocGood, MetaOk
    <3>2. new = b  BY <2>1, <3>1
    <3>3. b.tokens \in Nat /\ \E j \in 1 .. i : file.meta[j] = "tokens"  BY <1>1, <1>3, <1>8, <2>4 DEF key
    <3>4. /\ b.ptr \subseteq {Vocab, Merges} /\ fails \notin b.ptr /\ b.heap \ {TokenStrings} \subseteq b.ptr
          /\ c => b.ptr \subseteq b.heap
      BY <2>4, <2>6, <3>1 DEF MetaOk
    <3>5. /\ b.ok \in BOOLEAN /\ b.fails = fails /\ b.loaded = FALSE /\ b.trit = FALSE /\ b.i2s = FALSE
          /\ b.vocab = 0 /\ b.harm \in BOOLEAN /\ b.lost \subseteq {Ranks} \cup AllScales /\ (c => b.harm = FALSE)
      BY <2>2, <2>4, <3>1 DEF MetaOk, AllocGood
    <3>6. Merges \in b.ptr => \E j \in 1 .. i : file.meta[j] = "merges"
      BY <1>2, <1>5, <2>4, <3>1 DEF MetaOk
    <3>7. Vocab \in b.ptr  BY <2>4, <3>1
    <3>8. MetaOk(b, c, file, fails, i)  BY <2>4, <3>3, <3>4, <3>5, <3>6, <3>7 DEF MetaOk
    <3>9. QED  BY <3>2, <3>8 DEF new, key
  <2>7. QED  BY <2>5, <2>6
<1>9. CASE n.ok /\ key = "merges"
  <2> DEFINE a == Alloc(n, {Merges})
  <2>1. new = a  BY <1>9 DEF MetaStep
  <2>2. AllocGood(n, a, {Merges})  BY <1>4, AllocIs
  <2>3. Merges \notin n.ptr  BY <1>2, <1>9 DEF MetaOk
  <2>4. \E j \in 1 .. i : file.meta[j] = "merges"  BY <1>3, <1>9 DEF key
  <2> HIDE DEF a, new
  <2>5. a.lost = n.lost /\ a.fails = fails /\ n.fails = fails  BY <2>2, <2>3 DEF AllocGood, MetaOk
  <2>6. a.ptr = n.ptr \cup ({Merges} \ {fails}) /\ a.heap = n.heap \cup ({Merges} \ {fails})
    BY <2>2, <2>3, <2>5 DEF AllocGood
  <2>7. /\ a.ptr \subseteq {Vocab, Merges} /\ fails \notin a.ptr /\ a.heap \ {TokenStrings} \subseteq a.ptr
        /\ (Vocab \in a.ptr <=> Vocab \in n.ptr) /\ (TokenStrings \in a.heap => TokenStrings \in n.heap)
        /\ c => a.ptr \subseteq a.heap
    BY <1>5, <2>6 DEF MetaOk
  <2>8. MetaOk(a, c, file, fails, i)  BY <1>2, <2>2, <2>4, <2>5, <2>7 DEF MetaOk, AllocGood
  <2>9. QED  BY <2>1, <2>8 DEF new, key
<1>10. CASE n.ok /\ key \notin {"end", "tokens", "merges"}
  <2>1. new = n  BY <1>10 DEF MetaStep
  <2>2. QED  BY <1>2, <2>1 DEF MetaOk, key
<1>11. n.ok \in BOOLEAN  BY DEF MetaOk
<1>12. QED  BY <1>6, <1>7, <1>8, <1>9, <1>10, <1>11

LEMMA MetaStatesOk ==
  ASSUME NEW m, NEW c \in BOOLEAN, NEW file \in Files, NEW fails, Blank(m, c, fails)
  PROVE  MetaOk(MetaStates(m, file)[Len(file.meta)], c, file, fails, Len(file.meta))
<1> DEFINE A == MetaStates(m, file)
           N == Len(file.meta)
           Upto(i) == MetaOk(A[i], c, file, fails, i)
           Bad == {i \in 0 .. N : ~ Upto(i)}
<1>0. N \in Nat  BY FilesAssumption
<1>1. InMeta(A, m, file)  BY <1>0, MetaStatesAre
<1> HIDE DEF A
<1>2. A[0] = m /\ \A n \in 1 .. N : A[n] = MetaStep(A[n - 1], file, file.meta[n])
  BY <1>1 DEF InMeta
<1>3. Upto(0)  BY <1>2 DEF Blank, HeapSound, MetaOk
<1>4. ASSUME NEW i \in 1 .. N, Upto(i - 1) PROVE Upto(i)
  <2>1. MetaOk(MetaStep(A[i - 1], file, file.meta[i]), c, file, fails, i)  BY <1>4, MetaStepOk
  <2>2. QED  BY <1>2, <2>1
<1>5. Upto(N)
  <2> HIDE DEF Upto, N
  <2>1. SUFFICES ASSUME Bad # {} PROVE FALSE  BY <1>0
  <2>2. Bad \subseteq Nat  BY <1>0
  <2>3. PICK i \in Bad : i = 0 \/ (i - 1 \in Nat /\ i - 1 \notin Bad)  BY <2>1, <2>2, FirstOfNat
  <2>4. i # 0  BY <1>3, <2>3
  <2>5. i \in 1 .. N /\ Upto(i - 1)  BY <1>0, <2>3, <2>4
  <2>6. QED  BY <1>4, <2>3, <2>5
<1>6. QED  BY <1>5 DEF A

\* The strings of a file that spoils nothing are as many as it says.
TokensFit(file) == Given(file, "tokens") => StringsOf(file) = file.tokens
LEMMA MetaReadStage ==
  ASSUME NEW m, NEW c \in BOOLEAN, NEW file \in Files, NEW fails, Blank(m, c, fails)
  PROVE  Stage(MetaRead(m, file), c /\ TokensFit(file), file, fails, {}, {})
<1> DEFINE n == MetaStates(m, file)[Len(file.meta)]
           d == c /\ TokensFit(file)
           ok == n.ok /\ Given(file, "config") /\ StringsOf(file) # 0 /\ <<0, "tis">> # m.fails
           kept == [n EXCEPT !.vocab = StringsOf(file)]
           less == [n EXCEPT !.heap = @ \ {Vocab, TokenStrings, Merges}]
           gone == [hs_mlt_init(less) EXCEPT !.ok = FALSE]
<1>1. MetaOk(n, c, file, fails, Len(file.meta))  BY MetaStatesOk
<1>2. MetaRead(m, file) = IF ok THEN kept ELSE gone  BY DEF MetaRead
<1> HIDE DEF n
<1>3. /\ DOMAIN file.meta = 1 .. Len(file.meta) /\ file.tokens \in Nat /\ file.vocab \in Nat
  BY FilesAssumption
<1>4. StringsOf(file) \in Nat  BY <1>3 DEF StringsOf
<1>5. IsModel(n)  BY <1>1 DEF MetaOk
<1>6. CASE ok
  <2>1. /\ IsModel(kept) /\ kept.ok = n.ok /\ kept.fails = n.fails /\ kept.loaded = n.loaded
        /\ kept.trit = n.trit /\ kept.i2s = n.i2s /\ kept.vocab = StringsOf(file) /\ kept.tokens = n.tokens
        /\ kept.harm = n.harm /\ kept.lost = n.lost /\ kept.ptr = n.ptr /\ kept.heap = n.heap
    BY <1>5 DEF IsModel, Fields
  <2> HIDE DEF kept
  <2>2. Vocab \in n.ptr /\ d => StringsOf(file) = n.tokens
    BY <1>1, <1>3 DEF MetaOk, TokensFit, Given
  <2>3. TokenStrings \notin n.ptr  BY <1>1 DEF MetaOk, Vocab, Merges, TokenStrings
  <2>4. HeapSound(kept, d)  BY <1>1, <1>4, <2>1, <2>2, <2>3 DEF HeapSound, MetaOk
  <2>5. Making(kept, d, fails, {})  BY <1>1, <1>6, <2>1, <2>4 DEF Making, MetaOk
  <2>6. Content(kept, file, fails, {})  BY <1>1, <2>1 DEF Content, MetaOk
  <2>7. QED  BY <1>2, <1>6, <2>5, <2>6 DEF Stage
<1>7. CASE ~ok
  <2>1. IsModel(less) /\ less.heap = n.heap \ {Vocab, TokenStrings, Merges} /\ less.lost = n.lost
        /\ less.harm = n.harm
    BY <1>5 DEF IsModel, Fields
  <2> HIDE DEF less
  <2>2. /\ IsModel(gone) /\ gone.ptr = {} /\ gone.tokens = 0 /\ gone.vocab = 0 /\ gone.trit = FALSE
        /\ gone.loaded = FALSE /\ gone.ok = FALSE /\ gone.heap = less.heap /\ gone.lost = less.lost
        /\ gone.harm = less.harm
    BY DEF hs_mlt_init, NoModel, IsModel, Fields
  <2> HIDE DEF gone
  <2>3. gone.heap = {}  BY <1>1, <2>1, <2>2 DEF MetaOk
  <2>4. HeapSound(gone, d)  BY <1>1, <2>1, <2>2, <2>3 DEF MetaOk, HeapSound
  <2>5. Making(gone, d, fails, {})  BY <2>2, <2>4 DEF Making
  <2>6. QED  BY <1>2, <1>7, <2>2, <2>5 DEF Stage
<1>8. QED  BY <1>6, <1>7

-----------------------------------------------------------------------------
\* A call is over: the model has its arrays, or none.
AllOrNone(m, c) ==
  /\ HeapSound(m, c)
  /\ m.ok = TRUE /\ m.fails = << >> /\ m.trit = FALSE /\ m.loaded \in BOOLEAN
  /\ ~m.loaded => m.ptr = {}
  /\ m.loaded => Arrays \subseteq m.ptr /\ m.ptr \subseteq Arrays \cup {Vocab, Merges}
LEMMA ReadyWhole ==
  ASSUME NEW m, NEW c \in BOOLEAN, NEW fails, Making(m, c, fails, Arrays)
  PROVE  /\ AllOrNone(Ready(m), c) /\ Ready(m).loaded = m.ok
         /\ Ready(m).holds = m.holds /\ Ready(m).i2s = m.i2s
<1> DEFINE n == Ready(m)
<1>1. IsModel(m)  BY DEF Making, HeapSound
<1>2. /\ IsModel(n) /\ n.ptr = m.ptr /\ n.holds = m.holds /\ n.tokens = m.tokens /\ n.vocab = m.vocab
      /\ n.i2s = m.i2s /\ n.trit = m.trit /\ n.loaded = m.ok /\ n.ok = TRUE /\ n.fails = << >>
      /\ n.heap = m.heap /\ n.lost = m.lost /\ n.harm = m.harm
  BY <1>1 DEF Ready, IsModel, Fields
<1> HIDE DEF n
<1>3. HeapSound(n, c)  BY <1>2 DEF Making, HeapSound
<1>4. AllOrNone(n, c)  BY <1>2, <1>3 DEF Making, AllOrNone
<1>5. QED  BY <1>2, <1>4 DEF n

\* What a file put into the arrays.
All == {Embedding, LmHead} \cup NormFields \cup InLayers(Projs)
LEMMA ContentLess ==
  ASSUME NEW m, NEW n, NEW file, NEW fails, NEW H, Content(m, file, fails, H),
         n.holds = m.holds, n.i2s = m.i2s, NEW G, G \subseteq H
  PROVE  Content(n, file, fails, G)
<1>1. Untouched(m, n, {})  BY DEF Untouched
<1>2. \A f \in G : FieldIs(n, file, fails, f)  BY <1>1, FieldStays DEF Content
<1>3. QED  BY <1>2 DEF Content

LEMMA GgufReadWhole ==
  ASSUME NEW m, NEW c \in BOOLEAN, NEW file \in Files, NEW fails, Blank(m, c, fails)
  PROVE  LET n == GgufRead(m, file)
         IN  /\ AllOrNone(n, c /\ TokensFit(file))
             /\ n.loaded => Content(n, file, fails, All)
<1> DEFINE d == c /\ TokensFit(file)
           m1 == MetaRead(m, file)
           m2 == AllocAll(m1, Unquantized)
           m3 == EmbeddingLoaded(m2, file)
           m4 == LmHeadLoaded(m3, file)
           m5 == NormsLoaded(m4, file, {FinalNorm})
           m6 == AllocAll(m5, {LayerArray})
           m7 == LayerStates(m6, file)[Depth]
           m8 == AllocAll(m7, Scratch)
           S == Unquantized \cup {LayerArray}
           Own3 == {Embedding, LmHead, FinalNorm}
<1>1. GgufRead(m, file) = Ready(m8)  BY DEF GgufRead
<1>2. Stage(m1, d, file, fails, {}, {})  BY MetaReadStage
<1> HIDE DEF m1
<1>3. d \in BOOLEAN  OBVIOUS
<1> HIDE DEF d
<1>4. Stage(m2, d, file, fails, Unquantized, {})
  <2>1. {} \cup Unquantized = Unquantized  OBVIOUS
  <2>2. QED  BY <1>2, <1>3, <2>1, OwnNames, StageAlloc
<1> HIDE DEF m2
<1>5. Stage(m3, d, file, fails, Unquantized, {} \cup {Embedding})  BY <1>3, <1>4, StageEmbedding
<1> HIDE DEF m3
<1>6. Stage(m4, d, file, fails, Unquantized, ({} \cup {Embedding}) \cup {LmHead})  BY <1>3, <1>5, StageLmHead
<1> HIDE DEF m4
<1>7. Stage(m5, d, file, fails, Unquantized, Own3)
  <2>1. (({} \cup {Embedding}) \cup {LmHead}) \cup {FinalNorm} = Own3  OBVIOUS
  <2>2. {FinalNorm} \subseteq NormFields  BY DEF NormFields
  <2>3. QED  BY <1>3, <1>6, <2>1, <2>2, StageNorms
<1> HIDE DEF m5
<1> HIDE DEF Own3
<1>8. Stage(m6, d, file, fails, S, Own3)  BY <1>3, <1>7, OwnNames, StageAlloc
<1> HIDE DEF m6
<1>9. Stage(m7, d, file, fails, S \cup LayersUpto(Depth), Own3 \cup Filled(Depth))
  <2>1. \A f \in S : f[1] = 0  BY OwnNames
  <2> HIDE DEF S
  <2>2. QED  BY <1>3, <1>8, <2>1, StageLayers
<1> HIDE DEF m7
<1>10. Stage(m8, d, file, fails, Arrays, Own3 \cup Filled(Depth))
  <2>1. Fresh(Scratch, S \cup LayersUpto(Depth))  BY FreshScratch
  <2>2. Arrays = (S \cup LayersUpto(Depth)) \cup Scratch  BY DEF Arrays
  <2> HIDE DEF S
  <2>3. Stage(m8, d, file, fails, (S \cup LayersUpto(Depth)) \cup Scratch, Own3 \cup Filled(Depth))
    BY <1>3, <1>9, <2>1, StageAlloc
  <2>4. QED  BY <2>2, <2>3
<1> HIDE DEF m8
<1>11. Making(m8, d, fails, Arrays) /\ (m8.ok => Content(m8, file, fails, Own3 \cup Filled(Depth)))
  BY <1>10 DEF Stage
<1>12. AllOrNone(Ready(m8), d) /\ Ready(m8).loaded = m8.ok /\ Ready(m8).holds = m8.holds /\ Ready(m8).i2s = m8.i2s
  BY <1>3, <1>11, ReadyWhole
<1>13. All \subseteq Own3 \cup Filled(Depth)  BY BaseIs DEF All, Own3
<1>14. ASSUME Ready(m8).loaded PROVE Content(Ready(m8), file, fails, All)
  <2>1. Content(m8, file, fails, Own3 \cup Filled(Depth))  BY <1>11, <1>12, <1>14
  <2>2. QED  BY <1>12, <1>13, <2>1, ContentLess
<1>15. QED  BY <1>1, <1>12, <1>14 DEF d

\* A random model, group after group.
LEMMA HoldingMaking ==
  ASSUME NEW m, NEW c \in BOOLEAN, NEW fails, NEW S, Making(m, c, fails, S), NEW holds
  PROVE  Making([m EXCEPT !.holds = holds], c, fails, S)
<1> DEFINE n == [m EXCEPT !.holds = holds]
<1>1. IsModel(m)  BY DEF Making, HeapSound
<1>2. HeldGood(m, n, {})  BY <1>1 DEF HeldGood, IsModel, Fields
<1> HIDE DEF n
<1>3. Making(n, c, fails, S)  BY <1>2, HeldMaking
<1>4. QED  BY <1>3 DEF n

\* Making what a norm of a random model holds.
Ones(m, fs) == Holding(m, fs, LAMBDA f : "one")
LEMMA OnesMaking ==
  ASSUME NEW m, NEW c \in BOOLEAN, NEW fails, NEW S, Making(m, c, fails, S), NEW fs
  PROVE  Making(Ones(m, fs), c, fails, S)
<1> DEFINE holds == [f \in fs \cup DOMAIN m.holds |-> IF f \in fs THEN "one" ELSE m.holds[f]]
<1>1. Ones(m, fs) = IF m.ok THEN [m EXCEPT !.holds = holds] ELSE m  BY DEF Ones, Holding
<1> HIDE DEF holds
<1>2. Making([m EXCEPT !.holds = holds], c, fails, S)  BY HoldingMaking
<1>3. QED  BY <1>1, <1>2

LEMMA RandomLayerMaking ==
  ASSUME NEW m, NEW c \in BOOLEAN, NEW fails, NEW S, Making(m, c, fails, S),
         NEW l \in 1 .. Depth, NewLayer(l, S)
  PROVE  Making(RandomLayer(m, l), c, fails, S \cup LayerSet(l))
<1> DEFINE A == Scales(l, Attention)
           B == InLayer(l, Attention)
           Cs == Scales(l, Ffn)
           D == InLayer(l, Ffn)
           N == InLayer(l, Norms)
           m1 == AllocAll(m, A)
           m2 == AllocAll(m1, B)
           m3 == AllocAll(m2, Cs)
           m4 == AllocAll(m3, D)
           m5 == AllocAll(m4, N)
<1>1. LayerSet(l) = A \cup B \cup Cs \cup D \cup N
  BY DEF LayerSet, Scales, InLayer, Projs
<1>2. \A n, p : <<l, n>> # Scale(l, p)  BY DEF Scale
<1>3. /\ A \cap B = {} /\ A \cap D = {} /\ A \cap N = {} /\ Cs \cap B = {} /\ Cs \cap D = {} /\ Cs \cap N = {}
  BY <1>2 DEF InLayer, Scales
<1>4. A \cap Cs = {}  BY DEF Scales, Scale, Attention, Ffn
<1>5. B \cap D = {} /\ B \cap N = {} /\ D \cap N = {}  BY DEF InLayer, Attention, Ffn, Norms
<1>6. LayerSet(l) \cap S = {}  BY DEF NewLayer
<1>7. RandomLayer(m, l) = Ones(m5, N)  BY DEF RandomLayer, Ones
<1>8. l \in Nat /\ l # 0  BY BlocksAssumption
<1> HIDE DEF A, B, Cs, D, N, m1, m2, m3, m4, m5
<1>9. Making(m1, c, fails, S \cup A)
  <2>1. A \subseteq LayerSet(l) /\ A \cap S = {}  BY <1>1, <1>6
  <2>2. Fresh(A, S)  BY <1>8, <2>1, FreshInLayer
  <2>3. QED  BY <2>2, AllocAllMaking DEF m1
<1>10. Making(m2, c, fails, (S \cup A) \cup B)
  <2>1. B \subseteq LayerSet(l) /\ B \cap (S \cup A) = {}  BY <1>1, <1>3, <1>6
  <2>2. Fresh(B, S \cup A)  BY <1>8, <2>1, FreshInLayer
  <2>3. QED  BY <1>9, <2>2, AllocAllMaking DEF m2
<1>11. Making(m3, c, fails, ((S \cup A) \cup B) \cup Cs)
  <2>1. Cs \subseteq LayerSet(l) /\ Cs \cap ((S \cup A) \cup B) = {}  BY <1>1, <1>3, <1>4, <1>6
  <2>2. Fresh(Cs, (S \cup A) \cup B)  BY <1>8, <2>1, FreshInLayer
  <2>3. QED  BY <1>10, <2>2, AllocAllMaking DEF m3
<1>12. Making(m4, c, fails, (((S \cup A) \cup B) \cup Cs) \cup D)
  <2>1. D \subseteq LayerSet(l) /\ D \cap (((S \cup A) \cup B) \cup Cs) = {}  BY <1>1, <1>3, <1>5, <1>6
  <2>2. Fresh(D, ((S \cup A) \cup B) \cup Cs)  BY <1>8, <2>1, FreshInLayer
  <2>3. QED  BY <1>11, <2>2, AllocAllMaking DEF m4
<1>13. Making(m5, c, fails, ((((S \cup A) \cup B) \cup Cs) \cup D) \cup N)
  <2>1. N \subseteq LayerSet(l) /\ N \cap ((((S \cup A) \cup B) \cup Cs) \cup D) = {}  BY <1>1, <1>3, <1>5, <1>6
  <2>2. Fresh(N, (((S \cup A) \cup B) \cup Cs) \cup D)  BY <1>8, <2>1, FreshInLayer
  <2>3. QED  BY <1>12, <2>2, AllocAllMaking DEF m5
<1>14. ((((S \cup A) \cup B) \cup Cs) \cup D) \cup N = S \cup LayerSet(l)  BY <1>1
<1>15. Making(m5, c, fails, S \cup LayerSet(l))  BY <1>13, <1>14
<1>16. QED  BY <1>7, <1>15, OnesMaking

LEMMA RandomLayersMaking ==
  ASSUME NEW m, NEW c \in BOOLEAN, NEW fails, NEW S, Making(m, c, fails, S), \A f \in S : f[1] = 0
  PROVE  Making(RandomStates(m)[Depth], c, fails, S \cup LayersUpto(Depth))
<1> DEFINE A == RandomStates(m)
           Upto(l) == Making(A[l], c, fails, S \cup LayersUpto(l))
           Bad == {l \in 0 .. Depth : ~ Upto(l)}
<1>0. Depth \in Nat  BY BlocksAssumption
<1>1. InRandom(A, m)  BY RandomStatesAre
<1> HIDE DEF A
<1>2. A[0] = m /\ \A n \in 1 .. Depth : A[n] = RandomLayer(A[n - 1], n)
  BY <1>1 DEF InRandom
<1>3. Upto(0)
  <2>1. LayersUpto(0) = {}  BY DEF LayersUpto
  <2>2. S \cup {} = S  OBVIOUS
  <2>3. QED  BY <1>2, <2>1, <2>2
<1>4. ASSUME NEW l \in 1 .. Depth, Upto(l - 1) PROVE Upto(l)
  <2> DEFINE T == S \cup LayersUpto(l - 1)
  <2>1. l \in Nat /\ l # 0  BY <1>0
  <2>2. LayersUpto(l) = LayersUpto(l - 1) \cup LayerSet(l) /\ LayerSet(l) \cap LayersUpto(l - 1) = {}
    BY <2>1, LayersStep
  <2>3. LayerSet(l) \cap S = {}
    <3>1. \A f \in LayerSet(l) : f[1] = l  BY LayerNames
    <3>2. QED  BY <2>1, <3>1
  <2>4. NewLayer(l, T)  BY <2>2, <2>3 DEF NewLayer
  <2>5. Making(A[l - 1], c, fails, T)  BY <1>4
  <2>6. S \cup LayersUpto(l) = T \cup LayerSet(l)  BY <2>2
  <2> HIDE DEF T
  <2>7. Making(RandomLayer(A[l - 1], l), c, fails, T \cup LayerSet(l))  BY <2>4, <2>5, RandomLayerMaking
  <2>8. A[l] = RandomLayer(A[l - 1], l)  BY <1>2
  <2>9. QED  BY <2>6, <2>7, <2>8
<1>5. Upto(Depth)
  <2> HIDE DEF Upto
  <2>1. SUFFICES ASSUME Bad # {} PROVE FALSE  BY <1>0
  <2>2. Bad \subseteq Nat  BY <1>0
  <2>3. PICK i \in Bad : i = 0 \/ (i - 1 \in Nat /\ i - 1 \notin Bad)  BY <2>1, <2>2, FirstOfNat
  <2>4. i # 0  BY <1>3, <2>3
  <2>5. i \in 1 .. Depth /\ Upto(i - 1)  BY <1>0, <2>3, <2>4
  <2>6. QED  BY <1>4, <2>3, <2>5
<1>6. QED  BY <1>5 DEF A

Random(m) ==
  LET normed == AllocAll(Ones(AllocAll(m, Unquantized), {FinalNorm}), {LayerArray})
  IN Ready(AllocAll(RandomStates(normed)[Depth], Scratch))
LEMMA RandomWhole ==
  ASSUME NEW m, NEW c \in BOOLEAN, NEW fails, Blank(m, c, fails)
  PROVE  AllOrNone(Random(m), c)
<1> DEFINE m1 == AllocAll(m, Unquantized)
           m2 == Ones(m1, {FinalNorm})
           m3 == AllocAll(m2, {LayerArray})
           m4 == RandomStates(m3)[Depth]
           m5 == AllocAll(m4, Scratch)
           S == Unquantized \cup {LayerArray}
<1>1. Random(m) = Ready(m5)  BY DEF Random
<1>2. Making(m, c, fails, {})  BY DEF Blank, Making
<1>3. Making(m1, c, fails, Unquantized)
  <2>1. {} \cup Unquantized = Unquantized  OBVIOUS
  <2>2. QED  BY <1>2, <2>1, OwnNames, AllocAllMaking
<1> HIDE DEF m1
<1>4. Making(m2, c, fails, Unquantized)  BY <1>3, OnesMaking
<1> HIDE DEF m2
<1>5. Making(m3, c, fails, S)  BY <1>4, OwnNames, AllocAllMaking
<1> HIDE DEF m3
<1>6. Making(m4, c, fails, S \cup LayersUpto(Depth))
  <2>1. \A f \in S : f[1] = 0  BY OwnNames
  <2> HIDE DEF S
  <2>2. QED  BY <1>5, <2>1, RandomLayersMaking
<1> HIDE DEF m4
<1>7. Making(m5, c, fails, Arrays)
  <2>1. Fresh(Scratch, S \cup LayersUpto(Depth))  BY FreshScratch
  <2>2. Arrays = (S \cup LayersUpto(Depth)) \cup Scratch  BY DEF Arrays
  <2> HIDE DEF S
  <2>3. Making(m5, c, fails, (S \cup LayersUpto(Depth)) \cup Scratch)  BY <1>6, <2>1, AllocAllMaking
  <2>4. QED  BY <2>2, <2>3
<1> HIDE DEF m5
<1>8. AllOrNone(Ready(m5), c)  BY <1>7, ReadyWhole
<1>9. QED  BY <1>1, <1>8

-----------------------------------------------------------------------------
\* The invariant: of the arrays of a model between the calls ...
Needs(m) ==
  m.loaded => /\ Arrays \ {LmHead} \subseteq m.ptr
              /\ m.trit => Planes \cup {RowScales} \subseteq m.ptr
              /\ ~m.trit => LmHead \in m.ptr
Armed(m) == LmHead \in m.ptr => Planes \cap m.ptr = {} /\ RowScales \notin m.heap
Standing(m, c) ==
  /\ HeapSound(m, c)
  /\ m.ok = TRUE /\ m.fails = << >> /\ m.loaded \in BOOLEAN /\ m.trit \in BOOLEAN
  /\ ~m.loaded => m.ptr = {}
  /\ Needs(m) /\ Armed(m)
\* ... and of what they hold.
Brought(g, f) == \E e \in g.norms : e.field = f /\ e.fits /\ e.what = "whole"
KeptIn(m, g) ==
  /\ g.file \in Files
  /\ \A f \in NormFields :
        f \in DOMAIN m.holds
        /\ m.holds[f] = IF Brought(g, f) THEN "sidecar" ELSE NormOf(g.file, g.failing, f)
  /\ \A f \in InLayers(Projs) : WeightIs(m, g.file, f)
  /\ \A f \in {Embedding, LmHead} : f \in DOMAIN m.holds /\ m.holds[f] = EndOf(g.file, f)
  /\ m.i2s \in BOOLEAN
  /\ m.i2s => \E f \in InLayers(Projs) : Tensor(g.file, f).type = "I2_S"
IsGiven(g) == DOMAIN g = {"file", "norms", "failing"}
LoaderInv ==
  /\ tainted \in BOOLEAN /\ IsGiven(given) /\ Standing(mlt, ~tainted)
  /\ mlt.loaded /\ given.file # << >> => KeptIn(mlt, given)

LEMMA OthersNames ==
  /\ Planes \cap Arrays = {} /\ RowScales \notin Arrays /\ Ranks \notin Arrays
  /\ \A f \in Planes \cup {RowScales, LmHead, Ranks} : f # Vocab /\ f # Merges /\ f # TokenStrings /\ f # << >>
  /\ LmHead \notin Planes /\ LmHead # RowScales /\ LmHead # Ranks /\ Ranks \notin Planes /\ Ranks # RowScales
  /\ <<0, "row_f">> \notin Planes \cup {RowScales} /\ <<0, "row_f">> # << >> /\ Planes # {}
<1>1. \A f \in Planes \cup {RowScales, Ranks} : f[1] = 0  BY DEF Planes, RowScales, Ranks
<1>2. \A f \in Planes \cup {RowScales, Ranks} : f \notin LayersUpto(Depth)
  <2>1. SUFFICES ASSUME NEW f \in Planes \cup {RowScales, Ranks}, NEW k \in 1 .. Depth, f \in LayerSet(k)
                 PROVE  FALSE
    BY DEF LayersUpto
  <2>2. k # 0  BY BlocksAssumption
  <2>3. QED  BY <1>1, <2>1, <2>2, LayerNames
<1>3. \A f \in Planes \cup {RowScales, Ranks} : f \notin Unquantized \cup {LayerArray} \cup Scratch
  BY DEF Planes, RowScales, Ranks, Unquantized, Embedding, LmHead, FinalNorm, LayerArray, Scratch, Own, InLayer
<1>4. \A f \in Planes \cup {RowScales, LmHead, Ranks} : f # Vocab /\ f # Merges /\ f # TokenStrings /\ f # << >>
  BY DEF Planes, RowScales, LmHead, Ranks, Vocab, Merges, TokenStrings
<1>5. /\ LmHead \notin Planes /\ LmHead # RowScales /\ LmHead # Ranks /\ Ranks \notin Planes
      /\ Ranks # RowScales /\ <<0, "row_f">> \notin Planes \cup {RowScales} /\ <<0, "row_f">> # << >>
  BY DEF Planes, RowScales, LmHead, Ranks
<1>6. Planes # {}
  <2>1. 1 \in 1 .. 8  OBVIOUS
  <2>2. QED  BY <2>1 DEF Planes
<1>7. QED  BY <1>2, <1>3, <1>4, <1>5, <1>6 DEF Arrays

LEMMA WholeStands ==
  ASSUME NEW m, NEW c \in BOOLEAN, AllOrNone(m, c)
  PROVE  Standing(m, c)
<1>1. LmHead \in Arrays  BY DEF Arrays, Unquantized
<1>2. Needs(m)  BY <1>1 DEF AllOrNone, Needs
<1>3. Planes \cap m.ptr = {} /\ RowScales \notin m.ptr
  BY OthersNames DEF AllOrNone
<1>4. RowScales \notin m.heap  BY <1>3, OthersNames DEF AllOrNone, HeapSound
<1>5. Armed(m)  BY <1>3, <1>4 DEF Armed
<1>6. QED  BY <1>2, <1>5 DEF AllOrNone, Standing

\* What the planes of the output take and give.
LEMMA EncodeStands ==
  ASSUME NEW m, NEW c \in BOOLEAN, Standing(m, c), m.loaded, LmHead \in m.ptr
  PROVE  LET a == Alloc(m, Planes \cup {RowScales})
             n == [a EXCEPT !.heap = @ \ {LmHead}, !.ptr = @ \ {LmHead}, !.trit = TRUE]
         IN Standing(n, c) /\ n.loaded = m.loaded /\ n.holds = m.holds /\ n.i2s = m.i2s
<1> DEFINE fs == Planes \cup {RowScales}
           a == Alloc(m, fs)
           n == [a EXCEPT !.heap = @ \ {LmHead}, !.ptr = @ \ {LmHead}, !.trit = TRUE]
<1>1. HeapSound(m, c) /\ m.ok = TRUE /\ m.fails = << >> /\ Planes \cap m.ptr = {} /\ RowScales \notin m.heap
      /\ Arrays \ {LmHead} \subseteq m.ptr
  BY DEF Standing, Armed, Needs
<1>2. IsModel(m)  BY <1>1 DEF HeapSound
<1>3. AllocGood(m, a, fs)  BY <1>2, AllocIs
<1>4. fs \ {m.fails} = fs  BY <1>1, OthersNames
<1> HIDE DEF a
<1>5. /\ IsModel(n) /\ n.ptr = a.ptr \ {LmHead} /\ n.heap = a.heap \ {LmHead} /\ n.trit = TRUE
      /\ n.holds = a.holds /\ n.tokens = a.tokens /\ n.vocab = a.vocab /\ n.i2s = a.i2s
      /\ n.loaded = a.loaded /\ n.ok = a.ok /\ n.fails = a.fails /\ n.lost = a.lost /\ n.harm = a.harm
  BY <1>3 DEF AllocGood, IsModel, Fields
<1> HIDE DEF n, fs
<1>6. /\ a.ptr = m.ptr \cup fs /\ a.heap = m.heap \cup fs
      /\ a.lost = m.lost \cup (fs \cap m.ptr \cap m.heap)
  BY <1>3, <1>4 DEF AllocGood
<1>7. a.lost = m.lost  BY <1>1, <1>6 DEF fs
<1>8. /\ n.ptr = (m.ptr \cup fs) \ {LmHead} /\ n.heap = (m.heap \cup fs) \ {LmHead} /\ n.lost = m.lost
      /\ n.tokens = m.tokens /\ n.vocab = m.vocab /\ n.loaded = m.loaded /\ n.ok = m.ok /\ n.fails = m.fails
      /\ n.harm = m.harm /\ n.holds = m.holds /\ n.i2s = m.i2s
  BY <1>3, <1>5, <1>6, <1>7 DEF AllocGood
<1>9. Vocab \notin fs /\ TokenStrings \notin fs /\ Vocab # LmHead /\ TokenStrings # LmHead /\ LmHead \notin fs
  BY OthersNames DEF fs
<1>10. HeapSound(n, c)
  <2>1. TokenStrings \notin n.ptr /\ n.heap \ {TokenStrings} \subseteq n.ptr
    BY <1>1, <1>8, <1>9 DEF HeapSound
  <2>2. ASSUME c PROVE /\ n.harm = FALSE /\ n.ptr \subseteq n.heap
                       /\ TokenStrings \in n.heap => Vocab \in n.ptr
                       /\ Vocab \in n.ptr => n.vocab = n.tokens
    BY <1>1, <1>8, <1>9, <2>2 DEF HeapSound
  <2>3. QED  BY <1>1, <1>5, <1>8, <2>1, <2>2 DEF HeapSound
<1>11. Needs(n)  BY <1>1, <1>5, <1>8, <1>9 DEF Needs, fs
<1>12. Armed(n)  BY <1>8 DEF Armed
<1>13. QED  BY <1>5, <1>8, <1>10, <1>11, <1>12 DEF Standing, n, a, fs

LEMMA EncodeFailedStands ==
  ASSUME NEW m, NEW c \in BOOLEAN, Standing(m, c), m.loaded, LmHead \in m.ptr,
         NEW fails \in Planes \cup {RowScales, <<0, "row_f">>}
  PROVE  LET n == [m EXCEPT !.ptr = IF fails = <<0, "row_f">> THEN @ \cup {RowScales} ELSE @ \ {fails}]
         IN  /\ Standing(n, c /\ fails # <<0, "row_f">>)
             /\ n.loaded = m.loaded /\ n.holds = m.holds /\ n.i2s = m.i2s
<1> DEFINE ptr == IF fails = <<0, "row_f">> THEN m.ptr \cup {RowScales} ELSE m.ptr \ {fails}
           n == [m EXCEPT !.ptr = ptr]
           d == c /\ fails # <<0, "row_f">>
<1>1. HeapSound(m, c) /\ m.ok = TRUE /\ m.fails = << >> /\ Planes \cap m.ptr = {} /\ RowScales \notin m.heap
      /\ Arrays \ {LmHead} \subseteq m.ptr /\ m.trit \in BOOLEAN
  BY DEF Standing, Armed, Needs
<1>2. IsModel(m)  BY <1>1 DEF HeapSound
<1>3. ~m.trit  BY <1>1, OthersNames DEF Standing, Needs
<1>4. m.ptr \ {RowScales} \subseteq ptr /\ ptr \subseteq m.ptr \cup {RowScales}
      /\ (fails # <<0, "row_f">> => ptr \subseteq m.ptr)
  <2>1. fails # <<0, "row_f">> => fails \in Planes \/ fails = RowScales  OBVIOUS
  <2>2. QED  BY <1>1, <2>1
<1> HIDE DEF ptr
<1>5. /\ IsModel(n) /\ n.ptr = ptr /\ n.heap = m.heap /\ n.trit = m.trit
      /\ n.holds = m.holds /\ n.tokens = m.tokens /\ n.vocab = m.vocab /\ n.i2s = m.i2s
      /\ n.loaded = m.loaded /\ n.ok = m.ok /\ n.fails = m.fails /\ n.lost = m.lost /\ n.harm = m.harm
  BY <1>2 DEF IsModel, Fields
<1> HIDE DEF n
<1>6. /\ RowScales \notin Arrays /\ RowScales # Vocab /\ RowScales # TokenStrings /\ RowScales # LmHead
      /\ RowScales \notin Planes
  BY OthersNames DEF Planes, RowScales
<1>7. HeapSound(n, d)
  <2>1. TokenStrings \notin n.ptr /\ n.heap \ {TokenStrings} \subseteq n.ptr
    BY <1>1, <1>4, <1>5, <1>6 DEF HeapSound
  <2>2. ASSUME d PROVE /\ n.harm = FALSE /\ n.ptr \subseteq n.heap
                       /\ TokenStrings \in n.heap => Vocab \in n.ptr
                       /\ Vocab \in n.ptr => n.vocab = n.tokens
    BY <1>1, <1>4, <1>5, <1>6, <2>2 DEF HeapSound
  <2>3. QED  BY <1>1, <1>5, <2>1, <2>2 DEF HeapSound
<1>8. Needs(n)  BY <1>1, <1>3, <1>4, <1>5, <1>6 DEF Needs
<1>9. Armed(n)  BY <1>1, <1>4, <1>5, <1>6 DEF Armed
<1>10. Standing(n, d)  BY <1>1, <1>5, <1>7, <1>8, <1>9 DEF Standing
<1>11. QED  BY <1>5, <1>10 DEF n, ptr, d

LEMMA RanksStand ==
  ASSUME NEW m, NEW c \in BOOLEAN, Standing(m, c), m.loaded, Ranks \notin m.ptr
  PROVE  LET n == Alloc(m, {Ranks})
         IN Standing(n, c) /\ n.loaded = m.loaded /\ n.holds = m.holds /\ n.i2s = m.i2s
<1> DEFINE n == Alloc(m, {Ranks})
<1>1. HeapSound(m, c) /\ m.fails = << >>  BY DEF Standing
<1>2. IsModel(m)  BY <1>1 DEF HeapSound
<1>3. AllocGood(m, n, {Ranks})  BY <1>2, AllocIs
<1>4. Ranks \notin Planes /\ Ranks # RowScales /\ Ranks # LmHead /\ Ranks # Vocab /\ Ranks # TokenStrings
      /\ Ranks # << >>
  BY OthersNames
<1> HIDE DEF n
<1>5. /\ n.ptr = m.ptr \cup {Ranks} /\ n.heap = m.heap \cup {Ranks} /\ n.trit = m.trit
      /\ n.holds = m.holds /\ n.i2s = m.i2s /\ n.loaded = m.loaded /\ n.ok = m.ok /\ n.fails = m.fails
      /\ n.tokens = m.tokens /\ n.vocab = m.vocab /\ n.harm = m.harm /\ n.lost = m.lost
  BY <1>1, <1>3, <1>4 DEF AllocGood
<1>6. HeapSound(n, c)
  <2>1. TokenStrings \notin n.ptr /\ n.heap \ {TokenStrings} \subseteq n.ptr  BY <1>1, <1>4, <1>5 DEF HeapSound
  <2>2. ASSUME c PROVE n.ptr \subseteq n.heap /\ (TokenStrings \in n.heap => Vocab \in n.ptr)
                       /\ (Vocab \in n.ptr => n.vocab = n.tokens)
    BY <1>1, <1>4, <1>5, <2>2 DEF HeapSound
  <2>3. IsModel(n)  BY <1>3 DEF AllocGood
  <2>4. QED  BY <1>1, <1>5, <2>1, <2>2, <2>3 DEF HeapSound
<1>7. Needs(n)  BY <1>5 DEF Standing, Needs
<1>8. Armed(n)  BY <1>4, <1>5 DEF Standing, Armed
<1>9. QED  BY <1>5, <1>6, <1>7, <1>8 DEF Standing, n

-----------------------------------------------------------------------------
\* A file of norms puts a norm where an entry of it came whole and fits.
Comes(norms, i, f) ==
  \E j \in 1 .. i : norms[j].field = f /\ norms[j].fits /\ norms[j].what = "whole"
Placing(a, holds, norms, i) ==
  /\ DOMAIN a = {"holds", "end"} /\ a.end \in BOOLEAN
  /\ a.end => i = Len(norms)
  /\ DOMAIN a.holds = DOMAIN holds
  /\ \A f \in DOMAIN holds :
        a.holds[f] = IF f \in NormFields /\ Comes(norms, i, f) THEN "sidecar" ELSE holds[f]

LEMMA NormPlacing ==
  ASSUME NEW norms \in Sidecars, NEW i \in 1 .. Len(norms), NEW holds, NormFields \subseteq DOMAIN holds,
         NEW a, Placing(a, holds, norms, i - 1)
  PROVE  Placing(NormPlaced(a, norms[i]), holds, norms, i)
<1> DEFINE e == norms[i]
           new == NormPlaced(a, e)
<1>0. i \in Nat /\ i - 1 # Len(norms) /\ 1 .. i = (1 .. i - 1) \cup {i}
  <2> DEFINE N == Len(norms)
  <2>1. N \in Nat /\ i \in 1 .. N  BY SidecarsAssumption
  <2> HIDE DEF N
  <2>2. i \in Nat /\ i - 1 # N /\ 1 .. i = (1 .. i - 1) \cup {i}  BY <2>1
  <2>3. QED  BY <2>2 DEF N
<1>1. /\ Len(norms) \in Nat /\ e.fits \in BOOLEAN /\ e.what \in {"whole", "no memory", "cut"}
      /\ e.what = "cut" => i = Len(norms)
  BY SidecarsAssumption
<1>2. a.end = FALSE
  <2>1. a.end \in BOOLEAN /\ (a.end => i - 1 = Len(norms))  BY DEF Placing
  <2>2. QED  BY <1>0, <2>1
<1>3. ASSUME NEW f
      PROVE  Comes(norms, i, f) <=> Comes(norms, i - 1, f) \/ (e.field = f /\ e.fits /\ e.what = "whole")
  BY <1>0 DEF Comes
<1> HIDE DEF e
<1>4. CASE e.what = "cut"
  <2>1. new = [holds |-> a.holds, end |-> TRUE]  BY <1>4 DEF NormPlaced
  <2>2. DOMAIN new = {"holds", "end"} /\ new.end = TRUE /\ new.holds = a.holds  BY <2>1
  <2> HIDE DEF new
  <2>3. \A f : Comes(norms, i, f) <=> Comes(norms, i - 1, f)  BY <1>3, <1>4
  <2>4. QED  BY <1>1, <1>4, <2>2, <2>3 DEF Placing, new, e
<1>5. CASE e.what # "cut" /\ (e.what = "no memory" \/ ~e.fits \/ e.field \notin NormFields)
  <2>1. new = a  BY <1>2, <1>5 DEF NormPlaced
  <2>2. \A f \in NormFields : Comes(norms, i, f) <=> Comes(norms, i - 1, f)
    BY <1>1, <1>3, <1>5
  <2>3. QED  BY <1>2, <2>1, <2>2 DEF Placing, new, e
<1>6. CASE e.what = "whole" /\ e.fits /\ e.field \in NormFields
  <2> DEFINE h == [a.holds EXCEPT ![e.field] = "sidecar"]
  <2>1. new = [holds |-> h, end |-> FALSE]  BY <1>2, <1>6 DEF NormPlaced
  <2>2. DOMAIN new = {"holds", "end"} /\ new.end = FALSE /\ new.holds = h  BY <2>1
  <2>3. DOMAIN a.holds = DOMAIN holds  BY DEF Placing
  <2>4. DOMAIN h = DOMAIN holds  BY <2>3
  <2>5. ASSUME NEW f \in DOMAIN holds
        PROVE  h[f] = IF f \in NormFields /\ Comes(norms, i, f) THEN "sidecar" ELSE holds[f]
    <3>1. CASE f = e.field  BY <1>3, <1>6, <2>3, <3>1
    <3>2. CASE f # e.field
      <4>1. h[f] = a.holds[f]  BY <3>2, <2>3
      <4>2. Comes(norms, i, f) <=> Comes(norms, i - 1, f)  BY <1>3, <3>2
      <4>3. QED  BY <4>1, <4>2 DEF Placing
    <3>3. QED  BY <3>1, <3>2
  <2> HIDE DEF new, h
  <2>6. Placing(new, holds, norms, i)  BY <2>2, <2>4, <2>5 DEF Placing
  <2>7. QED  BY <2>6 DEF new, e
<1>7. QED  BY <1>1, <1>4, <1>5, <1>6

LEMMA NormsPlaced ==
  ASSUME NEW norms \in Sidecars, NEW holds, NormFields \subseteq DOMAIN holds
  PROVE  Placing(PlacedStates(holds, norms)[Len(norms)], holds, norms, Len(norms))
<1> DEFINE A == PlacedStates(holds, norms)
           N == Len(norms)
           Upto(i) == Placing(A[i], holds, norms, i)
           Bad == {i \in 0 .. N : ~ Upto(i)}
<1>0. N \in Nat  BY SidecarsAssumption
<1>1. InPlacing(A, holds, norms)  BY <1>0, PlacedStatesAre
<1> HIDE DEF A
<1>2. A[0] = [holds |-> holds, end |-> FALSE] /\ \A n \in 1 .. N : A[n] = NormPlaced(A[n - 1], norms[n])
  BY <1>1 DEF InPlacing
<1>3. Upto(0)
  <2>1. \A f : ~ Comes(norms, 0, f)  BY DEF Comes
  <2>2. DOMAIN A[0] = {"holds", "end"} /\ A[0].end = FALSE /\ A[0].holds = holds  BY <1>2
  <2>3. QED  BY <2>1, <2>2 DEF Placing
<1>4. ASSUME NEW i \in 1 .. N, Upto(i - 1) PROVE Upto(i)
  <2>1. Placing(NormPlaced(A[i - 1], norms[i]), holds, norms, i)  BY <1>4, NormPlacing
  <2>2. QED  BY <1>2, <2>1
<1>5. Upto(N)
  <2> HIDE DEF Upto, N
  <2>1. SUFFICES ASSUME Bad # {} PROVE FALSE  BY <1>0
  <2>2. Bad \subseteq Nat  BY <1>0
  <2>3. PICK i \in Bad : i = 0 \/ (i - 1 \in Nat /\ i - 1 \notin Bad)  BY <2>1, <2>2, FirstOfNat
  <2>4. i # 0  BY <1>3, <2>3
  <2>5. i \in 1 .. N /\ Upto(i - 1)  BY <1>0, <2>3, <2>4
  <2>6. QED  BY <1>4, <2>3, <2>5
<1>6. QED  BY <1>5 DEF A

LEMMA SidecarKept ==
  ASSUME NEW m, NEW g, KeptIn(m, g), NEW norms \in Sidecars,
         NEW n, n.holds = PlacedStates(m.holds, norms)[Len(norms)].holds, n.i2s = m.i2s,
         NEW k, k.file = g.file, k.failing = g.failing,
         k.norms = g.norms \cup {norms[i] : i \in DOMAIN norms}
  PROVE  KeptIn(n, k)
<1>1. NormFields \subseteq DOMAIN m.holds  BY DEF KeptIn
<1> DEFINE a == PlacedStates(m.holds, norms)[Len(norms)]
<1>2. Placing(a, m.holds, norms, Len(norms))  BY <1>1, NormsPlaced
<1>3. n.holds = a.holds  OBVIOUS
<1> HIDE DEF a
<1>4. DOMAIN n.holds = DOMAIN m.holds
      /\ \A f \in DOMAIN m.holds :
            n.holds[f] = IF f \in NormFields /\ Comes(norms, Len(norms), f) THEN "sidecar" ELSE m.holds[f]
  BY <1>2, <1>3 DEF Placing
<1>5. DOMAIN norms = 1 .. Len(norms)  BY SidecarsAssumption
<1>6. \A f : Brought(k, f) <=> Brought(g, f) \/ Comes(norms, Len(norms), f)
  BY <1>5 DEF Brought, Comes
<1>7. \A f \in NormFields :
         f \in DOMAIN n.holds
         /\ n.holds[f] = IF Brought(k, f) THEN "sidecar" ELSE NormOf(k.file, k.failing, f)
  BY <1>4, <1>6 DEF KeptIn
<1>8. ASSUME NEW f \in InLayers(Projs) PROVE WeightIs(n, k.file, f)
  <2>1. WeightIs(m, g.file, f)  BY DEF KeptIn
  <2>2. f \notin NormFields /\ ScaleField(f) \notin NormFields
    BY NormsAreNoWeights, OthersAreNoNorms DEF ScaleField
  <2>3. f \in DOMAIN m.holds /\ ScaleField(f) \in DOMAIN m.holds  BY <2>1 DEF WeightIs, ScaleIs
  <2>4. n.holds[f] = m.holds[f] /\ f \in DOMAIN n.holds  BY <1>4, <2>2, <2>3
  <2>5. n.holds[ScaleField(f)] = m.holds[ScaleField(f)] /\ ScaleField(f) \in DOMAIN n.holds
    BY <1>4, <2>2, <2>3
  <2>6. QED  BY <2>1, <2>4, <2>5 DEF WeightIs, ScaleIs
<1>9. \A f \in {Embedding, LmHead} : f \in DOMAIN n.holds /\ n.holds[f] = EndOf(k.file, f)
  BY <1>4, OthersAreNoNorms DEF KeptIn
<1>10. QED  BY <1>7, <1>8, <1>9 DEF KeptIn

-----------------------------------------------------------------------------
LEMMA GgufReadStands ==
  ASSUME NEW m, NEW c \in BOOLEAN, NEW file \in Files, NEW fails, Blank(m, c, fails)
  PROVE  LET n == GgufRead(m, file)
         IN  /\ Standing(n, c /\ TokensFit(file))
             /\ n.loaded => KeptIn(n, [file |-> file, norms |-> {}, failing |-> fails])
<1> DEFINE n == GgufRead(m, file)
           g == [file |-> file, norms |-> {}, failing |-> fails]
<1>1. AllOrNone(n, c /\ TokensFit(file)) /\ (n.loaded => Content(n, file, fails, All))  BY GgufReadWhole
<1> HIDE DEF n
<1>2. Standing(n, c /\ TokensFit(file))  BY <1>1, WholeStands
<1>3. ASSUME n.loaded PROVE KeptIn(n, g)
  <2>1. Content(n, file, fails, All)  BY <1>1, <1>3
  <2>2. NormFields \subseteq All /\ InLayers(Projs) \subseteq All /\ {Embedding, LmHead} \subseteq All
    BY DEF All
  <2>3. g.file = file /\ g.norms = {} /\ g.failing = fails  OBVIOUS
  <2> HIDE DEF g
  <2>4. \A f : ~ Brought(g, f)  BY <2>3 DEF Brought
  <2>5. \A f \in All : FieldIs(n, file, fails, f)  BY <2>1 DEF Content
  <2>6. /\ \A f \in NormFields : f \in DOMAIN n.holds /\ n.holds[f] = NormOf(file, fails, f)
        /\ \A f \in InLayers(Projs) : WeightIs(n, file, f)
        /\ \A f \in {Embedding, LmHead} : f \in DOMAIN n.holds /\ n.holds[f] = EndOf(file, f)
    BY <2>2, <2>5 DEF FieldIs
  <2>7. QED  BY <2>1, <2>3, <2>4, <2>6 DEF Content, KeptIn
<1>4. QED  BY <1>2, <1>3 DEF n

LEMMA LoaderInit_Inv == LoaderInit => LoaderInv
<1> SUFFICES ASSUME LoaderInit PROVE LoaderInv
  OBVIOUS
<1>1. /\ IsModel(mlt) /\ mlt.ptr = {} /\ mlt.tokens = 0 /\ mlt.vocab = 0 /\ mlt.trit = FALSE
      /\ mlt.loaded = FALSE /\ mlt.ok = TRUE /\ mlt.fails = << >> /\ mlt.heap = {} /\ mlt.lost = {}
      /\ mlt.harm = FALSE
  BY DEF LoaderInit, NoModel, IsModel, Fields
<1>2. tainted = FALSE  BY DEF LoaderInit
<1>3. HeapSound(mlt, ~tainted)
  <2>1. TokenStrings \notin mlt.ptr /\ mlt.heap \ {TokenStrings} \subseteq mlt.ptr /\ mlt.ptr \subseteq mlt.heap
        /\ mlt.lost \subseteq {Ranks} \cup AllScales /\ TokenStrings \notin mlt.heap /\ Vocab \notin mlt.ptr
    BY <1>1
  <2>2. mlt.harm \in BOOLEAN /\ mlt.harm = FALSE  BY <1>1
  <2>3. mlt.tokens \in Nat /\ mlt.vocab \in Nat  BY <1>1
  <2>4. IsModel(mlt)  BY <1>1
  <2>5. HeapSound(mlt, TRUE)  BY <2>1, <2>2, <2>3, <2>4 DEF HeapSound
  <2>6. ~tainted = TRUE  BY <1>2
  <2>7. QED  BY <2>5, <2>6
<1>4. IsGiven(given)  BY DEF LoaderInit, NothingGiven, IsGiven
<1>5. QED  BY <1>1, <1>2, <1>3, <1>4 DEF LoaderInv, Standing, Needs, Armed

LEMMA GgufLoaded ==
  ASSUME LoaderInv, NEW file \in Files, NEW fails, hs_mlt_load_gguf(file, fails)
  PROVE  LoaderInv'
<1> DEFINE m == [hs_mlt_init(hs_mlt_free(mlt)) EXCEPT !.fails = fails]
           g == [file |-> file, norms |-> {}, failing |-> fails]
           spoils == ~file.header \/ (file.header /\ Given(file, "tokens") /\ StringsOf(file) # file.tokens)
<1>1. tainted \in BOOLEAN /\ HeapSound(mlt, ~tainted)  BY DEF LoaderInv, Standing
<1>2. Blank(m, ~tainted, fails)  BY <1>1, FreedIsBlank
<1>3. /\ tainted' = (tainted \/ spoils)
      /\ given' = IF mlt'.loaded THEN g ELSE NothingGiven
      /\ IF file.header THEN mlt' = GgufRead(m, file)
         ELSE \E wild \in BOOLEAN : mlt' = Ready([Failed(m) EXCEPT !.harm = @ \/ wild])
  BY DEF hs_mlt_load_gguf
<1> HIDE DEF m
<1>4. tainted' \in BOOLEAN  BY <1>1, <1>3
<1>5. NothingGiven.file = << >> /\ IsGiven(NothingGiven) /\ IsGiven(g)  BY DEF NothingGiven, IsGiven
<1>6. CASE file.header
  <2> DEFINE d == ~tainted /\ TokensFit(file)
  <2>1. Standing(mlt', d) /\ (mlt'.loaded => KeptIn(mlt', g))  BY <1>1, <1>2, <1>3, <1>6, GgufReadStands
  <2>2. IF d THEN tainted' = FALSE ELSE tainted' = TRUE  BY <1>1, <1>3, <1>6 DEF TokensFit
  <2> HIDE DEF d
  <2>3. Standing(mlt', ~tainted')
    <3>1. CASE d = TRUE
      <4>1. Standing(mlt', TRUE) /\ tainted' = FALSE  BY <2>1, <2>2, <3>1
      <4>2. QED  BY <4>1
    <3>2. CASE d = FALSE
      <4>1. Standing(mlt', FALSE) /\ tainted' = TRUE  BY <2>1, <2>2, <3>2
      <4>2. QED  BY <4>1
    <3>3. d \in BOOLEAN  BY DEF d
    <3>4. QED  BY <3>1, <3>2, <3>3
  <2> HIDE DEF d, g
  <2>4. mlt'.loaded => KeptIn(mlt', given')  BY <1>3, <2>1
  <2>5. IsGiven(given')  BY <1>3, <1>5
  <2>6. QED  BY <1>4, <2>3, <2>4, <2>5 DEF LoaderInv
<1>7. CASE ~file.header
  <2>1. PICK wild \in BOOLEAN : mlt' = Ready([Failed(m) EXCEPT !.harm = @ \/ wild])  BY <1>3, <1>7
  <2> DEFINE f == Failed(m)
             h == [f EXCEPT !.harm = @ \/ wild]
  <2>2. Making(f, FALSE, fails, Arrays) /\ ~f.ok  BY <1>2, FailedIs, SoundLess DEF Blank
  <2> HIDE DEF f
  <2>3. IsModel(f) /\ f.ok = FALSE /\ f.harm \in BOOLEAN  BY <2>2 DEF Making, HeapSound
  <2>4. /\ IsModel(h) /\ h.ptr = f.ptr /\ h.tokens = f.tokens /\ h.vocab = f.vocab /\ h.trit = f.trit
        /\ h.loaded = f.loaded /\ h.ok = f.ok /\ h.fails = f.fails /\ h.heap = f.heap /\ h.lost = f.lost
        /\ h.harm \in BOOLEAN
    BY <2>3 DEF IsModel, Fields
  <2> HIDE DEF h
  <2>5. HeapSound(h, FALSE)  BY <2>2, <2>4 DEF Making, HeapSound
  <2>6. Making(h, FALSE, fails, Arrays)  BY <2>2, <2>4, <2>5 DEF Making
  <2>7. AllOrNone(Ready(h), FALSE) /\ Ready(h).loaded = h.ok  BY <2>6, ReadyWhole
  <2>8. mlt' = Ready(h)  BY <2>1 DEF h, f
  <2>9. Standing(mlt', FALSE) /\ mlt'.loaded = FALSE  BY <2>3, <2>4, <2>7, <2>8, WholeStands
  <2>10. tainted' = TRUE  BY <1>3, <1>7
  <2>11. Standing(mlt', ~tainted')  BY <2>9, <2>10
  <2>12. IsGiven(given')  BY <1>3, <1>5
  <2>13. QED  BY <1>4, <2>9, <2>11, <2>12 DEF LoaderInv
<1>8. file.header \in BOOLEAN  BY FilesAssumption
<1>9. QED  BY <1>6, <1>7, <1>8

LEMMA SidecarLoaded ==
  ASSUME LoaderInv, NEW norms \in Sidecars, hs_mlt_load_norms_sidecar(norms)
  PROVE  LoaderInv'
<1> DEFINE holds == PlacedStates(mlt.holds, norms)[Len(norms)].holds
           more == given.norms \cup {norms[i] : i \in DOMAIN norms}
           g == [given EXCEPT !.norms = more]
<1>1. HeapSound(mlt, ~tainted) /\ Standing(mlt, ~tainted) /\ tainted \in BOOLEAN
  BY DEF LoaderInv, Standing
<1>2. IsModel(mlt)  BY <1>1 DEF HeapSound
<1>3. mlt' = [mlt EXCEPT !.holds = holds] /\ tainted' = tainted /\ given' = g /\ mlt.loaded
  BY DEF hs_mlt_load_norms_sidecar
<1> HIDE DEF holds, more
<1>4. mlt'.holds = holds /\ HeldGood(mlt, mlt', {})  BY <1>2, <1>3 DEF HeldGood, IsModel, Fields
<1>5. HeapSound(mlt', ~tainted)  BY <1>1, <1>4 DEF HeldGood, HeapSound
<1>6. Standing(mlt', ~tainted)  BY <1>1, <1>4, <1>5 DEF HeldGood, Standing, Needs, Armed
<1>7. ASSUME given'.file # << >> PROVE KeptIn(mlt', given')
  <2>2. given'.file = given.file /\ given'.norms = more /\ given'.failing = given.failing
    BY <1>3 DEF LoaderInv, IsGiven
  <2>3. KeptIn(mlt, given)  BY <1>3, <1>7, <2>2 DEF LoaderInv
  <2>4. mlt'.i2s = mlt.i2s  BY <1>4 DEF HeldGood
  <2>5. QED  BY <1>4, <2>2, <2>3, <2>4, SidecarKept DEF holds, more
<1>8. IsGiven(given')  BY <1>3 DEF LoaderInv, IsGiven
<1>9. QED  BY <1>1, <1>3, <1>6, <1>7, <1>8 DEF LoaderInv

\* What the arrays hold is kept by the calls that load nothing.
LEMMA KeptStill ==
  ASSUME NEW m, NEW g, KeptIn(m, g), NEW n, n.holds = m.holds, n.i2s = m.i2s
  PROVE  KeptIn(n, g)
BY DEF KeptIn, WeightIs, ScaleIs

LEMMA OutputEncoded ==
  ASSUME LoaderInv, NEW fails \in Planes \cup {RowScales, <<0, "row_f">>} \cup {Nowhere}, LmHeadEncode(fails)
  PROVE  LoaderInv'
<1> DEFINE d == ~tainted /\ fails # <<0, "row_f">>
<1>1. Standing(mlt, ~tainted) /\ tainted \in BOOLEAN  BY DEF LoaderInv
<1>2. mlt.loaded /\ LmHead \in mlt.ptr /\ given' = given /\ tainted' = (tainted \/ fails = <<0, "row_f">>)
  BY DEF LmHeadEncode
<1>3. ~tainted' = d /\ tainted' \in BOOLEAN  BY <1>1, <1>2
<1>4. Standing(mlt', d) /\ mlt'.loaded = mlt.loaded /\ mlt'.holds = mlt.holds /\ mlt'.i2s = mlt.i2s
  <2>1. CASE fails = Nowhere
    <3>1. d = ~tainted  BY <1>1, <2>1, OthersNames DEF Nowhere
    <3>2. mlt' = [Alloc(mlt, Planes \cup {RowScales}) EXCEPT
                    !.heap = @ \ {LmHead}, !.ptr = @ \ {LmHead}, !.trit = TRUE]
      BY <2>1 DEF LmHeadEncode
    <3>3. QED  BY <1>1, <1>2, <3>1, <3>2, EncodeStands
  <2>2. CASE fails # Nowhere
    <3>1. mlt' = [mlt EXCEPT !.ptr = IF fails = <<0, "row_f">> THEN @ \cup {RowScales} ELSE @ \ {fails}]
      BY <2>2 DEF LmHeadEncode
    <3>2. fails \in Planes \cup {RowScales, <<0, "row_f">>}  BY <2>2
    <3>3. QED  BY <1>1, <1>2, <3>1, <3>2, EncodeFailedStands
  <2>3. QED  BY <2>1, <2>2
<1>5. Standing(mlt', ~tainted')  BY <1>3, <1>4
<1>6. given.file # << >> => KeptIn(mlt', given)  BY <1>2, <1>4, KeptStill DEF LoaderInv
<1>7. QED  BY <1>2, <1>3, <1>5, <1>6 DEF LoaderInv

LEMMA RandomLoaded ==
  ASSUME LoaderInv, NEW fails, hs_mlt_alloc_random(fails)
  PROVE  LoaderInv'
<1> DEFINE m == [hs_mlt_free(mlt) EXCEPT !.fails = fails]
<1>1. tainted \in BOOLEAN /\ HeapSound(mlt, ~tainted)  BY DEF LoaderInv, Standing
<1>2. Blank(m, ~tainted, fails)  BY <1>1, FreedIsBlank
<1>3. mlt' = Random(m) /\ given' = NothingGiven /\ tainted' = tainted
  BY DEF hs_mlt_alloc_random, Random, Ones
<1> HIDE DEF m
<1>4. Standing(mlt', ~tainted)  BY <1>1, <1>2, <1>3, RandomWhole, WholeStands
<1>5. given'.file = << >> /\ IsGiven(given')  BY <1>3 DEF NothingGiven, IsGiven
<1>6. QED  BY <1>1, <1>3, <1>4, <1>5 DEF LoaderInv

LEMMA RanksMade == ASSUME LoaderInv, RanksBuilt PROVE LoaderInv'
<1>1. Standing(mlt, ~tainted) /\ tainted \in BOOLEAN  BY DEF LoaderInv
<1>2. mlt.loaded /\ Ranks \notin mlt.ptr /\ mlt' = Alloc(mlt, {Ranks}) /\ given' = given /\ tainted' = tainted
  BY DEF RanksBuilt
<1>3. Standing(mlt', ~tainted) /\ mlt'.loaded = mlt.loaded /\ mlt'.holds = mlt.holds /\ mlt'.i2s = mlt.i2s
  BY <1>1, <1>2, RanksStand
<1>4. given.file # << >> => KeptIn(mlt', given)  BY <1>2, <1>3, KeptStill DEF LoaderInv
<1>5. QED  BY <1>1, <1>2, <1>3, <1>4 DEF LoaderInv

LEMMA ModelGone == ASSUME LoaderInv, ModelFreed PROVE LoaderInv'
<1>1. tainted \in BOOLEAN /\ HeapSound(mlt, ~tainted)  BY DEF LoaderInv, Standing
<1>2. mlt' = hs_mlt_free(mlt) /\ tainted' = tainted /\ IsGiven(given')
  BY DEF ModelFreed, NothingGiven, IsGiven
<1>3. FreeGood(mlt, mlt')  BY <1>1, <1>2, FreeIs DEF HeapSound
<1>4. HeapSound(mlt', ~tainted) /\ mlt'.ptr = {} /\ mlt'.loaded = FALSE /\ mlt'.trit = FALSE
  BY <1>1, <1>3, FreeSound
<1>5. mlt'.ok = TRUE /\ mlt'.fails = << >>  BY <1>3 DEF FreeGood
<1>6. QED  BY <1>1, <1>2, <1>4, <1>5 DEF LoaderInv, Standing, Needs, Armed

LEMMA LoaderNext_Inv == LoaderInv /\ [LoaderNext]_loaderVars => LoaderInv'
<1> SUFFICES ASSUME LoaderInv, [LoaderNext]_loaderVars PROVE LoaderInv'
  OBVIOUS
<1>1. ASSUME NEW file \in Files, NEW s, hs_mlt_load_gguf(file, s) PROVE LoaderInv'
  BY <1>1, GgufLoaded
<1>2. ASSUME NEW norms \in Sidecars, hs_mlt_load_norms_sidecar(norms) PROVE LoaderInv'
  BY <1>2, SidecarLoaded
<1>3. ASSUME NEW s \in MayFail(Planes \cup {RowScales, <<0, "row_f">>}), LmHeadEncode(s) PROVE LoaderInv'
  <2>1. s \in Planes \cup {RowScales, <<0, "row_f">>} \cup {Nowhere}  BY DEF MayFail
  <2>2. QED  BY <1>3, <2>1, OutputEncoded
<1>4. ASSUME NEW s, hs_mlt_alloc_random(s) PROVE LoaderInv'
  BY <1>4, RandomLoaded
<1>5. CASE RanksBuilt  BY <1>5, RanksMade
<1>6. CASE ModelFreed  BY <1>6, ModelGone
<1>7. CASE UNCHANGED loaderVars
  <2>1. mlt' = mlt /\ given' = given /\ tainted' = tainted  BY <1>7 DEF loaderVars
  <2>2. QED  BY <2>1 DEF LoaderInv, KeptIn, Brought
<1>8. QED  BY <1>1, <1>2, <1>3, <1>4, <1>5, <1>6, <1>7 DEF LoaderNext

LEMMA LoaderInvSays == LoaderInv => LoadIsWhole
<1> SUFFICES ASSUME LoaderInv PROVE LoadIsWhole
  OBVIOUS
<1>1. Standing(mlt, ~tainted) /\ HeapSound(mlt, ~tainted)  BY DEF LoaderInv, Standing
<1>2. ASSUME mlt.loaded PROVE Needed \subseteq mlt.ptr
  <2>1. Arrays \ {LmHead} \subseteq mlt.ptr
        /\ IF mlt.trit THEN Planes \cup {RowScales} \subseteq mlt.ptr ELSE LmHead \in mlt.ptr
    BY <1>1, <1>2 DEF Standing, Needs
  <2>2. Arrays = Unquantized \cup {LayerArray} \cup (InLayers(Norms) \cup AllScales \cup InLayers(Projs)) \cup Scratch
    BY BaseIs DEF Arrays
  <2>3. LmHead # Embedding /\ LmHead # LayerArray /\ LmHead # FinalNorm
    BY DEF LmHead, Embedding, LayerArray, FinalNorm
  <2>4. LmHead \notin Scratch  BY OwnNames DEF Fresh, Unquantized
  <2>5. LmHead \notin InLayers(Norms) \cup AllScales \cup InLayers(Projs)
    BY OthersAreNoNorms DEF NormFields, AllScales, Scales, Scale, LmHead
  <2>6. Scratch \cup {FinalNorm, Embedding, LayerArray} \cup InLayers(Norms) \cup AllScales \cup InLayers(Projs)
        \subseteq mlt.ptr
    BY <2>1, <2>2, <2>3, <2>4, <2>5 DEF Unquantized
  <2>7. QED  BY <2>1, <2>6 DEF Needed, NormFields
<1>3. ASSUME mlt.loaded, given.file # << >> PROVE ModelIsFile
  <2>1. KeptIn(mlt, given)  BY <1>3 DEF LoaderInv
  <2>2. given.file \in Files  BY <2>1 DEF KeptIn
  <2>3. \A f : FromSidecar(f) <=> Brought(given, f)  BY DEF FromSidecar, Brought
  <2>4. ASSUME NEW f \in NormFields
        PROVE  mlt.holds[f] = IF FromSidecar(f) THEN "sidecar"
                              ELSE IF Readable(f) /\ given.failing # Besides(f, "raw") THEN "file" ELSE "one"
    BY <2>1, <2>3 DEF KeptIn, NormOf, Readable
  <2>5. ASSUME NEW f \in InLayers(Projs)
        PROVE  mlt.holds[f] = Tensor(given.file, f).type /\ (mlt.i2s <=> mlt.holds[f] = "I2_S")
    <3>1. WeightIs(mlt, given.file, f)  BY <2>1 DEF KeptIn
    <3>2. CASE ~ mlt.i2s  BY <3>1, <3>2 DEF WeightIs
    <3>3. CASE mlt.i2s
      <4>1. PICK g \in InLayers(Projs) : Tensor(given.file, g).type = "I2_S"  BY <2>1, <3>3 DEF KeptIn
      <4>2. Tensor(given.file, f).type # "F32"  BY <2>2, <4>1, FilesAssumption
      <4>3. QED  BY <3>1, <3>3, <4>2 DEF WeightIs
    <3>4. QED  BY <3>2, <3>3
  <2>6. mlt.holds[Embedding] = "file" /\ mlt.holds[LmHead] = IF HeadInFile THEN "file" ELSE "embedding"
    BY <2>1, OthersAreNoNorms DEF KeptIn, EndOf, OwnHead, HeadInFile
  <2>7. ASSUME NEW l \in 1 .. Depth, NEW p \in Projs, Fitting(Tensor(given.file, Scale(l, p)))
        PROVE  mlt.holds[Scale(l, p)] = ScaleOf(Tensor(given.file, Scale(l, p)))
    <3> DEFINE f == <<l, p>>
               t == Tensor(given.file, Scale(l, p))
               format == Tensor(given.file, f).type
    <3>1. f \in InLayers(Projs) /\ ScaleField(f) = Scale(l, p)  BY WeightName
    <3>2. WeightIs(mlt, given.file, f)  BY <2>1, <3>1 DEF KeptIn
    <3>3. mlt.holds[Scale(l, p)] = ScaleRead(t, format)  BY <3>1, <3>2 DEF WeightIs, ScaleIs
    <3>4. format \in {"I2_S", "F32"} /\ (mlt.i2s <=> format = "I2_S")
      BY <2>5, <3>1, <3>2 DEF WeightIs
    <3>5. t.type = "missing" \/ mlt.i2s \/ t.elems = "rows"  BY <2>7 DEF Fitting
    <3> HIDE DEF t, format
    <3>6. ScaleRead(t, format) = ScaleOf(t)  BY <3>4, <3>5 DEF ScaleRead, ScaleOf
    <3>7. QED  BY <3>3, <3>6 DEF t
  <2>8. QED  BY <2>4, <2>5, <2>6, <2>7 DEF ModelIsFile
<1>4. ~mlt.loaded => mlt.ptr = {}  BY <1>1 DEF Standing
<1>5. ASSUME ~tainted
      PROVE  ~mlt.harm /\ mlt.heap \ {TokenStrings} = mlt.ptr /\ (TokenStrings \in mlt.heap => Vocab \in mlt.ptr)
  BY <1>1, <1>5 DEF HeapSound
<1>6. mlt.lost \subseteq {Ranks} \cup AllScales  BY <1>1 DEF HeapSound
<1>7. QED  BY <1>2, <1>3, <1>4, <1>5, <1>6 DEF LoadIsWhole

\* Whichever allocation of whichever call fails and wherever a file ends, a model that
\* is loaded has every array the decoding needs, with the file's values and those of
\* the side files in them: embedding, head, norms, weights and, where they fit their
\* projection, scales. One that is not has none; nothing is freed twice or kept by nobody
\* but what LoadIsWhole names.
THEOREM LoadedModelIsWhole == LoaderSpec => []LoadIsWhole
<1>1. LoaderInit => LoaderInv  BY LoaderInit_Inv
<1>2. LoaderInv /\ [LoaderNext]_loaderVars => LoaderInv'  BY LoaderNext_Inv
<1>3. LoaderInv => LoadIsWhole  BY LoaderInvSays
<1>4. QED  BY <1>1, <1>2, <1>3, PTL DEF LoaderSpec
=============================================================================
