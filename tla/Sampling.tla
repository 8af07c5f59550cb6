------------------------------ MODULE Sampling ------------------------------
(* From logits to a token: the greedy and the top-k sampler of               *)
(* src/src/hs_ml.c, the greedy one of src/src/hs_ml_infer.c, and the LM head *)
(* of two stages there (session_logits_trit): a coarse logit for every token, *)
(* the candidates with the best of them, and the exact logit for those.      *)
(* Arrays count from 0.                                                      *)
EXTENDS Integers, FiniteSets

CONSTANTS
    CoarseLogits,   \* arrays of coarse logits
    Details,        \* bound: what the last four planes may add, -Details .. Details
    Candidates,     \* LMH_CANDIDATES: 200
    TopKs           \* the k of hs_ml_sample_topk

Count(array) == Cardinality(DOMAIN array)
Low == -1000000     \* -1e30, the logit of a token that is no candidate

ASSUME SamplingAssumption ==
    /\ Candidates \in Nat \ {0} /\ Details \in Nat /\ TopKs \subseteq Nat
    /\ \A c \in CoarseLogits :
          /\ Count(c) \in Nat \ {0} /\ DOMAIN c = 0 .. Count(c) - 1
          /\ \A v \in DOMAIN c : c[v] \in Int /\ c[v] - Details > Low

VARIABLES
    coarse,     \* the coarse logits of the token being made, or NoLogits
    detail,     \* what the last planes add to each
    logits,     \* what session_logits_trit hands out, or NoLogits
    choice      \* the sampler that was asked, with what, and its answer, or NoChoice

sampleVars == <<coarse, detail, logits, choice>>

NoLogits == <<>>
NoChoice == [by |-> "none"]

-----------------------------------------------------------------------------
(* partial_top_c: a heap of the largest logits so far, the smallest on top.  *)

Swapped(heap, p, q) == [heap EXCEPT ![p] = heap[q], ![q] = heap[p]]
\* The smallest of a node and its two children; the node, then the left one, if equal.
Smallest(heap, size, p) ==
    LET l == 2 * p + 1
        r == 2 * p + 2
        m == IF l < size /\ heap[l].val < heap[p].val THEN l ELSE p
    IN IF r < size /\ heap[r].val < heap[m].val THEN r ELSE m

\* A round of the loop that lets the entry at p sink; it goes on until nothing is
\* smaller below, which takes less rounds than there are entries.
Sinking(state, size) ==
    LET m == Smallest(state.heap, size, state.p)
    IN IF m = state.p THEN state ELSE [heap |-> Swapped(state.heap, state.p, m), p |-> m]
SiftStates(heap, size, p) ==
    LET after[n \in 0 .. size] ==
            IF n = 0 THEN [heap |-> heap, p |-> p] ELSE Sinking(after[n - 1], size)
    IN after
SiftDown(heap, size, p) == SiftStates(heap, size, p)[size].heap

HeapifyStates(heap, size) ==
    LET after[j \in 0 .. size \div 2] ==
            IF j = 0 THEN heap ELSE SiftDown(after[j - 1], size, (size \div 2) - j)
    IN after
Heapified(heap, size) == HeapifyStates(heap, size)[size \div 2]

\* Mutant of HeapAfter: the new top stays where it is.
HeapAfterUnsifted(heap, entry, size) ==
    LET n == Count(heap)
        put == [i \in 0 .. n |-> IF i = n THEN entry ELSE heap[i]]
    IN CASE n < size - 1 -> put
         [] n = size - 1 -> Heapified(put, size)
         [] OTHER -> IF entry.val > heap[0].val THEN [heap EXCEPT ![0] = entry] ELSE heap

HeapAfter(heap, entry, size) ==
    LET n == Count(heap)
        put == [i \in 0 .. n |-> IF i = n THEN entry ELSE heap[i]]
    IN CASE n < size - 1 -> put
         [] n = size - 1 -> Heapified(put, size)
         [] OTHER -> IF entry.val > heap[0].val
                     THEN SiftDown([heap EXCEPT ![0] = entry], size, 0) ELSE heap

TopStates(src, size) ==
    LET after[i \in 0 .. Count(src)] ==
            IF i = 0 THEN NoLogits
            ELSE HeapAfter(after[i - 1], [val |-> src[i - 1], idx |-> i - 1], size)
    IN after
partial_top_c(src, size) ==
    LET heap == TopStates(src, size)[Count(src)]
    IN {heap[i].idx : i \in DOMAIN heap}

\* The exact logits of the candidates.
session_logits_trit(c, d) ==
    LET cands == partial_top_c(c, Candidates)
    IN [v \in DOMAIN c |-> IF v \in cands THEN c[v] + d[v] ELSE Low]

-----------------------------------------------------------------------------
(* The samplers.                                                             *)

\* hs_ml_sample_greedy and hs_mlt_sample_greedy: the first of the largest.
BestStates(l) ==
    LET best[i \in 0 .. Count(l) - 1] ==
            IF i = 0 THEN 0 ELSE IF l[i] > l[best[i - 1]] THEN i ELSE best[i - 1]
    IN best
sample_greedy(l) == BestStates(l)[Count(l) - 1]

\* hs_ml_sample_topk: the first k tokens, then each of the others for the
\* smallest of those kept. Any of them may be drawn.
LeastStates(l, kept) ==
    LET least[j \in 0 .. Count(kept) - 1] ==
            IF j = 0 THEN 0 ELSE IF l[kept[j]] < l[kept[least[j - 1]]] THEN j ELSE least[j - 1]
    IN least
LeastKept(l, kept) == LeastStates(l, kept)[Count(kept) - 1]
KeptWith(l, kept, i) ==
    LET m == LeastKept(l, kept) IN IF l[i] > l[kept[m]] THEN [kept EXCEPT ![m] = i] ELSE kept
KeptStates(l, size) ==
    LET kept[n \in 0 .. Count(l) - size] ==
            IF n = 0 THEN [j \in 0 .. size - 1 |-> j] ELSE KeptWith(l, kept[n - 1], size + n - 1)
    IN kept
hs_ml_sample_topk(l, k) ==
    LET size == IF k > Count(l) THEN Count(l) ELSE k
        kept == KeptStates(l, size)[Count(l) - size]
    IN IF k = 0 THEN {0} ELSE {kept[j] : j \in DOMAIN kept}

-----------------------------------------------------------------------------
SamplingInit == coarse = NoLogits /\ detail = NoLogits /\ logits = NoLogits /\ choice = NoChoice

\* The planes' products are made; a vocabulary smaller than the number of
\* candidates would leave candidates unset.
Products4 ==
    /\ coarse = NoLogits
    /\ \E c \in CoarseLogits :
        /\ Count(c) >= Candidates
        /\ coarse' = c
        /\ detail' \in [DOMAIN c -> {-Details, 0, Details}]
    /\ UNCHANGED <<logits, choice>>

\* Both stages of the head.
TwoStages ==
    /\ coarse # NoLogits /\ logits = NoLogits
    /\ logits' = session_logits_trit(coarse, detail)
    /\ UNCHANGED <<coarse, detail, choice>>

SampleGreedy ==
    /\ logits # NoLogits /\ choice = NoChoice
    /\ choice' = [by |-> "greedy", k |-> 1, token |-> sample_greedy(logits)]
    /\ UNCHANGED <<coarse, detail, logits>>

SampleTopK ==
    /\ logits # NoLogits /\ choice = NoChoice
    /\ \E k \in TopKs : \E t \in hs_ml_sample_topk(logits, k) :
        choice' = [by |-> "topk", k |-> k, token |-> t]
    /\ UNCHANGED <<coarse, detail, logits>>

\* The token is used.
NextToken ==
    /\ choice # NoChoice
    /\ coarse' = NoLogits /\ detail' = NoLogits /\ logits' = NoLogits /\ choice' = NoChoice

SamplingNext == Products4 \/ TwoStages \/ SampleGreedy \/ SampleTopK \/ NextToken

SamplingSpec == SamplingInit /\ [][SamplingNext]_sampleVars

-----------------------------------------------------------------------------
(* What a choice of token must be, stated on the exact logits.               *)

Exact(v) == coarse[v] + detail[v]

\* The greedy choice is as good as any token up to what the last planes can say
\* twice, although only the candidates get an exact logit and whatever order the
\* heap met them in; it is the best of the candidates, of which there are as many
\* as there should be.  A top-k choice has fewer than k better ones.
BestIsChosen ==
    /\ logits # NoLogits =>
         Cardinality({v \in DOMAIN logits : logits[v] # Low}) = Candidates
    /\ choice.by = "greedy" =>
         /\ \A v \in DOMAIN coarse : Exact(choice.token) >= Exact(v) - 2 * Details
         /\ \A v \in DOMAIN coarse :
              coarse[v] > coarse[choice.token] => Exact(choice.token) >= Exact(v)
    /\ choice.by = "topk" /\ choice.k > 0 =>
         Cardinality({v \in DOMAIN logits : logits[v] > logits[choice.token]}) < choice.k
=============================================================================
