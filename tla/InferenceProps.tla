--------------------------- MODULE InferenceProps ---------------------------
(* What inference promises: whatever mix of calls fed a session its tokens,  *)
(* its state is that of the plain transformer on those tokens.               *)
EXTENDS Inference

(***************************************************************************)
(* The reference: the hidden states of all positions (from 0) after layer  *)
(* l, by definition.  Every head attends to all positions up to its own,   *)
(* through the key and value head of its group (grouped-query attention):  *)
(* the heads fall in order into groups as equal as can be.                 *)
(***************************************************************************)
Group(m, h) == CHOOSE j \in 0 .. m.kvHeads - 1 :
                  j * m.heads <= h * m.kvHeads /\ h * m.kvHeads < (j + 1) * m.heads

\* Layer l of the position p, on the states of the layer below.
LayerAt(m, l, below, p) ==
    [layer |-> l, of |-> below[p], at |-> p,
     attention |-> [h \in 0 .. m.heads - 1 |-> [t \in 0 .. p |->
        <<[key |-> below[t], head |-> Group(m, h), pos |-> t],
          [value |-> below[t], head |-> Group(m, h)]>>]]]

Hidden(m, tokens) ==
    LET H[l \in 0 .. m.layers] ==
        IF l = 0 THEN [p \in 0 .. Len(tokens) - 1 |-> [token |-> tokens[p + 1]]]
        ELSE LET below == H[l - 1] IN [p \in 0 .. Len(tokens) - 1 |-> LayerAt(m, l, below, p)]
    IN  H
HiddenAt(m, tokens) == Hidden(m, tokens)[m.layers][Len(tokens) - 1]

Whole(u) == \A l \in DOMAIN sessions[u].caches : sessions[u].caches[l].ok

StateIsCurrent ==
    \A u \in Users :
        sessions[u].ready /\ Whole(u) =>
            /\ sessions[u].seqLen = Len(seen[u])
            /\ \A l \in DOMAIN sessions[u].caches : sessions[u].caches[l].len = Len(seen[u])
            /\ seen[u] # <<>> =>
                 sessions[u].hidden = HiddenAt(model, seen[u])

LogitsAreCurrent ==
    /\ answer # None /\ "session" \in DOMAIN answer =>
         LET u == answer.session
         IN Whole(u) /\ seen[u] # <<>> =>
                /\ answer.fine = HiddenAt(model, seen[u])
                /\ model.head # "gpu" => answer.coarse = answer.fine
    /\ answer # None /\ "tokens" \in DOMAIN answer /\ (model.head = "float" => model.heads = 1) =>
         answer.fine = HiddenAt(model, answer.tokens)

\* A session fed by any mix of prefills, decodes, resets and calls of other
\* sessions stands where the transformer stands on its tokens since it was last
\* empty, and every layer's cache is as long as the session
\* (tests/test_ml_session.c: prefill+decode matches hs_mlt_forward).  Logits are
\* made of the tokens they are asked for: those of a session from its present
\* state, both stages of the head where the CPU computes them; those of a forward
\* pass, and of the float model with one head, from the whole sequence.
SessionIsTransformer == StateIsCurrent /\ LogitsAreCurrent

\* In the float model too every head reads its own keys and values, of all
\* positions: the cache is laid out by position, then head ("Allocate: [max_seq,
\* num_kv_heads, head_dim] for both K and V", src/src/hs_ml.c).
HeadsReadTheirOwn ==
    answer # None /\ generation # None =>
        answer.fine = HiddenAt(model, answer.tokens)
=============================================================================
