----------------------------- MODULE Inference ------------------------------
(* Token by token inference: decode sessions that keep a key and value cache *)
(* per layer (hs_mlt_session_*, hs_mlt_prefill, hs_mlt_decode), the forward  *)
(* pass that starts from empty caches (hs_mlt_forward), and the older float  *)
(* model with its own cache layout (hs_ml_forward, hs_ml_generate).          *)
(*                                                                           *)
(* Numbers are terms: a hidden state says which layer made it, from which    *)
(* hidden state, attending to which keys and values. A cache is the flat     *)
(* array of the code, in units of one head, so that what a head reads is     *)
(* what the addresses say.                                                   *)
EXTENDS Integers, Sequences

CONSTANTS
    Users,      \* the sessions a program may have
    Models,     \* [layers, heads, kvHeads, context, head, users]; head: how logits are
                \* made ("float": a model of hs_ml.c); users: who opens sessions
    Tokens,     \* the vocabulary
    MaxPrompt,  \* bound: tokens of one prefill or forward call
    Eos,        \* the token that ends a generation: 2
    MaxNew      \* bound: tokens a generation may add

ASSUME ModelsAssumption ==
    \A m \in Models : /\ m.layers \in Nat \ {0} /\ m.context \in Nat \ {0}
                      /\ m.heads \in Nat \ {0} /\ m.kvHeads \in 1 .. m.heads
                      /\ m.head \in {"f16", "trit", "gpu", "float"}
                      /\ m.users \subseteq Users
                      \* Sessions are hs_ml_infer.c's; hs_ml.c has no grouped heads.
                      /\ m.head = "float" => m.users = {} /\ m.kvHeads = m.heads
ASSUME BoundsAssumption == MaxPrompt \in Nat \ {0} /\ MaxNew \in Nat

VARIABLES
    model,      \* the loaded model
    sessions,   \* user -> [ready, hidden, caches, seqLen, coarse]
    pending,    \* the LM head the GPU is busy with: [for, of], or None
    seen,       \* ghost: the tokens a session was given since it was last empty
    answer,     \* what the last call wrote into its caller's logits, with its session or its
                \* tokens, or None
    generation  \* hs_ml_generate in progress: [tokens, prompt, count], or None

inferVars == <<model, sessions, pending, seen, answer, generation>>

None == [none |-> TRUE]
Unset == [unset |-> TRUE]       \* memory nobody has written

-----------------------------------------------------------------------------
(* The key and value cache of a layer.                                       *)

NoCache == [ok |-> FALSE, k |-> <<>>, v |-> <<>>, len |-> 0]

\* hs_kv_cache_init, when both allocations succeed: all zero.
hs_kv_cache_init(context, heads) ==
    LET zero == [i \in 0 .. context * heads - 1 |-> Unset]
    IN [ok |-> TRUE, k |-> zero, v |-> zero, len |-> 0]

\* Mutant of hs_kv_cache_clear: it keeps its length.
hs_kv_cache_clear_short(cache) ==
    [cache EXCEPT !.k = [i \in DOMAIN @ |-> Unset], !.v = [i \in DOMAIN @ |-> Unset]]

\* hs_kv_cache_clear
hs_kv_cache_clear(cache) ==
    [cache EXCEPT !.k = [i \in DOMAIN @ |-> Unset], !.v = [i \in DOMAIN @ |-> Unset], !.len = 0]

\* The keys and values of one position, stored head by head from base.
HeadsStored(array, base, heads, slot(_)) ==
    [i \in DOMAIN array |-> IF i \in base .. base + heads - 1 THEN slot(i - base) ELSE array[i]]

\* The key of head j at a position: rotated by the position (RoPE); the value is not.
KeyOf(x, j, pos) == [key |-> x, head |-> j, pos |-> pos]
ValueOf(x, j) == [value |-> x, head |-> j]

CacheAfter(cache, x, heads) ==
    IF ~cache.ok THEN cache
    ELSE [cache EXCEPT
            !.k = HeadsStored(@, cache.len * heads, heads, LAMBDA j : KeyOf(x, j, cache.len)),
            !.v = HeadsStored(@, cache.len * heads, heads, LAMBDA j : ValueOf(x, j)),
            !.len = @ + 1]

\* The head of keys and values that a query head uses.
KvHead(h, heads, kvHeads) == IF kvHeads < heads THEN (h * kvHeads) \div heads ELSE h

-----------------------------------------------------------------------------
(* One layer (hs_mlt_layer_forward).                                         *)

\* What query head h attends to: the slots at the addresses it computes.
Attended(cache, h, heads, kvHeads) ==
    [t \in 0 .. cache.len - 1 |->
        LET at == t * kvHeads + KvHead(h, heads, kvHeads)
        IN <<cache.k[at], cache.v[at]>>]

\* A layer's hidden state: the query's position, and per head what it attends to
\* (nothing, that is an attention of zero, while the cache is empty).
LayerOut(l, x, pos, attention) == [layer |-> l, of |-> x, at |-> pos, attention |-> attention]

hs_mlt_layer_forward(m, l, x, cache) ==
    LET after == CacheAfter(cache, x, m.kvHeads)
    IN [hidden |-> LayerOut(l, x, cache.len,
                       [h \in 0 .. m.heads - 1 |-> Attended(after, h, m.heads, m.kvHeads)]),
        cache |-> after]

-----------------------------------------------------------------------------
(* One layer of the older float model (hs_ml.c).                             *)

\* hs_ml_layer_forward stores a position's heads together, as above, but reads
\* head h as if its positions followed each other.
MlAttended(cache, h) == [pos \in 0 .. cache.len - 1 |-> <<cache.k[h + pos], cache.v[h + pos]>>]

hs_ml_layer_forward(m, l, x, cache) ==
    LET after == CacheAfter(cache, x, m.heads)
    IN [hidden |-> LayerOut(l, x, cache.len, [h \in 0 .. m.heads - 1 |-> MlAttended(after, h)]),
        cache |-> after]

-----------------------------------------------------------------------------
(* A token, and many, on the state [hidden, caches].                         *)

LayerForward(m, l, x, cache) ==
    IF m.head = "float" THEN hs_ml_layer_forward(m, l, x, cache) ELSE hs_mlt_layer_forward(m, l, x, cache)

LayerStep(m, state, l) ==
    LET out == LayerForward(m, l, state.hidden, state.caches[l])
    IN [hidden |-> out.hidden, caches |-> [state.caches EXCEPT ![l] = out.cache]]

\* session_step: the embedding, then the layers in turn.
TokenStates(m, state, token) ==
    LET after[l \in 0 .. m.layers] ==
            IF l = 0 THEN [hidden |-> [token |-> token], caches |-> state.caches]
            ELSE LayerStep(m, after[l - 1], l)
    IN after
TokenStep(m, state, token) == TokenStates(m, state, token)[m.layers]

\* The loops of hs_mlt_prefill and hs_mlt_forward, and that of hs_ml_forward.
TokensStates(m, state, tokens) ==
    LET after[n \in 0 .. Len(tokens)] ==
            IF n = 0 THEN state ELSE TokenStep(m, after[n - 1], tokens[n])
    IN after
TokensStep(m, state, tokens) == TokensStates(m, state, tokens)[Len(tokens)]

EmptyCaches(m) == [l \in 1 .. m.layers |-> hs_kv_cache_init(m.context, m.kvHeads)]

\* A forward pass begins with caches of its own.
FromNothing(m, tokens) == TokensStep(m, [hidden |-> Unset, caches |-> EmptyCaches(m)], tokens).hidden

-----------------------------------------------------------------------------
(* Sessions.                                                                 *)

NoSession == [ready |-> FALSE, hidden |-> Unset, caches |-> <<>>, seqLen |-> 0, coarse |-> Unset]

InferenceInit ==
    /\ model \in Models
    /\ sessions = [u \in Users |-> NoSession]
    /\ pending = None
    /\ seen = [u \in Users |-> <<>>]
    /\ answer = None
    /\ generation = None

\* The caches of a new session; one whose allocation fails stays absent, and
\* hs_mlt_session_init does not look.
NewCaches == {EmptyCaches(model), [EmptyCaches(model) EXCEPT ![1] = NoCache]}

\* hs_mlt_session_init; malloc leaves the coarse logits unset.
SessionInit(u) ==
    /\ ~sessions[u].ready /\ u \in model.users
    /\ \E caches \in NewCaches :
        sessions' = [sessions EXCEPT ![u] = [NoSession EXCEPT !.ready = TRUE, !.caches = caches]]
    /\ seen' = [seen EXCEPT ![u] = <<>>]
    /\ answer' = None
    /\ UNCHANGED <<model, pending, generation>>

\* hs_mlt_session_free. The GPU is not told: what it is busy with for the session
\* will be stored where the coarse logits were; that write is taken as lost.
SessionFree(u) ==
    /\ sessions[u].ready
    /\ sessions' = [sessions EXCEPT ![u] = NoSession]
    /\ pending' = IF pending # None THEN [pending EXCEPT !.for = IF @ = u THEN Unset ELSE @]
                  ELSE None
    /\ seen' = [seen EXCEPT ![u] = <<>>]
    /\ answer' = None
    /\ UNCHANGED <<model, generation>>

\* hs_mlt_session_reset, which leaves the hidden state; with an absent cache the
\* program ends here, in memset.
SessionReset(u) ==
    /\ sessions[u].ready
    /\ \A l \in DOMAIN sessions[u].caches : sessions[u].caches[l].ok
    /\ sessions' = [sessions EXCEPT ![u].seqLen = 0,
                        ![u].caches = [l \in DOMAIN @ |-> hs_kv_cache_clear(@[l])]]
    /\ seen' = [seen EXCEPT ![u] = <<>>]
    /\ answer' = None
    /\ UNCHANGED <<model, pending, generation>>

\* The session after more tokens. The code does not check them against the
\* context the caches were made for: its callers must.
Fits(u, n) == sessions[u].seqLen + n <= model.context
Fed(session, tokens) ==
    LET after == TokensStep(model, [hidden |-> session.hidden, caches |-> session.caches], tokens)
    IN [session EXCEPT !.hidden = after.hidden, !.caches = after.caches,
                       !.seqLen = @ + Len(tokens)]

Prompts == UNION {[1 .. n -> Tokens] : n \in 1 .. MaxPrompt}

\* hs_mlt_prefill
Prefill(u) ==
    /\ sessions[u].ready
    /\ \E tokens \in Prompts :
        /\ Fits(u, Len(tokens))
        /\ sessions' = [sessions EXCEPT ![u] = Fed(@, tokens)]
        /\ seen' = [seen EXCEPT ![u] = @ \o tokens]
    /\ answer' = None
    /\ UNCHANGED <<model, pending, generation>>

\* session_logits on a session: the plain F16 head, or the head of two stages,
\* whose coarse first stage the CPU computes or the GPU is asked for. The GPU
\* has a result ready only when it is next asked (gpu_gemm_run_lmhead waits for
\* the previous one, which it stores where its caller wanted it): the stages
\* are not of the same hidden state then.
Logits(u, session) ==
    CASE model.head = "f16" ->
            /\ answer' = [session |-> u, coarse |-> session.hidden, fine |-> session.hidden]
            /\ sessions' = [sessions EXCEPT ![u] = session]
            /\ UNCHANGED pending
      [] model.head = "trit" ->
            /\ answer' = [session |-> u, coarse |-> session.hidden, fine |-> session.hidden]
            /\ sessions' = [sessions EXCEPT ![u] = [session EXCEPT !.coarse = session.hidden]]
            /\ UNCHANGED pending
      [] model.head = "gpu" ->
            LET others == [sessions EXCEPT ![u] = session]
                waited == [v \in Users |->
                             IF pending # None /\ pending.for = v
                             THEN [others[v] EXCEPT !.coarse = pending.of] ELSE others[v]]
            IN /\ answer' = [session |-> u, coarse |-> waited[u].coarse, fine |-> session.hidden]
               /\ sessions' = waited
               /\ pending' = [for |-> u, of |-> session.hidden]

\* hs_mlt_session_logits
SessionLogits(u) ==
    /\ sessions[u].ready
    /\ Logits(u, sessions[u])
    /\ UNCHANGED <<model, seen, generation>>

\* hs_mlt_decode
Decode(u) ==
    /\ sessions[u].ready /\ Fits(u, 1)
    /\ \E token \in Tokens :
        /\ Logits(u, Fed(sessions[u], <<token>>))
        /\ seen' = [seen EXCEPT ![u] = Append(@, token)]
    /\ UNCHANGED <<model, generation>>

\* hs_mlt_forward: caches of its own, and always the F16 head.
Forward ==
    /\ model.head # "float"
    /\ \E tokens \in Prompts :
        /\ Len(tokens) <= model.context
        /\ LET x == FromNothing(model, tokens)
           IN answer' = [tokens |-> tokens, coarse |-> x, fine |-> x]
    /\ UNCHANGED <<model, sessions, pending, seen, generation>>

-----------------------------------------------------------------------------
(* Generation by the float model (hs_ml_generate).                           *)

LastOf(tokens) == tokens[Len(tokens)]

\* The prompt's tokens start the output.
GenerateBegin ==
    /\ model.head = "float" /\ generation = None
    /\ \E tokens \in Prompts :
        generation' = [tokens |-> tokens, prompt |-> Len(tokens), count |-> 0]
    /\ answer' = None
    /\ UNCHANGED <<model, sessions, pending, seen>>

\* One more token: a forward pass over everything so far, and a sample of it.
GenerateToken ==
    /\ generation # None /\ generation.count < MaxNew
    /\ Len(generation.tokens) <= model.context
    /\ LastOf(generation.tokens) # Eos \/ generation.count = 0
    /\ \E next \in Tokens :
        generation' = [generation EXCEPT !.tokens = Append(@, next), !.count = @ + 1]
    /\ LET x == FromNothing(model, generation.tokens)
       IN answer' = [tokens |-> generation.tokens, coarse |-> x, fine |-> x]
    /\ UNCHANGED <<model, sessions, pending, seen>>

\* It stops after max_new tokens or an end token.
GenerateEnd ==
    /\ generation # None
    /\ generation.count = MaxNew \/ (generation.count > 0 /\ LastOf(generation.tokens) = Eos)
    /\ generation' = None
    /\ answer' = None
    /\ UNCHANGED <<model, sessions, pending, seen>>

InferenceNext ==
    \/ \E u \in Users : \/ SessionInit(u) \/ SessionFree(u) \/ SessionReset(u)
                        \/ Prefill(u) \/ SessionLogits(u) \/ Decode(u)
    \/ Forward
    \/ GenerateBegin \/ GenerateToken \/ GenerateEnd

InferSpec == InferenceInit /\ [][InferenceNext]_inferVars
=============================================================================
