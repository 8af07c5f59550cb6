------------------------------ MODULE GpuGemm -------------------------------
(* Matrix products on the GPU (hs_ml_gpu_gemm.c). The caller's thread and    *)
(* the GPU share the buffers: a dispatch is queued with what is bound to it  *)
(* at that moment, and reads the uniforms and the input only when the GPU    *)
(* gets to it, while the caller goes on to its next instruction. Only        *)
(* glFinish waits. A call is the list of its instructions, one step each.    *)
(*                                                                           *)
(* An element of a product is the record of what it is made from: the        *)
(* weights and where they begin, the row, the length and the input vector.   *)
EXTENDS Integers, Sequences, FiniteSets

CONSTANTS
    Vectors,    \* inputs callers have
    HiddenSize, KvSize, FfnSize, VocabSize,   \* H, kv, F, V
    Layers,     \* the layers of a model: 0 .. n - 1
    RowsPerWg,  \* rows of a workgroup: WG_SIZE * TILE_N
    SharedInput,\* places of the shaders' shared_input
    BatchLayers,\* MAX_LAYERS of the batch shader
    MaxCalls    \* bound: calls of a program

\* Four weights of a row are packed into a byte.
ASSUME GpuSizes ==
    /\ {HiddenSize, KvSize, FfnSize, VocabSize, RowsPerWg, Layers} \subseteq Nat \ {0}
    /\ {SharedInput, BatchLayers} \subseteq Nat
    /\ HiddenSize % 4 = 0 /\ FfnSize % 4 = 0

VARIABLES
    gpu,        \* [up, dims, input, output, batch: capacities; unified, layer, lmHead: allocated]
    outId,      \* which output buffer there is now: 0, 1, ...
    memory,     \* [input, uniforms, output, batch]: what the shared buffers hold
    bound,      \* [weights, out]: the shader's bindings
    queue,      \* dispatches the GPU has not run
    todo,       \* the instructions left of the call being made
    did,        \* the last call, for the properties
    dest,       \* destination -> what was copied to it by this call
    calls,      \* how many calls have been made
    lmPending   \* lm_head_pending and lm_head_output: None or [of, undisturbed]

gpuVars == <<gpu, outId, memory, bound, queue, todo, did, dest, calls, lmPending>>

Nothing == [nothing |-> TRUE]
Undefined == [undefined |-> TRUE]     \* computed by an access out of bounds
NoCells == <<>>
NoBuffer == -1       \* nothing is bound
Down == [up |-> FALSE, dims |-> FALSE, input |-> 0, output |-> 0, batch |-> 0,
         unified |-> FALSE, layer |-> FALSE, lmHead |-> FALSE]
NoUniforms == [N |-> 0, K |-> 0, w |-> 0, out |-> 0]
NoMemory == [input |-> Nothing, uniforms |-> NoUniforms, output |-> NoCells, batch |-> NoCells]

GpuInit ==
    /\ gpu = Down /\ outId = 0 /\ memory = NoMemory
    /\ bound = [weights |-> Nothing, out |-> NoBuffer]
    /\ queue = <<>> /\ todo = <<>> /\ did = Nothing /\ dest = <<>>
    /\ lmPending = Nothing /\ calls = 0

Element(weights, w, n, k, x) == [weights |-> weights, at |-> w, row |-> n, k |-> k, of |-> x]

At(cells, i) == IF i \in DOMAIN cells THEN cells[i] ELSE Nothing
Cells(cells, first, n) == [i \in 0 .. n - 1 |-> At(cells, first + i)]
Groups(N) == (N + RowsPerWg - 1) \div RowsPerWg
Larger(a, b) == IF a > b THEN a ELSE b

-----------------------------------------------------------------------------
(* The GPU.                                                                  *)

\* Both shaders first copy the input row to shared_input, all K elements of it
\* whether or not there are places for them, and compute from there. Beyond the
\* end of the array nothing says what is written or read: the products may come
\* out whole or not.
RowFits(K) == K <= SharedInput
Outcomes(K) == IF RowFits(K) THEN {TRUE} ELSE BOOLEAN

\* GEMM_SHADER: rows of the product the uniforms describe, as far as the groups
\* of the dispatch reach, from the output offset on. What falls outside of the
\* buffer is dropped, and so is all of it if the buffer is no longer bound.
GemmShader(d, whole) ==
    LET u == memory.uniforms
        rows == {n \in 0 .. u.N - 1 : n < d.groups * RowsPerWg /\ u.out + n < gpu.output}
        old == memory.output
    IN IF d.out # outId THEN old
       ELSE [i \in DOMAIN old \cup {u.out + n : n \in rows} |->
                IF i - u.out \notin rows THEN old[i]
                ELSE IF whole THEN Element(d.weights, u.w, i - u.out, u.K, memory.input)
                ELSE Undefined]

\* GEMM_BATCH_SHADER: group g is layer g, and computes those rows of it only that
\* a single product's group g would.
BatchShader(d, whole) ==
    LET cell(g, n) == IF whole THEN Element(d.weights, d.offsets[g + 1], n, d.K, memory.input)
                      ELSE Undefined
        done == {gn \in (0 .. d.groups - 1) \X (0 .. d.N - 1) : gn[2] \div RowsPerWg = gn[1]}
        index(gn) == gn[1] * d.N + gn[2]
    IN [i \in DOMAIN memory.batch \cup {index(gn) : gn \in done} |->
           IF \E gn \in done : index(gn) = i
           THEN LET gn == CHOOSE x \in done : index(x) = i IN cell(gn[1], gn[2])
           ELSE memory.batch[i]]

DeviceRuns ==
    /\ queue # <<>>
    /\ \/ /\ Head(queue).shader = "gemm"
          /\ \E whole \in Outcomes(memory.uniforms.K) :
                memory' = [memory EXCEPT !.output = GemmShader(Head(queue), whole)]
       \/ /\ Head(queue).shader = "batch"
          /\ \E whole \in Outcomes(Head(queue).K) :
                memory' = [memory EXCEPT !.batch = BatchShader(Head(queue), whole)]
    /\ queue' = Tail(queue)
    /\ UNCHANGED <<gpu, outId, bound, todo, did, dest, calls, lmPending>>

-----------------------------------------------------------------------------
(* The caller's instructions.                                                *)

Input(x) == [do |-> "input", x |-> x]
Uniforms(N, K, w, out) == [do |-> "uniforms", u |-> [N |-> N, K |-> K, w |-> w, out |-> out]]
Bind(weights) == [do |-> "bind", weights |-> weights]
Grow(n) == [do |-> "grow", n |-> n]
GrowBatch(n) == [do |-> "growBatch", n |-> n]
DispatchRows(N) == [do |-> "dispatch", groups |-> Groups(N)]
DispatchBatch(N, K, offsets) == [do |-> "dispatchBatch", N |-> N, K |-> K, offsets |-> offsets]
Finish == [do |-> "finish"]
Copy(to, first, n) == [do |-> "copy", to |-> to, first |-> first, n |-> n]
CopyBatch(to, first, n) == [do |-> "copyBatch", to |-> to, first |-> first, n |-> n]
Pend(x) == [do |-> "pend", x |-> x]
CopyLmHead == [do |-> "copyLmHead"]

Next1Is(kind) == todo # <<>> /\ Head(todo).do = kind
Moves == todo' = Tail(todo)

WriteInput ==
    /\ Next1Is("input") /\ Moves
    /\ memory' = [memory EXCEPT !.input = Head(todo).x]
    /\ UNCHANGED <<gpu, outId, bound, queue, did, dest, calls, lmPending>>

WriteUniforms ==
    /\ Next1Is("uniforms") /\ Moves
    /\ memory' = [memory EXCEPT !.uniforms = Head(todo).u]
    /\ UNCHANGED <<gpu, outId, bound, queue, did, dest, calls, lmPending>>

BindBuffers ==
    /\ Next1Is("bind") /\ Moves
    /\ bound' = [weights |-> Head(todo).weights, out |-> outId]
    /\ UNCHANGED <<gpu, outId, memory, queue, did, dest, calls, lmPending>>

\* An output buffer too small is replaced; deleting it also unbinds it.
GrowOutput ==
    /\ Next1Is("grow") /\ Moves
    /\ IF gpu.output < Head(todo).n
       THEN /\ gpu' = [gpu EXCEPT !.output = Head(todo).n]
            /\ outId' = outId + 1
            /\ memory' = [memory EXCEPT !.output = NoCells]
            /\ bound' = [bound EXCEPT !.out = NoBuffer]
       ELSE UNCHANGED <<gpu, outId, memory, bound>>
    /\ UNCHANGED <<queue, did, dest, calls, lmPending>>

GrowBatchOutput ==
    /\ Next1Is("growBatch") /\ Moves
    /\ IF gpu.batch < Head(todo).n
       THEN /\ gpu' = [gpu EXCEPT !.batch = Head(todo).n]
            /\ memory' = [memory EXCEPT !.batch = NoCells]
       ELSE UNCHANGED <<gpu, memory>>
    /\ UNCHANGED <<outId, bound, queue, did, dest, calls, lmPending>>

DispatchCompute ==
    /\ Next1Is("dispatch") /\ Moves
    /\ queue' = Append(queue, [shader |-> "gemm", weights |-> bound.weights, out |-> bound.out,
                               groups |-> Head(todo).groups])
    /\ UNCHANGED <<gpu, outId, memory, bound, did, dest, calls, lmPending>>

\* Uniform variables, unlike the uniforms buffer, go with the dispatch.
DispatchLayers ==
    /\ Next1Is("dispatchBatch") /\ Moves
    /\ queue' = Append(queue, [shader |-> "batch", weights |-> bound.weights, N |-> Head(todo).N,
                               K |-> Head(todo).K, offsets |-> Head(todo).offsets,
                               groups |-> Len(Head(todo).offsets)])
    /\ UNCHANGED <<gpu, outId, memory, bound, did, dest, calls, lmPending>>

\* Mutant of Finished: does not wait.
FinishedNot == TRUE
Finished == queue = <<>>

glFinish ==
    /\ Next1Is("finish") /\ Moves
    /\ Finished
    /\ UNCHANGED <<gpu, outId, memory, bound, queue, did, dest, calls, lmPending>>

Copies(to, cells) ==
    dest' = [d \in DOMAIN dest \cup {to} |-> IF d = to THEN cells ELSE dest[d]]

CopyOut ==
    /\ Next1Is("copy") /\ Moves
    /\ Copies(Head(todo).to, Cells(memory.output, Head(todo).first, Head(todo).n))
    /\ UNCHANGED <<gpu, outId, memory, bound, queue, did, calls, lmPending>>

CopyBatchOut ==
    /\ Next1Is("copyBatch") /\ Moves
    /\ Copies(Head(todo).to, Cells(memory.batch, Head(todo).first, Head(todo).n))
    /\ UNCHANGED <<gpu, outId, memory, bound, queue, did, calls, lmPending>>

\* The head's product is under way ...
StartLmHead ==
    /\ Next1Is("pend") /\ Moves
    /\ lmPending' = [of |-> Head(todo).x, undisturbed |-> TRUE]
    /\ UNCHANGED <<gpu, outId, memory, bound, queue, did, dest, calls>>

\* ... and is stored: as many elements as the uniforms say by now.
StoreLmHead ==
    /\ Next1Is("copyLmHead") /\ Moves
    /\ Copies("logits", Cells(memory.output, 0, memory.uniforms.N))
    /\ did' = [did EXCEPT !.was = lmPending]
    /\ lmPending' = Nothing
    /\ UNCHANGED <<gpu, outId, memory, bound, queue, calls>>

Executes ==
    \/ WriteInput \/ WriteUniforms \/ BindBuffers \/ GrowOutput \/ GrowBatchOutput
    \/ DispatchCompute \/ DispatchLayers \/ glFinish \/ CopyOut \/ CopyBatchOut
    \/ StartLmHead \/ StoreLmHead

-----------------------------------------------------------------------------
(* The calls.                                                                *)

\* Where the projections of a layer are in its weights, in bytes.
KOffset == (HiddenSize * HiddenSize) \div 4
VOffset == KOffset + (KvSize * HiddenSize) \div 4
OOffset == KOffset + 2 * ((KvSize * HiddenSize) \div 4)
GateOffset == 2 * KOffset + 2 * ((KvSize * HiddenSize) \div 4)
UpOffset == GateOffset + (FfnSize * HiddenSize) \div 4
DownOffset == UpOffset + (FfnSize * HiddenSize) \div 4

\* gpu_gemm_run: copies the output without waiting for it.
gpu_gemm_run(x, w, N, K) ==
    <<Input(x), Uniforms(N, K, w, 0), Bind("unified"), DispatchRows(N), Copy("out", 0, N)>>

\* gpu_gemm_run_batch: projections [w, N, K] of one input, one wait for all; the
\* uniforms are written anew while earlier dispatches may not have read them.
\* The rows of each projection come after those of the ones before it; the
\* array of where they begin has 16 places, as many as the header allows.
FirstOf(projections, i) == Cardinality(UNION {{j} \X (1 .. projections[j].N) : j \in 1 .. i - 1})
gpu_gemm_run_batch(x, weights, projections) ==
    LET count == Len(projections)
        dispatches ==
            [i \in 1 .. 2 * count |->
                LET p == projections[(i + 1) \div 2]
                IN IF i % 2 = 1
                   THEN Uniforms(p.N, p.K, p.w, FirstOf(projections, (i + 1) \div 2))
                   ELSE DispatchRows(p.N)]
        copies == [i \in 1 .. count |-> Copy(i, FirstOf(projections, i), projections[i].N)]
    IN <<Grow(FirstOf(projections, count + 1)), Input(x), Bind(weights)>>
       \o dispatches \o <<Finish>> \o copies

\* gpu_gemm_run_all_layers_q
gpu_gemm_run_all_layers_q(x, offsets, N, K) ==
    <<GrowBatch(Len(offsets) * N), Input(x), Bind("unified"), DispatchBatch(N, K, offsets), Finish>>
    \o [i \in DOMAIN offsets |-> CopyBatch(i, (i - 1) * N, N)]

\* gpu_gemm_run_attn: binds the output before it may replace it, copies the first
\* three projections without waiting, and waits for the last.
gpu_gemm_run_attn(x, y, weights) ==
    LET H == HiddenSize
        kv == KvSize
    IN <<Input(x), Bind(weights), Grow(H + kv + kv),
         Uniforms(H, H, 0, 0), DispatchRows(H),
         Uniforms(kv, H, KOffset, H), DispatchRows(kv),
         Uniforms(kv, H, VOffset, H + kv), DispatchRows(kv),
         Copy("q", 0, H), Copy("k", H, kv), Copy("v", H + kv, kv),
         Input(y), Uniforms(H, H, OOffset, 0), DispatchRows(H), Finish, Copy("o", 0, H)>>

\* gpu_gemm_run_ffn
gpu_gemm_run_ffn(x, y, weights) ==
    LET H == HiddenSize
        F == FfnSize
    IN <<Input(x), Bind(weights), Grow(F + F),
         Uniforms(F, H, GateOffset, 0), DispatchRows(F),
         Uniforms(F, H, UpOffset, F), DispatchRows(F), Finish,
         Copy("gate", 0, F), Copy("up", F, F),
         Input(y), Uniforms(H, F, DownOffset, 0), DispatchRows(H), Finish, Copy("down", 0, H)>>

\* gpu_gemm_wait_lmhead and gpu_gemm_poll_lmhead: both wait.
gpu_gemm_wait_lmhead == IF lmPending = Nothing THEN <<>> ELSE <<Finish, CopyLmHead>>

\* gpu_gemm_run_lmhead and gpu_gemm_run_lmhead_async: store the product under way,
\* then start this one, of the first of the head's planes.
gpu_gemm_run_lmhead(x) ==
    gpu_gemm_wait_lmhead
    \o <<Input(x), Uniforms(VocabSize, HiddenSize, 0, 0), Bind("lmHead"), DispatchRows(VocabSize), Pend(x)>>

\* A call begins: the instructions to run and the record of what was asked.
Begins(instructions, asked) ==
    /\ todo = <<>> /\ gpu.up /\ gpu.dims /\ calls < MaxCalls
    /\ calls' = calls + 1
    /\ todo' = instructions
    /\ did' = asked
    /\ dest' = <<>>
    /\ lmPending' = IF lmPending = Nothing \/ asked.op \in {"lmHead", "wait", "sync"} THEN lmPending
                    ELSE [lmPending EXCEPT !.undisturbed = FALSE]
    /\ UNCHANGED <<gpu, outId, memory, bound, queue>>

Projections == <<[w |-> 0, N |-> HiddenSize, K |-> HiddenSize],
                 [w |-> KOffset, N |-> KvSize, K |-> HiddenSize],
                 [w |-> VOffset, N |-> KvSize, K |-> HiddenSize]>>
AllQ == [l \in 1 .. Layers |-> (l - 1) * DownOffset]

CallRun(x) ==
    /\ gpu.unified
    /\ Begins(gpu_gemm_run(x, UpOffset, FfnSize, HiddenSize), [op |-> "run", x |-> x])
CallBatch(x) ==
    LET weights == IF gpu.unified THEN "unified" ELSE "layer" IN
    /\ gpu.unified \/ gpu.layer
    /\ Begins(gpu_gemm_run_batch(x, weights, Projections),
              [op |-> "batch", x |-> x, weights |-> weights])
CallAllQ(x) ==
    /\ gpu.unified /\ Layers <= BatchLayers
    /\ Begins(gpu_gemm_run_all_layers_q(x, AllQ, FfnSize, HiddenSize), [op |-> "allQ", x |-> x])
CallAttn(x, y) ==
    /\ gpu.layer
    /\ Begins(gpu_gemm_run_attn(x, y, "layer"),
              [op |-> "attn", y |-> y, grown |-> gpu.output < HiddenSize + 2 * KvSize])
CallFfn(x, y) ==
    /\ gpu.layer
    /\ Begins(gpu_gemm_run_ffn(x, y, "layer"),
              [op |-> "ffn", x |-> x, y |-> y, grown |-> gpu.output < 2 * FfnSize])
CallLmHead(x) ==
    /\ gpu.lmHead
    /\ Begins(gpu_gemm_run_lmhead(x), [op |-> "lmHead", x |-> x, was |-> Nothing])
CallWait == lmPending # Nothing /\ Begins(gpu_gemm_wait_lmhead, [op |-> "wait", was |-> Nothing])
CallSync == queue # <<>> /\ Begins(<<Finish>>, [op |-> "sync"])     \* gpu_gemm_sync

\* gpu_gemm_init
CallInit ==
    /\ ~gpu.up /\ todo = <<>>
    /\ gpu' = [gpu EXCEPT !.up = TRUE]
    /\ UNCHANGED <<outId, memory, bound, queue, todo, did, dest, calls, lmPending>>

\* gpu_gemm_set_dims: input and output buffers for the largest projection.
CallSetDims ==
    LET most == Larger(HiddenSize, FfnSize) IN
    /\ gpu.up /\ ~gpu.dims /\ todo = <<>>
    /\ gpu' = [gpu EXCEPT !.dims = TRUE, !.input = Larger(@, most), !.output = Larger(@, most)]
    /\ UNCHANGED <<outId, memory, bound, queue, todo, did, dest, calls, lmPending>>

\* A buffer of weights is allocated. Allocating it again keeps it, or replaces
\* it by one of the same role: what is queued reads the old one to its end.
Allocates(buffer) ==
    /\ gpu.up /\ todo = <<>>
    /\ gpu' = [gpu EXCEPT ![buffer] = TRUE]
    /\ UNCHANGED <<outId, memory, bound, queue, todo, did, dest, calls, lmPending>>
gpu_gemm_alloc_weights == Allocates("layer")
gpu_gemm_alloc_unified_weights == Allocates("unified")
gpu_gemm_alloc_lmhead == Allocates("lmHead")

\* gpu_gemm_shutdown: what is queued or pending is forgotten.
CallShutdown ==
    /\ gpu.up /\ todo = <<>>
    /\ gpu' = Down /\ outId' = 0 /\ memory' = NoMemory
    /\ bound' = [weights |-> Nothing, out |-> NoBuffer]
    /\ queue' = <<>> /\ did' = Nothing /\ dest' = <<>> /\ lmPending' = Nothing
    /\ UNCHANGED <<todo, calls>>

GpuNext ==
    \/ CallInit \/ CallSetDims \/ CallShutdown
    \/ gpu_gemm_alloc_weights \/ gpu_gemm_alloc_unified_weights \/ gpu_gemm_alloc_lmhead
    \/ \E x, y \in Vectors : x # y /\ (CallAttn(x, y) \/ CallFfn(x, y))
    \/ \E x \in Vectors : CallRun(x) \/ CallBatch(x) \/ CallAllQ(x) \/ CallLmHead(x)
    \/ CallWait \/ CallSync
    \/ Executes \/ DeviceRuns

GpuSpec == GpuInit /\ [][GpuNext]_gpuVars

-----------------------------------------------------------------------------
(* What a caller of the GPU may rely on.                                     *)

\* An element is the product's, or what came of a row that did not fit.
Results(weights, w, n, k, x) ==
    {Element(weights, w, n, k, x)} \cup {e \in {Undefined} : ~RowFits(k)}
IsProduct(cells, weights, w, rows, k, x) ==
    \A n \in rows : At(cells, n) \in Results(weights, w, n, k, x)

\* A result copied after a wait, whose uniforms and input nothing has replaced
\* in between, is the product that was asked for, however the GPU and the
\* caller interleave: the last projection of a batch, of the attention and both
\* of the feed-forward network (once its output buffer is large enough), each
\* layer's own rows of the one dispatch for all layers, and the head's product
\* when it is stored, by the wait or by the next head, unless another call came
\* between, and if the output buffer, which the head does not enlarge, has room.
\* Where a row has more elements than the shaders' shared array, which for the
\* down projection is decided by F and for the others by H, nobody knows what the
\* dispatch computed (Undefined); that it has run before the copy still holds.
SettledIsProduct ==
    todo = <<>> /\ did # Nothing =>
        /\ did.op = "batch" =>
             IsProduct(dest[3], did.weights, VOffset, 0 .. KvSize - 1, HiddenSize, did.x)
        /\ did.op = "attn" /\ ~did.grown =>
             IsProduct(dest["o"], "layer", OOffset, 0 .. HiddenSize - 1, HiddenSize, did.y)
        /\ did.op = "ffn" /\ ~did.grown =>
             /\ IsProduct(dest["up"], "layer", UpOffset, 0 .. FfnSize - 1, HiddenSize, did.x)
             /\ IsProduct(dest["down"], "layer", DownOffset, 0 .. HiddenSize - 1, FfnSize, did.y)
        /\ did.op = "allQ" =>
             \A l \in 1 .. Layers :
                IsProduct(dest[l], "unified", AllQ[l],
                          {n \in 0 .. FfnSize - 1 : n \div RowsPerWg = l - 1}, HiddenSize, did.x)
        /\ did.op \in {"lmHead", "wait"} /\ did.was # Nothing =>
             (did.was.undisturbed /\ VocabSize <= gpu.output =>
                IsProduct(dest["logits"], "lmHead", 0, 0 .. VocabSize - 1, HiddenSize, did.was.of))
=============================================================================
