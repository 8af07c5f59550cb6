------------------------------ MODULE Products ------------------------------
(* A matrix product as the program runs it: a caller picks a kernel, the     *)
(* threaded ones split the columns among workers, each worker stores its     *)
(* part of C row by row, and the caller returns when it has joined them.     *)
(* hs_ml_gemm_ternary_mt, hs_ml_gemm_ternary_omp, hs_ml_ternary_f32_proj,    *)
(* hs_ml_lmhead_stage1 and hs_ml_route_mt decide who computes what; the      *)
(* arithmetic is in TernaryKernels, ProjKernels and BinaryKernels.           *)
EXTENDS ProjKernels, BinaryKernels

CONSTANTS
    Calls,          \* the calls a caller may make: [kernel, M, N, K, threads, in]
    MinColumns,     \* hs_ml_gemm_ternary_mt: below 256 columns one thread
    MinWork,        \* ... and below 1000000 multiplications
    ProjThreshold,  \* hs_ml_ternary_f32_proj: below 512 rows one thread
    Word,           \* that product is a u32: 2^32
    MaxThreads      \* MAX_THREADS and N_THREADS: 4

ASSUME MaxThreadsAssumption == MaxThreads = 4
ASSUME MinColumnsAssumption == MinColumns \in Nat /\ MinColumns >= 4 * MaxThreads
ASSUME ProjThresholdAssumption == ProjThreshold \in Nat
\* What callers pass; an OpenMP team has at most as many threads as the board
\* has cores.
ASSUME CallsAssumption ==
    \A c \in Calls :
        /\ c.M \in Nat /\ c.N \in Nat /\ c.K \in Nat /\ c.threads \in Int
        /\ c.kernel = "gemm_ternary_omp" => c.threads \in 1 .. MaxThreads
ASSUME MinWorkAssumption == MinWork \in Nat /\ Word \in Nat \ {0}

VARIABLES
    phase,      \* "idle", "running" or "returned"
    call,       \* the call being made
    workers,    \* who computes: [first, last, row], the columns first .. last - 1
    C           \* the output: row -> column -> integer

productVars == <<phase, call, workers, C>>

Garbage == 123456789    \* what the caller's buffer holds before a kernel stores
NoCall == [kernel |-> "none"]

-----------------------------------------------------------------------------
(* Who computes which columns: a sequence of [first, last].                  *)

Span(first, last) == [first |-> first, last |-> last]

\* hs_ml_gemm_ternary_mt: multiples of four columns each, the last worker takes
\* what is left (the caller itself computes the last part).
Clamp(threads) == IF threads < 1 THEN 1 ELSE IF threads > MaxThreads THEN MaxThreads ELSE threads
ThreadsFor(M, N, K, threads) ==
    IF N < MinColumns \/ (M * N * K) % Word < MinWork THEN 1 ELSE Clamp(threads)
Base(N, t) == LET base == Floor(N \div t, 4) IN IF base < 4 THEN 4 ELSE base
GemmSpansShort(N, t) == [w \in 1 .. t |-> Span((w - 1) * Base(N, t), w * Base(N, t))]
GemmSpans(N, t) ==
    [w \in 1 .. t |-> Span((w - 1) * Base(N, t), IF w = t THEN N ELSE w * Base(N, t))]

\* hs_ml_ternary_f32_proj and hs_ml_lmhead_stage1: a quarter of the rows each,
\* rounded up; no worker for a part that starts past the end.
Chunk(N) == (N + MaxThreads - 1) \div MaxThreads
ProjSpans(N) ==
    [w \in {t \in 1 .. MaxThreads : (t - 1) * Chunk(N) < N} |->
        Span((w - 1) * Chunk(N), IF w * Chunk(N) > N THEN N ELSE w * Chunk(N))]

\* hs_ml_gemm_ternary_omp: a share rounded up to a multiple of four columns.
OmpChunk(N, nth) == Floor(((N + nth - 1) \div nth) + 3, 4)
OmpSpans(N, nth) ==
    [w \in {t \in 1 .. nth : (t - 1) * OmpChunk(N, nth) < N} |->
        Span((w - 1) * OmpChunk(N, nth),
             IF w * OmpChunk(N, nth) > N THEN N ELSE w * OmpChunk(N, nth))]

Spans(c) ==
    CASE c.kernel = "gemm_ternary_mt" -> GemmSpans(c.N, ThreadsFor(c.M, c.N, c.K, c.threads))
      [] c.kernel = "gemm_ternary_omp" -> OmpSpans(c.N, c.threads)
      [] c.kernel = "f32_proj" -> IF c.N < ProjThreshold THEN <<Span(0, c.N)>> ELSE ProjSpans(c.N)
      [] c.kernel = "lmhead_stage1" -> ProjSpans(c.N)
      [] OTHER -> <<Span(0, c.N)>>

-----------------------------------------------------------------------------
(* What a worker stores into row m.                                          *)

RowOf(c, m, first, last) ==
    LET A == c.in.A     B == c.in.B     N == c.N     K == c.K
        a == IF c.kernel \in {"binary", "binary_portable", "binary_opt", "trit_x_trit"}
             THEN m * Bytes(K) ELSE m * K
    IN CASE c.kernel \in {"gemm_ternary_mt", "gemm_ternary_omp"} ->
                gemm_kernel(A, a, B, K, first, last)
         [] c.kernel = "f32_proj" -> proj_rows(A, a, B, K, first, last)
         [] c.kernel = "lmhead_stage1" -> lmhead_stage1_rows(A, a, B, c.in.scale, K, first, last)
         [] c.kernel = "neon" -> hs_ml_gemm_ternary_neon(A, a, B, N, K)
         [] c.kernel = "int8_fallback" -> hs_ml_gemm_int8_neon_fallback(A, a, B, N, K)
         [] c.kernel = "coproc_gpu" -> TERNARY_GEMM_SHADER(A, a, B, N, K)
         [] c.kernel = "neon_4col" -> hs_ml_gemm_ternary_neon_4col(A, a, B, N, K)
         [] c.kernel = "i2s_proj" -> i2s_proj_neon(A, a, B, N, K)
         [] c.kernel = "i2s_f32_scalar" -> i2s_f32_proj_scalar(A, a, B, N, K)
         [] c.kernel = "i2s_f32_neon" -> i2s_f32_proj_neon(A, a, B, N, K)
         [] c.kernel = "i2s_f32_norm" ->
                hs_ml_ternary_f32_norm_proj(A, a, c.in.norm, c.in.scale, B, N, K)
         [] c.kernel = "binary" -> hs_ml_route_binary(A, a, B, N, K)
         [] c.kernel = "binary_portable" -> hs_ml_route_binary_portable(A, a, B, N, K)
         [] c.kernel = "binary_opt" -> hs_ml_route_binary_opt(A, a, B, N, K)
         [] c.kernel = "trit_x_trit" -> hs_ml_route_ternary_x_ternary(A, a, B, N, K)
         [] c.kernel = "v2" -> hs_ml_gemm_ternary_v2(A, a, B, N, K)
         [] c.kernel = "v3" -> hs_ml_gemm_ternary_v3(A, a, B, N, K)
         [] c.kernel = "v4" -> hs_ml_gemm_ternary_v4(A, a, B, N, K)
         [] c.kernel = "v5" -> hs_ml_gemm_ternary_v5(A, a, B, N, K)
         [] c.kernel = "v6" -> hs_ml_gemm_ternary_v6(A, a, B, N, K)
         [] c.kernel = "v7" -> hs_ml_gemm_ternary_v7(A, a, B, N, K)
         [] c.kernel = "v8" -> hs_ml_gemm_ternary_v8(A, a, B, N, K)
         [] c.kernel = "v9" -> hs_ml_gemm_ternary_v9(A, a, B, N, K)
         [] c.kernel = "v10" -> hs_ml_gemm_ternary_v10(A, a, B, N, K)
         [] c.kernel = "v11" -> hs_ml_gemm_ternary_v11(A, a, B, N, K)
         [] c.kernel = "v12" -> hs_ml_gemm_ternary_v12(A, a, B, N, K)
         [] c.kernel = "v13" -> hs_ml_gemm_ternary_v13(A, a, B, N, K)
         [] c.kernel = "v14" -> hs_ml_gemm_ternary_v14(A, a, B, N, K)
         [] c.kernel = "v15" -> hs_ml_gemm_ternary_v15(A, a, B, N, K)
         [] c.kernel = "v16" -> hs_ml_gemm_ternary_v16(A, a, B, N, K)
         [] c.kernel = "v17" -> hs_ml_gemm_ternary_v17(A, a, B, N, K)
         [] c.kernel = "v18" -> hs_ml_gemm_ternary_v18(A, a, B, N, K)
         [] c.kernel = "v19" -> hs_ml_gemm_ternary_v19(A, a, B, N, K)
         [] c.kernel = "v20" -> hs_ml_gemm_ternary_v20(A, a, B, N, K)
         [] c.kernel = "v21" -> hs_ml_gemm_ternary_v21(A, a, B, N, K)

\* The integer ternary kernels clear C before anything else.
Clears(kernel) ==
    kernel \notin {"f32_proj", "coproc_gpu", "lmhead_stage1", "i2s_proj", "i2s_f32_scalar", "i2s_f32_neon",
                   "i2s_f32_norm", "binary", "binary_portable", "binary_opt", "trit_x_trit"}

\* hs_ml_route_mt: nothing for an empty call, one kernel per format, and zeros
\* for the formats that have none.
RouteKernel(format) ==
    CASE format = "binary" -> "binary_opt"
      [] format = "ternary_2bit" -> "gemm_ternary_mt"
      [] OTHER -> "zero"
\* hs_ml_route_optimal_threads
RouteThreads(format, M, N, K) ==
    IF format = "binary" \/ M * N * K < 3 * MinWork THEN 1 ELSE 3

\* hs_ml_gemm_ternary_optimal_threads
OptimalThreads(M, N, K) ==
    IF N < MinColumns \/ M * N * K < MinWork THEN 1 ELSE IF M * N * K < 10 * MinWork THEN 2 ELSE 3

\* The kernel behind a call: hs_ml_gemm_int8 (built without the dot product
\* instructions), ternary_coproc_batch (the GPU if there is one), hs_ml_route_mt.
CallAs(c, kernel, threads) ==
    [kernel |-> kernel, M |-> c.M, N |-> c.N, K |-> c.K, threads |-> threads, in |-> c.in]
Resolved(c) ==
    IF c.kernel = "int8" THEN CallAs(c, "gemm_ternary_mt", OptimalThreads(c.M, c.N, c.K))
    ELSE IF c.kernel = "coproc" THEN CallAs(c, IF c.in.gpu THEN "coproc_gpu" ELSE "f32_proj", 1)
    ELSE IF c.kernel = "route"
    THEN CallAs(c, RouteKernel(c.in.format), Clamp(RouteThreads(c.in.format, c.M, c.N, c.K)))
    ELSE c

-----------------------------------------------------------------------------
ProductInit ==
    /\ phase = "idle"
    /\ call = NoCall
    /\ workers = <<>>
    /\ C = <<>>

Buffer(c, x) == [m \in 0 .. c.M - 1 |-> [n \in 0 .. c.N - 1 |-> x]]

\* The call is made: the output is cleared and the columns are handed out.
Begin ==
    /\ phase = "idle"
    /\ \E c \in Calls :
        LET r == Resolved(c) IN
        /\ call' = r
        /\ IF (c.kernel = "route" /\ 0 \in {c.M, c.N, c.K}) \/ r.kernel = "zero"
           THEN /\ phase' = "returned"
                /\ workers' = <<>>
                /\ C' = Buffer(c, IF r.kernel = "zero" /\ 0 \notin {c.M, c.N, c.K}
                                  THEN 0 ELSE Garbage)
           ELSE /\ phase' = "running"
                /\ workers' = [w \in DOMAIN Spans(r) |->
                                  [first |-> Spans(r)[w].first, last |-> Spans(r)[w].last, row |-> 0]]
                /\ C' = Buffer(c, IF Clears(r.kernel) THEN 0 ELSE Garbage)

\* A worker stores one row of its columns.
StoreRow(w) ==
    /\ phase = "running"
    /\ workers[w].row < call.M
    /\ LET m     == workers[w].row
           store == RowOf(call, m, workers[w].first, workers[w].last)
       IN C' = [C EXCEPT ![m] = [n \in DOMAIN @ |-> IF n \in DOMAIN store THEN store[n] ELSE @[n]]]
    /\ workers' = [workers EXCEPT ![w].row = @ + 1]
    /\ UNCHANGED <<phase, call>>

\* All workers have been joined.
Return ==
    /\ phase = "running"
    /\ \A w \in DOMAIN workers : workers[w].row = call.M
    /\ phase' = "returned"
    /\ UNCHANGED <<call, workers, C>>

\* The caller has used the output and lets it go.
Release ==
    /\ phase = "returned"
    /\ phase' = "idle"
    /\ call' = NoCall
    /\ workers' = <<>>
    /\ C' = <<>>

ProductNext == Begin \/ (\E w \in DOMAIN workers : StoreRow(w)) \/ Return \/ Release

ProductSpec == ProductInit /\ [][ProductNext]_productVars
=============================================================================
