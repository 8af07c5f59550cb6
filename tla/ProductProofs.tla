--------------------------- MODULE ProductProofs ----------------------------
(***************************************************************************)
(* The products, for every number of columns and threads: the workers      *)
(* share the columns out exactly.  The products on the GPU, for every shape*)
(* and every program of calls: what is copied after a wait is the product  *)
(* that was asked for, where nothing overwrote what it reads.              *)
(***************************************************************************)
EXTENDS ProductProps, GpuGemm, FiniteSetTheorems, SequenceTheorems, TLAPS

-----------------------------------------------------------------------------
(* Products: how the workers share the columns out.                        *)

\* The spans of a split own each of N columns exactly once.
Owns(span, n) == span.first <= n /\ n < span.last
Shares(spans, N) ==
    \A n \in 0 .. N - 1 :
        \E w \in DOMAIN spans :
            Owns(spans[w], n) /\ \A v \in DOMAIN spans \ {w} : ~ Owns(spans[v], n)

\* The multiples of b, at most four of them, cut 0 .. N - 1: below t * b an
\* element lies between two consecutive ones.
LEMMA Rung ==
    ASSUME NEW b \in Nat, NEW n \in Nat, NEW t \in 1 .. 4, n < t * b
    PROVE  \E w \in 1 .. t : (w - 1) * b <= n /\ n < w * b
<1>1. CASE n < b
  <2>1. (1 - 1) * b <= n /\ n < 1 * b
    BY <1>1
  <2> QED BY <2>1
<1>2. CASE b <= n /\ n < 2 * b
  <2>1. (2 - 1) * b <= n /\ n < 2 * b /\ t # 1
    BY <1>2
  <2> QED BY <2>1
<1>3. CASE 2 * b <= n /\ n < 3 * b
  <2>1. (3 - 1) * b <= n /\ n < 3 * b /\ t # 1 /\ t # 2
    BY <1>3
  <2> QED BY <2>1
<1>4. CASE 3 * b <= n
  <2>1. t = 4
    <3>1. t # 1 /\ t # 2 /\ t # 3
      BY <1>4
    <3> QED BY <3>1
  <2>2. (4 - 1) * b <= n /\ n < 4 * b
    BY <1>4, <2>1
  <2> QED BY <2>1, <2>2
<1> QED BY <1>1, <1>2, <1>3, <1>4

\* ... and between two only.
LEMMA OneRung ==
    ASSUME NEW b \in Nat, NEW n \in Nat, NEW w \in 1 .. 4, NEW v \in 1 .. 4, v # w,
           (w - 1) * b <= n, n < w * b
    PROVE  ~ ((v - 1) * b <= n /\ n < v * b)
<1>1. CASE w = 1
  BY <1>1
<1>2. CASE w = 2
  BY <1>2
<1>3. CASE w = 3
  BY <1>3
<1>4. CASE w = 4
  BY <1>4
<1> QED BY <1>1, <1>2, <1>3, <1>4

\* Steps of b up to N, cut off at N.
LEMMA LadderShares ==
    ASSUME NEW N \in Nat, NEW t \in 1 .. 4, NEW b \in Nat, N <= t * b,
           NEW spans,
           DOMAIN spans = {w \in 1 .. t : (w - 1) * b < N},
           \A w \in DOMAIN spans :
               spans[w].first = (w - 1) * b /\ spans[w].last = IF w * b > N THEN N ELSE w * b
    PROVE  Shares(spans, N)
<1> SUFFICES ASSUME NEW n \in 0 .. N - 1
             PROVE  \E w \in DOMAIN spans :
                        Owns(spans[w], n) /\ \A v \in DOMAIN spans \ {w} : ~ Owns(spans[v], n)
  BY DEF Shares
<1>1. n \in Nat /\ n < N /\ n < t * b
  BY Z3
<1>2. PICK w \in 1 .. t : (w - 1) * b <= n /\ n < w * b
  BY <1>1, Rung
<1>3. w \in DOMAIN spans
  BY <1>1, <1>2
<1>4. Owns(spans[w], n)
  BY <1>1, <1>2, <1>3 DEF Owns
<1>5. ASSUME NEW v \in DOMAIN spans \ {w}
      PROVE  ~ Owns(spans[v], n)
  <2>1. v \in 1 .. 4 /\ w \in 1 .. 4 /\ v # w
    OBVIOUS
  <2>2. ~ ((v - 1) * b <= n /\ n < v * b)
    BY <1>1, <1>2, <2>1, OneRung
  <2>3. v * b \in Int
    BY <2>1
  <2> QED BY <2>2, <2>3, <1>1 DEF Owns
<1> QED BY <1>3, <1>4, <1>5

\* hs_ml_gemm_ternary_mt: one worker, or up to four when there are sixteen
\* columns; the last one takes what is left.
LEMMA GemmShares ==
    ASSUME NEW N \in Nat, NEW t \in 1 .. 4, t = 1 \/ N >= 16
    PROVE  Shares(GemmSpans(N, t), N)
<1> DEFINE b == Base(N, t)
           S == GemmSpans(N, t)
<1>1. b \in Nat /\ b >= 4
  <2>1. CASE t = 1
    BY <2>1 DEF Base, Floor
  <2>2. CASE t = 2
    BY <2>2 DEF Base, Floor
  <2>3. CASE t = 3
    BY <2>3 DEF Base, Floor
  <2>4. CASE t = 4
    BY <2>4 DEF Base, Floor
  <2> QED BY <2>1, <2>2, <2>3, <2>4
<1>2. (t - 1) * b <= N
  <2>1. CASE t = 1
    BY <1>1, <2>1
  <2>2. CASE t = 2
    BY <2>2 DEF Base, Floor
  <2>3. CASE t = 3
    BY <2>3 DEF Base, Floor
  <2>4. CASE t = 4
    BY <2>4 DEF Base, Floor
  <2> QED BY <2>1, <2>2, <2>3, <2>4
<1>3. DOMAIN S = 1 .. t
      /\ \A w \in 1 .. t : S[w].first = (w - 1) * b /\ S[w].last = IF w = t THEN N ELSE w * b
  BY DEF GemmSpans, Span
<1> HIDE DEF b, S
<1> SUFFICES ASSUME NEW n \in 0 .. N - 1
             PROVE  \E w \in 1 .. t :
                        Owns(S[w], n) /\ \A v \in (1 .. t) \ {w} : ~ Owns(S[v], n)
  BY <1>3 DEF Shares, S
<1>4. CASE n < (t - 1) * b
  <2>1. t - 1 \in 1 .. 4 /\ n \in Nat
    <3>1. n \in Nat
      OBVIOUS
    <3>2. t # 1
      BY <1>1, <1>4, <3>1
    <3> QED BY <3>1, <3>2
  <2>2. PICK w \in 1 .. (t - 1) : (w - 1) * b <= n /\ n < w * b
    BY <1>1, <1>4, <2>1, Rung
  <2>3. w \in 1 .. t /\ w # t /\ w \in 1 .. 4
    BY <2>1, <2>2
  <2>4. Owns(S[w], n)
    BY <1>3, <2>2, <2>3 DEF Owns
  <2>5. ASSUME NEW v \in (1 .. t) \ {w}
        PROVE  ~ Owns(S[v], n)
    <3>1. CASE v = t
      <4>1. S[v].first = (t - 1) * b /\ (t - 1) * b \in Int
        BY <1>1, <1>3, <3>1
      <4>2. ~ ((t - 1) * b <= n)
        BY <1>4, <2>1, <4>1
      <4> QED BY <4>1, <4>2 DEF Owns
    <3>2. CASE v # t
      <4>1. v \in 1 .. 4 /\ v # w
        OBVIOUS
      <4>2. ~ ((v - 1) * b <= n /\ n < v * b)
        BY <1>1, <2>1, <2>2, <2>3, <4>1, OneRung
      <4> QED BY <1>3, <3>2, <4>2 DEF Owns
    <3> QED BY <3>1, <3>2
  <2> QED BY <2>3, <2>4, <2>5
<1>5. CASE ~ (n < (t - 1) * b)
  <2>1. Owns(S[t], n)
    BY <1>1, <1>3, <1>5 DEF Owns
  <2>2. ASSUME NEW v \in (1 .. t) \ {t}
        PROVE  ~ Owns(S[v], n)
    <3>1. v * b <= (t - 1) * b
      <4>1. CASE t = 1
        BY <4>1
      <4>2. CASE t = 2
        BY <4>2, <1>1
      <4>3. CASE t = 3
        BY <4>3, <1>1
      <4>4. CASE t = 4
        BY <4>4, <1>1
      <4> QED BY <4>1, <4>2, <4>3, <4>4
    <3>2. S[v].last = v * b /\ v * b \in Int /\ (t - 1) * b \in Int
      BY <1>1, <1>3
    <3> QED BY <1>5, <3>1, <3>2 DEF Owns
  <2> QED BY <2>1, <2>2
<1> QED BY <1>4, <1>5

-----------------------------------------------------------------------------
(* Each way of sharing out is such a split, and its bounds are integers.     *)

Bounded(spans) == \A w \in DOMAIN spans : spans[w].first \in Int /\ spans[w].last \in Int

LEMMA WholeShares ==
    ASSUME NEW N \in Nat
    PROVE  Shares(<<Span(0, N)>>, N) /\ Bounded(<<Span(0, N)>>)
<1>1. DOMAIN <<Span(0, N)>> = {1}
  OBVIOUS
<1>2. <<Span(0, N)>>[1].first = 0 /\ <<Span(0, N)>>[1].last = N
  BY DEF Span
<1>3. ASSUME NEW n \in 0 .. N - 1
      PROVE  Owns(<<Span(0, N)>>[1], n)
  BY <1>2 DEF Owns
<1>4. Shares(<<Span(0, N)>>, N)
  BY <1>1, <1>3 DEF Shares
<1>5. Bounded(<<Span(0, N)>>)
  BY <1>1, <1>2 DEF Bounded
<1> QED BY <1>4, <1>5

LEMMA GemmBounded ==
    ASSUME NEW N \in Nat, NEW t \in 1 .. 4
    PROVE  Bounded(GemmSpans(N, t))
<1>1. Base(N, t) \in Int
  <2>1. CASE t = 1
    BY <2>1 DEF Base, Floor
  <2>2. CASE t = 2
    BY <2>2 DEF Base, Floor
  <2>3. CASE t = 3
    BY <2>3 DEF Base, Floor
  <2>4. CASE t = 4
    BY <2>4 DEF Base, Floor
  <2> QED BY <2>1, <2>2, <2>3, <2>4
<1> SUFFICES ASSUME NEW w \in 1 .. t
             PROVE  GemmSpans(N, t)[w].first \in Int /\ GemmSpans(N, t)[w].last \in Int
  BY DEF GemmSpans, Bounded
<1>2. (w - 1) * Base(N, t) \in Int /\ w * Base(N, t) \in Int
  BY <1>1
<1> QED BY <1>2 DEF GemmSpans, Span

\* Steps of b from 0, cut off at N, are a split when t of them reach N.
LEMMA CutShares ==
    ASSUME NEW N \in Nat, NEW t \in 1 .. 4, NEW b \in Nat, N <= t * b, NEW spans,
           spans = [w \in {i \in 1 .. t : (i - 1) * b < N} |->
                       Span((w - 1) * b, IF w * b > N THEN N ELSE w * b)]
    PROVE  Shares(spans, N) /\ Bounded(spans)
<1>1. DOMAIN spans = {w \in 1 .. t : (w - 1) * b < N}
  OBVIOUS
<1>2. \A w \in DOMAIN spans :
          spans[w].first = (w - 1) * b /\ spans[w].last = IF w * b > N THEN N ELSE w * b
  BY DEF Span
<1>3. Shares(spans, N)
  BY <1>1, <1>2, LadderShares
<1>4. ASSUME NEW w \in DOMAIN spans
      PROVE  spans[w].first \in Int /\ spans[w].last \in Int
  <2>1. (w - 1) * b \in Int /\ w * b \in Int
    BY <1>1
  <2> QED BY <1>2, <2>1
<1> QED BY <1>3, <1>4 DEF Bounded

LEMMA ProjShares ==
    ASSUME NEW N \in Nat
    PROVE  Shares(ProjSpans(N), N) /\ Bounded(ProjSpans(N))
<1>1. MaxThreads \in 1 .. 4 /\ Chunk(N) \in Nat /\ N <= MaxThreads * Chunk(N)
  BY MaxThreadsAssumption DEF Chunk
<1>2. ProjSpans(N) = [w \in {i \in 1 .. MaxThreads : (i - 1) * Chunk(N) < N} |->
          Span((w - 1) * Chunk(N), IF w * Chunk(N) > N THEN N ELSE w * Chunk(N))]
  BY DEF ProjSpans
<1> QED BY <1>1, <1>2, CutShares

LEMMA OmpShares ==
    ASSUME NEW N \in Nat, NEW nth \in 1 .. 4
    PROVE  Shares(OmpSpans(N, nth), N) /\ Bounded(OmpSpans(N, nth))
<1>1. OmpChunk(N, nth) \in Nat /\ N <= nth * OmpChunk(N, nth)
  <2>1. CASE nth = 1
    BY <2>1 DEF OmpChunk, Floor
  <2>2. CASE nth = 2
    BY <2>2 DEF OmpChunk, Floor
  <2>3. CASE nth = 3
    BY <2>3 DEF OmpChunk, Floor
  <2>4. CASE nth = 4
    BY <2>4 DEF OmpChunk, Floor
  <2> QED BY <2>1, <2>2, <2>3, <2>4
<1>2. OmpSpans(N, nth) = [w \in {i \in 1 .. nth : (i - 1) * OmpChunk(N, nth) < N} |->
          Span((w - 1) * OmpChunk(N, nth),
               IF w * OmpChunk(N, nth) > N THEN N ELSE w * OmpChunk(N, nth))]
  BY DEF OmpSpans
<1> QED BY <1>1, <1>2, CutShares

LEMMA ThreadsAreFew ==
    ASSUME NEW c, c.N \in Nat, c.threads \in Int
    PROVE  LET t == ThreadsFor(c.M, c.N, c.K, c.threads)
           IN t \in 1 .. 4 /\ (t = 1 \/ c.N >= 16)
BY MaxThreadsAssumption, MinColumnsAssumption DEF ThreadsFor, Clamp

\* Whatever kernel a call names, its columns are shared out.
LEMMA SpansShare ==
    ASSUME NEW c, c.N \in Nat, c.threads \in Int,
           c.kernel = "gemm_ternary_omp" => c.threads \in 1 .. 4
    PROVE  Shares(Spans(c), c.N) /\ Bounded(Spans(c))
<1>1. CASE c.kernel = "gemm_ternary_mt"
  <2>1. Spans(c) = GemmSpans(c.N, ThreadsFor(c.M, c.N, c.K, c.threads))
    BY <1>1 DEF Spans
  <2> QED BY <2>1, ThreadsAreFew, GemmShares, GemmBounded
<1>2. CASE c.kernel = "gemm_ternary_omp"
  <2>1. Spans(c) = OmpSpans(c.N, c.threads)
    BY <1>2 DEF Spans
  <2> QED BY <1>2, <2>1, OmpShares
<1>3. CASE c.kernel = "f32_proj"
  <2>1. Spans(c) = IF c.N < ProjThreshold THEN <<Span(0, c.N)>> ELSE ProjSpans(c.N)
    BY <1>3 DEF Spans
  <2> QED BY <2>1, WholeShares, ProjShares
<1>4. CASE c.kernel = "lmhead_stage1"
  <2>1. Spans(c) = ProjSpans(c.N)
    BY <1>4 DEF Spans
  <2> QED BY <2>1, ProjShares
<1>5. CASE c.kernel \notin {"gemm_ternary_mt", "gemm_ternary_omp", "f32_proj", "lmhead_stage1"}
  <2>1. Spans(c) = <<Span(0, c.N)>>
    BY <1>5 DEF Spans
  <2> QED BY <2>1, WholeShares
<1> QED BY <1>1, <1>2, <1>3, <1>4, <1>5

-----------------------------------------------------------------------------
\* While a product runs, its workers have the spans its call was shared into.
WorkersHaveTheirSpans ==
    phase = "running" =>
        /\ call.N \in Nat
        /\ Shares(Spans(call), call.N)
        /\ workers \in [DOMAIN Spans(call) -> [first : Int, last : Int, row : Int]]
        /\ \A w \in DOMAIN workers : workers[w].first = Spans(call)[w].first
                                     /\ workers[w].last = Spans(call)[w].last

\* What a caller passes resolves to a kernel and a number of threads in range.
LEMMA ResolvedCall ==
    ASSUME NEW c \in Calls
    PROVE  LET r == Resolved(c)
           IN /\ r.N \in Nat /\ r.threads \in Int
              /\ r.kernel = "gemm_ternary_omp" => r.threads \in 1 .. 4
<1>1. c.N \in Nat /\ c.threads \in Int /\ (c.kernel = "gemm_ternary_omp" => c.threads \in 1 .. 4)
  BY CallsAssumption, MaxThreadsAssumption
<1>2. CASE c.kernel \notin {"int8", "coproc", "route"}
  BY <1>1, <1>2 DEF Resolved
<1>3. CASE c.kernel = "int8"
  <2>1. OptimalThreads(c.M, c.N, c.K) \in 1 .. 3
    BY DEF OptimalThreads
  <2>2. Resolved(c) = CallAs(c, "gemm_ternary_mt", OptimalThreads(c.M, c.N, c.K))
    BY <1>3 DEF Resolved
  <2> QED BY <1>1, <2>1, <2>2 DEF CallAs
<1>4. CASE c.kernel = "coproc"
  <2>1. Resolved(c) = CallAs(c, IF c.in.gpu THEN "coproc_gpu" ELSE "f32_proj", 1)
    BY <1>4 DEF Resolved
  <2> QED BY <1>1, <2>1 DEF CallAs
<1>5. CASE c.kernel = "route"
  <2>1. Clamp(RouteThreads(c.in.format, c.M, c.N, c.K)) \in 1 .. 4
    BY MaxThreadsAssumption DEF RouteThreads, Clamp
  <2>2. Resolved(c) = CallAs(c, RouteKernel(c.in.format),
                             Clamp(RouteThreads(c.in.format, c.M, c.N, c.K)))
    BY <1>5 DEF Resolved
  <2> QED BY <1>1, <2>1, <2>2 DEF CallAs
<1> QED BY <1>2, <1>3, <1>4, <1>5

LEMMA SpansStart == ProductInit => WorkersHaveTheirSpans
BY DEF ProductInit, WorkersHaveTheirSpans

LEMMA SpansStay == WorkersHaveTheirSpans /\ [ProductNext]_productVars => WorkersHaveTheirSpans'
<1> SUFFICES ASSUME WorkersHaveTheirSpans, [ProductNext]_productVars
             PROVE  WorkersHaveTheirSpans'
  OBVIOUS
<1>1. CASE Begin
  <2>1. PICK c \in Calls :
            /\ call' = Resolved(c)
            /\ \/ phase' = "returned"
               \/ /\ phase' = "running"
                  /\ workers' = [w \in DOMAIN Spans(Resolved(c)) |->
                         [first |-> Spans(Resolved(c))[w].first,
                          last |-> Spans(Resolved(c))[w].last, row |-> 0]]
    BY <1>1 DEF Begin
  <2>2. CASE phase' = "returned"
    BY <2>2 DEF WorkersHaveTheirSpans
  <2>3. CASE phase' = "running"
    <3>1. workers' = [w \in DOMAIN Spans(call') |->
              [first |-> Spans(call')[w].first, last |-> Spans(call')[w].last, row |-> 0]]
      BY <2>1, <2>3
    <3>2. call'.N \in Nat /\ Shares(Spans(call'), call'.N) /\ Bounded(Spans(call'))
      BY <2>1, ResolvedCall, SpansShare
    <3>3. workers' \in [DOMAIN Spans(call') -> [first : Int, last : Int, row : Int]]
      BY <3>1, <3>2 DEF Bounded
    <3>4. \A w \in DOMAIN workers' : workers'[w].first = Spans(call')[w].first
                                    /\ workers'[w].last = Spans(call')[w].last
      BY <3>1
    <3> QED BY <3>2, <3>3, <3>4 DEF WorkersHaveTheirSpans
  <2> QED BY <2>1, <2>2, <2>3
<1>2. ASSUME NEW w \in DOMAIN workers, StoreRow(w)
      PROVE  WorkersHaveTheirSpans'
  <2>1. phase = "running" /\ phase' = phase /\ call' = call
        /\ workers' = [workers EXCEPT ![w].row = @ + 1]
    BY <1>2 DEF StoreRow
  <2>2. workers \in [DOMAIN Spans(call) -> [first : Int, last : Int, row : Int]]
    BY <2>1 DEF WorkersHaveTheirSpans
  <2>3. workers' \in [DOMAIN Spans(call) -> [first : Int, last : Int, row : Int]]
    BY <2>1, <2>2
  <2>4. \A v \in DOMAIN Spans(call) :
            workers'[v].first = workers[v].first /\ workers'[v].last = workers[v].last
    BY <2>1, <2>2
  <2>5. DOMAIN workers' = DOMAIN Spans(call) /\ DOMAIN workers = DOMAIN Spans(call)
    BY <2>2, <2>3
  <2> QED BY <2>1, <2>3, <2>4, <2>5 DEF WorkersHaveTheirSpans
<1>3. CASE Return
  BY <1>3 DEF Return, WorkersHaveTheirSpans
<1>4. CASE Release
  BY <1>4 DEF Release, WorkersHaveTheirSpans
<1>5. CASE UNCHANGED productVars
  BY <1>5 DEF productVars, WorkersHaveTheirSpans
<1> QED BY <1>1, <1>2, <1>3, <1>4, <1>5 DEF ProductNext

\* Whatever kernel is called, with whatever shape and number of threads, every
\* column of the output has one worker that computes it and no other.
THEOREM OneOwner == ProductSpec => []ColumnsHaveOneOwner
<1>1. WorkersHaveTheirSpans => ColumnsHaveOneOwner
  <2> SUFFICES ASSUME WorkersHaveTheirSpans, phase = "running", NEW n \in 0 .. call.N - 1
               PROVE  \E w \in DOMAIN workers :
                         /\ n \in workers[w].first .. workers[w].last - 1
                         /\ \A v \in DOMAIN workers \ {w} :
                               n \notin workers[v].first .. workers[v].last - 1
    BY DEF ColumnsHaveOneOwner
  <2>1. DOMAIN workers = DOMAIN Spans(call)
        /\ \A w \in DOMAIN workers :
              /\ workers[w].first \in Int /\ workers[w].last \in Int
              /\ workers[w].first = Spans(call)[w].first
              /\ workers[w].last = Spans(call)[w].last
    BY DEF WorkersHaveTheirSpans
  <2>2. PICK w \in DOMAIN workers :
            /\ Owns(Spans(call)[w], n)
            /\ \A v \in DOMAIN workers \ {w} : ~ Owns(Spans(call)[v], n)
    BY <2>1 DEF WorkersHaveTheirSpans, Shares
  <2>3. n \in workers[w].first .. workers[w].last - 1
    BY <2>1, <2>2 DEF Owns, WorkersHaveTheirSpans
  <2>4. ASSUME NEW v \in DOMAIN workers \ {w}
        PROVE  n \notin workers[v].first .. workers[v].last - 1
    BY <2>1, <2>2 DEF Owns, WorkersHaveTheirSpans
  <2> QED BY <2>3, <2>4
<1> QED BY <1>1, SpansStart, SpansStay, PTL DEF ProductSpec

-----------------------------------------------------------------------------
(* The GPU's products: arithmetic of the rows and the groups.              *)

LEMMA DivRem ==
  \A a \in Nat, b \in Nat \ {0} :
    a = b * (a \div b) + (a % b) /\ a % b \in 0 .. b - 1 /\ a \div b \in Nat
OBVIOUS

\* The groups of a dispatch reach every row.
LEMMA GroupsReach == \A N \in Nat : \A n \in 0 .. N - 1 : n < Groups(N) * RowsPerWg
<1> DEFINE R == RowsPerWg
<1>1. R \in Nat \ {0}  BY GpuSizes
<1>2. ASSUME NEW N \in Nat, NEW n \in 0 .. N - 1 PROVE n < Groups(N) * R
  <2> DEFINE a == N + R - 1
             q == a \div R
             r == a % R
  <2>1. a \in Nat /\ q \in Nat  BY <1>1, DivRem
  <2>2. a = R * q + r /\ r \in 0 .. R - 1  BY <1>1, <2>1, DivRem
  <2>3. Groups(N) = q  BY DEF Groups
  <2> HIDE DEF q, r
  <2>4. R * q = q * R  BY <1>1, <2>1
  <2>5. q * R >= N  BY <1>1, <2>1, <2>2, <2>4
  <2>6. QED  BY <1>1, <2>1, <2>3, <2>5
<1>3. QED  BY <1>2

\* Layers of N rows do not overlap.
LEMMA RowOfLayer ==
  ASSUME NEW N \in Nat, NEW g \in Nat, NEW n \in 0 .. N - 1, NEW g2 \in Nat, NEW n2 \in 0 .. N - 1,
         g * N + n = g2 * N + n2
  PROVE  g = g2 /\ n = n2
OBVIOUS

-----------------------------------------------------------------------------
(* Sequences of records of several kinds: a queue, and a call's            *)
(* instructions, of which j - 1 have been run when Left(s, j) are left.    *)

IsSeq(s) == s \in Seq({s[i] : i \in DOMAIN s})
Left(s, j) == SubSeq(s, j, Len(s))

LEMMA SeqIs ==
  ASSUME NEW S, NEW s \in Seq(S)
  PROVE  IsSeq(s)
<1>1. Len(s) \in Nat /\ s \in [1 .. Len(s) -> S]  OBVIOUS
<1>2. s \in [1 .. Len(s) -> {s[i] : i \in DOMAIN s}]  BY <1>1
<1>3. QED  BY <1>1, <1>2 DEF IsSeq

LEMMA FunctionIsSeq ==
  ASSUME NEW n \in Nat, NEW f, DOMAIN f = 1 .. n, f = [i \in 1 .. n |-> f[i]]
  PROVE  IsSeq(f) /\ Len(f) = n
<1> DEFINE S == {f[i] : i \in DOMAIN f}
<1>1. f \in [1 .. n -> S]  OBVIOUS
<1> HIDE DEF S
<1>2. f \in Seq(S) /\ Len(f) = n  BY <1>1
<1>3. QED  BY <1>2 DEF S, IsSeq

LEMMA RestSteps ==
  ASSUME NEW s, IsSeq(s), NEW j \in 1 .. Len(s)
  PROVE  Left(s, j) # <<>> /\ Head(Left(s, j)) = s[j] /\ Tail(Left(s, j)) = Left(s, j + 1)
<1>1. PICK S : S = {s[i] : i \in DOMAIN s} OBVIOUS
<1>2. s \in Seq(S)  BY <1>1 DEF IsSeq
<1>3. Len(s) \in Nat /\ Len(s) \in j .. Len(s) /\ DOMAIN s = 1 .. Len(s) BY <1>2
<1>4. Head(Left(s, j)) = s[j] /\ Tail(Left(s, j)) = Left(s, j + 1)
  BY <1>2, <1>3, HeadTailOfSubSeq DEF Left
<1>5. \A i \in j .. Len(s) : s[i] \in S  BY <1>2, <1>3
<1>6. Len(Left(s, j)) = Len(s) - j + 1  BY <1>2, <1>3, <1>5, SubSeqProperties DEF Left
<1>7. QED  BY <1>3, <1>4, <1>6

LEMMA RestEnds ==
  ASSUME NEW s, IsSeq(s)
  PROVE  Left(s, 1) = s /\ Left(s, Len(s) + 1) = <<>> /\ Len(s) \in Nat
<1>1. PICK S : S = {s[i] : i \in DOMAIN s} OBVIOUS
<1>2. s \in Seq(S)  BY <1>1 DEF IsSeq
<1>3. Len(s) \in Nat /\ Len(s) + 1 \in Int /\ Len(s) < Len(s) + 1 BY <1>2
<1>4. Left(s, 1) = s  BY <1>2, SubSeqFull DEF Left
<1>5. Left(s, Len(s) + 1) = <<>>  BY <1>3, SubSeqEmpty DEF Left
<1>6. QED  BY <1>3, <1>4, <1>5

LEMMA QueueAppends ==
  ASSUME NEW q, NEW d, IsSeq(q)
  PROVE  IsSeq(Append(q, d)) /\ Append(q, d) # <<>> /\ Append(q, d)[Len(Append(q, d))] = d
<1>1. PICK S : S = {q[i] : i \in DOMAIN q} OBVIOUS
<1>2. q \in Seq(S \cup {d})  BY <1>1 DEF IsSeq
<1>3. Append(q, d) \in Seq(S \cup {d})  BY <1>2
<1>4. IsSeq(Append(q, d))  BY <1>3, SeqIs
<1>5. QED  BY <1>2, <1>4

LEMMA QueueTails ==
  ASSUME NEW q, IsSeq(q), q # <<>>
  PROVE  /\ IsSeq(Tail(q))
         /\ IF Tail(q) = <<>> THEN Head(q) = q[Len(q)] ELSE Tail(q)[Len(Tail(q))] = q[Len(q)]
<1>1. PICK S : S = {q[i] : i \in DOMAIN q} OBVIOUS
<1>2. q \in Seq(S)  BY <1>1 DEF IsSeq
<1>3. Tail(q) \in Seq(S) /\ Len(Tail(q)) = Len(q) - 1 /\ Len(q) \in Nat /\ Len(q) > 0 /\ Head(q) = q[1]
  BY <1>2
<1> PICK t : t = Tail(q)  OBVIOUS
<1>8. \A i \in 1 .. Len(t) : t[i] = q[i + 1]  BY <1>2, <1>3, HeadTailProperties
<1>4. IsSeq(Tail(q))  BY <1>3, SeqIs
<1>5. CASE Len(q) = 1
  <2>1. t = <<>>  BY <1>3, <1>5, EmptySeq
  <2>2. QED  BY <1>3, <1>4, <1>5, <2>1
<1>6. CASE Len(q) > 1
  <2>1. Len(t) \in 1 .. Len(t) /\ Len(t) + 1 = Len(q)  BY <1>3, <1>6
  <2>2. t[Len(t)] = q[Len(q)]  BY <1>8, <2>1
  <2>3. t # <<>>  BY <1>1, <1>3, <2>1, EmptySeq, SMTT(30)
  <2>4. QED  BY <1>4, <2>2, <2>3
<1>9. QED  BY <1>3, <1>5, <1>6

-----------------------------------------------------------------------------
(* The invariant.                                                          *)

\* A product on the GPU: the rows of weights, where they go and what they multiply.
RowsOf(weights, w, N, K, out, x) ==
  [weights |-> weights, w |-> w, N |-> N, K |-> K, out |-> out, x |-> x]
Computed(t) ==
  \A n \in 0 .. t.N - 1 : At(memory.output, t.out + n) \in Results(t.weights, t.w, n, t.K, t.x)
Job(t) == [shader |-> "gemm", weights |-> t.weights, out |-> outId, groups |-> Groups(t.N)]
BoundTo(weights) == bound = [weights |-> weights, out |-> outId]
\* What the GPU will read says t; t is the last that is queued, or is computed.
Described(t) ==
  memory.uniforms = [N |-> t.N, K |-> t.K, w |-> t.w, out |-> t.out] /\ memory.input = t.x
Underway(t) == IF queue = <<>> THEN Computed(t) ELSE queue[Len(queue)] = Job(t)
Settled(t) == queue = <<>> /\ Computed(t)
Copied(to, t) ==
  to \in DOMAIN dest /\ IsProduct(dest[to], t.weights, t.w, 0 .. t.N - 1, t.K, t.x)

OutRows(y) == RowsOf("layer", OOffset, HiddenSize, HiddenSize, 0, y)
UpRows(x) == RowsOf("layer", UpOffset, FfnSize, HiddenSize, FfnSize, x)
DownRows(y) == RowsOf("layer", DownOffset, HiddenSize, FfnSize, 0, y)
ThirdRows(weights, x) == RowsOf(weights, VOffset, KvSize, HiddenSize, HiddenSize + KvSize, x)
HeadRows(x) == RowsOf("lmHead", 0, VocabSize, HiddenSize, 0, x)

\* How far each call is, and what holds by then.
AttnStage(x, j) ==
  /\ todo = Left(gpu_gemm_run_attn(x, did.y, "layer"), j)
  /\ ~ did.grown =>
       /\ HiddenSize + KvSize + KvSize <= gpu.output
       /\ j > 2 => BoundTo("layer")
       /\ j > 13 => memory.input = did.y
       /\ j \in 15 .. 16 => Described(OutRows(did.y))
       /\ j = 16 => Underway(OutRows(did.y))
       /\ j = 17 => Settled(OutRows(did.y))
       /\ j = 18 => Copied("o", OutRows(did.y))

FfnStage(j) ==
  /\ todo = Left(gpu_gemm_run_ffn(did.x, did.y, "layer"), j)
  /\ ~ did.grown =>
       /\ FfnSize + FfnSize <= gpu.output
       /\ j > 2 => BoundTo("layer")
       /\ j \in 2 .. 11 => memory.input = did.x
       /\ j \in 7 .. 8 => Described(UpRows(did.x))
       /\ j = 8 => Underway(UpRows(did.x))
       /\ j \in 9 .. 10 => Settled(UpRows(did.x))
       /\ j > 10 => Copied("up", UpRows(did.x))
       /\ j > 11 => memory.input = did.y
       /\ j \in 13 .. 14 => Described(DownRows(did.y))
       /\ j = 14 => Underway(DownRows(did.y))
       /\ j = 15 => Settled(DownRows(did.y))
       /\ j = 16 => Copied("down", DownRows(did.y))

BatchStage(j) ==
  LET t == ThirdRows(did.weights, did.x) IN
  /\ todo = Left(gpu_gemm_run_batch(did.x, did.weights, Projections), j)
  /\ j > 1 => HiddenSize + KvSize + KvSize <= gpu.output
  /\ j > 2 => memory.input = did.x
  /\ j > 3 => BoundTo(did.weights)
  /\ j \in 9 .. 10 => Described(t)
  /\ j = 10 => Underway(t)
  /\ j \in 11 .. 13 => Settled(t)
  /\ j = 14 => Copied(3, t)

\* The rows of layer l that its own group computes.
OwnRows(l) == {n \in 0 .. FfnSize - 1 : n \div RowsPerWg = l - 1}
LayersComputed(x) ==
  \A l \in 1 .. Layers : \A n \in OwnRows(l) :
    At(memory.batch, (l - 1) * FfnSize + n) \in Results("unified", AllQ[l], n, HiddenSize, x)
LayerCopied(cells, l, x) ==
  IsProduct(cells, "unified", AllQ[l], OwnRows(l), HiddenSize, x)
LayersJob == [shader |-> "batch", weights |-> "unified", N |-> FfnSize, K |-> HiddenSize,
              offsets |-> AllQ, groups |-> Layers]
AllQStage(j) ==
  /\ todo = Left(gpu_gemm_run_all_layers_q(did.x, AllQ, FfnSize, HiddenSize), j)
  /\ j > 2 => memory.input = did.x
  /\ j > 3 => BoundTo("unified")
  /\ j = 5 => IF queue = <<>> THEN LayersComputed(did.x) ELSE queue[Len(queue)] = LayersJob
  /\ j > 5 => queue = <<>> /\ LayersComputed(did.x)
  /\ \A l \in 1 .. Layers :
       l < j - 5 => l \in DOMAIN dest /\ LayerCopied(dest[l], l, did.x)

HeadScript(x) ==
  <<Input(x), Uniforms(VocabSize, HiddenSize, 0, 0), Bind("lmHead"), DispatchRows(VocabSize), Pend(x)>>
HeadStage(j) ==
  /\ todo = Left(HeadScript(did.x), j)
  /\ j < 6 => lmPending = Nothing
  /\ j \in 2 .. 5 => memory.input = did.x
  /\ j \in 3 .. 5 => Described(HeadRows(did.x))
  /\ j \in 4 .. 5 => BoundTo("lmHead")
  /\ j = 5 /\ VocabSize <= gpu.output => Underway(HeadRows(did.x))
  /\ j = 6 => lmPending # Nothing

\* The head's product under way is stored before the rest of the call.
StoreStage(rest) ==
  /\ lmPending # Nothing /\ did.was = Nothing
  /\ \/ todo = <<Finish, CopyLmHead>> \o rest
     \/ todo = <<CopyLmHead>> \o rest /\ queue = <<>>

Disturbs == lmPending # Nothing => ~ lmPending.undisturbed
AskedRun == did.op = "run" /\ \E j \in 1 .. 6 : todo = Left(gpu_gemm_run(did.x, UpOffset, FfnSize, HiddenSize), j)
AskedBatch == did.op = "batch" /\ \E j \in 1 .. 14 : BatchStage(j)
AskedAttn == did.op = "attn" /\ \E x \in Vectors, j \in 1 .. 18 : AttnStage(x, j)
AskedFfn == did.op = "ffn" /\ \E j \in 1 .. 16 : FfnStage(j)
AskedAllQ == did.op = "allQ" /\ \E j \in 1 .. 6 + Layers : AllQStage(j)
AskedHead ==
  /\ did.op = "lmHead" /\ did = [op |-> "lmHead", x |-> did.x, was |-> did.was] /\ did.x \in Vectors
  /\ StoreStage(HeadScript(did.x)) \/ \E j \in 1 .. 6 : HeadStage(j)
AskedWait == did.op = "wait" /\ did = [op |-> "wait", was |-> did.was] /\ (StoreStage(<<>>) \/ todo = <<>>)
AskedSync == did.op = "sync" /\ todo \in {<<Finish>>, <<>>}

Asked ==
  \/ did = Nothing /\ todo = <<>>
  \/ Disturbs /\ (AskedRun \/ AskedBatch \/ AskedAttn \/ AskedFfn \/ AskedAllQ)
  \/ AskedHead \/ AskedWait \/ AskedSync

\* The head's product that is under way, unless another call came after it.
Pending ==
  lmPending # Nothing =>
    /\ lmPending \in [of : Vectors, undisturbed : BOOLEAN]
    /\ lmPending.undisturbed =>
         LET t == HeadRows(lmPending.of)
         IN Described(t) /\ (VocabSize <= gpu.output => BoundTo("lmHead") /\ Underway(t))

Stored ==
  did # Nothing /\ did.op \in {"lmHead", "wait"} /\ did.was # Nothing =>
    (did.was.undisturbed /\ VocabSize <= gpu.output => Copied("logits", HeadRows(did.was.of)))

DimsFirst ==
  IF gpu.dims THEN Larger(HiddenSize, FfnSize) <= gpu.output
  ELSE todo = <<>> /\ did = Nothing /\ lmPending = Nothing /\ queue = <<>>

GpuTyped ==
  /\ gpu \in [up : BOOLEAN, dims : BOOLEAN, input : Nat, output : Nat, batch : Nat,
              unified : BOOLEAN, layer : BOOLEAN, lmHead : BOOLEAN]
  /\ outId \in Nat
  /\ memory = [input |-> memory.input, uniforms |-> memory.uniforms,
               output |-> memory.output, batch |-> memory.batch]
  /\ IsSeq(queue)

GInv == GpuTyped /\ Asked /\ Pending /\ Stored /\ DimsFirst

-----------------------------------------------------------------------------
(* What one instruction does.                                              *)

LEMMA ExecutesIts ==
  ASSUME Executes
  PROVE  /\ Head(todo).do = "input" => WriteInput
         /\ Head(todo).do = "uniforms" => WriteUniforms
         /\ Head(todo).do = "bind" => BindBuffers
         /\ Head(todo).do = "grow" => GrowOutput
         /\ Head(todo).do = "growBatch" => GrowBatchOutput
         /\ Head(todo).do = "dispatch" => DispatchCompute
         /\ Head(todo).do = "dispatchBatch" => DispatchLayers
         /\ Head(todo).do = "finish" => glFinish
         /\ Head(todo).do = "copy" => CopyOut
         /\ Head(todo).do = "copyBatch" => CopyBatchOut
         /\ Head(todo).do = "pend" => StartLmHead
         /\ Head(todo).do = "copyLmHead" => StoreLmHead
         /\ todo # <<>> /\ todo' = Tail(todo)
<1>1. Executes => todo # <<>> /\ todo' = Tail(todo)
  BY DEF Executes, Next1Is, Moves, WriteInput, WriteUniforms, BindBuffers, GrowOutput, GrowBatchOutput, DispatchCompute, DispatchLayers, glFinish, CopyOut, CopyBatchOut, StartLmHead, StoreLmHead
<1>2. Head(todo).do = "input" => WriteInput
  BY DEF Executes, Next1Is, WriteUniforms, BindBuffers, GrowOutput, GrowBatchOutput, DispatchCompute, DispatchLayers, glFinish, CopyOut, CopyBatchOut, StartLmHead, StoreLmHead
<1>3. Head(todo).do = "uniforms" => WriteUniforms
  BY DEF Executes, Next1Is, WriteInput, BindBuffers, GrowOutput, GrowBatchOutput, DispatchCompute, DispatchLayers, glFinish, CopyOut, CopyBatchOut, StartLmHead, StoreLmHead
<1>4. Head(todo).do = "bind" => BindBuffers
  BY DEF Executes, Next1Is, WriteInput, WriteUniforms, GrowOutput, GrowBatchOutput, DispatchCompute, DispatchLayers, glFinish, CopyOut, CopyBatchOut, StartLmHead, StoreLmHead
<1>5. Head(todo).do = "grow" => GrowOutput
  BY DEF Executes, Next1Is, WriteInput, WriteUniforms, BindBuffers, GrowBatchOutput, DispatchCompute, DispatchLayers, glFinish, CopyOut, CopyBatchOut, StartLmHead, StoreLmHead
<1>6. Head(todo).do = "growBatch" => GrowBatchOutput
  BY DEF Executes, Next1Is, WriteInput, WriteUniforms, BindBuffers, GrowOutput, DispatchCompute, DispatchLayers, glFinish, CopyOut, CopyBatchOut, StartLmHead, StoreLmHead
<1>7. Head(todo).do = "dispatch" => DispatchCompute
  BY DEF Executes, Next1Is, WriteInput, WriteUniforms, BindBuffers, GrowOutput, GrowBatchOutput, DispatchLayers, glFinish, CopyOut, CopyBatchOut, StartLmHead, StoreLmHead
<1>8. Head(todo).do = "dispatchBatch" => DispatchLayers
  BY DEF Executes, Next1Is, WriteInput, WriteUniforms, BindBuffers, GrowOutput, GrowBatchOutput, DispatchCompute, glFinish, CopyOut, CopyBatchOut, StartLmHead, StoreLmHead
<1>9. Head(todo).do = "finish" => glFinish
  BY DEF Executes, Next1Is, WriteInput, WriteUniforms, BindBuffers, GrowOutput, GrowBatchOutput, DispatchCompute, DispatchLayers, CopyOut, CopyBatchOut, StartLmHead, StoreLmHead
<1>10. Head(todo).do = "copy" => CopyOut
  BY DEF Executes, Next1Is, WriteInput, WriteUniforms, BindBuffers, GrowOutput, GrowBatchOutput, DispatchCompute, DispatchLayers, glFinish, CopyBatchOut, StartLmHead, StoreLmHead
<1>11. Head(todo).do = "copyBatch" => CopyBatchOut
  BY DEF Executes, Next1Is, WriteInput, WriteUniforms, BindBuffers, GrowOutput, GrowBatchOutput, DispatchCompute, DispatchLayers, glFinish, CopyOut, StartLmHead, StoreLmHead
<1>12. Head(todo).do = "pend" => StartLmHead
  BY DEF Executes, Next1Is, WriteInput, WriteUniforms, BindBuffers, GrowOutput, GrowBatchOutput, DispatchCompute, DispatchLayers, glFinish, CopyOut, CopyBatchOut, StoreLmHead
<1>13. Head(todo).do = "copyLmHead" => StoreLmHead
  BY DEF Executes, Next1Is, WriteInput, WriteUniforms, BindBuffers, GrowOutput, GrowBatchOutput, DispatchCompute, DispatchLayers, glFinish, CopyOut, CopyBatchOut, StartLmHead
<1>20. QED  BY <1>1, <1>2, <1>3, <1>4, <1>5, <1>6, <1>7, <1>8, <1>9, <1>10, <1>11, <1>12, <1>13

LEMMA DoInput ==
  ASSUME GpuTyped, Executes, NEW x, Head(todo) = Input(x)
  PROVE  /\ memory' = [input |-> x, uniforms |-> memory.uniforms,
                       output |-> memory.output, batch |-> memory.batch]
         /\ GpuTyped' /\ UNCHANGED <<gpu, outId, bound, queue, did, dest, lmPending>>
<1>1. WriteInput  BY ExecutesIts DEF Input
<1>2. memory' = [memory EXCEPT !.input = x] /\ UNCHANGED <<gpu, outId, bound, queue, did, dest, lmPending>>
  BY <1>1 DEF WriteInput, Input
<1>3. memory' = [input |-> x, uniforms |-> memory.uniforms, output |-> memory.output, batch |-> memory.batch]
  BY <1>2 DEF GpuTyped
<1>4. QED  BY <1>2, <1>3 DEF GpuTyped

LEMMA DoUniforms ==
  ASSUME GpuTyped, Executes, NEW N, NEW K, NEW w, NEW out, Head(todo) = Uniforms(N, K, w, out)
  PROVE  /\ memory' = [input |-> memory.input, uniforms |-> [N |-> N, K |-> K, w |-> w, out |-> out],
                       output |-> memory.output, batch |-> memory.batch]
         /\ GpuTyped' /\ UNCHANGED <<gpu, outId, bound, queue, did, dest, lmPending>>
<1> DEFINE u == [N |-> N, K |-> K, w |-> w, out |-> out]
<1>1. WriteUniforms  BY ExecutesIts DEF Uniforms
<1>2. memory' = [memory EXCEPT !.uniforms = u] /\ UNCHANGED <<gpu, outId, bound, queue, did, dest, lmPending>>
  BY <1>1 DEF WriteUniforms, Uniforms
<1> HIDE DEF u
<1>3. memory' = [input |-> memory.input, uniforms |-> u, output |-> memory.output, batch |-> memory.batch]
  BY <1>2 DEF GpuTyped
<1>4. QED  BY <1>2, <1>3 DEF GpuTyped, u

LEMMA DoBind ==
  ASSUME GpuTyped, Executes, NEW weights, Head(todo) = Bind(weights)
  PROVE  BoundTo(weights)' /\ GpuTyped' /\ UNCHANGED <<gpu, outId, memory, queue, did, dest, lmPending>>
<1>1. BindBuffers  BY ExecutesIts DEF Bind
<1>2. QED  BY <1>1 DEF BindBuffers, Bind, BoundTo, GpuTyped

\* An output buffer large enough is kept; another is as large as it has to be.
LEMMA DoGrow ==
  ASSUME GpuTyped, Executes, NEW n \in Nat, Head(todo) = Grow(n)
  PROVE  /\ gpu' = [up |-> gpu.up, dims |-> gpu.dims, input |-> gpu.input, output |-> gpu'.output,
                    batch |-> gpu.batch, unified |-> gpu.unified, layer |-> gpu.layer, lmHead |-> gpu.lmHead]
         /\ gpu.output <= gpu'.output /\ n <= gpu'.output
         /\ memory'.input = memory.input /\ memory'.uniforms = memory.uniforms
         /\ n <= gpu.output => UNCHANGED <<gpu, outId, memory, bound>>
         /\ GpuTyped' /\ UNCHANGED <<queue, did, dest, lmPending>>
<1>1. GrowOutput  BY ExecutesIts DEF Grow
<1>2. UNCHANGED <<queue, did, dest, lmPending>>  BY <1>1 DEF GrowOutput
<1>3. CASE gpu.output < n
  <2>1. gpu' = [gpu EXCEPT !.output = n] /\ outId' = outId + 1 /\ memory' = [memory EXCEPT !.output = NoCells]
    BY <1>1, <1>3 DEF GrowOutput, Grow
  <2>2. gpu' = [up |-> gpu.up, dims |-> gpu.dims, input |-> gpu.input, output |-> n,
                batch |-> gpu.batch, unified |-> gpu.unified, layer |-> gpu.layer, lmHead |-> gpu.lmHead]
    BY <2>1 DEF GpuTyped
  <2>3. memory' = [input |-> memory.input, uniforms |-> memory.uniforms, output |-> NoCells, batch |-> memory.batch]
    BY <2>1 DEF GpuTyped
  <2>4. outId' \in Nat  BY <2>1 DEF GpuTyped
  <2>5. QED  BY <1>2, <1>3, <2>2, <2>3, <2>4 DEF GpuTyped
<1>4. CASE ~ gpu.output < n
  <2>1. UNCHANGED <<gpu, outId, memory, bound>>  BY <1>1, <1>4 DEF GrowOutput, Grow
  <2>2. gpu = [up |-> gpu.up, dims |-> gpu.dims, input |-> gpu.input, output |-> gpu.output,
               batch |-> gpu.batch, unified |-> gpu.unified, layer |-> gpu.layer, lmHead |-> gpu.lmHead]
    BY DEF GpuTyped
  <2>3. gpu.output \in Nat  BY DEF GpuTyped
  <2>4. QED  BY <1>2, <1>4, <2>1, <2>2, <2>3 DEF GpuTyped
<1>5. QED  BY <1>3, <1>4

LEMMA DoGrowBatch ==
  ASSUME GpuTyped, Executes, Head(todo).do = "growBatch", Head(todo).n \in Nat
  PROVE  /\ gpu' = [up |-> gpu.up, dims |-> gpu.dims, input |-> gpu.input, output |-> gpu.output,
                    batch |-> gpu'.batch, unified |-> gpu.unified, layer |-> gpu.layer, lmHead |-> gpu.lmHead]
         /\ gpu'.dims = gpu.dims /\ gpu'.output = gpu.output /\ memory'.input = memory.input
         /\ GpuTyped' /\ UNCHANGED <<outId, bound, queue, did, dest, lmPending>>
<1> PICK n \in Nat : n = Head(todo).n  OBVIOUS
<1>1. GrowBatchOutput  BY ExecutesIts
<1>2. UNCHANGED <<outId, bound, queue, did, dest, lmPending>>  BY <1>1 DEF GrowBatchOutput
<1>3. CASE gpu.batch < n
  <2>1. gpu' = [gpu EXCEPT !.batch = n] /\ memory' = [memory EXCEPT !.batch = NoCells]
    BY <1>1, <1>3 DEF GrowBatchOutput
  <2>2. gpu' = [up |-> gpu.up, dims |-> gpu.dims, input |-> gpu.input, output |-> gpu.output,
                batch |-> n, unified |-> gpu.unified, layer |-> gpu.layer, lmHead |-> gpu.lmHead]
    BY <2>1 DEF GpuTyped
  <2>3. memory' = [input |-> memory.input, uniforms |-> memory.uniforms, output |-> memory.output, batch |-> NoCells]
    BY <2>1 DEF GpuTyped
  <2>4. QED  BY <1>2, <2>2, <2>3 DEF GpuTyped
<1>4. CASE ~ gpu.batch < n
  <2>1. UNCHANGED <<gpu, memory>>  BY <1>1, <1>4 DEF GrowBatchOutput
  <2>2. gpu = [up |-> gpu.up, dims |-> gpu.dims, input |-> gpu.input, output |-> gpu.output,
               batch |-> gpu.batch, unified |-> gpu.unified, layer |-> gpu.layer, lmHead |-> gpu.lmHead]
    BY DEF GpuTyped
  <2>3. QED  BY <1>2, <2>1, <2>2 DEF GpuTyped
<1>5. QED  BY <1>3, <1>4

\* What is dispatched is the last of the queue.
LEMMA DoDispatch ==
  ASSUME GpuTyped, Executes, Head(todo).do = "dispatch"
  PROVE  /\ queue' # <<>>
         /\ queue'[Len(queue')] = [shader |-> "gemm", weights |-> bound.weights, out |-> bound.out,
                                   groups |-> Head(todo).groups]
         /\ GpuTyped' /\ UNCHANGED <<gpu, outId, memory, bound, did, dest, lmPending>>
<1>1. DispatchCompute  BY ExecutesIts
<1>2. PICK d : d = [shader |-> "gemm", weights |-> bound.weights, out |-> bound.out,
                    groups |-> Head(todo).groups]
  OBVIOUS
<1>3. queue' = Append(queue, d) /\ UNCHANGED <<gpu, outId, memory, bound, did, dest, lmPending>>
  BY <1>1, <1>2 DEF DispatchCompute
<1>4. IsSeq(queue') /\ queue' # <<>> /\ queue'[Len(queue')] = d  BY <1>3, QueueAppends DEF GpuTyped
<1>5. QED  BY <1>2, <1>3, <1>4 DEF GpuTyped

LEMMA DoDispatchBatch ==
  ASSUME GpuTyped, Executes, Head(todo).do = "dispatchBatch"
  PROVE  /\ queue' # <<>>
         /\ queue'[Len(queue')] = [shader |-> "batch", weights |-> bound.weights, N |-> Head(todo).N,
                                   K |-> Head(todo).K, offsets |-> Head(todo).offsets,
                                   groups |-> Len(Head(todo).offsets)]
         /\ GpuTyped' /\ UNCHANGED <<gpu, outId, memory, bound, did, dest, lmPending>>
<1>1. DispatchLayers  BY ExecutesIts
<1>2. PICK d : d = [shader |-> "batch", weights |-> bound.weights, N |-> Head(todo).N,
                    K |-> Head(todo).K, offsets |-> Head(todo).offsets,
                    groups |-> Len(Head(todo).offsets)]
  OBVIOUS
<1>3. queue' = Append(queue, d) /\ UNCHANGED <<gpu, outId, memory, bound, did, dest, lmPending>>
  BY <1>1, <1>2 DEF DispatchLayers
<1>4. IsSeq(queue') /\ queue' # <<>> /\ queue'[Len(queue')] = d  BY <1>3, QueueAppends DEF GpuTyped
<1>5. QED  BY <1>2, <1>3, <1>4 DEF GpuTyped

LEMMA DoFinish ==
  ASSUME GpuTyped, Executes, Head(todo) = Finish
  PROVE  queue = <<>> /\ GpuTyped' /\ UNCHANGED <<gpu, outId, memory, bound, queue, did, dest, lmPending>>
<1>1. glFinish  BY ExecutesIts DEF Finish
<1>2. QED  BY <1>1 DEF glFinish, Finished, GpuTyped

LEMMA DoCopy ==
  ASSUME GpuTyped, Executes, Head(todo).do = "copy"
  PROVE  /\ dest'[Head(todo).to] = Cells(memory.output, Head(todo).first, Head(todo).n)
         /\ Head(todo).to \in DOMAIN dest'
         /\ \A d \in DOMAIN dest : d \in DOMAIN dest' /\ (d # Head(todo).to => dest'[d] = dest[d])
         /\ GpuTyped' /\ UNCHANGED <<gpu, outId, memory, bound, queue, did, lmPending>>
<1>1. CopyOut  BY ExecutesIts
<1>2. QED  BY <1>1 DEF CopyOut, Copies, GpuTyped

LEMMA DoCopyBatch ==
  ASSUME GpuTyped, Executes, Head(todo).do = "copyBatch"
  PROVE  /\ dest'[Head(todo).to] = Cells(memory.batch, Head(todo).first, Head(todo).n)
         /\ Head(todo).to \in DOMAIN dest'
         /\ \A d \in DOMAIN dest : d \in DOMAIN dest' /\ (d # Head(todo).to => dest'[d] = dest[d])
         /\ GpuTyped' /\ UNCHANGED <<gpu, outId, memory, bound, queue, did, lmPending>>
<1>1. CopyBatchOut  BY ExecutesIts
<1>2. QED  BY <1>1 DEF CopyBatchOut, Copies, GpuTyped

LEMMA DoPend ==
  ASSUME GpuTyped, Executes, NEW x, Head(todo) = Pend(x)
  PROVE  /\ lmPending' = [of |-> x, undisturbed |-> TRUE]
         /\ GpuTyped' /\ UNCHANGED <<gpu, outId, memory, bound, queue, did, dest>>
<1>1. StartLmHead  BY ExecutesIts DEF Pend
<1>2. Head(todo).x = x  BY DEF Pend
<1>3. /\ lmPending' = [of |-> x, undisturbed |-> TRUE]
      /\ UNCHANGED <<gpu, outId, memory, bound, queue, did, dest>>
  BY <1>1, <1>2 DEF StartLmHead
<1>4. GpuTyped'  BY <1>3 DEF GpuTyped
<1>5. QED  BY <1>3, <1>4

LEMMA DoCopyLmHead ==
  ASSUME GpuTyped, Executes, Head(todo) = CopyLmHead
  PROVE  /\ dest'["logits"] = Cells(memory.output, 0, memory.uniforms.N) /\ "logits" \in DOMAIN dest'
         /\ did' = [did EXCEPT !.was = lmPending] /\ lmPending' = Nothing
         /\ GpuTyped' /\ UNCHANGED <<gpu, outId, memory, bound, queue>>
<1>1. StoreLmHead  BY ExecutesIts DEF CopyLmHead
<1>2. QED  BY <1>1 DEF StoreLmHead, Copies, GpuTyped

-----------------------------------------------------------------------------
(* What the GPU does.                                                      *)

LEMMA CellsHold ==
  ASSUME NEW cells, NEW first, NEW n \in Nat
  PROVE  \A i \in 0 .. n - 1 : At(Cells(cells, first, n), i) = At(cells, first + i)
BY DEF Cells, At

\* What the GPU does to the head of the queue: whole is TRUE unless the row does
\* not fit the shared array.
Outcome(whole) ==
  /\ whole \in BOOLEAN
  /\ memory'.output = IF Head(queue).shader = "gemm" THEN GemmShader(Head(queue), whole) ELSE memory.output
  /\ memory'.batch = IF Head(queue).shader = "gemm" THEN memory.batch ELSE BatchShader(Head(queue), whole)
  /\ Head(queue).shader = "gemm" /\ RowFits(memory.uniforms.K) => whole = TRUE
  /\ Head(queue).shader # "gemm" /\ RowFits(Head(queue).K) => whole = TRUE

LEMMA DeviceLeaves ==
  ASSUME GpuTyped, DeviceRuns
  PROVE  /\ queue # <<>> /\ GpuTyped' /\ UNCHANGED <<gpu, outId, bound, todo, did, dest, lmPending>>
         /\ memory'.input = memory.input /\ memory'.uniforms = memory.uniforms
         /\ queue' = Tail(queue)
         /\ \E whole \in BOOLEAN : Outcome(whole)
<1>1. /\ queue # <<>> /\ queue' = Tail(queue) /\ UNCHANGED <<gpu, outId, bound, todo, did, dest, lmPending>>
      /\ \/ /\ Head(queue).shader = "gemm"
            /\ \E whole \in Outcomes(memory.uniforms.K) :
                  memory' = [memory EXCEPT !.output = GemmShader(Head(queue), whole)]
         \/ /\ Head(queue).shader = "batch"
            /\ \E whole \in Outcomes(Head(queue).K) :
                  memory' = [memory EXCEPT !.batch = BatchShader(Head(queue), whole)]
  BY DEF DeviceRuns
<1>2. IsSeq(queue')  BY <1>1, QueueTails DEF GpuTyped
<1>3. \A K : \A whole \in Outcomes(K) : whole \in BOOLEAN /\ (RowFits(K) => whole = TRUE)
  BY DEF Outcomes
<1>4. CASE Head(queue).shader = "gemm"
  <2>1. PICK whole \in Outcomes(memory.uniforms.K) :
               memory' = [memory EXCEPT !.output = GemmShader(Head(queue), whole)]
    BY <1>1, <1>4
  <2> PICK o : o = GemmShader(Head(queue), whole)  OBVIOUS
  <2>2. memory' = [input |-> memory.input, uniforms |-> memory.uniforms, output |-> o,
                   batch |-> memory.batch]
    BY <2>1 DEF GpuTyped
  <2>3. memory' = [input |-> memory'.input, uniforms |-> memory'.uniforms,
                   output |-> memory'.output, batch |-> memory'.batch]
    BY <2>2
  <2>4. Outcome(whole)  BY <1>3, <1>4, <2>1, <2>2 DEF Outcome
  <2>5. QED  BY <1>1, <1>2, <1>3, <2>1, <2>2, <2>3, <2>4 DEF GpuTyped
<1>5. CASE Head(queue).shader # "gemm"
  <2>1. PICK whole \in Outcomes(Head(queue).K) :
               memory' = [memory EXCEPT !.batch = BatchShader(Head(queue), whole)]
    BY <1>1, <1>5
  <2> PICK b : b = BatchShader(Head(queue), whole)  OBVIOUS
  <2>2. memory' = [input |-> memory.input, uniforms |-> memory.uniforms, output |-> memory.output,
                   batch |-> b]
    BY <2>1 DEF GpuTyped
  <2>3. memory' = [input |-> memory'.input, uniforms |-> memory'.uniforms,
                   output |-> memory'.output, batch |-> memory'.batch]
    BY <2>2
  <2>4. Outcome(whole)  BY <1>3, <1>5, <2>1, <2>2 DEF Outcome
  <2>5. QED  BY <1>1, <1>2, <1>3, <2>1, <2>2, <2>3, <2>4 DEF GpuTyped
<1>6. QED  BY <1>4, <1>5

\* The last that is queued is computed when it is run, and nothing overtakes it.
LEMMA DeviceComputes ==
  ASSUME GpuTyped, DeviceRuns, NEW t, t.N \in Nat, t.out \in Nat, t.out + t.N <= gpu.output,
         Described(t), Underway(t)
  PROVE  Described(t)' /\ Underway(t)'
<1>1. Described(t)'  BY DeviceLeaves DEF Described
<1>2. queue # <<>> /\ queue[Len(queue)] = Job(t)  BY DeviceLeaves DEF Underway
<1>3. CASE Tail(queue) = <<>>
  <2>1. Head(queue) = Job(t)  BY <1>2, <1>3, QueueTails DEF GpuTyped
  <2> PICK d : d = Head(queue)  OBVIOUS
  <2>2. d.shader = "gemm" /\ d.weights = t.weights /\ d.out = outId /\ d.groups = Groups(t.N)
    BY <2>1 DEF Job
  <2>3. PICK whole \in BOOLEAN : Outcome(whole)  BY DeviceLeaves
  <2>8. memory'.output = GemmShader(d, whole) /\ (RowFits(t.K) => whole = TRUE)
    <3>1. memory.uniforms.K = t.K  BY DEF Described
    <3>2. QED  BY <2>2, <2>3, <3>1 DEF Outcome
  <2> DEFINE result(n) == IF whole THEN Element(t.weights, t.w, n, t.K, t.x) ELSE Undefined
  <2>4. ASSUME NEW n \in 0 .. t.N - 1
        PROVE  At(GemmShader(d, whole), t.out + n) = result(n)
    <3> DEFINE rows == {k \in 0 .. t.N - 1 : k < d.groups * RowsPerWg /\ t.out + k < gpu.output}
               old == memory.output
    <3>1. /\ memory.uniforms.N = t.N /\ memory.uniforms.out = t.out /\ memory.uniforms.K = t.K
          /\ memory.uniforms.w = t.w /\ memory.input = t.x
      BY DEF Described
    <3>2. GemmShader(d, whole) =
            [i \in DOMAIN old \cup {t.out + k : k \in rows} |->
               IF i - t.out \notin rows THEN old[i]
               ELSE IF whole THEN Element(t.weights, t.w, i - t.out, t.K, t.x) ELSE Undefined]
      BY <2>2, <3>1 DEF GemmShader
    <3>3. n < d.groups * RowsPerWg  BY <2>2, GroupsReach
    <3>4. n \in rows  BY <3>3 DEF GpuTyped
    <3> HIDE DEF rows
    <3>5. t.out + n \in {t.out + k : k \in rows} /\ (t.out + n) - t.out = n  BY <3>4
    <3>6. QED  BY <3>2, <3>4, <3>5 DEF At
  <2>9. \A n : result(n) \in Results(t.weights, t.w, n, t.K, t.x)  BY <2>8 DEF Results
  <2>5. Computed(t)'
    <3> HIDE DEF result
    <3>1. \A n \in 0 .. t.N - 1 : At(memory'.output, t.out + n) \in Results(t.weights, t.w, n, t.K, t.x)
      BY <2>4, <2>8, <2>9
    <3>2. QED  BY <3>1 DEF Computed
  <2>6. queue' = <<>>  BY <1>3, DeviceLeaves
  <2>7. QED  BY <1>1, <2>5, <2>6 DEF Underway
<1>4. CASE Tail(queue) # <<>>
  <2>1. queue'[Len(queue')] = Job(t) /\ queue' # <<>>
    BY <1>2, <1>4, QueueTails, DeviceLeaves DEF GpuTyped
  <2>2. Job(t)' = Job(t)  BY DeviceLeaves DEF Job
  <2>3. QED  BY <1>1, <2>1, <2>2 DEF Underway
<1>5. QED  BY <1>3, <1>4

LEMMA DeviceComputesLayers ==
  ASSUME GpuTyped, DeviceRuns, NEW x, memory.input = x, queue[Len(queue)] = LayersJob
  PROVE  IF queue' = <<>> THEN LayersComputed(x)' ELSE queue'[Len(queue')] = LayersJob
<1>1. queue # <<>>  BY DeviceLeaves
<1>2. CASE Tail(queue) = <<>>
  <2>1. Head(queue) = LayersJob  BY <1>1, <1>2, QueueTails DEF GpuTyped
  <2> PICK d : d = Head(queue)  OBVIOUS
  <2>2. /\ d.shader = "batch" /\ d.weights = "unified" /\ d.offsets = AllQ /\ d.groups = Layers
        /\ d.N = FfnSize /\ d.K = HiddenSize
    BY <2>1 DEF LayersJob
  <2>8. PICK whole \in BOOLEAN : Outcome(whole)  BY DeviceLeaves
  <2>3. memory'.batch = BatchShader(d, whole) /\ (RowFits(HiddenSize) => whole = TRUE)
    BY <2>2, <2>8 DEF Outcome
  <2> DEFINE result(l, n) == IF whole THEN Element("unified", AllQ[l], n, HiddenSize, x) ELSE Undefined
  <2>4. ASSUME NEW l \in 1 .. Layers, NEW n \in OwnRows(l)
        PROVE  At(BatchShader(d, whole), (l - 1) * FfnSize + n) = result(l, n)
    <3> DEFINE done == {gn \in (0 .. d.groups - 1) \X (0 .. d.N - 1) : gn[2] \div RowsPerWg = gn[1]}
               index(gn) == gn[1] * d.N + gn[2]
               k == index(<<l - 1, n>>)
    <3>1. BatchShader(d, whole) =
            [i \in DOMAIN memory.batch \cup {index(gn) : gn \in done} |->
               IF \E gn \in done : index(gn) = i
               THEN LET gn == CHOOSE c \in done : index(c) = i
                    IN IF whole THEN Element(d.weights, d.offsets[gn[1] + 1], gn[2], d.K, memory.input)
                       ELSE Undefined
               ELSE memory.batch[i]]
      BY DEF BatchShader
    <3>2. <<l - 1, n>> \in done  BY <2>2, GpuSizes, SMTT(30) DEF OwnRows
    <3>3. \A c \in done : index(c) = k => c = <<l - 1, n>>
      <4>1. TAKE c \in done
      <4>2. PICK a \in 0 .. Layers - 1, b \in 0 .. FfnSize - 1 : c = <<a, b>>
        BY <2>2
      <4>3. Layers \in Nat  BY GpuSizes
      <4>9. l - 1 \in Nat /\ a \in Nat /\ FfnSize \in Nat /\ n \in 0 .. FfnSize - 1
        BY <4>2, <4>3, GpuSizes DEF OwnRows
      <4>4. index(c) = a * FfnSize + b /\ k = (l - 1) * FfnSize + n  BY <2>2, <4>2
      <4>5. index(c) = k => a = l - 1 /\ b = n  BY <4>2, <4>4, <4>9, RowOfLayer, SMTT(30)
      <4>6. QED  BY <4>2, <4>5
    <3> DEFINE gn0 == CHOOSE c \in done : index(c) = k
    <3> HIDE DEF done, index
    <3>4. k \in {index(gn) : gn \in done} /\ \E gn \in done : index(gn) = k  BY <3>2
    <3>5. gn0 \in done /\ index(gn0) = k  BY <3>4
    <3>6. gn0 = <<l - 1, n>>  BY <3>3, <3>5
    <3>7. BatchShader(d, whole)[k] =
            IF whole THEN Element(d.weights, d.offsets[gn0[1] + 1], gn0[2], d.K, memory.input) ELSE Undefined
      BY <3>1, <3>4
    <3> HIDE DEF gn0
    <3>8. k \in DOMAIN BatchShader(d, whole)  BY <3>1, <3>4
    <3>13. Layers \in Nat /\ l \in Int  BY GpuSizes
    <3>9. gn0[1] + 1 = l /\ gn0[2] = n  BY <3>6, <3>13
    <3>10. At(BatchShader(d, whole), k) = result(l, n)
      BY <2>2, <3>7, <3>8, <3>9 DEF At
    <3>11. k = (l - 1) * FfnSize + n  BY <2>2 DEF index
    <3>12. QED  BY <3>10, <3>11
  <2>9. \A l, n : result(l, n) \in Results("unified", AllQ[l], n, HiddenSize, x)  BY <2>3 DEF Results
  <2>5. LayersComputed(x)'
    <3> HIDE DEF result
    <3>1. \A l \in 1 .. Layers : \A n \in OwnRows(l) :
            At(memory'.batch, (l - 1) * FfnSize + n) \in Results("unified", AllQ[l], n, HiddenSize, x)
      BY <2>3, <2>4, <2>9
    <3>2. QED  BY <3>1 DEF LayersComputed, OwnRows
  <2>6. queue' = <<>>  BY <1>2, DeviceLeaves
  <2>7. QED  BY <2>5, <2>6
<1>3. CASE Tail(queue) # <<>>
  BY <1>1, <1>3, QueueTails, DeviceLeaves DEF GpuTyped
<1>4. QED  BY <1>2, <1>3

-----------------------------------------------------------------------------
(* Each call, instruction by instruction.                                  *)

\* A call's instructions leave what was asked and the buffers' sizes.
Carries ==
  /\ GpuTyped' /\ UNCHANGED <<did, lmPending>>
  /\ gpu'.dims = gpu.dims /\ gpu.output <= gpu'.output

LEMMA Sizes ==
  /\ HiddenSize \in Nat \ {0} /\ KvSize \in Nat \ {0} /\ FfnSize \in Nat \ {0}
  /\ VocabSize \in Nat \ {0} /\ Layers \in Nat \ {0}
BY GpuSizes

\* A call's instructions are run in their order.
LEMMA RunsOn ==
  ASSUME NEW s, IsSeq(s), NEW j \in 1 .. Len(s) + 1, Executes, todo = Left(s, j)
  PROVE  j \in 1 .. Len(s) /\ Head(todo) = s[j] /\ todo' = Left(s, j + 1)
<1>1. todo # <<>> /\ todo' = Tail(todo)  BY ExecutesIts
<1>2. Left(s, Len(s) + 1) = <<>> /\ Len(s) \in Nat  BY RestEnds
<1>3. j # Len(s) + 1  BY <1>1, <1>2
<1>4. j \in 1 .. Len(s)  BY <1>2, <1>3
<1>5. QED  BY <1>1, <1>4, RestSteps

LEMMA AttnScript ==
  ASSUME NEW x, NEW y
  PROVE  LET s == gpu_gemm_run_attn(x, y, "layer")
         IN /\ IsSeq(s) /\ Len(s) = 17
            /\ s[1] = Input(x) /\ s[2] = Bind("layer") /\ s[3] = Grow(HiddenSize + KvSize + KvSize)
            /\ s[4] = Uniforms(HiddenSize, HiddenSize, 0, 0) /\ s[5] = DispatchRows(HiddenSize)
            /\ s[6] = Uniforms(KvSize, HiddenSize, KOffset, HiddenSize) /\ s[7] = DispatchRows(KvSize)
            /\ s[8] = Uniforms(KvSize, HiddenSize, VOffset, HiddenSize + KvSize) /\ s[9] = DispatchRows(KvSize)
            /\ s[10] = Copy("q", 0, HiddenSize) /\ s[11] = Copy("k", HiddenSize, KvSize)
            /\ s[12] = Copy("v", HiddenSize + KvSize, KvSize)
            /\ s[13] = Input(y) /\ s[14] = Uniforms(HiddenSize, HiddenSize, OOffset, 0)
            /\ s[15] = DispatchRows(HiddenSize)
            /\ s[16] = Finish /\ s[17] = Copy("o", 0, HiddenSize)
<1> DEFINE s == gpu_gemm_run_attn(x, y, "layer")
<1>1. DOMAIN s = 1 .. 17 /\ s = [i \in 1 .. 17 |-> s[i]]  BY DEF gpu_gemm_run_attn
<1>2. IsSeq(s) /\ Len(s) = 17  BY <1>1, FunctionIsSeq
<1>3. QED  BY <1>2 DEF gpu_gemm_run_attn

LEMMA AttnExecutes ==
  ASSUME GpuTyped, Executes, NEW x, NEW j \in 1 .. 18, AttnStage(x, j)
  PROVE  Carries /\ j + 1 \in 1 .. 18 /\ AttnStage(x, j + 1)'
<1> PICK y, s : y = did.y /\ s = gpu_gemm_run_attn(x, y, "layer")  OBVIOUS
<1>1. IsSeq(s) /\ Len(s) = 17 /\ todo = Left(s, j)  BY AttnScript DEF AttnStage
<1>2. j \in 1 .. Len(s) + 1  BY <1>1, 17 + 1 = 18
<1>3. j \in 1 .. 17  BY <1>1, <1>2, RunsOn
<1>4. Head(todo) = s[j] /\ todo' = Left(s, j + 1)  BY <1>1, <1>2, RunsOn
<1>5. gpu.output \in Nat  BY DEF GpuTyped
<1>6. /\ Carries
      /\ todo' = Left(gpu_gemm_run_attn(x, did'.y, "layer"), j + 1)
      /\ ~ did.grown => gpu'.output = gpu.output /\ outId' = outId /\ (j # 2 => bound' = bound)
      /\ j \notin {1, 13} => memory'.input = memory.input
  <2>1. CASE j \in {1, 13}
    <3>1. Head(todo) \in {Input(x), Input(y)}  BY <1>4, <2>1, AttnScript
    <3>2. QED  BY <1>4, <1>5, <2>1, <3>1, DoInput DEF Carries
  <2>2. CASE j = 2
    <3>1. Head(todo) = Bind("layer")  BY <1>4, <2>2, AttnScript
    <3>2. QED  BY <1>4, <1>5, <2>2, <3>1, DoBind DEF Carries
  <2>3. CASE j = 3
    <3>1. Head(todo) = Grow(HiddenSize + KvSize + KvSize)  BY <1>4, <2>3, AttnScript
    <3>2. HiddenSize + KvSize + KvSize \in Nat  BY Sizes
    <3>3. ~ did.grown => HiddenSize + KvSize + KvSize <= gpu.output  BY DEF AttnStage
    <3>4. QED  BY <1>4, <2>3, <3>1, <3>2, <3>3, DoGrow DEF Carries
  <2>4. CASE j \in {4, 6, 8, 14}
    <3>1. PICK N, K, w, out : Head(todo) = Uniforms(N, K, w, out)  BY <1>4, <2>4, AttnScript
    <3>2. QED  BY <1>4, <1>5, <2>4, <3>1, DoUniforms DEF Carries
  <2>5. CASE j \in {5, 7, 9, 15}
    <3>1. PICK N : Head(todo) = DispatchRows(N)  BY <1>4, <2>5, AttnScript
    <3>2. QED  BY <1>4, <1>5, <2>5, <3>1, DoDispatch DEF Carries, DispatchRows
  <2>6. CASE j \in {10, 11, 12, 17}
    <3>1. PICK to, first, n : Head(todo) = Copy(to, first, n)  BY <1>4, <2>6, AttnScript
    <3>2. QED  BY <1>4, <1>5, <2>6, <3>1, DoCopy DEF Carries, Copy
  <2>7. CASE j = 16
    <3>1. Head(todo) = Finish  BY <1>4, <2>7, AttnScript
    <3>2. QED  BY <1>4, <1>5, <2>7, <3>1, DoFinish DEF Carries
  <2>8. QED  BY <1>3, <2>1, <2>2, <2>3, <2>4, <2>5, <2>6, <2>7
<1>7. ASSUME ~ did.grown
      PROVE  /\ j + 1 > 2 => BoundTo("layer")'
             /\ j + 1 > 13 => memory'.input = y
             /\ j + 1 \in 15 .. 16 => Described(OutRows(y))'
             /\ j + 1 = 16 => Underway(OutRows(y))'
             /\ j + 1 = 17 => Settled(OutRows(y))'
             /\ j + 1 = 18 => Copied("o", OutRows(y))'
  <2>1. j + 1 > 2 => BoundTo("layer")'
    <3>1. CASE j = 2
      <4>1. Head(todo) = Bind("layer")  BY <1>4, <3>1, AttnScript
      <4>2. QED  BY <4>1, DoBind
    <3>2. CASE j # 2  BY <1>3, <1>6, <1>7, <3>2 DEF AttnStage, BoundTo
    <3>3. QED  BY <3>1, <3>2
  <2>2. j + 1 > 13 => memory'.input = y
    <3>1. CASE j = 13
      <4>1. Head(todo) = Input(y)  BY <1>4, <3>1, AttnScript
      <4>2. QED  BY <4>1, DoInput
    <3>2. CASE j # 13  BY <1>3, <1>6, <1>7, <3>2 DEF AttnStage
    <3>3. QED  BY <3>1, <3>2
  <2>3. ASSUME j = 14 PROVE Described(OutRows(y))'
    <3>1. Head(todo) = Uniforms(HiddenSize, HiddenSize, OOffset, 0)  BY <1>4, <2>3, AttnScript
    <3>2. QED  BY <2>2, <2>3, <3>1, DoUniforms DEF Described, OutRows, RowsOf
  <2>4. ASSUME j = 15 PROVE Described(OutRows(y))' /\ Underway(OutRows(y))'
    <3>1. Head(todo) = DispatchRows(HiddenSize)  BY <1>4, <2>4, AttnScript
    <3>2. Described(OutRows(y)) /\ BoundTo("layer")  BY <1>7, <2>4 DEF AttnStage
    <3>3. QED  BY <3>1, <3>2, DoDispatch DEF DispatchRows, Described, Underway, BoundTo, OutRows, RowsOf, Job
  <2>5. ASSUME j = 16 PROVE Settled(OutRows(y))'
    <3>1. Head(todo) = Finish  BY <1>4, <2>5, AttnScript
    <3>2. Underway(OutRows(y))  BY <1>7, <2>5 DEF AttnStage
    <3>3. QED  BY <3>1, <3>2, DoFinish DEF Underway, Settled, Computed
  <2>6. ASSUME j = 17 PROVE Copied("o", OutRows(y))'
    <3>1. Head(todo) = Copy("o", 0, HiddenSize)  BY <1>4, <2>6, AttnScript
    <3>2. Computed(OutRows(y))  BY <1>7, <2>6 DEF AttnStage, Settled
    <3>3. dest'["o"] = Cells(memory.output, 0, HiddenSize) /\ "o" \in DOMAIN dest'  BY <3>1, DoCopy DEF Copy
    <3>4. QED  BY <3>2, <3>3, Sizes, CellsHold DEF Computed, Copied, IsProduct, OutRows, RowsOf
  <2>7. QED  BY <1>3, <2>1, <2>2, <2>3, <2>4, <2>5, <2>6
<1>8. ~ did.grown => HiddenSize + KvSize + KvSize <= gpu'.output  BY <1>6 DEF AttnStage
<1>9. AttnStage(x, j + 1)'
  <2>1. did' = did  BY <1>6 DEF Carries
  <2>2. QED  BY <1>6, <1>7, <1>8, <2>1 DEF AttnStage
<1>10. QED  BY <1>3, <1>6, <1>9

LEMMA AttnDevice ==
  ASSUME GpuTyped, DeviceRuns, NEW x, NEW j \in 1 .. 18, AttnStage(x, j)
  PROVE  AttnStage(x, j)'
<1> PICK t : t = OutRows(did.y)  OBVIOUS
<1>1. /\ queue # <<>> /\ UNCHANGED <<gpu, outId, bound, todo, did, dest>>
      /\ memory'.input = memory.input /\ memory'.uniforms = memory.uniforms
  BY DeviceLeaves
<1>2. OutRows(did.y)' = t  BY <1>1 DEF OutRows, RowsOf, OOffset, KOffset
<1>3. ASSUME ~ did.grown, j \in 15 .. 16 PROVE Described(t)' /\ (Underway(t) => Underway(t)')
  <2>1. Described(t) /\ HiddenSize <= gpu.output  BY <1>3, Sizes DEF AttnStage, GpuTyped
  <2>2. t.N = HiddenSize /\ t.out = 0  BY DEF OutRows, RowsOf
  <2>3. Described(t)'  BY <1>1, <2>1 DEF Described
  <2>4. QED  BY <2>1, <2>2, <2>3, Sizes, DeviceComputes
<1>4. Copied("o", t)' = Copied("o", t)  BY <1>1 DEF Copied
<1>5. ~ did.grown => j # 17  BY <1>1 DEF AttnStage, Settled
<1>6. QED  BY <1>1, <1>2, <1>3, <1>4, <1>5 DEF AttnStage, BoundTo

LEMMA FfnScript ==
  ASSUME NEW x, NEW y
  PROVE  LET s == gpu_gemm_run_ffn(x, y, "layer")
         IN /\ IsSeq(s) /\ Len(s) = 15
            /\ s[1] = Input(x) /\ s[2] = Bind("layer") /\ s[3] = Grow(FfnSize + FfnSize)
            /\ s[4] = Uniforms(FfnSize, HiddenSize, GateOffset, 0) /\ s[5] = DispatchRows(FfnSize)
            /\ s[6] = Uniforms(FfnSize, HiddenSize, UpOffset, FfnSize) /\ s[7] = DispatchRows(FfnSize)
            /\ s[8] = Finish /\ s[9] = Copy("gate", 0, FfnSize) /\ s[10] = Copy("up", FfnSize, FfnSize)
            /\ s[11] = Input(y) /\ s[12] = Uniforms(HiddenSize, FfnSize, DownOffset, 0)
            /\ s[13] = DispatchRows(HiddenSize) /\ s[14] = Finish /\ s[15] = Copy("down", 0, HiddenSize)
<1> DEFINE s == gpu_gemm_run_ffn(x, y, "layer")
<1>1. DOMAIN s = 1 .. 15 /\ s = [i \in 1 .. 15 |-> s[i]]  BY DEF gpu_gemm_run_ffn
<1>2. IsSeq(s) /\ Len(s) = 15  BY <1>1, FunctionIsSeq
<1>3. QED  BY <1>2 DEF gpu_gemm_run_ffn

LEMMA FfnExecutes ==
  ASSUME GpuTyped, Executes, NEW j \in 1 .. 16, FfnStage(j)
  PROVE  Carries /\ j + 1 \in 1 .. 16 /\ FfnStage(j + 1)'
<1> PICK x, y, s : x = did.x /\ y = did.y /\ s = gpu_gemm_run_ffn(x, y, "layer")  OBVIOUS
<1>1. IsSeq(s) /\ Len(s) = 15 /\ todo = Left(s, j)  BY FfnScript DEF FfnStage
<1>2. j \in 1 .. Len(s) + 1  BY <1>1, 15 + 1 = 16
<1>3. j \in 1 .. 15  BY <1>1, <1>2, RunsOn
<1>4. Head(todo) = s[j] /\ todo' = Left(s, j + 1)  BY <1>1, <1>2, RunsOn
<1>5. gpu.output \in Nat  BY DEF GpuTyped
<1>6. /\ Carries
      /\ todo' = Left(gpu_gemm_run_ffn(did'.x, did'.y, "layer"), j + 1)
      /\ ~ did.grown => gpu'.output = gpu.output /\ outId' = outId /\ (j # 2 => bound' = bound)
      /\ j \notin {1, 11} => memory'.input = memory.input
      /\ j \notin {9, 10, 15} => dest' = dest
  <2>1. CASE j \in {1, 11}
    <3>1. Head(todo) \in {Input(x), Input(y)}  BY <1>4, <2>1, FfnScript
    <3>2. QED  BY <1>4, <1>5, <2>1, <3>1, DoInput DEF Carries
  <2>2. CASE j = 2
    <3>1. Head(todo) = Bind("layer")  BY <1>4, <2>2, FfnScript
    <3>2. QED  BY <1>4, <1>5, <2>2, <3>1, DoBind DEF Carries
  <2>3. CASE j = 3
    <3>1. Head(todo) = Grow(FfnSize + FfnSize)  BY <1>4, <2>3, FfnScript
    <3>2. FfnSize + FfnSize \in Nat  BY Sizes
    <3>3. ~ did.grown => FfnSize + FfnSize <= gpu.output  BY DEF FfnStage
    <3>4. QED  BY <1>4, <2>3, <3>1, <3>2, <3>3, DoGrow DEF Carries
  <2>4. CASE j \in {4, 6, 12}
    <3>1. PICK N, K, w, out : Head(todo) = Uniforms(N, K, w, out)  BY <1>4, <2>4, FfnScript
    <3>2. QED  BY <1>4, <1>5, <2>4, <3>1, DoUniforms DEF Carries
  <2>5. CASE j \in {5, 7, 13}
    <3>1. PICK N : Head(todo) = DispatchRows(N)  BY <1>4, <2>5, FfnScript
    <3>2. QED  BY <1>4, <1>5, <2>5, <3>1, DoDispatch DEF Carries, DispatchRows
  <2>6. CASE j \in {9, 10, 15}
    <3>1. PICK to, first, n : Head(todo) = Copy(to, first, n)  BY <1>4, <2>6, FfnScript
    <3>2. QED  BY <1>4, <1>5, <2>6, <3>1, DoCopy DEF Carries, Copy
  <2>7. CASE j \in {8, 14}
    <3>1. Head(todo) = Finish  BY <1>4, <2>7, FfnScript
    <3>2. QED  BY <1>4, <1>5, <2>7, <3>1, DoFinish DEF Carries
  <2>8. QED  BY <1>3, <2>1, <2>2, <2>3, <2>4, <2>5, <2>6, <2>7
<1> PICK u, d : u = UpRows(x) /\ d = DownRows(y)  OBVIOUS
<1>7. ASSUME ~ did.grown
      PROVE  /\ j + 1 > 2 => BoundTo("layer")'
             /\ j + 1 \in 2 .. 11 => memory'.input = x
             /\ j + 1 \in 7 .. 8 => Described(u)'
             /\ j + 1 = 8 => Underway(u)'
             /\ j + 1 \in 9 .. 10 => Settled(u)'
             /\ j + 1 > 10 => Copied("up", u)'
             /\ j + 1 > 11 => memory'.input = y
             /\ j + 1 \in 13 .. 14 => Described(d)'
             /\ j + 1 = 14 => Underway(d)'
             /\ j + 1 = 15 => Settled(d)'
             /\ j + 1 = 16 => Copied("down", d)'
  <2>1. j + 1 > 2 => BoundTo("layer")'
    <3>1. CASE j = 2
      <4>1. Head(todo) = Bind("layer")  BY <1>4, <3>1, FfnScript
      <4>2. QED  BY <4>1, DoBind
    <3>2. CASE j # 2  BY <1>3, <1>6, <1>7, <3>2 DEF FfnStage, BoundTo
    <3>3. QED  BY <3>1, <3>2
  <2>2. (j + 1 \in 2 .. 11 => memory'.input = x) /\ (j + 1 > 11 => memory'.input = y)
    <3>1. CASE j \in {1, 11}
      <4>1. Head(todo) = IF j = 1 THEN Input(x) ELSE Input(y)  BY <1>4, <3>1, FfnScript
      <4>2. QED  BY <3>1, <4>1, DoInput
    <3>2. CASE j \notin {1, 11}  BY <1>3, <1>6, <1>7, <3>2 DEF FfnStage
    <3>3. QED  BY <3>1, <3>2
  <2>3. ASSUME j \in {6, 12} PROVE (j = 6 => Described(u)') /\ (j = 12 => Described(d)')
    <3>1. j = 6 => Head(todo) = Uniforms(FfnSize, HiddenSize, UpOffset, FfnSize)  BY <1>4, <2>3, FfnScript
    <3>2. j = 12 => Head(todo) = Uniforms(HiddenSize, FfnSize, DownOffset, 0)  BY <1>4, <2>3, FfnScript
    <3>3. QED  BY <2>2, <2>3, <3>1, <3>2, DoUniforms DEF Described, UpRows, DownRows, RowsOf
  <2>4. ASSUME j = 7 PROVE Described(u)' /\ Underway(u)'
    <3>1. Head(todo) = DispatchRows(FfnSize)  BY <1>4, <2>4, FfnScript
    <3>2. Described(u) /\ BoundTo("layer")  BY <1>7, <2>4 DEF FfnStage
    <3>3. QED  BY <3>1, <3>2, DoDispatch
             DEF DispatchRows, Described, Underway, BoundTo, UpRows, RowsOf, Job
  <2>5. ASSUME j = 13 PROVE Described(d)' /\ Underway(d)'
    <3>1. Head(todo) = DispatchRows(HiddenSize)  BY <1>4, <2>5, FfnScript
    <3>2. Described(d) /\ BoundTo("layer")  BY <1>7, <2>5 DEF FfnStage
    <3>3. QED  BY <3>1, <3>2, DoDispatch
             DEF DispatchRows, Described, Underway, BoundTo, DownRows, RowsOf, Job
  <2>6. ASSUME j \in {8, 14} PROVE (j = 8 => Settled(u)') /\ (j = 14 => Settled(d)')
    <3>1. Head(todo) = Finish  BY <1>4, <2>6, FfnScript
    <3>2. (j = 8 => Underway(u)) /\ (j = 14 => Underway(d))  BY <1>7, <2>6 DEF FfnStage
    <3>3. QED  BY <3>1, <3>2, DoFinish DEF Underway, Settled, Computed
  <2>7. ASSUME j = 9 PROVE Settled(u)'
    <3>1. Head(todo) = Copy("gate", 0, FfnSize)  BY <1>4, <2>7, FfnScript
    <3>2. Settled(u)  BY <1>7, <2>7 DEF FfnStage
    <3>3. UNCHANGED <<memory, queue>>  BY <3>1, DoCopy DEF Copy
    <3>4. QED  BY <3>2, <3>3 DEF Settled, Computed
  <2>8. ASSUME j = 10 PROVE Copied("up", u)'
    <3>1. Head(todo) = Copy("up", FfnSize, FfnSize)  BY <1>4, <2>8, FfnScript
    <3>2. Computed(u)  BY <1>7, <2>8 DEF FfnStage, Settled
    <3>3. dest'["up"] = Cells(memory.output, FfnSize, FfnSize) /\ "up" \in DOMAIN dest'
      BY <3>1, DoCopy DEF Copy
    <3>4. QED  BY <3>2, <3>3, Sizes, CellsHold DEF Computed, Copied, IsProduct, UpRows, RowsOf
  <2>9. ASSUME j = 15 PROVE Copied("down", d)' /\ Copied("up", u)'
    <3>1. Head(todo) = Copy("down", 0, HiddenSize)  BY <1>4, <2>9, FfnScript
    <3>2. Computed(d) /\ Copied("up", u)  BY <1>7, <2>9 DEF FfnStage, Settled
    <3>3. /\ dest'["down"] = Cells(memory.output, 0, HiddenSize) /\ "down" \in DOMAIN dest'
          /\ "up" \in DOMAIN dest => "up" \in DOMAIN dest' /\ dest'["up"] = dest["up"]
      BY <3>1, DoCopy DEF Copy
    <3>4. Copied("up", u)'  BY <3>2, <3>3 DEF Copied, IsProduct
    <3>5. QED  BY <3>2, <3>3, <3>4, Sizes, CellsHold DEF Computed, Copied, IsProduct, DownRows, RowsOf
  <2>10. ASSUME j \in 11 .. 14 PROVE Copied("up", u)'
    <3>1. Copied("up", u)  BY <1>7, <2>10 DEF FfnStage
    <3>2. QED  BY <1>6, <2>10, <3>1 DEF Copied
  <2>11. QED  BY <1>3, <2>1, <2>2, <2>3, <2>4, <2>5, <2>6, <2>7, <2>8, <2>9, <2>10
<1>8. ~ did.grown => FfnSize + FfnSize <= gpu'.output  BY <1>6 DEF FfnStage
<1>9. FfnStage(j + 1)'
  <2>1. did' = did  BY <1>6 DEF Carries
  <2>2. QED  BY <1>6, <1>7, <1>8, <2>1 DEF FfnStage
<1>10. QED  BY <1>3, <1>6, <1>9

LEMMA FfnDevice ==
  ASSUME GpuTyped, DeviceRuns, NEW j \in 1 .. 16, FfnStage(j), Larger(HiddenSize, FfnSize) <= gpu.output
  PROVE  FfnStage(j)'
<1> PICK u, d : u = UpRows(did.x) /\ d = DownRows(did.y)  OBVIOUS
<1>1. /\ queue # <<>> /\ UNCHANGED <<gpu, outId, bound, todo, did, dest>>
      /\ memory'.input = memory.input /\ memory'.uniforms = memory.uniforms
  BY DeviceLeaves
<1>2. UpRows(did.x)' = u /\ DownRows(did.y)' = d
  BY <1>1 DEF UpRows, DownRows, RowsOf, DownOffset, UpOffset, GateOffset, KOffset
<1>3. ASSUME ~ did.grown, j \in 7 .. 8 PROVE Described(u)' /\ (Underway(u) => Underway(u)')
  <2>1. Described(u) /\ FfnSize + FfnSize <= gpu.output  BY <1>3 DEF FfnStage
  <2>2. u.N = FfnSize /\ u.out = FfnSize  BY DEF UpRows, RowsOf
  <2>3. Described(u)'  BY <1>1, <2>1 DEF Described
  <2>4. QED  BY <2>1, <2>2, <2>3, Sizes, DeviceComputes
<1>4. ASSUME ~ did.grown, j \in 13 .. 14 PROVE Described(d)' /\ (Underway(d) => Underway(d)')
  <2>1. Described(d)  BY <1>4 DEF FfnStage
  <2>2. d.N = HiddenSize /\ d.out = 0  BY DEF DownRows, RowsOf
  <2>3. Described(d)'  BY <1>1, <2>1 DEF Described
  <2>4. HiddenSize <= gpu.output  BY Sizes DEF Larger, GpuTyped
  <2>5. QED  BY <2>1, <2>2, <2>3, <2>4, Sizes, DeviceComputes
<1>5. Copied("up", u)' = Copied("up", u) /\ Copied("down", d)' = Copied("down", d)  BY <1>1 DEF Copied
<1>6. ~ did.grown => j \notin {9, 10, 15}  BY <1>1 DEF FfnStage, Settled
<1>7. QED  BY <1>1, <1>2, <1>3, <1>4, <1>5, <1>6 DEF FfnStage, BoundTo

Joins(s, a, b) ==
  /\ IsSeq(s) /\ Len(s) = Len(a) + Len(b)
  /\ \A i \in 1 .. Len(a) + Len(b) : s[i] = IF i <= Len(a) THEN a[i] ELSE b[i - Len(a)]

LEMMA Joined ==
  ASSUME NEW a, NEW b, IsSeq(a), IsSeq(b)
  PROVE  Joins(a \o b, a, b)
<1>1. PICK A, B, s : A = {a[i] : i \in DOMAIN a} /\ B = {b[i] : i \in DOMAIN b} /\ s = a \o b
  OBVIOUS
<1>2. a \in Seq(A \cup B) /\ b \in Seq(A \cup B)  BY <1>1 DEF IsSeq
<1>3. s \in Seq(A \cup B)  BY <1>1, <1>2
<1>4. IsSeq(s)  BY <1>3, SeqIs
<1>5. /\ Len(s) = Len(a) + Len(b)
      /\ \A i \in 1 .. Len(a) + Len(b) : s[i] = IF i <= Len(a) THEN a[i] ELSE b[i - Len(a)]
  BY <1>1, <1>2, ConcatProperties
<1>6. QED  BY <1>1, <1>4, <1>5 DEF Joins

LEMMA RowsCounted == \A j : \A n \in Nat : IsFiniteSet({j} \X (1 .. n)) /\ Cardinality({j} \X (1 .. n)) = n
<1> TAKE j
<1> TAKE n \in Nat
<1>1. IsFiniteSet(1 .. n) /\ Cardinality(1 .. n) = n  BY FS_Interval
<1>2. IsFiniteSet({j}) /\ Cardinality({j}) = 1  BY FS_Singleton
<1>3. QED  BY <1>1, <1>2, FS_Product

LEMMA Firsts ==
  /\ FirstOf(Projections, 1) = 0 /\ FirstOf(Projections, 2) = HiddenSize
  /\ FirstOf(Projections, 3) = HiddenSize + KvSize
  /\ FirstOf(Projections, 4) = HiddenSize + KvSize + KvSize
<1> DEFINE R(j) == {j} \X (1 .. Projections[j].N)
           U(i) == UNION {R(j) : j \in 1 .. i - 1}
<1>1. Projections[1].N = HiddenSize /\ Projections[2].N = KvSize /\ Projections[3].N = KvSize
  BY DEF Projections
<1>2. /\ IsFiniteSet(R(1)) /\ Cardinality(R(1)) = HiddenSize
      /\ IsFiniteSet(R(2)) /\ Cardinality(R(2)) = KvSize
      /\ IsFiniteSet(R(3)) /\ Cardinality(R(3)) = KvSize
  BY <1>1, RowsCounted, Sizes
<1>3. \A i : FirstOf(Projections, i) = Cardinality(U(i))  BY DEF FirstOf
<1>4. R(1) \cap R(2) = {} /\ (R(1) \cup R(2)) \cap R(3) = {}  OBVIOUS
<1> HIDE DEF R
<1>5. U(1) = {} /\ U(2) = R(1) /\ U(3) = R(1) \cup R(2) /\ U(4) = (R(1) \cup R(2)) \cup R(3)
  <2>1. 1 .. 0 = {} /\ 1 .. 1 = {1} /\ 1 .. 2 = {1, 2} /\ 1 .. 3 = {1, 2, 3}  OBVIOUS
  <2>2. QED  BY <2>1
<1> HIDE DEF U
<1> PICK T : T = R(1) \cup R(2)  OBVIOUS
<1>6. IsFiniteSet(T) /\ Cardinality(T) = HiddenSize + KvSize
  BY <1>2, <1>4, Sizes, FS_Union, FS_EmptySet
<1>7. Cardinality(T \cup R(3)) = HiddenSize + KvSize + KvSize
  <2>1. T \cap R(3) = {}  BY <1>4
  <2>2. Cardinality(T \cup R(3)) = Cardinality(T) + Cardinality(R(3)) - Cardinality(T \cap R(3))
    BY <1>2, <1>6, FS_Union
  <2>3. QED  BY <1>2, <1>6, <2>1, <2>2, Sizes, FS_EmptySet
<1>8. QED  BY <1>2, <1>3, <1>5, <1>6, <1>7, FS_EmptySet

LEMMA BatchScript ==
  ASSUME NEW x, NEW weights
  PROVE  LET s == gpu_gemm_run_batch(x, weights, Projections)
         IN /\ IsSeq(s) /\ Len(s) = 13
            /\ s[1] = Grow(HiddenSize + KvSize + KvSize) /\ s[2] = Input(x) /\ s[3] = Bind(weights)
            /\ s[4] = Uniforms(HiddenSize, HiddenSize, 0, 0) /\ s[5] = DispatchRows(HiddenSize)
            /\ s[6] = Uniforms(KvSize, HiddenSize, KOffset, HiddenSize) /\ s[7] = DispatchRows(KvSize)
            /\ s[8] = Uniforms(KvSize, HiddenSize, VOffset, HiddenSize + KvSize) /\ s[9] = DispatchRows(KvSize)
            /\ s[10] = Finish /\ s[11] = Copy(1, 0, HiddenSize) /\ s[12] = Copy(2, HiddenSize, KvSize)
            /\ s[13] = Copy(3, HiddenSize + KvSize, KvSize)
<1> DEFINE a == <<Grow(FirstOf(Projections, Len(Projections) + 1)), Input(x), Bind(weights)>>
           b == [i \in 1 .. 2 * Len(Projections) |->
                   LET p == Projections[(i + 1) \div 2]
                   IN IF i % 2 = 1
                      THEN Uniforms(p.N, p.K, p.w, FirstOf(Projections, (i + 1) \div 2))
                      ELSE DispatchRows(p.N)]
           c == <<Finish>>
           d == [i \in 1 .. Len(Projections) |-> Copy(i, FirstOf(Projections, i), Projections[i].N)]
           s == gpu_gemm_run_batch(x, weights, Projections)
<1>1. s = ((a \o b) \o c) \o d  BY DEF gpu_gemm_run_batch
<1>2. Len(Projections) = 3  BY DEF Projections
<1>3. /\ Projections[1] = [w |-> 0, N |-> HiddenSize, K |-> HiddenSize]
      /\ Projections[2] = [w |-> KOffset, N |-> KvSize, K |-> HiddenSize]
      /\ Projections[3] = [w |-> VOffset, N |-> KvSize, K |-> HiddenSize]
  BY DEF Projections
<1>4. /\ IsSeq(a) /\ Len(a) = 3 /\ a[1] = Grow(HiddenSize + KvSize + KvSize)
      /\ a[2] = Input(x) /\ a[3] = Bind(weights)
  <2>1. DOMAIN a = 1 .. 3 /\ a = [i \in 1 .. 3 |-> a[i]]  OBVIOUS
  <2>2. IsSeq(a) /\ Len(a) = 3  BY <2>1, FunctionIsSeq
  <2>3. a[1] = Grow(FirstOf(Projections, 4))  BY <1>2
  <2>4. QED  BY <2>2, <2>3, Firsts
<1>5. /\ IsSeq(b) /\ Len(b) = 6
      /\ b[1] = Uniforms(HiddenSize, HiddenSize, 0, 0) /\ b[2] = DispatchRows(HiddenSize)
      /\ b[3] = Uniforms(KvSize, HiddenSize, KOffset, HiddenSize) /\ b[4] = DispatchRows(KvSize)
      /\ b[5] = Uniforms(KvSize, HiddenSize, VOffset, HiddenSize + KvSize) /\ b[6] = DispatchRows(KvSize)
  <2>1. DOMAIN b = 1 .. 6 /\ b = [i \in 1 .. 6 |-> b[i]]  BY <1>2
  <2>2. IsSeq(b) /\ Len(b) = 6  BY <2>1, FunctionIsSeq
  <2>3. /\ (1 + 1) \div 2 = 1 /\ (2 + 1) \div 2 = 1 /\ (3 + 1) \div 2 = 2 /\ (4 + 1) \div 2 = 2
        /\ (5 + 1) \div 2 = 3 /\ (6 + 1) \div 2 = 3
        /\ 1 % 2 = 1 /\ 2 % 2 = 0 /\ 3 % 2 = 1 /\ 4 % 2 = 0 /\ 5 % 2 = 1 /\ 6 % 2 = 0
    OBVIOUS
  <2>4. /\ b[1] = Uniforms(HiddenSize, HiddenSize, 0, FirstOf(Projections, 1))
        /\ b[2] = DispatchRows(HiddenSize)
    BY <1>2, <1>3, <2>3
  <2>5. /\ b[3] = Uniforms(KvSize, HiddenSize, KOffset, FirstOf(Projections, 2))
        /\ b[4] = DispatchRows(KvSize)
    BY <1>2, <1>3, <2>3
  <2>6. /\ b[5] = Uniforms(KvSize, HiddenSize, VOffset, FirstOf(Projections, 3))
        /\ b[6] = DispatchRows(KvSize)
    BY <1>2, <1>3, <2>3
  <2>7. QED  BY <2>2, <2>4, <2>5, <2>6, Firsts
<1>6. IsSeq(c) /\ Len(c) = 1 /\ c[1] = Finish
  <2>1. DOMAIN c = 1 .. 1 /\ c = [i \in 1 .. 1 |-> c[i]]  OBVIOUS
  <2>2. QED  BY <2>1, FunctionIsSeq
<1>7. /\ IsSeq(d) /\ Len(d) = 3 /\ d[1] = Copy(1, 0, HiddenSize) /\ d[2] = Copy(2, HiddenSize, KvSize)
      /\ d[3] = Copy(3, HiddenSize + KvSize, KvSize)
  <2>1. DOMAIN d = 1 .. 3 /\ d = [i \in 1 .. 3 |-> d[i]]  BY <1>2
  <2>2. IsSeq(d) /\ Len(d) = 3  BY <2>1, FunctionIsSeq
  <2>3. QED  BY <1>2, <1>3, <2>2, Firsts
<1> HIDE DEF a, b, c, d, s
<1>13. PICK ab, abc : ab = a \o b /\ abc = ab \o c  OBVIOUS
<1>8. /\ IsSeq(ab) /\ Len(ab) = 9
      /\ \A i \in 1 .. 9 : ab[i] = IF i <= 3 THEN a[i] ELSE b[i - 3]
  <2>1. Joins(ab, a, b)  BY <1>4, <1>5, <1>13, Joined, Zenon
  <2>2. QED  BY <1>4, <1>5, <2>1 DEF Joins
<1>9. /\ IsSeq(abc) /\ Len(abc) = 10
      /\ \A i \in 1 .. 10 : abc[i] = IF i <= 9 THEN ab[i] ELSE c[i - 9]
  <2>1. Joins(abc, ab, c)  BY <1>6, <1>8, <1>13, Joined, Zenon
  <2>2. QED  BY <1>6, <1>8, <2>1 DEF Joins
<1>10. /\ IsSeq(s) /\ Len(s) = 13
       /\ \A i \in 1 .. 13 : s[i] = IF i <= 10 THEN abc[i] ELSE d[i - 10]
  <2>1. Joins(s, abc, d)  BY <1>1, <1>7, <1>9, <1>13, Joined, Zenon
  <2>2. QED  BY <1>7, <1>9, <2>1 DEF Joins
<1>11. /\ s[1] = a[1] /\ s[2] = a[2] /\ s[3] = a[3]
       /\ s[4] = b[1] /\ s[5] = b[2] /\ s[6] = b[3] /\ s[7] = b[4] /\ s[8] = b[5] /\ s[9] = b[6]
       /\ s[10] = c[1] /\ s[11] = d[1] /\ s[12] = d[2] /\ s[13] = d[3]
  BY <1>8, <1>9, <1>10
<1>12. QED  BY <1>4, <1>5, <1>6, <1>7, <1>10, <1>11 DEF s

LEMMA BatchExecutes ==
  ASSUME GpuTyped, Executes, NEW j \in 1 .. 14, BatchStage(j)
  PROVE  Carries /\ j + 1 \in 1 .. 14 /\ BatchStage(j + 1)'
<1> PICK x, w, s : x = did.x /\ w = did.weights /\ s = gpu_gemm_run_batch(x, w, Projections)  OBVIOUS
<1>1. IsSeq(s) /\ Len(s) = 13 /\ todo = Left(s, j)  BY BatchScript DEF BatchStage
<1>2. j \in 1 .. Len(s) + 1  BY <1>1, 13 + 1 = 14
<1>3. j \in 1 .. 13  BY <1>1, <1>2, RunsOn
<1>4. Head(todo) = s[j] /\ todo' = Left(s, j + 1)  BY <1>1, <1>2, RunsOn
<1>5. gpu.output \in Nat  BY DEF GpuTyped
<1>6. /\ Carries
      /\ todo' = Left(gpu_gemm_run_batch(did'.x, did'.weights, Projections), j + 1)
      /\ j # 1 => gpu'.output = gpu.output /\ outId' = outId /\ (j # 3 => bound' = bound)
      /\ j = 1 => HiddenSize + KvSize + KvSize <= gpu'.output
      /\ j # 2 => memory'.input = memory.input
      /\ j > 9 => memory' = memory /\ queue' = queue
  <2>1. CASE j = 2
    <3>1. Head(todo) = Input(x)  BY <1>4, <2>1, BatchScript
    <3>2. QED  BY <1>4, <1>5, <2>1, <3>1, DoInput DEF Carries
  <2>2. CASE j = 3
    <3>1. Head(todo) = Bind(w)  BY <1>4, <2>2, BatchScript
    <3>2. QED  BY <1>4, <1>5, <2>2, <3>1, DoBind DEF Carries
  <2>3. CASE j = 1
    <3>1. Head(todo) = Grow(HiddenSize + KvSize + KvSize)  BY <1>4, <2>3, BatchScript
    <3>2. HiddenSize + KvSize + KvSize \in Nat  BY Sizes
    <3>3. QED  BY <1>4, <2>3, <3>1, <3>2, DoGrow DEF Carries
  <2>4. CASE j \in {4, 6, 8}
    <3>1. PICK N, K, at, out : Head(todo) = Uniforms(N, K, at, out)  BY <1>4, <2>4, BatchScript
    <3>2. QED  BY <1>4, <1>5, <2>4, <3>1, DoUniforms DEF Carries
  <2>5. CASE j \in {5, 7, 9}
    <3>1. PICK N : Head(todo) = DispatchRows(N)  BY <1>4, <2>5, BatchScript
    <3>2. QED  BY <1>4, <1>5, <2>5, <3>1, DoDispatch DEF Carries, DispatchRows
  <2>6. CASE j \in {11, 12, 13}
    <3>1. PICK to, first, n : Head(todo) = Copy(to, first, n)  BY <1>4, <2>6, BatchScript
    <3>2. QED  BY <1>4, <1>5, <2>6, <3>1, DoCopy DEF Carries, Copy
  <2>7. CASE j = 10
    <3>1. Head(todo) = Finish  BY <1>4, <2>7, BatchScript
    <3>2. QED  BY <1>4, <1>5, <2>7, <3>1, DoFinish DEF Carries
  <2>8. QED  BY <1>3, <2>1, <2>2, <2>3, <2>4, <2>5, <2>6, <2>7
<1> PICK t : t = ThirdRows(w, x)  OBVIOUS
<1>7. /\ j + 1 > 1 => HiddenSize + KvSize + KvSize <= gpu'.output
      /\ j + 1 > 2 => memory'.input = x
      /\ j + 1 > 3 => BoundTo(w)'
      /\ j + 1 \in 9 .. 10 => Described(t)'
      /\ j + 1 = 10 => Underway(t)'
      /\ j + 1 \in 11 .. 13 => Settled(t)'
      /\ j + 1 = 14 => Copied(3, t)'
  <2>1. j + 1 > 3 => BoundTo(w)'
    <3>1. CASE j = 3
      <4>1. Head(todo) = Bind(w)  BY <1>4, <3>1, BatchScript
      <4>2. QED  BY <4>1, DoBind
    <3>2. CASE j # 3  BY <1>3, <1>6, <3>2 DEF BatchStage, BoundTo
    <3>3. QED  BY <3>1, <3>2
  <2>2. j + 1 > 2 => memory'.input = x
    <3>1. CASE j = 2
      <4>1. Head(todo) = Input(x)  BY <1>4, <3>1, BatchScript
      <4>2. QED  BY <4>1, DoInput
    <3>2. CASE j # 2  BY <1>3, <1>6, <3>2 DEF BatchStage
    <3>3. QED  BY <3>1, <3>2
  <2>3. ASSUME j = 8 PROVE Described(t)'
    <3>1. Head(todo) = Uniforms(KvSize, HiddenSize, VOffset, HiddenSize + KvSize)
      BY <1>4, <2>3, BatchScript
    <3>2. QED  BY <2>2, <2>3, <3>1, DoUniforms DEF Described, ThirdRows, RowsOf
  <2>4. ASSUME j = 9 PROVE Described(t)' /\ Underway(t)'
    <3>1. Head(todo) = DispatchRows(KvSize)  BY <1>4, <2>4, BatchScript
    <3>2. Described(t) /\ BoundTo(w)  BY <2>4 DEF BatchStage
    <3>3. QED  BY <3>1, <3>2, DoDispatch
             DEF DispatchRows, Described, Underway, BoundTo, ThirdRows, RowsOf, Job
  <2>5. ASSUME j = 10 PROVE Settled(t)'
    <3>1. Head(todo) = Finish  BY <1>4, <2>5, BatchScript
    <3>2. Underway(t)  BY <2>5 DEF BatchStage
    <3>3. QED  BY <3>1, <3>2, DoFinish DEF Underway, Settled, Computed
  <2>6. ASSUME j \in 11 .. 12 PROVE Settled(t)'
    <3>1. Settled(t)  BY <2>6 DEF BatchStage
    <3>2. QED  BY <1>6, <2>6, <3>1 DEF Settled, Computed
  <2>7. ASSUME j = 13 PROVE Copied(3, t)'
    <3>1. Head(todo) = Copy(3, HiddenSize + KvSize, KvSize)  BY <1>4, <2>7, BatchScript
    <3>2. Computed(t)  BY <2>7 DEF BatchStage, Settled
    <3>3. dest'[3] = Cells(memory.output, HiddenSize + KvSize, KvSize) /\ 3 \in DOMAIN dest'
      BY <3>1, DoCopy DEF Copy
    <3>4. QED  BY <3>2, <3>3, Sizes, CellsHold DEF Computed, Copied, IsProduct, ThirdRows, RowsOf
  <2>8. j + 1 > 1 => HiddenSize + KvSize + KvSize <= gpu'.output  BY <1>3, <1>6 DEF BatchStage
  <2>9. QED  BY <1>3, <2>1, <2>2, <2>3, <2>4, <2>5, <2>6, <2>7, <2>8
<1>8. did' = did  BY <1>6 DEF Carries
<1>9. BatchStage(j + 1)'  BY <1>6, <1>7, <1>8 DEF BatchStage
<1>10. QED  BY <1>3, <1>6, <1>9

LEMMA BatchDevice ==
  ASSUME GpuTyped, DeviceRuns, NEW j \in 1 .. 14, BatchStage(j)
  PROVE  BatchStage(j)'
<1> PICK t : t = ThirdRows(did.weights, did.x)  OBVIOUS
<1>1. /\ queue # <<>> /\ UNCHANGED <<gpu, outId, bound, todo, did, dest>>
      /\ memory'.input = memory.input /\ memory'.uniforms = memory.uniforms
  BY DeviceLeaves
<1>2. ThirdRows(did.weights, did.x)' = t  BY <1>1 DEF ThirdRows, RowsOf, VOffset, KOffset
<1>3. ASSUME j \in 9 .. 10 PROVE Described(t)' /\ (Underway(t) => Underway(t)')
  <2>1. Described(t) /\ HiddenSize + KvSize + KvSize <= gpu.output  BY <1>3 DEF BatchStage
  <2>2. t.N = KvSize /\ t.out = HiddenSize + KvSize  BY DEF ThirdRows, RowsOf
  <2>3. Described(t)'  BY <1>1, <2>1 DEF Described
  <2>4. t.N \in Nat /\ t.out \in Nat /\ t.out + t.N <= gpu.output  BY <2>1, <2>2, Sizes
  <2>5. QED  BY <2>1, <2>3, <2>4, DeviceComputes
<1>4. Copied(3, t)' = Copied(3, t)  BY <1>1 DEF Copied
<1>5. j \notin 11 .. 13  BY <1>1 DEF BatchStage, Settled
<1>6. QED  BY <1>1, <1>2, <1>3, <1>4, <1>5 DEF BatchStage, BoundTo

LEMMA AllQScript ==
  ASSUME NEW x
  PROVE  LET s == gpu_gemm_run_all_layers_q(x, AllQ, FfnSize, HiddenSize)
         IN /\ IsSeq(s) /\ Len(s) = 5 + Layers
            /\ s[1] = GrowBatch(Layers * FfnSize) /\ s[2] = Input(x) /\ s[3] = Bind("unified")
            /\ s[4] = DispatchBatch(FfnSize, HiddenSize, AllQ) /\ s[5] = Finish
            /\ \A j \in 6 .. 5 + Layers : s[j] = CopyBatch(j - 5, (j - 5 - 1) * FfnSize, FfnSize)
<1> DEFINE a == <<GrowBatch(Len(AllQ) * FfnSize), Input(x), Bind("unified"),
                  DispatchBatch(FfnSize, HiddenSize, AllQ), Finish>>
           b == [i \in DOMAIN AllQ |-> CopyBatch(i, (i - 1) * FfnSize, FfnSize)]
           s == gpu_gemm_run_all_layers_q(x, AllQ, FfnSize, HiddenSize)
<1>1. s = a \o b  BY DEF gpu_gemm_run_all_layers_q
<1>2. DOMAIN AllQ = 1 .. Layers /\ Len(AllQ) = Layers  BY Sizes DEF AllQ
<1>3. /\ IsSeq(a) /\ Len(a) = 5
      /\ a[1] = GrowBatch(Layers * FfnSize) /\ a[2] = Input(x) /\ a[3] = Bind("unified")
      /\ a[4] = DispatchBatch(FfnSize, HiddenSize, AllQ) /\ a[5] = Finish
  <2>1. DOMAIN a = 1 .. 5 /\ a = [i \in 1 .. 5 |-> a[i]]  OBVIOUS
  <2>2. IsSeq(a) /\ Len(a) = 5  BY <2>1, FunctionIsSeq
  <2>3. QED  BY <1>2, <2>2
<1>4. /\ IsSeq(b) /\ Len(b) = Layers
      /\ \A i \in 1 .. Layers : b[i] = CopyBatch(i, (i - 1) * FfnSize, FfnSize)
  <2>1. DOMAIN b = 1 .. Layers /\ b = [i \in 1 .. Layers |-> b[i]]  BY <1>2
  <2>2. IsSeq(b) /\ Len(b) = Layers  BY <2>1, Sizes, FunctionIsSeq
  <2>3. QED  BY <1>2, <2>2
<1> HIDE DEF a, b, s
<1>5. /\ IsSeq(s) /\ Len(s) = 5 + Layers
      /\ \A i \in 1 .. 5 + Layers : s[i] = IF i <= 5 THEN a[i] ELSE b[i - 5]
  <2>1. Joins(s, a, b)  BY <1>1, <1>3, <1>4, Joined, Zenon
  <2>2. QED  BY <1>3, <1>4, <2>1 DEF Joins
<1>6. s[1] = a[1] /\ s[2] = a[2] /\ s[3] = a[3] /\ s[4] = a[4] /\ s[5] = a[5]  BY <1>5, Sizes
<1>7. \A j \in 6 .. 5 + Layers : s[j] = CopyBatch(j - 5, (j - 5 - 1) * FfnSize, FfnSize)
  <2>1. TAKE j \in 6 .. 5 + Layers
  <2>2. j - 5 \in 1 .. Layers /\ ~ (j <= 5) /\ j \in 1 .. 5 + Layers  BY Sizes
  <2>3. QED  BY <1>4, <1>5, <2>2
<1>8. QED  BY <1>3, <1>5, <1>6, <1>7 DEF s

LEMMA AllQExecutes ==
  ASSUME GpuTyped, Executes, NEW j \in 1 .. 6 + Layers, AllQStage(j)
  PROVE  Carries /\ j + 1 \in 1 .. 6 + Layers /\ AllQStage(j + 1)'
<1> PICK x, s : x = did.x /\ s = gpu_gemm_run_all_layers_q(x, AllQ, FfnSize, HiddenSize)  OBVIOUS
<1>1. IsSeq(s) /\ Len(s) = 5 + Layers /\ todo = Left(s, j)  BY AllQScript DEF AllQStage
<1>2. j \in 1 .. Len(s) + 1  BY <1>1, Sizes
<1>3. j \in 1 .. 5 + Layers  BY <1>1, <1>2, RunsOn
<1>4. Head(todo) = s[j] /\ todo' = Left(s, j + 1)  BY <1>1, <1>2, RunsOn
<1>5. gpu.output \in Nat  BY DEF GpuTyped
<1>6. /\ Carries
      /\ outId' = outId /\ (j # 3 => bound' = bound)
      /\ j # 2 => memory'.input = memory.input
      /\ j > 4 => memory' = memory /\ queue' = queue
  <2>1. CASE j = 2
    <3>1. Head(todo) = Input(x)  BY <1>4, <2>1, AllQScript
    <3>2. QED  BY <1>5, <2>1, <3>1, DoInput DEF Carries
  <2>2. CASE j = 3
    <3>1. Head(todo) = Bind("unified")  BY <1>4, <2>2, AllQScript
    <3>2. QED  BY <1>5, <2>2, <3>1, DoBind DEF Carries
  <2>3. CASE j = 1
    <3>1. Head(todo) = GrowBatch(Layers * FfnSize)  BY <1>4, <2>3, AllQScript
    <3>2. Layers * FfnSize \in Nat  BY Sizes
    <3>3. Head(todo).do = "growBatch" /\ Head(todo).n \in Nat  BY <3>1, <3>2 DEF GrowBatch
    <3>4. QED  BY <1>5, <2>3, <3>3, DoGrowBatch DEF Carries
  <2>4. CASE j = 4
    <3>1. Head(todo) = DispatchBatch(FfnSize, HiddenSize, AllQ)  BY <1>4, <2>4, AllQScript
    <3>2. QED  BY <1>5, <2>4, <3>1, DoDispatchBatch DEF Carries, DispatchBatch
  <2>5. CASE j = 5
    <3>1. Head(todo) = Finish  BY <1>4, <2>5, AllQScript
    <3>2. QED  BY <1>5, <2>5, <3>1, DoFinish DEF Carries
  <2>6. CASE j > 5
    <3>1. j \in 6 .. 5 + Layers  BY <1>3, <2>6, Sizes
    <3>4. Head(todo) = CopyBatch(j - 5, (j - 5 - 1) * FfnSize, FfnSize)  BY <1>4, <3>1, AllQScript
    <3>2. Head(todo).do = "copyBatch"  BY <3>4 DEF CopyBatch
    <3>3. QED  BY <1>5, <2>6, <3>2, DoCopyBatch DEF Carries
  <2>7. QED  BY <1>3, <2>1, <2>2, <2>3, <2>4, <2>5, <2>6
<1>7. /\ j + 1 > 2 => memory'.input = x
      /\ j + 1 > 3 => BoundTo("unified")'
      /\ j + 1 = 5 => queue' # <<>> /\ queue'[Len(queue')] = LayersJob
      /\ j + 1 > 5 => queue' = <<>> /\ LayersComputed(x)'
      /\ \A l \in 1 .. Layers :
           l < j + 1 - 5 => l \in DOMAIN dest' /\ LayerCopied(dest'[l], l, x)
  <2>1. j + 1 > 3 => BoundTo("unified")'
    <3>1. CASE j = 3
      <4>1. Head(todo) = Bind("unified")  BY <1>4, <3>1, AllQScript
      <4>2. QED  BY <4>1, DoBind
    <3>2. CASE j # 3  BY <1>3, <1>6, <3>2 DEF AllQStage, BoundTo
    <3>3. QED  BY <3>1, <3>2
  <2>2. j + 1 > 2 => memory'.input = x
    <3>1. CASE j = 2
      <4>1. Head(todo) = Input(x)  BY <1>4, <3>1, AllQScript
      <4>2. QED  BY <4>1, DoInput
    <3>2. CASE j # 2  BY <1>3, <1>6, <3>2 DEF AllQStage
    <3>3. QED  BY <3>1, <3>2
  <2>3. ASSUME j = 4 PROVE queue' # <<>> /\ queue'[Len(queue')] = LayersJob
    <3>1. Head(todo) = DispatchBatch(FfnSize, HiddenSize, AllQ)  BY <1>4, <2>3, AllQScript
    <3>2. BoundTo("unified")  BY <2>3 DEF AllQStage
    <3>3. Len(AllQ) = Layers  BY Sizes DEF AllQ
    <3>4. QED  BY <3>1, <3>2, <3>3, DoDispatchBatch DEF DispatchBatch, BoundTo, LayersJob
  <2>4. ASSUME j > 4 PROVE queue' = <<>> /\ LayersComputed(x)'
    <3>1. queue = <<>> /\ LayersComputed(x)
      <4>1. CASE j = 5
        <5>1. Head(todo) = Finish  BY <1>4, <4>1, AllQScript
        <5>2. queue = <<>>  BY <5>1, DoFinish
        <5>3. QED  BY <4>1, <5>2 DEF AllQStage
      <4>2. CASE j > 5  BY <4>2 DEF AllQStage
      <4>3. QED  BY <2>4, <4>1, <4>2
    <3>2. QED  BY <1>6, <2>4, <3>1 DEF LayersComputed
  <2>5. ASSUME NEW l \in 1 .. Layers, l < j + 1 - 5
        PROVE  l \in DOMAIN dest' /\ LayerCopied(dest'[l], l, x)
    <3>1. j \in 6 .. 5 + Layers  BY <1>3, <2>5, Sizes
    <3>2. Head(todo) = CopyBatch(j - 5, (j - 5 - 1) * FfnSize, FfnSize)  BY <1>4, <3>1, AllQScript
    <3>3. /\ dest'[j - 5] = Cells(memory.batch, (j - 5 - 1) * FfnSize, FfnSize) /\ j - 5 \in DOMAIN dest'
          /\ \A d \in DOMAIN dest : d \in DOMAIN dest' /\ (d # j - 5 => dest'[d] = dest[d])
      BY <3>2, DoCopyBatch DEF CopyBatch
    <3>4. CASE l = j - 5
      <4>1. LayersComputed(x)  BY <3>1 DEF AllQStage
      <4>2. PICK at : at = (l - 1) * FfnSize  OBVIOUS
      <4>3. \A n \in 0 .. FfnSize - 1 : At(dest'[l], n) = At(memory.batch, at + n)
        BY <3>3, <3>4, <4>2, CellsHold, Sizes
      <4>4. \A n \in OwnRows(l) :
              At(memory.batch, at + n) \in Results("unified", AllQ[l], n, HiddenSize, x)
        BY <4>1, <4>2 DEF LayersComputed
      <4>5. OwnRows(l) \subseteq 0 .. FfnSize - 1  BY DEF OwnRows
      <4>6. QED  BY <3>3, <3>4, <4>3, <4>4, <4>5 DEF IsProduct, LayerCopied
    <3>5. CASE l # j - 5
      <4>1. l < j - 5  BY <2>5, <3>1, <3>5, Sizes
      <4>2. l \in DOMAIN dest /\ LayerCopied(dest[l], l, x)
        BY <4>1 DEF AllQStage
      <4>3. QED  BY <3>3, <3>5, <4>2
    <3>6. QED  BY <3>4, <3>5
  <2>6. QED  BY <1>3, <2>1, <2>2, <2>3, <2>4, <2>5
<1>8. did' = did  BY <1>6 DEF Carries
<1>9. AllQStage(j + 1)'
  <2>1. j + 1 = 5 => (IF queue' = <<>> THEN LayersComputed(x)' ELSE queue'[Len(queue')] = LayersJob)
    BY <1>7
  <2>2. QED  BY <1>1, <1>4, <1>7, <1>8, <2>1 DEF AllQStage
<1>10. QED  BY <1>3, <1>6, <1>9, Sizes

LEMMA AllQDevice ==
  ASSUME GpuTyped, DeviceRuns, NEW j \in 1 .. 6 + Layers, AllQStage(j)
  PROVE  AllQStage(j)'
<1>1. /\ queue # <<>> /\ UNCHANGED <<gpu, outId, bound, todo, did, dest>>
      /\ memory'.input = memory.input
  BY DeviceLeaves
<1>2. j <= 5  BY <1>1 DEF AllQStage
<1>3. ASSUME j = 5
      PROVE  IF queue' = <<>> THEN LayersComputed(did.x)' ELSE queue'[Len(queue')] = LayersJob
  <2>1. memory.input = did.x /\ queue[Len(queue)] = LayersJob  BY <1>1, <1>3 DEF AllQStage
  <2>2. did.x' = did.x  BY <1>1
  <2>3. PICK x : x = did.x  OBVIOUS
  <2>4. IF queue' = <<>> THEN LayersComputed(x)' ELSE queue'[Len(queue')] = LayersJob
    BY <2>1, <2>3, DeviceComputesLayers
  <2>5. QED  BY <2>2, <2>3, <2>4
<1>4. QED  BY <1>1, <1>2, <1>3, Sizes DEF AllQStage, BoundTo

LEMMA RunExecutes ==
  ASSUME GpuTyped, Executes, NEW j \in 1 .. 6,
         todo = Left(gpu_gemm_run(did.x, UpOffset, FfnSize, HiddenSize), j)
  PROVE  /\ Carries /\ j + 1 \in 1 .. 6
         /\ todo' = Left(gpu_gemm_run(did'.x, UpOffset, FfnSize, HiddenSize), j + 1)
<1> PICK x, s : x = did.x /\ s = gpu_gemm_run(x, UpOffset, FfnSize, HiddenSize)  OBVIOUS
<1>1. /\ IsSeq(s) /\ Len(s) = 5
      /\ s[1] = Input(x) /\ s[2] = Uniforms(FfnSize, HiddenSize, UpOffset, 0) /\ s[3] = Bind("unified")
      /\ s[4] = DispatchRows(FfnSize) /\ s[5] = Copy("out", 0, FfnSize)
  <2>1. DOMAIN s = 1 .. 5 /\ s = [i \in 1 .. 5 |-> s[i]]  BY DEF gpu_gemm_run
  <2>2. IsSeq(s) /\ Len(s) = 5  BY <2>1, FunctionIsSeq
  <2>3. QED  BY <2>2 DEF gpu_gemm_run
<1>2. j \in 1 .. Len(s) + 1  BY <1>1, 5 + 1 = 6
<1>3. j \in 1 .. 5  BY <1>1, <1>2, RunsOn
<1>4. Head(todo) = s[j] /\ todo' = Left(s, j + 1)  BY <1>1, <1>2, RunsOn
<1>5. gpu.output \in Nat  BY DEF GpuTyped
<1>6. Carries
  <2>1. CASE j = 1  BY <1>1, <1>4, <1>5, <2>1, DoInput DEF Carries
  <2>2. CASE j = 2
    <3>1. PICK N, K, w, out : Head(todo) = Uniforms(N, K, w, out)  BY <1>1, <1>4, <2>2
    <3>2. QED  BY <1>5, <3>1, DoUniforms DEF Carries
  <2>3. CASE j = 3  BY <1>1, <1>4, <1>5, <2>3, DoBind DEF Carries
  <2>4. CASE j = 4  BY <1>1, <1>4, <1>5, <2>4, DoDispatch DEF Carries, DispatchRows
  <2>5. CASE j = 5  BY <1>1, <1>4, <1>5, <2>5, DoCopy DEF Carries, Copy
  <2>6. QED  BY <1>3, <2>1, <2>2, <2>3, <2>4, <2>5
<1>7. QED  BY <1>3, <1>4, <1>6 DEF Carries

LEMMA HeadIsScript ==
  ASSUME NEW x
  PROVE  LET s == HeadScript(x)
         IN /\ IsSeq(s) /\ Len(s) = 5
            /\ s[1] = Input(x) /\ s[2] = Uniforms(VocabSize, HiddenSize, 0, 0) /\ s[3] = Bind("lmHead")
            /\ s[4] = DispatchRows(VocabSize) /\ s[5] = Pend(x)
<1> DEFINE s == HeadScript(x)
<1>1. DOMAIN s = 1 .. 5 /\ s = [i \in 1 .. 5 |-> s[i]]  BY DEF HeadScript
<1>2. IsSeq(s) /\ Len(s) = 5  BY <1>1, FunctionIsSeq
<1>3. QED  BY <1>2 DEF HeadScript

LEMMA NotNothing == \A a, b : [of |-> a, undisturbed |-> b] # Nothing
BY DEF Nothing

LEMMA HeadExecutes ==
  ASSUME GpuTyped, Executes, did.x \in Vectors, NEW j \in 1 .. 6, HeadStage(j)
  PROVE  /\ GpuTyped' /\ UNCHANGED <<gpu, did, dest>>
         /\ j + 1 \in 1 .. 6 /\ HeadStage(j + 1)' /\ Pending'
<1> PICK x, s : x = did.x /\ s = HeadScript(x)  OBVIOUS
<1>1. IsSeq(s) /\ Len(s) = 5 /\ todo = Left(s, j)  BY HeadIsScript DEF HeadStage
<1>2. j \in 1 .. Len(s) + 1  BY <1>1, 5 + 1 = 6
<1>3. j \in 1 .. 5  BY <1>1, <1>2, RunsOn
<1>4. Head(todo) = s[j] /\ todo' = Left(s, j + 1)  BY <1>1, <1>2, RunsOn
<1> PICK t : t = HeadRows(x)  OBVIOUS
<1>5. lmPending = Nothing /\ (j \in 2 .. 5 => memory.input = x) /\ (j \in 3 .. 5 => Described(t))
      /\ (j \in 4 .. 5 => BoundTo("lmHead")) /\ (j = 5 /\ VocabSize <= gpu.output => Underway(t))
  BY <1>3 DEF HeadStage
<1>6. CASE j = 1
  <2>1. Head(todo) = Input(x)  BY <1>4, <1>6, HeadIsScript
  <2>2. /\ memory'.input = x /\ lmPending' = Nothing
        /\ GpuTyped' /\ UNCHANGED <<gpu, did, dest>>
    BY <1>5, <2>1, DoInput
  <2>3. HeadStage(j + 1)'  BY <1>4, <1>6, <2>2 DEF HeadStage
  <2>4. QED  BY <1>6, <2>2, <2>3 DEF Pending
<1>7. CASE j = 2
  <2>1. Head(todo) = Uniforms(VocabSize, HiddenSize, 0, 0)  BY <1>4, <1>7, HeadIsScript
  <2>2. /\ memory'.input = x /\ lmPending' = Nothing
        /\ memory'.uniforms = [N |-> VocabSize, K |-> HiddenSize, w |-> 0, out |-> 0]
        /\ GpuTyped' /\ UNCHANGED <<gpu, did, dest>>
    BY <1>5, <1>7, <2>1, DoUniforms
  <2>3. Described(t)'  BY <2>2 DEF Described, HeadRows, RowsOf
  <2>4. HeadStage(j + 1)'  BY <1>4, <1>7, <2>2, <2>3 DEF HeadStage
  <2>5. QED  BY <1>7, <2>2, <2>4 DEF Pending
<1>8. CASE j = 3
  <2>1. Head(todo) = Bind("lmHead")  BY <1>4, <1>8, HeadIsScript
  <2>2. /\ memory' = memory /\ BoundTo("lmHead")' /\ lmPending' = Nothing
        /\ GpuTyped' /\ UNCHANGED <<gpu, did, dest>>
    BY <1>5, <2>1, DoBind
  <2>3. memory'.input = x /\ Described(t)'  BY <1>5, <1>8, <2>2 DEF Described
  <2>4. HeadStage(j + 1)'  BY <1>4, <1>8, <2>2, <2>3 DEF HeadStage
  <2>5. QED  BY <1>8, <2>2, <2>4 DEF Pending
<1>9. CASE j = 4
  <2>1. Head(todo) = DispatchRows(VocabSize)  BY <1>4, <1>9, HeadIsScript
  <2>2. /\ queue' # <<>>
        /\ queue'[Len(queue')] = [shader |-> "gemm", weights |-> "lmHead", out |-> outId,
                                  groups |-> Groups(VocabSize)]
        /\ lmPending' = Nothing
        /\ GpuTyped' /\ UNCHANGED <<gpu, outId, memory, bound, did, dest>>
    BY <1>5, <1>9, <2>1, DoDispatch DEF DispatchRows, BoundTo
  <2>3. memory'.input = x /\ Described(t)' /\ BoundTo("lmHead")'
    BY <1>5, <1>9, <2>2 DEF Described, BoundTo
  <2>4. Underway(t)'  BY <2>2 DEF Underway, Job, HeadRows, RowsOf
  <2>5. HeadStage(j + 1)'  BY <1>4, <1>9, <2>2, <2>3, <2>4 DEF HeadStage
  <2>6. QED  BY <1>9, <2>2, <2>5 DEF Pending
<1>10. CASE j = 5
  <2>1. Head(todo) = Pend(x)  BY <1>4, <1>10, HeadIsScript
  <2>2. /\ lmPending' = [of |-> x, undisturbed |-> TRUE]
        /\ GpuTyped' /\ UNCHANGED <<gpu, outId, memory, bound, queue, did, dest>>
    BY <2>1, DoPend
  <2>3. Described(t)' /\ BoundTo("lmHead")'  BY <1>5, <1>10, <2>2 DEF Described, BoundTo
  <2>4. VocabSize <= gpu'.output => Underway(t)'
    <3>1. Job(t)' = Job(t)  BY <2>2 DEF Job
    <3>2. Computed(t)' = Computed(t)  BY <2>2 DEF Computed
    <3>3. QED  BY <1>5, <1>10, <2>2, <3>1, <3>2 DEF Underway
  <2>5. lmPending' # Nothing  BY <2>2, NotNothing
  <2>6. HeadStage(j + 1)'  BY <1>4, <1>10, <2>2, <2>5 DEF HeadStage
  <2>7. lmPending'.of = x /\ lmPending' \in [of : Vectors, undisturbed : BOOLEAN]  BY <2>2
  <2>8. Pending'  BY <2>3, <2>4, <2>7 DEF Pending
  <2>9. QED  BY <1>10, <2>2, <2>6, <2>8
<1>11. QED  BY <1>3, <1>6, <1>7, <1>8, <1>9, <1>10

LEMMA HeadDevice ==
  ASSUME GpuTyped, DeviceRuns, NEW j \in 1 .. 6, HeadStage(j)
  PROVE  HeadStage(j)'
<1> PICK t : t = HeadRows(did.x)  OBVIOUS
<1>1. /\ queue # <<>> /\ UNCHANGED <<gpu, outId, bound, todo, did, dest, lmPending>>
      /\ memory'.input = memory.input /\ memory'.uniforms = memory.uniforms
  BY DeviceLeaves
<1>2. HeadRows(did.x)' = t  BY <1>1 DEF HeadRows, RowsOf
<1>3. Described(t)' = Described(t)  BY <1>1 DEF Described
<1>4. ASSUME j = 5, VocabSize <= gpu.output PROVE Underway(t)'
  <2>1. Described(t) /\ Underway(t)  BY <1>4 DEF HeadStage
  <2>2. t.N = VocabSize /\ t.out = 0  BY DEF HeadRows, RowsOf
  <2>3. t.N \in Nat /\ t.out \in Nat /\ t.out + t.N <= gpu.output  BY <1>4, <2>2, Sizes
  <2>4. QED  BY <2>1, <2>3, DeviceComputes
<1>5. QED  BY <1>1, <1>2, <1>3, <1>4 DEF HeadStage, BoundTo

LEMMA PendingDevice ==
  ASSUME GpuTyped, DeviceRuns, Pending
  PROVE  Pending'
<1>1. UNCHANGED <<gpu, outId, bound, lmPending>>  BY DeviceLeaves
<1> SUFFICES ASSUME lmPending # Nothing PROVE Pending'  BY <1>1 DEF Pending
<1> PICK t : t = HeadRows(lmPending.of)  OBVIOUS
<1>2. HeadRows(lmPending.of)' = t  BY <1>1 DEF HeadRows, RowsOf
<1>3. ASSUME lmPending.undisturbed
      PROVE  Described(t)' /\ (VocabSize <= gpu.output => BoundTo("lmHead")' /\ Underway(t)')
  <2>1. Described(t) /\ (VocabSize <= gpu.output => BoundTo("lmHead") /\ Underway(t))
    BY <1>3 DEF Pending
  <2>2. Described(t)'  BY <2>1, DeviceLeaves DEF Described
  <2>3. t.N = VocabSize /\ t.out = 0  BY DEF HeadRows, RowsOf
  <2>4. ASSUME VocabSize <= gpu.output PROVE Underway(t)'
    <3>1. t.N \in Nat /\ t.out \in Nat /\ t.out + t.N <= gpu.output  BY <2>3, <2>4, Sizes
    <3>2. QED  BY <2>1, <2>4, <3>1, DeviceComputes
  <2>5. QED  BY <1>1, <2>1, <2>2, <2>4 DEF BoundTo
<1>4. QED  BY <1>1, <1>2, <1>3 DEF Pending

\* The head's product under way is stored when the GPU has finished it.
LEMMA Stores ==
  ASSUME GpuTyped, Executes, NEW rest, IsSeq(rest), StoreStage(rest), Pending
  PROVE  /\ GpuTyped' /\ gpu' = gpu
         /\ \/ StoreStage(rest)' /\ did' = did /\ Pending'
            \/ /\ todo' = rest /\ did' = [did EXCEPT !.was = lmPending] /\ lmPending' = Nothing
               /\ lmPending.undisturbed /\ VocabSize <= gpu.output =>
                    \A t : t = HeadRows(lmPending.of) => Copied("logits", t)'
<1>1. lmPending # Nothing /\ did.was = Nothing  BY DEF StoreStage
<1>2. CASE todo = <<Finish, CopyLmHead>> \o rest
  <2>1. Head(todo) = Finish /\ todo' = <<CopyLmHead>> \o rest
    <3>1. PICK R : R = {rest[i] : i \in DOMAIN rest}  OBVIOUS
    <3>2. rest \in Seq(R)  BY <3>1 DEF IsSeq
    <3>3. Head(todo) = Finish /\ Tail(todo) = <<CopyLmHead>> \o rest  BY <1>2, <3>2
    <3>4. QED  BY <3>3, ExecutesIts
  <2>2. queue = <<>> /\ GpuTyped' /\ UNCHANGED <<gpu, outId, memory, bound, queue, did, dest, lmPending>>
    BY <2>1, DoFinish
  <2>3. StoreStage(rest)'  BY <1>1, <2>1, <2>2 DEF StoreStage
  <2>4. Pending'  BY <2>2 DEF Pending, Described, BoundTo, Underway, Computed, Job
  <2>5. QED  BY <2>2, <2>3, <2>4
<1>3. CASE todo = <<CopyLmHead>> \o rest /\ queue = <<>>
  <2>1. Head(todo) = CopyLmHead /\ todo' = rest
    <3>1. PICK R : R = {rest[i] : i \in DOMAIN rest}  OBVIOUS
    <3>2. rest \in Seq(R)  BY <3>1 DEF IsSeq
    <3>3. Head(todo) = CopyLmHead /\ Tail(todo) = rest  BY <1>3, <3>2
    <3>4. QED  BY <3>3, ExecutesIts
  <2>2. /\ dest'["logits"] = Cells(memory.output, 0, memory.uniforms.N) /\ "logits" \in DOMAIN dest'
        /\ did' = [did EXCEPT !.was = lmPending] /\ lmPending' = Nothing
        /\ GpuTyped' /\ UNCHANGED <<gpu, outId, memory, bound, queue>>
    BY <2>1, DoCopyLmHead
  <2> PICK t : t = HeadRows(lmPending.of)  OBVIOUS
  <2>3. ASSUME lmPending.undisturbed, VocabSize <= gpu.output PROVE Copied("logits", t)'
    <3>1. Described(t) /\ Underway(t)  BY <1>1, <2>3 DEF Pending
    <3>2. memory.uniforms.N = VocabSize /\ t.N = VocabSize /\ t.out = 0
      BY <3>1 DEF Described, HeadRows, RowsOf
    <3>3. Computed(t)  BY <1>3, <3>1 DEF Underway
    <3>4. \A n \in 0 .. VocabSize - 1 : At(dest'["logits"], n) = At(memory.output, 0 + n)
      BY <2>2, <3>2, Sizes, CellsHold
    <3>5. QED  BY <2>2, <3>2, <3>3, <3>4 DEF Computed, Copied, IsProduct
  <2>4. QED  BY <2>1, <2>2, <2>3
<1>4. QED  BY <1>2, <1>3 DEF StoreStage

-----------------------------------------------------------------------------
(* The invariant holds at first and every step keeps it.                   *)

LEMMA RestIsEmpty ==
  ASSUME NEW s, IsSeq(s), NEW j \in 1 .. Len(s) + 1, Left(s, j) = <<>>
  PROVE  j = Len(s) + 1
<1>1. Len(s) \in Nat  BY RestEnds
<1>2. j \notin 1 .. Len(s)  BY RestSteps
<1>3. QED  BY <1>1, <1>2

LEMMA Same ==
  ASSUME NEW t, UNCHANGED <<outId, memory, bound, queue, dest>>, gpu'.output = gpu.output
  PROVE  /\ Described(t)' = Described(t) /\ Underway(t)' = Underway(t) /\ Settled(t)' = Settled(t)
         /\ \A d : Copied(d, t)' = Copied(d, t)
BY DEF Described, Underway, Settled, Copied, Computed, Job

\* What is asked, pending and stored is the same if only the GPU's flags change.
LEMMA FlagsOnly ==
  ASSUME GInv, GpuTyped', gpu'.output = gpu.output, gpu'.dims = gpu.dims,
         UNCHANGED <<outId, memory, bound, queue, todo, did, dest, lmPending>>
  PROVE  GInv'
<1>1. ASSUME NEW x, NEW j, AttnStage(x, j) PROVE AttnStage(x, j)'
  <2> PICK t : t = OutRows(did.y)  OBVIOUS
  <2>1. OutRows(did.y)' = t  BY DEF OutRows, RowsOf
  <2>2. /\ Described(t)' = Described(t) /\ Underway(t)' = Underway(t) /\ Settled(t)' = Settled(t)
        /\ Copied("o", t)' = Copied("o", t)
    BY Same
  <2>3. QED  BY <1>1, <2>1, <2>2 DEF AttnStage, BoundTo
<1>2. ASSUME NEW j, FfnStage(j) PROVE FfnStage(j)'
  <2> PICK u, d : u = UpRows(did.x) /\ d = DownRows(did.y)  OBVIOUS
  <2>1. UpRows(did.x)' = u /\ DownRows(did.y)' = d  BY DEF UpRows, DownRows, RowsOf
  <2>2. /\ Described(u)' = Described(u) /\ Underway(u)' = Underway(u) /\ Settled(u)' = Settled(u)
        /\ Copied("up", u)' = Copied("up", u)
    BY Same
  <2>3. /\ Described(d)' = Described(d) /\ Underway(d)' = Underway(d) /\ Settled(d)' = Settled(d)
        /\ Copied("down", d)' = Copied("down", d)
    BY Same
  <2>4. QED  BY <1>2, <2>1, <2>2, <2>3 DEF FfnStage, BoundTo
<1>3. ASSUME NEW j, BatchStage(j) PROVE BatchStage(j)'
  <2> PICK t : t = ThirdRows(did.weights, did.x)  OBVIOUS
  <2>1. ThirdRows(did.weights, did.x)' = t  BY DEF ThirdRows, RowsOf
  <2>2. /\ Described(t)' = Described(t) /\ Underway(t)' = Underway(t) /\ Settled(t)' = Settled(t)
        /\ Copied(3, t)' = Copied(3, t)
    BY Same
  <2>3. QED  BY <1>3, <2>1, <2>2 DEF BatchStage, BoundTo
<1>4. ASSUME NEW j, AllQStage(j) PROVE AllQStage(j)'
  <2>1. LayersComputed(did.x)' = LayersComputed(did.x)  BY DEF LayersComputed
  <2>2. QED  BY <1>4, <2>1 DEF AllQStage, BoundTo
<1>5. ASSUME NEW j, HeadStage(j) PROVE HeadStage(j)'
  <2> PICK t : t = HeadRows(did.x)  OBVIOUS
  <2>1. HeadRows(did.x)' = t  BY DEF HeadRows, RowsOf
  <2>2. Described(t)' = Described(t) /\ Underway(t)' = Underway(t)  BY Same
  <2>3. QED  BY <1>5, <2>1, <2>2 DEF HeadStage, BoundTo
<1>6. ASSUME NEW rest, StoreStage(rest) PROVE StoreStage(rest)'  BY <1>6 DEF StoreStage
<1>7. Asked'
  <2>1. CASE did = Nothing /\ todo = <<>>  BY <2>1 DEF Asked
  <2>2. CASE Disturbs /\ (AskedRun \/ AskedBatch \/ AskedAttn \/ AskedFfn \/ AskedAllQ)
    <3>1. Disturbs'  BY <2>2 DEF Disturbs
    <3>2. CASE AskedRun  BY <3>1, <3>2 DEF Asked, AskedRun
    <3>3. CASE AskedBatch
      <4>1. AskedBatch'  BY <1>3, <3>3 DEF AskedBatch
      <4>2. QED  BY <3>1, <4>1 DEF Asked
    <3>4. CASE AskedAttn
      <4>1. AskedAttn'  BY <1>1, <3>4 DEF AskedAttn
      <4>2. QED  BY <3>1, <4>1 DEF Asked
    <3>5. CASE AskedFfn
      <4>1. AskedFfn'  BY <1>2, <3>5 DEF AskedFfn
      <4>2. QED  BY <3>1, <4>1 DEF Asked
    <3>6. CASE AskedAllQ
      <4>1. AskedAllQ'  BY <1>4, <3>6 DEF AskedAllQ
      <4>2. QED  BY <3>1, <4>1 DEF Asked
    <3>7. QED  BY <2>2, <3>2, <3>3, <3>4, <3>5, <3>6
  <2>3. CASE AskedHead
    <3>1. CASE StoreStage(HeadScript(did.x))
      <4>1. PICK rest : rest = HeadScript(did.x)  OBVIOUS
      <4>2. StoreStage(rest)' /\ HeadScript(did.x)' = rest  BY <1>6, <3>1, <4>1
      <4>3. QED  BY <2>3, <4>2 DEF Asked, AskedHead
    <3>2. CASE \E j \in 1 .. 6 : HeadStage(j)
      <4>1. \E j \in 1 .. 6 : HeadStage(j)'  BY <1>5, <3>2
      <4>2. QED  BY <2>3, <4>1 DEF Asked, AskedHead
    <3>3. QED  BY <2>3, <3>1, <3>2 DEF AskedHead
  <2>4. CASE AskedWait
    <3>1. AskedWait'  BY <1>6, <2>4 DEF AskedWait
    <3>2. QED  BY <3>1 DEF Asked
  <2>5. CASE AskedSync  BY <2>5 DEF Asked, AskedSync
  <2>6. QED  BY <2>1, <2>2, <2>3, <2>4, <2>5 DEF GInv, Asked
<1>8. Pending'
  <2> PICK t : t = HeadRows(lmPending.of)  OBVIOUS
  <2>1. HeadRows(lmPending.of)' = t  BY DEF HeadRows, RowsOf
  <2>2. Described(t)' = Described(t) /\ Underway(t)' = Underway(t)  BY Same
  <2>3. QED  BY <2>1, <2>2 DEF GInv, Pending, BoundTo
<1>9. Stored'
  <2> PICK t : t = HeadRows(did.was.of)  OBVIOUS
  <2>1. HeadRows(did.was.of)' = t  BY DEF HeadRows, RowsOf
  <2>2. Copied("logits", t)' = Copied("logits", t)  BY Same
  <2>3. QED  BY <2>1, <2>2 DEF GInv, Stored
<1>10. DimsFirst'  BY DEF GInv, DimsFirst
<1>11. QED  BY <1>7, <1>8, <1>9, <1>10 DEF GInv

LEMMA EmptyIsSeq == IsSeq(<<>>)
BY EmptySeq DEF IsSeq

LEMMA GpuStarts == GpuInit => GInv
<1> SUFFICES ASSUME GpuInit PROVE GInv  OBVIOUS
<1>1. gpu = Down /\ outId = 0 /\ memory = NoMemory /\ queue = <<>> /\ todo = <<>> /\ did = Nothing
      /\ lmPending = Nothing
  BY DEF GpuInit
<1>2. GpuTyped  BY <1>1, EmptyIsSeq DEF GpuTyped, Down, NoMemory
<1>3. DimsFirst  BY <1>1 DEF DimsFirst, Down
<1>4. QED  BY <1>1, <1>2, <1>3 DEF GInv, Asked, Pending, Stored

LEMMA ShutsDown ==
  ASSUME GInv, CallShutdown
  PROVE  GInv'
<1>1. gpu' = Down /\ outId' = 0 /\ memory' = NoMemory /\ queue' = <<>> /\ todo' = <<>> /\ did' = Nothing
      /\ lmPending' = Nothing
  BY DEF CallShutdown
<1>2. GpuTyped'  BY <1>1, EmptyIsSeq DEF GpuTyped, Down, NoMemory
<1>3. DimsFirst'  BY <1>1 DEF DimsFirst, Down
<1>4. QED  BY <1>1, <1>2, <1>3 DEF GInv, Asked, Pending, Stored

LEMMA SetsDims ==
  ASSUME GInv, CallSetDims
  PROVE  GInv'
<1> PICK most : most = Larger(HiddenSize, FfnSize)  OBVIOUS
<1>1. /\ ~ gpu.dims /\ UNCHANGED <<outId, memory, bound, queue, todo, did, dest, lmPending>>
      /\ gpu' = [gpu EXCEPT !.dims = TRUE, !.input = Larger(@, most), !.output = Larger(@, most)]
  BY DEF CallSetDims
<1>2. todo = <<>> /\ did = Nothing /\ lmPending = Nothing /\ queue = <<>>  BY <1>1 DEF GInv, DimsFirst
<1>3. most \in Nat  BY Sizes DEF Larger
<1>4. /\ gpu' = [up |-> gpu.up, dims |-> TRUE, input |-> Larger(gpu.input, most),
                 output |-> Larger(gpu.output, most), batch |-> gpu.batch, unified |-> gpu.unified,
                 layer |-> gpu.layer, lmHead |-> gpu.lmHead]
      /\ gpu.output \in Nat /\ gpu.input \in Nat
  BY <1>1 DEF GInv, GpuTyped
<1>5. Larger(gpu.input, most) \in Nat /\ Larger(gpu.output, most) \in Nat /\ most <= Larger(gpu.output, most)
  BY <1>3, <1>4 DEF Larger
<1>6. GpuTyped'  BY <1>1, <1>4, <1>5 DEF GInv, GpuTyped
<1>7. DimsFirst'  BY <1>4, <1>5 DEF DimsFirst
<1>8. QED  BY <1>1, <1>2, <1>6, <1>7 DEF GInv, Asked, Pending, Stored

LEMMA SetsFlags ==
  ASSUME GInv, CallInit \/ gpu_gemm_alloc_weights \/ gpu_gemm_alloc_unified_weights \/ gpu_gemm_alloc_lmhead
  PROVE  GInv'
<1>1. UNCHANGED <<outId, memory, bound, queue, todo, did, dest, lmPending>>
  BY DEF CallInit, gpu_gemm_alloc_weights, gpu_gemm_alloc_unified_weights, gpu_gemm_alloc_lmhead, Allocates
<1>2. PICK flag \in {"up", "layer", "unified", "lmHead"} : gpu' = [gpu EXCEPT ![flag] = TRUE]
  BY DEF CallInit, gpu_gemm_alloc_weights, gpu_gemm_alloc_unified_weights, gpu_gemm_alloc_lmhead, Allocates
<1>3. gpu' \in [up : BOOLEAN, dims : BOOLEAN, input : Nat, output : Nat, batch : Nat,
                unified : BOOLEAN, layer : BOOLEAN, lmHead : BOOLEAN]
      /\ gpu'.output = gpu.output /\ gpu'.dims = gpu.dims
  BY <1>2 DEF GInv, GpuTyped
<1>4. GpuTyped'  BY <1>1, <1>3 DEF GInv, GpuTyped
<1>5. QED  BY <1>1, <1>3, <1>4, FlagsOnly

\* A call that begins finds the GPU with its dimensions; it disturbs the head's
\* product unless it is the head's own, or waits only.
LEMMA GpuCallBegins ==
  ASSUME GInv, NEW instructions, NEW asked, Begins(instructions, asked)
  PROVE  /\ GpuTyped' /\ DimsFirst' /\ Pending'
         /\ todo' = instructions /\ did' = asked /\ gpu' = gpu
         /\ asked.op \notin {"lmHead", "wait", "sync"} => Disturbs'
         /\ asked.op \in {"lmHead", "wait", "sync"} => lmPending' = lmPending
<1>1. /\ gpu.dims /\ todo' = instructions /\ did' = asked
      /\ lmPending' = IF lmPending = Nothing \/ asked.op \in {"lmHead", "wait", "sync"} THEN lmPending
                      ELSE [lmPending EXCEPT !.undisturbed = FALSE]
      /\ UNCHANGED <<gpu, outId, memory, bound, queue>>
  BY DEF Begins
<1>2. GpuTyped' /\ DimsFirst'  BY <1>1 DEF GInv, GpuTyped, DimsFirst
<1>3. CASE lmPending = Nothing \/ asked.op \in {"lmHead", "wait", "sync"}
  <2>1. lmPending' = lmPending  BY <1>1, <1>3
  <2> PICK t : t = HeadRows(lmPending.of)  OBVIOUS
  <2>2. HeadRows(lmPending.of)' = t  BY <2>1 DEF HeadRows, RowsOf
  <2>3. Described(t)' = Described(t) /\ Underway(t)' = Underway(t)
    BY <1>1 DEF Described, Underway, Computed, Job
  <2>4. Pending'  BY <1>1, <2>1, <2>2, <2>3 DEF GInv, Pending, BoundTo
  <2>5. QED  BY <1>1, <1>2, <1>3, <2>1, <2>4 DEF Disturbs
<1>4. CASE lmPending # Nothing /\ asked.op \notin {"lmHead", "wait", "sync"}
  <2>1. lmPending \in [of : Vectors, undisturbed : BOOLEAN]  BY <1>4 DEF GInv, Pending
  <2>2. lmPending' = [lmPending EXCEPT !.undisturbed = FALSE]  BY <1>1, <1>4
  <2>3. lmPending' \in [of : Vectors, undisturbed : BOOLEAN] /\ ~ lmPending'.undisturbed  BY <2>1, <2>2
  <2>4. Pending' /\ Disturbs'  BY <2>3 DEF Pending, Disturbs
  <2>5. QED  BY <1>1, <1>2, <1>4, <2>4
<1>5. QED  BY <1>3, <1>4

LEMMA BeginsRun ==
  ASSUME GInv, NEW x \in Vectors, CallRun(x) \/ CallBatch(x) \/ CallAllQ(x)
  PROVE  GInv'
<1>1. CASE CallRun(x)
  <2> PICK a, s : a = [op |-> "run", x |-> x] /\ s = gpu_gemm_run(x, UpOffset, FfnSize, HiddenSize)  OBVIOUS
  <2>1. Begins(s, a)  BY <1>1 DEF CallRun
  <2>2. a.op = "run" /\ a.x = x  OBVIOUS
  <2>3. GpuTyped' /\ DimsFirst' /\ Pending' /\ Disturbs' /\ todo' = s /\ did' = a
    BY <2>1, <2>2, GpuCallBegins
  <2>4. s = Left(s, 1)
    <3>1. DOMAIN s = 1 .. 5 /\ s = [i \in 1 .. 5 |-> s[i]]  BY DEF gpu_gemm_run
    <3>2. IsSeq(s)  BY <3>1, FunctionIsSeq
    <3>3. QED  BY <3>2, RestEnds
  <2>5. AskedRun'  BY <2>2, <2>3, <2>4 DEF AskedRun
  <2>6. Stored'  BY <2>2, <2>3 DEF Stored
  <2>7. QED  BY <2>3, <2>5, <2>6 DEF GInv, Asked
<1>2. CASE CallBatch(x)
  <2>1. PICK w : Begins(gpu_gemm_run_batch(x, w, Projections), [op |-> "batch", x |-> x, weights |-> w])
    BY <1>2 DEF CallBatch
  <2> PICK a, s : a = [op |-> "batch", x |-> x, weights |-> w] /\ s = gpu_gemm_run_batch(x, w, Projections)
    OBVIOUS
  <2>2. a.op = "batch" /\ a.x = x /\ a.weights = w  OBVIOUS
  <2>3. GpuTyped' /\ DimsFirst' /\ Pending' /\ Disturbs' /\ todo' = s /\ did' = a
    BY <2>1, <2>2, GpuCallBegins
  <2>4. s = Left(s, 1)  BY BatchScript, RestEnds
  <2>5. BatchStage(1)'  BY <2>2, <2>3, <2>4 DEF BatchStage
  <2>6. AskedBatch'  BY <2>2, <2>3, <2>5 DEF AskedBatch
  <2>7. Stored'  BY <2>2, <2>3 DEF Stored
  <2>8. QED  BY <2>3, <2>6, <2>7 DEF GInv, Asked
<1>3. CASE CallAllQ(x)
  <2> PICK a, s : a = [op |-> "allQ", x |-> x]
                  /\ s = gpu_gemm_run_all_layers_q(x, AllQ, FfnSize, HiddenSize)
    OBVIOUS
  <2>1. Begins(s, a)  BY <1>3 DEF CallAllQ
  <2>2. a.op = "allQ" /\ a.x = x  OBVIOUS
  <2>3. GpuTyped' /\ DimsFirst' /\ Pending' /\ Disturbs' /\ todo' = s /\ did' = a
    BY <2>1, <2>2, GpuCallBegins
  <2>4. s = Left(s, 1)  BY AllQScript, RestEnds
  <2>5. AllQStage(1)'  BY <2>2, <2>3, <2>4, Sizes DEF AllQStage
  <2>6. AskedAllQ'  BY <2>2, <2>3, <2>5, Sizes DEF AskedAllQ
  <2>7. Stored'  BY <2>2, <2>3 DEF Stored
  <2>8. QED  BY <2>3, <2>6, <2>7 DEF GInv, Asked
<1>4. QED  BY <1>1, <1>2, <1>3

LEMMA BeginsLayer ==
  ASSUME GInv, NEW x \in Vectors, NEW y \in Vectors, CallAttn(x, y) \/ CallFfn(x, y)
  PROVE  GInv'
<1>1. gpu.output \in Nat  BY DEF GInv, GpuTyped
<1>2. CASE CallAttn(x, y)
  <2> PICK a, s : /\ a = [op |-> "attn", y |-> y, grown |-> gpu.output < HiddenSize + 2 * KvSize]
                  /\ s = gpu_gemm_run_attn(x, y, "layer")
    OBVIOUS
  <2>1. Begins(s, a)  BY <1>2 DEF CallAttn
  <2>2. a.op = "attn" /\ a.y = y  OBVIOUS
  <2>3. GpuTyped' /\ DimsFirst' /\ Pending' /\ Disturbs' /\ todo' = s /\ did' = a /\ gpu' = gpu
    BY <2>1, <2>2, GpuCallBegins
  <2>4. s = Left(s, 1)  BY AttnScript, RestEnds
  <2>5. ~ a.grown => HiddenSize + KvSize + KvSize <= gpu.output
    <3>1. ~ a.grown => ~ (gpu.output < HiddenSize + 2 * KvSize)  BY Zenon
    <3>2. ~ (gpu.output < HiddenSize + 2 * KvSize) => HiddenSize + KvSize + KvSize <= gpu.output
      BY <1>1, Sizes
    <3>3. QED  BY <3>1, <3>2, Zenon
  <2>6. AttnStage(x, 1)'  BY <2>2, <2>3, <2>4, <2>5 DEF AttnStage
  <2>7. AskedAttn'  BY <2>2, <2>3, <2>6 DEF AskedAttn
  <2>8. Stored'  BY <2>2, <2>3 DEF Stored
  <2>9. QED  BY <2>3, <2>7, <2>8 DEF GInv, Asked
<1>3. CASE CallFfn(x, y)
  <2> PICK a, s : /\ a = [op |-> "ffn", x |-> x, y |-> y, grown |-> gpu.output < 2 * FfnSize]
                  /\ s = gpu_gemm_run_ffn(x, y, "layer")
    OBVIOUS
  <2>1. Begins(s, a)  BY <1>3 DEF CallFfn
  <2>2. a.op = "ffn" /\ a.x = x /\ a.y = y  OBVIOUS
  <2>3. GpuTyped' /\ DimsFirst' /\ Pending' /\ Disturbs' /\ todo' = s /\ did' = a /\ gpu' = gpu
    BY <2>1, <2>2, GpuCallBegins
  <2>4. s = Left(s, 1)  BY FfnScript, RestEnds
  <2>5. ~ a.grown => FfnSize + FfnSize <= gpu.output
    <3>1. ~ a.grown => ~ (gpu.output < 2 * FfnSize)  BY Zenon
    <3>2. ~ (gpu.output < 2 * FfnSize) => FfnSize + FfnSize <= gpu.output
      BY <1>1, Sizes
    <3>3. QED  BY <3>1, <3>2, Zenon
  <2>6. FfnStage(1)'  BY <2>2, <2>3, <2>4, <2>5 DEF FfnStage
  <2>7. AskedFfn'  BY <2>2, <2>3, <2>6 DEF AskedFfn
  <2>8. Stored'  BY <2>2, <2>3 DEF Stored
  <2>9. QED  BY <2>3, <2>7, <2>8 DEF GInv, Asked
<1>4. QED  BY <1>2, <1>3

LEMMA BeginsHead ==
  ASSUME GInv, NEW x, (x \in Vectors /\ CallLmHead(x)) \/ CallWait \/ CallSync
  PROVE  GInv'
<1>1. CASE x \in Vectors /\ CallLmHead(x)
  <2> PICK a, s : a = [op |-> "lmHead", x |-> x, was |-> Nothing] /\ s = gpu_gemm_run_lmhead(x)  OBVIOUS
  <2>1. Begins(s, a)  BY <1>1 DEF CallLmHead
  <2>2. a.op = "lmHead" /\ a.x = x /\ a.was = Nothing /\ a = [op |-> "lmHead", x |-> a.x, was |-> a.was]
    OBVIOUS
  <2>3. GpuTyped' /\ DimsFirst' /\ Pending' /\ todo' = s /\ did' = a /\ lmPending' = lmPending
    BY <2>1, <2>2, GpuCallBegins
  <2>4. CASE lmPending = Nothing
    <3>1. s = HeadScript(x)
      <4>1. PICK S : HeadScript(x) \in Seq(S)  BY HeadIsScript DEF IsSeq
      <4>2. <<>> \o HeadScript(x) = HeadScript(x)  BY <4>1, ConcatEmptySeq
      <4>3. QED  BY <2>4, <4>2 DEF gpu_gemm_run_lmhead, gpu_gemm_wait_lmhead, HeadScript
    <3>2. s = Left(HeadScript(x), 1)  BY <3>1, HeadIsScript, RestEnds
    <3>3. HeadStage(1)'  BY <2>2, <2>3, <2>4, <3>2 DEF HeadStage
    <3>4. AskedHead'  BY <1>1, <2>2, <2>3, <3>3 DEF AskedHead
    <3>5. QED  BY <2>2, <2>3, <3>4 DEF GInv, Asked, Stored
  <2>5. CASE lmPending # Nothing
    <3>1. s = <<Finish, CopyLmHead>> \o HeadScript(x)
      BY <2>5 DEF gpu_gemm_run_lmhead, gpu_gemm_wait_lmhead, HeadScript
    <3>2. did'.x = x  BY <2>2, <2>3
    <3>3. StoreStage(HeadScript(did.x))'  BY <2>2, <2>3, <2>5, <3>1, <3>2 DEF StoreStage
    <3>4. AskedHead'  BY <1>1, <2>2, <2>3, <3>3 DEF AskedHead
    <3>5. QED  BY <2>2, <2>3, <3>4 DEF GInv, Asked, Stored
  <2>6. QED  BY <2>4, <2>5
<1>2. CASE CallWait
  <2> PICK a, s : a = [op |-> "wait", was |-> Nothing] /\ s = gpu_gemm_wait_lmhead  OBVIOUS
  <2>1. lmPending # Nothing /\ Begins(s, a)  BY <1>2 DEF CallWait
  <2>2. a.op = "wait" /\ a.was = Nothing /\ a = [op |-> "wait", was |-> a.was]  OBVIOUS
  <2>3. GpuTyped' /\ DimsFirst' /\ Pending' /\ todo' = s /\ did' = a /\ lmPending' = lmPending
    BY <2>1, <2>2, GpuCallBegins
  <2>4. s = <<Finish, CopyLmHead>> \o <<>>
    <3>1. <<Finish, CopyLmHead>> \in Seq({Finish, CopyLmHead})  OBVIOUS
    <3>2. QED  BY <2>1, <3>1, ConcatEmptySeq DEF gpu_gemm_wait_lmhead
  <2>5. StoreStage(<<>>)'  BY <2>1, <2>2, <2>3, <2>4 DEF StoreStage
  <2>6. AskedWait'  BY <2>2, <2>3, <2>5 DEF AskedWait
  <2>7. QED  BY <2>2, <2>3, <2>6 DEF GInv, Asked, Stored
<1>3. CASE CallSync
  <2> PICK a : a = [op |-> "sync"]  OBVIOUS
  <2>1. Begins(<<Finish>>, a)  BY <1>3 DEF CallSync
  <2>2. a.op = "sync"  OBVIOUS
  <2>3. GpuTyped' /\ DimsFirst' /\ Pending' /\ todo' = <<Finish>> /\ did' = a  BY <2>1, <2>2, GpuCallBegins
  <2>4. QED  BY <2>2, <2>3 DEF GInv, Asked, AskedSync, Stored
<1>4. QED  BY <1>1, <1>2, <1>3

\* Whoever runs an instruction has set the dimensions.
LEMMA CarriesOn ==
  ASSUME GInv, Executes, Carries, Disturbs, did.op \notin {"lmHead", "wait"}
  PROVE  Disturbs' /\ Pending' /\ Stored' /\ DimsFirst'
<1>1. todo # <<>>  BY ExecutesIts
<1>2. gpu.dims /\ Larger(HiddenSize, FfnSize) <= gpu.output  BY <1>1 DEF GInv, DimsFirst
<1>3. /\ GpuTyped' /\ did' = did /\ lmPending' = lmPending /\ gpu'.dims = gpu.dims
      /\ gpu.output <= gpu'.output
  BY DEF Carries
<1>4. gpu.output \in Nat /\ gpu'.output \in Nat  BY <1>3 DEF GInv, GpuTyped
<1>5. Larger(HiddenSize, FfnSize) \in Nat  BY Sizes DEF Larger
<1>6. DimsFirst'
  <2>1. Larger(HiddenSize, FfnSize) <= gpu'.output  BY <1>2, <1>3, <1>4, <1>5
  <2>2. QED  BY <1>2, <1>3, <2>1 DEF DimsFirst
<1>7. Disturbs'  BY <1>3 DEF Disturbs
<1>8. Pending'
  <2>1. lmPending # Nothing => lmPending \in [of : Vectors, undisturbed : BOOLEAN]  BY DEF GInv, Pending
  <2>2. QED  BY <1>3, <1>7, <2>1 DEF Pending, Disturbs
<1>9. Stored'  BY <1>3 DEF Stored
<1>10. QED  BY <1>6, <1>7, <1>8, <1>9

\* The head's own instructions leave the sizes of the buffers.
LEMMA SizesStay ==
  ASSUME GInv, Executes, gpu' = gpu
  PROVE  DimsFirst'
<1>1. todo # <<>>  BY ExecutesIts
<1>2. QED  BY <1>1 DEF GInv, DimsFirst

LEMMA StoredNow ==
  ASSUME Pending, lmPending # Nothing, gpu' = gpu, NEW d, did' = d, d.was = lmPending,
         lmPending.undisturbed /\ VocabSize <= gpu.output =>
           \A t : t = HeadRows(lmPending.of) => Copied("logits", t)'
  PROVE  Stored'
<1> PICK t : t = HeadRows(lmPending.of)  OBVIOUS
<1>1. HeadRows(did.was.of)' = t  BY DEF HeadRows, RowsOf
<1>2. lmPending.undisturbed /\ VocabSize <= gpu.output => Copied("logits", t)'  OBVIOUS
<1>3. QED  BY <1>1, <1>2 DEF Stored

LEMMA HeadKeeps ==
  ASSUME GInv, Executes, AskedHead
  PROVE  GInv'
<1>1. /\ did.op = "lmHead" /\ did = [op |-> "lmHead", x |-> did.x, was |-> did.was] /\ did.x \in Vectors
      /\ GpuTyped /\ Pending /\ Stored
  BY DEF AskedHead, GInv
<1>2. CASE StoreStage(HeadScript(did.x))
  <2> PICK rest : rest = HeadScript(did.x)  OBVIOUS
  <2>1. IsSeq(rest) /\ Len(rest) = 5 /\ rest = Left(rest, 1)  BY HeadIsScript, RestEnds
  <2>2. /\ GpuTyped' /\ gpu' = gpu
        /\ \/ StoreStage(rest)' /\ did' = did /\ Pending'
           \/ /\ todo' = rest /\ did' = [did EXCEPT !.was = lmPending] /\ lmPending' = Nothing
              /\ lmPending.undisturbed /\ VocabSize <= gpu.output =>
                   \A t : t = HeadRows(lmPending.of) => Copied("logits", t)'
    BY <1>1, <1>2, <2>1, Stores
  <2>3. DimsFirst'  BY <2>2, SizesStay
  <2>4. did.was = Nothing /\ lmPending # Nothing  BY <1>2 DEF StoreStage
  <2>5. CASE StoreStage(rest)' /\ did' = did /\ Pending'
    <3>1. HeadScript(did.x)' = rest  BY <2>5
    <3>2. AskedHead'  BY <1>1, <2>5, <3>1 DEF AskedHead
    <3>3. Stored'  BY <2>4, <2>5 DEF Stored
    <3>4. QED  BY <2>2, <2>3, <2>5, <3>2, <3>3 DEF GInv, Asked
  <2>6. CASE /\ todo' = rest /\ did' = [did EXCEPT !.was = lmPending] /\ lmPending' = Nothing
             /\ lmPending.undisturbed /\ VocabSize <= gpu.output =>
                  \A t : t = HeadRows(lmPending.of) => Copied("logits", t)'
    <3> PICK d : d = [op |-> "lmHead", x |-> did.x, was |-> lmPending]  OBVIOUS
    <3>1. did' = d /\ d.op = "lmHead" /\ d.x = did.x /\ d.was = lmPending  BY <1>1, <2>6
    <3>2. HeadScript(did.x)' = rest  BY <3>1
    <3>3. HeadStage(1)'  BY <2>1, <2>6, <3>2 DEF HeadStage
    <3>4. AskedHead'  BY <1>1, <3>1, <3>3 DEF AskedHead
    <3>5. Stored'  BY <1>1, <2>2, <2>4, <2>6, <3>1, StoredNow
    <3>6. Pending'  BY <2>6 DEF Pending
    <3>7. QED  BY <2>2, <2>3, <3>4, <3>5, <3>6 DEF GInv, Asked
  <2>7. QED  BY <2>2, <2>5, <2>6
<1>3. CASE \E j \in 1 .. 6 : HeadStage(j)
  <2> PICK j \in 1 .. 6 : HeadStage(j)  BY <1>3
  <2>1. /\ GpuTyped' /\ UNCHANGED <<gpu, did, dest>>
        /\ j + 1 \in 1 .. 6 /\ HeadStage(j + 1)' /\ Pending'
    BY <1>1, HeadExecutes
  <2>2. AskedHead'  BY <1>1, <2>1 DEF AskedHead
  <2>3. DimsFirst'  BY <2>1, SizesStay
  <2> PICK t : t = HeadRows(did.was.of)  OBVIOUS
  <2>4. HeadRows(did.was.of)' = t  BY <2>1 DEF HeadRows, RowsOf
  <2>5. Copied("logits", t)' = Copied("logits", t)  BY <2>1 DEF Copied
  <2>6. Stored'  BY <1>1, <2>1, <2>4, <2>5 DEF Stored
  <2>7. QED  BY <2>1, <2>2, <2>3, <2>6 DEF GInv, Asked
<1>4. QED  BY <1>2, <1>3 DEF AskedHead

LEMMA WaitKeeps ==
  ASSUME GInv, Executes, AskedWait
  PROVE  GInv'
<1>1. did.op = "wait" /\ did = [op |-> "wait", was |-> did.was] /\ GpuTyped /\ Pending
  BY DEF AskedWait, GInv
<1>2. StoreStage(<<>>)  BY ExecutesIts DEF AskedWait
<1>3. /\ GpuTyped' /\ gpu' = gpu
      /\ \/ StoreStage(<<>>)' /\ did' = did /\ Pending'
         \/ /\ todo' = <<>> /\ did' = [did EXCEPT !.was = lmPending] /\ lmPending' = Nothing
            /\ lmPending.undisturbed /\ VocabSize <= gpu.output =>
                 \A t : t = HeadRows(lmPending.of) => Copied("logits", t)'
  <2> PICK rest : rest = <<>>  OBVIOUS
  <2>1. IsSeq(rest) /\ StoreStage(rest)  BY <1>2, EmptyIsSeq
  <2>2. /\ GpuTyped' /\ gpu' = gpu
        /\ \/ StoreStage(rest)' /\ did' = did /\ Pending'
           \/ /\ todo' = rest /\ did' = [did EXCEPT !.was = lmPending] /\ lmPending' = Nothing
              /\ lmPending.undisturbed /\ VocabSize <= gpu.output =>
                   \A t : t = HeadRows(lmPending.of) => Copied("logits", t)'
    BY <1>1, <2>1, Stores
  <2>3. QED  BY <2>2
<1>4. DimsFirst'  BY <1>3, SizesStay
<1>5. did.was = Nothing /\ lmPending # Nothing  BY <1>2 DEF StoreStage
<1>6. CASE StoreStage(<<>>)' /\ did' = did /\ Pending'
  <2>1. AskedWait'  BY <1>1, <1>6 DEF AskedWait
  <2>2. Stored'  BY <1>5, <1>6 DEF Stored
  <2>3. QED  BY <1>3, <1>4, <1>6, <2>1, <2>2 DEF GInv, Asked
<1>7. CASE /\ todo' = <<>> /\ did' = [did EXCEPT !.was = lmPending] /\ lmPending' = Nothing
           /\ lmPending.undisturbed /\ VocabSize <= gpu.output =>
                \A t : t = HeadRows(lmPending.of) => Copied("logits", t)'
  <2> PICK d : d = [op |-> "wait", was |-> lmPending]  OBVIOUS
  <2>1. did' = d /\ d.op = "wait" /\ d.was = lmPending  BY <1>1, <1>7
  <2>2. did' = [op |-> "wait", was |-> did'.was]  BY <2>1
  <2>3. AskedWait'  BY <1>7, <2>1, <2>2 DEF AskedWait
  <2>4. Stored'  BY <1>1, <1>3, <1>5, <1>7, <2>1, StoredNow
  <2>5. Pending'  BY <1>7 DEF Pending
  <2>6. QED  BY <1>3, <1>4, <2>3, <2>4, <2>5 DEF GInv, Asked
<1>8. QED  BY <1>3, <1>6, <1>7

LEMMA SyncKeeps ==
  ASSUME GInv, Executes, AskedSync
  PROVE  GInv'
<1>1. todo # <<>> /\ todo' = Tail(todo)  BY ExecutesIts
<1>2. did.op = "sync" /\ todo = <<Finish>>  BY <1>1 DEF AskedSync
<1>3. Head(todo) = Finish /\ todo' = <<>>  BY <1>1, <1>2
<1>4. GpuTyped' /\ UNCHANGED <<gpu, outId, memory, bound, queue, did, dest, lmPending>>
  BY <1>3, DoFinish DEF GInv
<1>5. AskedSync'  BY <1>2, <1>3, <1>4 DEF AskedSync
<1>6. DimsFirst'  BY <1>4, SizesStay
<1>7. Pending'
  <2> PICK t : t = HeadRows(lmPending.of)  OBVIOUS
  <2>1. HeadRows(lmPending.of)' = t  BY <1>4 DEF HeadRows, RowsOf
  <2>2. Described(t)' = Described(t) /\ Underway(t)' = Underway(t)  BY <1>4, Same
  <2>3. QED  BY <1>4, <2>1, <2>2 DEF GInv, Pending, BoundTo
<1>8. Stored'  BY <1>2, <1>4 DEF Stored
<1>9. QED  BY <1>4, <1>5, <1>6, <1>7, <1>8 DEF GInv, Asked

LEMMA ExecutesKeeps ==
  ASSUME GInv, Executes
  PROVE  GInv'
<1>1. todo # <<>> /\ GpuTyped  BY ExecutesIts DEF GInv
<1>2. CASE Disturbs /\ AskedRun
  <2>1. PICK j \in 1 .. 6 : todo = Left(gpu_gemm_run(did.x, UpOffset, FfnSize, HiddenSize), j)
    BY <1>2 DEF AskedRun
  <2>2. /\ Carries /\ j + 1 \in 1 .. 6
        /\ todo' = Left(gpu_gemm_run(did'.x, UpOffset, FfnSize, HiddenSize), j + 1)
    BY <1>1, <2>1, RunExecutes
  <2>3. did.op = "run"  BY <1>2 DEF AskedRun
  <2>4. Disturbs' /\ Pending' /\ Stored' /\ DimsFirst'  BY <1>2, <2>2, <2>3, CarriesOn
  <2>5. AskedRun'  BY <2>2, <2>3 DEF AskedRun, Carries
  <2>6. QED  BY <2>2, <2>4, <2>5 DEF GInv, Asked, Carries
<1>3. CASE Disturbs /\ AskedBatch
  <2>1. PICK j \in 1 .. 14 : BatchStage(j)  BY <1>3 DEF AskedBatch
  <2>2. Carries /\ j + 1 \in 1 .. 14 /\ BatchStage(j + 1)'  BY <1>1, <2>1, BatchExecutes
  <2>3. did.op = "batch"  BY <1>3 DEF AskedBatch
  <2>4. Disturbs' /\ Pending' /\ Stored' /\ DimsFirst'  BY <1>3, <2>2, <2>3, CarriesOn
  <2>5. AskedBatch'  BY <2>2, <2>3 DEF AskedBatch, Carries
  <2>6. QED  BY <2>2, <2>4, <2>5 DEF GInv, Asked, Carries
<1>4. CASE Disturbs /\ AskedAttn
  <2>1. PICK x \in Vectors, j \in 1 .. 18 : AttnStage(x, j)  BY <1>4 DEF AskedAttn
  <2>2. Carries /\ j + 1 \in 1 .. 18 /\ AttnStage(x, j + 1)'  BY <1>1, <2>1, AttnExecutes
  <2>3. did.op = "attn"  BY <1>4 DEF AskedAttn
  <2>4. Disturbs' /\ Pending' /\ Stored' /\ DimsFirst'  BY <1>4, <2>2, <2>3, CarriesOn
  <2>5. AskedAttn'  BY <2>2, <2>3 DEF AskedAttn, Carries
  <2>6. QED  BY <2>2, <2>4, <2>5 DEF GInv, Asked, Carries
<1>5. CASE Disturbs /\ AskedFfn
  <2>1. PICK j \in 1 .. 16 : FfnStage(j)  BY <1>5 DEF AskedFfn
  <2>2. Carries /\ j + 1 \in 1 .. 16 /\ FfnStage(j + 1)'  BY <1>1, <2>1, FfnExecutes
  <2>3. did.op = "ffn"  BY <1>5 DEF AskedFfn
  <2>4. Disturbs' /\ Pending' /\ Stored' /\ DimsFirst'  BY <1>5, <2>2, <2>3, CarriesOn
  <2>5. AskedFfn'  BY <2>2, <2>3 DEF AskedFfn, Carries
  <2>6. QED  BY <2>2, <2>4, <2>5 DEF GInv, Asked, Carries
<1>6. CASE Disturbs /\ AskedAllQ
  <2>1. PICK j \in 1 .. 6 + Layers : AllQStage(j)  BY <1>6 DEF AskedAllQ
  <2>2. Carries /\ j + 1 \in 1 .. 6 + Layers /\ AllQStage(j + 1)'  BY <1>1, <2>1, AllQExecutes
  <2>3. did.op = "allQ"  BY <1>6 DEF AskedAllQ
  <2>4. Disturbs' /\ Pending' /\ Stored' /\ DimsFirst'  BY <1>6, <2>2, <2>3, CarriesOn
  <2>5. AskedAllQ'  BY <2>2, <2>3 DEF AskedAllQ, Carries
  <2>6. QED  BY <2>2, <2>4, <2>5 DEF GInv, Asked, Carries
<1>7. QED  BY <1>1, <1>2, <1>3, <1>4, <1>5, <1>6, HeadKeeps, WaitKeeps, SyncKeeps DEF GInv, Asked

LEMMA DeviceKeeps ==
  ASSUME GInv, DeviceRuns
  PROVE  GInv'
<1>1. /\ queue # <<>> /\ GpuTyped' /\ UNCHANGED <<gpu, outId, bound, todo, did, dest, lmPending>>
      /\ memory'.input = memory.input /\ memory'.uniforms = memory.uniforms
  BY DeviceLeaves DEF GInv
<1>2. GpuTyped /\ Pending' /\ DimsFirst'  BY <1>1, PendingDevice DEF GInv, DimsFirst
<1>3. Larger(HiddenSize, FfnSize) <= gpu.output  BY <1>1 DEF GInv, DimsFirst
<1>4. Stored'
  <2> PICK t : t = HeadRows(did.was.of)  OBVIOUS
  <2>1. HeadRows(did.was.of)' = t  BY <1>1 DEF HeadRows, RowsOf
  <2>2. Copied("logits", t)' = Copied("logits", t)  BY <1>1 DEF Copied
  <2>3. QED  BY <1>1, <2>1, <2>2 DEF GInv, Stored
<1>5. Disturbs' = Disturbs  BY <1>1 DEF Disturbs
<1>6. Asked'
  <2>1. CASE did = Nothing /\ todo = <<>>  BY <1>1, <2>1 DEF Asked
  <2>2. CASE Disturbs /\ AskedRun  BY <1>1, <1>5, <2>2 DEF Asked, AskedRun
  <2>3. CASE Disturbs /\ AskedBatch
    <3>1. PICK j \in 1 .. 14 : BatchStage(j)  BY <2>3 DEF AskedBatch
    <3>2. BatchStage(j)'  BY <1>2, <3>1, BatchDevice
    <3>3. AskedBatch'  BY <1>1, <2>3, <3>2 DEF AskedBatch
    <3>4. QED  BY <1>5, <2>3, <3>3 DEF Asked
  <2>4. CASE Disturbs /\ AskedAttn
    <3>1. PICK x \in Vectors, j \in 1 .. 18 : AttnStage(x, j)  BY <2>4 DEF AskedAttn
    <3>2. AttnStage(x, j)'  BY <1>2, <3>1, AttnDevice
    <3>3. AskedAttn'  BY <1>1, <2>4, <3>2 DEF AskedAttn
    <3>4. QED  BY <1>5, <2>4, <3>3 DEF Asked
  <2>5. CASE Disturbs /\ AskedFfn
    <3>1. PICK j \in 1 .. 16 : FfnStage(j)  BY <2>5 DEF AskedFfn
    <3>2. FfnStage(j)'  BY <1>2, <1>3, <3>1, FfnDevice
    <3>3. AskedFfn'  BY <1>1, <2>5, <3>2 DEF AskedFfn
    <3>4. QED  BY <1>5, <2>5, <3>3 DEF Asked
  <2>6. CASE Disturbs /\ AskedAllQ
    <3>1. PICK j \in 1 .. 6 + Layers : AllQStage(j)  BY <2>6 DEF AskedAllQ
    <3>2. AllQStage(j)'  BY <1>2, <3>1, AllQDevice
    <3>3. AskedAllQ'  BY <1>1, <2>6, <3>2 DEF AskedAllQ
    <3>4. QED  BY <1>5, <2>6, <3>3 DEF Asked
  <2>7. CASE AskedHead
    <3>1. did' = did /\ HeadScript(did.x)' = HeadScript(did.x)  BY <1>1
    <3>2. CASE StoreStage(HeadScript(did.x))
      <4>1. PICK rest : rest = HeadScript(did.x)  OBVIOUS
      <4>2. StoreStage(rest)'  BY <1>1, <3>2, <4>1 DEF StoreStage
      <4>3. AskedHead'  BY <2>7, <3>1, <4>1, <4>2 DEF AskedHead
      <4>4. QED  BY <4>3 DEF Asked
    <3>3. CASE \E j \in 1 .. 6 : HeadStage(j)
      <4>1. PICK j \in 1 .. 6 : HeadStage(j)  BY <3>3
      <4>2. HeadStage(j)'  BY <1>2, <4>1, HeadDevice
      <4>3. AskedHead'  BY <2>7, <3>1, <4>2 DEF AskedHead
      <4>4. QED  BY <4>3 DEF Asked
    <3>4. QED  BY <2>7, <3>2, <3>3 DEF AskedHead
  <2>8. CASE AskedWait
    <3>1. StoreStage(<<>>) => StoreStage(<<>>)'  BY <1>1 DEF StoreStage
    <3>2. AskedWait'  BY <1>1, <2>8, <3>1 DEF AskedWait
    <3>3. QED  BY <3>2 DEF Asked
  <2>9. CASE AskedSync  BY <1>1, <2>9 DEF Asked, AskedSync
  <2>10. QED  BY <2>1, <2>2, <2>3, <2>4, <2>5, <2>6, <2>7, <2>8, <2>9 DEF GInv, Asked
<1>7. QED  BY <1>1, <1>2, <1>4, <1>6 DEF GInv

LEMMA GpuSteps == GInv /\ [GpuNext]_gpuVars => GInv'
<1> SUFFICES ASSUME GInv, [GpuNext]_gpuVars PROVE GInv'  OBVIOUS
<1>1. CASE GpuNext
  <2>1. CASE CallInit \/ gpu_gemm_alloc_weights \/ gpu_gemm_alloc_unified_weights \/ gpu_gemm_alloc_lmhead
    BY <2>1, SetsFlags
  <2>2. CASE CallSetDims  BY <2>2, SetsDims
  <2>3. CASE CallShutdown  BY <2>3, ShutsDown
  <2>4. ASSUME NEW x \in Vectors, NEW y \in Vectors, CallAttn(x, y) \/ CallFfn(x, y) PROVE GInv'
    BY <2>4, BeginsLayer
  <2>5. ASSUME NEW x \in Vectors, CallRun(x) \/ CallBatch(x) \/ CallAllQ(x) \/ CallLmHead(x) PROVE GInv'
    BY <2>5, BeginsRun, BeginsHead
  <2>6. ASSUME CallWait \/ CallSync PROVE GInv'
    <3>1. PICK x : x = Nothing  OBVIOUS
    <3>2. QED  BY <2>6, BeginsHead
  <2>7. CASE Executes  BY <2>7, ExecutesKeeps
  <2>8. CASE DeviceRuns  BY <2>8, DeviceKeeps
  <2>9. QED  BY <1>1, <2>1, <2>2, <2>3, <2>4, <2>5, <2>6, <2>7, <2>8 DEF GpuNext
<1>2. CASE UNCHANGED gpuVars
  <2>1. UNCHANGED <<gpu, outId, memory, bound, queue, todo, did, dest, lmPending>>  BY <1>2 DEF gpuVars
  <2>2. GpuTyped'  BY <2>1 DEF GInv, GpuTyped
  <2>3. QED  BY <2>1, <2>2, FlagsOnly
<1>3. QED  BY <1>1, <1>2

\* A call that has run to its end has what its last stages say.
LEMMA GpuSettled == GInv => SettledIsProduct
<1> SUFFICES ASSUME GInv, todo = <<>>, did # Nothing PROVE SettledIsProduct
  BY DEF SettledIsProduct
<1>1. ASSUME did.op = "batch"
      PROVE  IsProduct(dest[3], did.weights, VOffset, 0 .. KvSize - 1, HiddenSize, did.x)
  <2>1. PICK j \in 1 .. 14 : BatchStage(j)
    BY <1>1 DEF GInv, Asked, AskedRun, AskedBatch, AskedAttn, AskedFfn, AskedAllQ, AskedHead, AskedWait, AskedSync
  <2> PICK s : s = gpu_gemm_run_batch(did.x, did.weights, Projections)  OBVIOUS
  <2>2. IsSeq(s) /\ Len(s) = 13 /\ Left(s, j) = <<>>  BY <2>1, BatchScript DEF BatchStage
  <2>3. j = 14  BY <2>2, RestIsEmpty, 13 + 1 = 14
  <2>4. QED  BY <1>1, <2>1, <2>3 DEF BatchStage, Copied, ThirdRows, RowsOf
<1>2. ASSUME did.op = "attn", ~ did.grown
      PROVE  IsProduct(dest["o"], "layer", OOffset, 0 .. HiddenSize - 1, HiddenSize, did.y)
  <2>1. PICK x \in Vectors, j \in 1 .. 18 : AttnStage(x, j)
    BY <1>2 DEF GInv, Asked, AskedRun, AskedBatch, AskedAttn, AskedFfn, AskedAllQ, AskedHead, AskedWait, AskedSync
  <2> PICK s : s = gpu_gemm_run_attn(x, did.y, "layer")  OBVIOUS
  <2>2. IsSeq(s) /\ Len(s) = 17 /\ Left(s, j) = <<>>  BY <2>1, AttnScript DEF AttnStage
  <2>3. j = 18  BY <2>2, RestIsEmpty, 17 + 1 = 18
  <2>4. QED  BY <1>2, <2>1, <2>3 DEF AttnStage, Copied, OutRows, RowsOf
<1>3. ASSUME did.op = "ffn", ~ did.grown
      PROVE  /\ IsProduct(dest["up"], "layer", UpOffset, 0 .. FfnSize - 1, HiddenSize, did.x)
             /\ IsProduct(dest["down"], "layer", DownOffset, 0 .. HiddenSize - 1, FfnSize, did.y)
  <2>1. PICK j \in 1 .. 16 : FfnStage(j)
    BY <1>3 DEF GInv, Asked, AskedRun, AskedBatch, AskedAttn, AskedFfn, AskedAllQ, AskedHead, AskedWait, AskedSync
  <2> PICK s : s = gpu_gemm_run_ffn(did.x, did.y, "layer")  OBVIOUS
  <2>2. IsSeq(s) /\ Len(s) = 15 /\ Left(s, j) = <<>>  BY <2>1, FfnScript DEF FfnStage
  <2>3. j = 16  BY <2>2, RestIsEmpty, 15 + 1 = 16
  <2>4. QED  BY <1>3, <2>1, <2>3 DEF FfnStage, Copied, UpRows, DownRows, RowsOf
<1>4. ASSUME did.op = "allQ", NEW l \in 1 .. Layers
      PROVE  IsProduct(dest[l], "unified", AllQ[l], OwnRows(l), HiddenSize, did.x)
  <2>1. PICK j \in 1 .. 6 + Layers : AllQStage(j)
    BY <1>4 DEF GInv, Asked, AskedRun, AskedBatch, AskedAttn, AskedFfn, AskedAllQ, AskedHead, AskedWait, AskedSync
  <2> PICK s : s = gpu_gemm_run_all_layers_q(did.x, AllQ, FfnSize, HiddenSize)  OBVIOUS
  <2>2. IsSeq(s) /\ Len(s) = 5 + Layers /\ Left(s, j) = <<>>  BY <2>1, AllQScript DEF AllQStage
  <2>3. j \in 1 .. Len(s) + 1 /\ Layers \in Nat  BY <2>2, Sizes
  <2>4. j = Len(s) + 1  BY <2>2, <2>3, RestIsEmpty
  <2>5. l < j - 5  BY <2>2, <2>3, <2>4
  <2>6. QED  BY <1>4, <2>1, <2>5 DEF AllQStage, LayerCopied
<1>5. ASSUME did.op \in {"lmHead", "wait"}, did.was # Nothing, did.was.undisturbed,
             VocabSize <= gpu.output
      PROVE  IsProduct(dest["logits"], "lmHead", 0, 0 .. VocabSize - 1, HiddenSize, did.was.of)
  BY <1>5 DEF GInv, Stored, Copied, HeadRows, RowsOf
<1>6. QED  BY <1>1, <1>2, <1>3, <1>4, <1>5 DEF SettledIsProduct, OwnRows

\* However the GPU and its caller interleave, and whatever calls a program makes,
\* what a call copied after waiting for the GPU is the product it was asked for,
\* where nothing wrote the uniforms or the input anew before the GPU read them,
\* or what a dispatch leaves whose row does not fit the shaders' shared array.
THEOREM GpuSettles == GpuSpec => []SettledIsProduct
<1>1. GpuInit => GInv  BY GpuStarts
<1>2. GInv /\ [GpuNext]_gpuVars => GInv'  BY GpuSteps
<1>3. GInv => SettledIsProduct  BY GpuSettled
<1>4. QED  BY <1>1, <1>2, <1>3, PTL DEF GpuSpec
=============================================================================
