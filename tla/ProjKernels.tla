----------------------------- MODULE ProjKernels -----------------------------
(* The float projections over the I2_S code (0 is -1, 1 is 0, 2 is +1):      *)
(* src/src/hs_ml_ternary_neon.c, src/src/hs_ml_infer.c and the archived      *)
(* src/src/archive_ternary_kernels/hs_ml_ternary_f32.c. Floats are integers: *)
(* rounding is left out, so that only the order of the terms, their signs    *)
(* and which of them are added remain.                                       *)
EXTENDS TernaryKernels

\* build_lut: four signs for each byte.
g_lut == [byte \in 0 .. 255 |-> [f \in 0 .. 3 |-> Field(byte, f) - 1]]

\* Four accumulators take the bytes of a row in turn; the bytes left over go
\* to the first.
FourAccumulators(term(_), bytes) ==
    LET b4     == Floor(bytes, 4)
        acc(s) == SumOver(LAMBDA j : term(4 * j + s), 0, (b4 \div 4) - 1)
    IN acc(0) + SumOver(term, b4, bytes - 1) + acc(1) + acc(2) + acc(3)

\* Rows first .. last - 1 of out.
proj_rows(A, a, W, K, first, last) ==
    LET ByteTerm(n, bi) ==
            SumOver(LAMBDA f : g_lut[W[n * Stride(K) + bi]][f] * A[a + 4 * bi + f], 0, 3)
    IN [n \in first .. last - 1 |-> FourAccumulators(LAMBDA bi : ByteTerm(n, bi), Stride(K))]

\* A half-precision row scale, in units of 2^-25. The exponent is rebased without
\* a look at the sign or at subnormal numbers.
RowScale(h16) == (1024 + (h16 % 1024)) * 2 ^ ((h16 \div 1024) % 32)

\* Four planes of signs, weighted 1, 1/3, 1/9 and 1/27 (here in units of 1/27).
lmhead_stage1_rows(A, a, P, scale, K, first, last) ==
    LET Sign(p, n, bi, s) == g_lut[P[p][n * Stride(K) + bi]][s]
        Weight(n, bi, s)  == 27 * Sign(1, n, bi, s) + 9 * Sign(2, n, bi, s)
                                 + 3 * Sign(3, n, bi, s) + Sign(4, n, bi, s)
        ByteTerm(n, bi)   == SumOver(LAMBDA s : Weight(n, bi, s) * A[a + 4 * bi + s], 0, 3)
    IN [n \in first .. last - 1 |->
           FourAccumulators(LAMBDA bi : ByteTerm(n, bi), Stride(K)) * RowScale(scale[n])]

\* The quantized projection: blocks of 64 whose byte j holds the codes of the
\* activations j, j + 16, j + 32 and j + 48, high bits first. Codes are used as
\* they are, and the sum of all activations is taken off at the end.
i2s_proj_neon(A, a, W, N, K) ==
    LET sum_x == SumOver(LAMBDA i : A[a + i], 0, K - 1)
        q(x3) == [g \in 1 .. 4 |-> [i \in Lane |-> Field(x3[i], 4 - g)]]
        Block(n, j) == Padal(Mac16(q(VLoad(W, n * Stride(K) + 16 * j)),
                                   [g \in 1 .. 4 |-> VLoad(A, a + 64 * j + 16 * (g - 1))]))
    IN [n \in 0 .. N - 1 |-> SumOver(LAMBDA j : Block(n, j), 0, (K \div 64) - 1) - sum_x]

\* TERNARY_GEMM_SHADER of the coprocessor: a row begins at a whole word of four
\* bytes, though the weights are uploaded with rows of K / 4 bytes; words past
\* the upload read as zero.
ShaderRow(K) == 4 * ((K \div 4 + 3) \div 4)
TERNARY_GEMM_SHADER(A, a, W, N, K) ==
    LET byte(i) == IF i < N * Stride(K) THEN W[i] ELSE 0
        sign(c) == IF c = 2 THEN 1 ELSE IF c = 0 THEN -1 ELSE 0
    IN [n \in 0 .. N - 1 |->
           SumOver(LAMBDA k : sign(Field(byte(n * ShaderRow(K) + k \div 4), k % 4)) * A[a + k],
                   0, K - 1)]

-----------------------------------------------------------------------------
(* The archived versions test the code; code 3 counts as 0.                  *)
I2SSign(c) == CASE c = 2 -> 1 [] c = 0 -> -1 [] OTHER -> 0

i2s_f32_proj_scalar(A, a, W, N, K) ==
    [n \in 0 .. N - 1 |->
        SumOver(LAMBDA bi : SumOver(LAMBDA f : I2SSign(Field(W[n * Stride(K) + bi], f))
                                                   * A[a + 4 * bi + f], 0, 3),
                0, Stride(K) - 1)]

i2s_f32_proj_neon(A, a, W, N, K) ==
    LET vacc(n) == [f \in 0 .. 3 |->
                       SumOver(LAMBDA bi : I2SSign(Field(W[n * Stride(K) + bi], f))
                                               * A[a + 4 * bi + f],
                               0, Stride(K) - 1)]
    IN [n \in 0 .. N - 1 |-> SumOver(LAMBDA f : vacc(n)[f], 0, 3)]

\* The fused version scales the activations by 1/rms (an argument here: the
\* square root is not modelled) and by the norm's weights before it projects.
hs_ml_ternary_f32_norm_proj(A, a, norm_w, scale, W, N, K) ==
    LET normed == [i \in 0 .. K - 1 |-> A[a + i] * scale * norm_w[i]]
    IN i2s_f32_proj_neon(normed, 0, W, N, K)
=============================================================================
