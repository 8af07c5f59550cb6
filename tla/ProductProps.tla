---------------------------- MODULE ProductProps ----------------------------
(* What a matrix product must be, stated without blocks, lanes or threads.   *)
EXTENDS Products

(***************************************************************************)
(* The reference: the plain sum over K of weight times activation, element *)
(* by element, with the packing each family documents.                     *)
(***************************************************************************)
Code(B, K, n, k) == (B[n * (K \div 4) + k \div 4] \div 4 ^ (k % 4)) % 4
TernaryOf(code) == IF code = 1 THEN 1 ELSE IF code = 2 THEN -1 ELSE 0

\* The interleaved packing of the quantized projection: in a block of 64, byte
\* j holds activations j, j + 16, j + 32, j + 48 from the high bits down.
I2SCode(B, K, n, k) ==
    LET j == k % 64
    IN (B[n * (K \div 4) + 16 * (k \div 64) + (j % 16)] \div 4 ^ (3 - (j \div 16))) % 4

BitAt(M, i) == (M[i \div 8] \div 2 ^ (i % 8)) % 2
TritAt(P, i) == IF BitAt(P[1], i) = 0 THEN 0 ELSE IF BitAt(P[2], i) = 1 THEN -1 ELSE 1

Term(c, m, n, k) ==
    LET A == c.in.A     B == c.in.B     K == c.K
        x == A[m * K + k]
    IN CASE c.kernel \in {"f32_proj", "coproc_gpu", "i2s_f32_scalar", "i2s_f32_neon"} -> (Code(B, K, n, k) - 1) * x
         [] c.kernel = "i2s_proj" -> (I2SCode(B, K, n, k) - 1) * x
         [] c.kernel = "i2s_f32_norm" -> (Code(B, K, n, k) - 1) * (x * c.in.scale * c.in.norm[k])
         [] c.kernel = "lmhead_stage1" ->
                ((27 * Code(B[1], K, n, k) + 9 * Code(B[2], K, n, k) + 3 * Code(B[3], K, n, k)
                      + Code(B[4], K, n, k)) - 40) * x
         [] c.kernel \in {"binary", "binary_portable", "binary_opt"} ->
                IF BitAt(A, m * K + k) = BitAt(B, n * K + k) THEN 1 ELSE -1
         [] c.kernel = "trit_x_trit" -> TritAt(A, m * K + k) * TritAt(B, n * K + k)
         [] OTHER -> TernaryOf(Code(B, K, n, k)) * x

Product(c, m, n) ==
    LET sum == SumOver(LAMBDA k : Term(c, m, n, k), 0, c.K - 1)
    IN IF c.kernel = "lmhead_stage1"
       THEN sum * (1024 + (c.in.scale[n] % 1024)) * 2 ^ (c.in.scale[n] \div 1024)
       ELSE sum

(***************************************************************************)
(* Where three of the kernels are exact, and what the callers of the       *)
(* others must respect: K in whole blocks where there is no tail (header   *)
(* hs_ml_ternary_coproc.h asks for a multiple of 4 only; 16 it must be).   *)
(***************************************************************************)
FourSum(c, m, n, k) == SumOver(LAMBDA i : Term(c, m, n, k + i), 0, 3)

InDomain(c, m, n) ==
    CASE c.kernel \in {"binary", "binary_opt", "trit_x_trit"} -> c.K % 128 = 0
      [] c.kernel = "i2s_proj" -> c.K % 64 = 0
      [] c.kernel = "coproc_gpu" -> c.K % 16 = 0
      [] c.kernel = "v6" -> \A k \in 0 .. c.K - 1 : k % 4 = 3 => Code(c.in.B, c.K, n, k) \in {0, 1}
      [] c.kernel = "v12" ->
            \A g \in 0 .. (c.K \div 4) - 1 : FourSum(c, m, n, 4 * g) \in -128 .. 127
      [] c.kernel = "v17" -> \A k \in 0 .. c.K - 1 : k % 2 = 1 => Code(c.in.B, c.K, n, k) \in {0, 1}
      [] OTHER -> TRUE

\* A product that has returned is exact: whatever blocks, lane shuffles, tables,
\* left-over columns and threads computed it, every element is the plain sum, and
\* no element is left as the caller's buffer had it. Three archived kernels are
\* held to it on a part of their inputs: v6 (its fourth weight is never -1), v12
\* (it adds four terms in eight bits) and v17 (it looks half a table up).
ResultIsProduct ==
    phase = "returned" /\ workers # <<>> =>
        \A m \in 0 .. call.M - 1, n \in 0 .. call.N - 1 :
            InDomain(call, m, n) => C[m][n] = Product(call, m, n)

\* The workers of a product share its columns out: every column has one owner,
\* so that no two threads store the same element and none is forgotten.
ColumnsHaveOneOwner ==
    phase = "running" =>
        \A n \in 0 .. call.N - 1 :
            \E w \in DOMAIN workers :
                /\ n \in workers[w].first .. workers[w].last - 1
                /\ \A v \in DOMAIN workers \ {w} : n \notin workers[v].first .. workers[v].last - 1
=============================================================================
