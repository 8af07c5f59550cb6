---------------------------- MODULE BinaryKernels ----------------------------
(* The bit-packed products of src/src/hs_ml_binary.c: both operands are      *)
(* {-1, +1} as bits, or trits as an active plane and a sign plane. K bits    *)
(* make K / 8 bytes of a row.                                                *)
EXTENDS Neon

Bytes(K) == K \div 8

\* popcount of ~(x ^ y), one byte.
Matches(x, y) == SumOver(LAMBDA i : IF Bit(x, i) = Bit(y, i) THEN 1 ELSE 0, 0, 7)

\* Sixteen bytes, counted lane by lane and widened to 64 bits.
MatchesIn128(A, a, B, b) ==
    SumOver(LAMBDA i : Matches(VLoad(A, a)[i], VLoad(B, b)[i]), 0, 15)
binary_dot_128(A, a, B, b) == 2 * MatchesIn128(A, a, B, b) - 128

\* The NEON build sums whole blocks of 128 only; the portable one sums bytes.
BinaryColumn(A, a, B, K, n) ==
    SumOver(LAMBDA j : binary_dot_128(A, a + 16 * j, B, n * Bytes(K) + 16 * j),
            0, (K \div 128) - 1)
hs_ml_route_binary(A, a, B, N, K) ==
    [n \in 0 .. N - 1 |-> BinaryColumn(A, a, B, K, n)]
hs_ml_route_binary_portable(A, a, B, N, K) ==
    [n \in 0 .. N - 1 |->
        SumOver(LAMBDA kb : 2 * Matches(A[a + kb], B[n * Bytes(K) + kb]) - 8,
                0, Bytes(K) - 1)]

\* Four columns at a time: twice the matches less K at the end; the columns
\* left over take 128 off each block.
hs_ml_route_binary_opt(A, a, B, N, K) ==
    LET Matched(n) == SumOver(LAMBDA j : MatchesIn128(A, a + 16 * j, B, n * Bytes(K) + 16 * j),
                              0, (K \div 128) - 1)
    IN [n \in 0 .. N - 1 |-> IF n < N - (N % 4) THEN 2 * Matched(n) - K
                                                ELSE BinaryColumn(A, a, B, K, n)]

\* Trits by trits, on the planes A = <<active, sign>> and B = <<active, sign>>;
\* vaddvq_u8 adds the sixteen counts of a block in eight bits.
hs_ml_route_ternary_x_ternary(A, a, B, N, K) ==
    LET Both(x, y)         == SumOver(LAMBDA i : Bit(x, i) * Bit(y, i), 0, 7)
        Unlike(x, y, s, t) == SumOver(LAMBDA i : IF Bit(s, i) # Bit(t, i)
                                                 THEN Bit(x, i) * Bit(y, i) ELSE 0, 0, 7)
        Active(n, j) ==
            SumOver(LAMBDA i : Both(A[1][a + i], B[1][n * Bytes(K) + i]), 16 * j, 16 * j + 15) % 256
        Negative(n, j) ==
            SumOver(LAMBDA i : Unlike(A[1][a + i], B[1][n * Bytes(K) + i],
                                      A[2][a + i], B[2][n * Bytes(K) + i]),
                    16 * j, 16 * j + 15) % 256
        last == (K \div 128) - 1
    IN [n \in 0 .. N - 1 |-> SumOver(LAMBDA j : Active(n, j), 0, last)
                                 - 2 * SumOver(LAMBDA j : Negative(n, j), 0, last)]
=============================================================================
