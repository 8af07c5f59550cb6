--------------------------- MODULE TernaryKernels ---------------------------
(* The integer ternary matrix products: src/src/hs_ml_ternary.c, the kernel  *)
(* of src/src/hs_ml_ternary_mt.c and the archived attempts v2 .. v21 of      *)
(* src/src/archive_ternary_kernels/. Weights are packed four to a byte, low  *)
(* bits first: 1 is +1, 2 is -1, 0 and 3 are 0. Every kernel is an operator  *)
(* from a row of activations (A from address a) and the packed weights B to  *)
(* the row of C it stores, lane by lane where the kernel shuffles lanes.     *)
EXTENDS Neon

-----------------------------------------------------------------------------
(* What the kernels share.                                                   *)

Field(b, f) == (b \div 4 ^ f) % 4
Select(code, x) == CASE code = 1 -> x [] code = 2 -> -x [] OTHER -> 0
Trit(b, f) == Bit(b, 2 * f) - Bit(b, 2 * f + 1)

Stride(K) == K \div 4
Floor(x, unit) == x - (x % unit)

\* The scalar loop every kernel ends with: k from lo to hi - 1, one column.
Rest(A, a, B, b, lo, hi) ==
    SumOver(LAMBDA k : Select(Field(B[b + k \div 4], k % 4), A[a + k]), lo, hi - 1)

\* for (k = lo; k < hi; k += size)
Blocks(block(_), size, lo, hi) ==
    SumOver(LAMBDA j : block(lo + size * j), 0, ((hi - lo) \div size) - 1)

\* Columns in full groups of width take one path, those left over another.
Grouped(width, N, wide(_), narrow(_)) ==
    [n \in 0 .. N - 1 |-> IF n < Floor(N, width) THEN wide(n) ELSE narrow(n)]

DeinterleavedSwapped(A, at) ==
    LET d0  == Vuzp(VLoad(A, at), VLoad(A, at + 16))
        d1  == Vuzp(VLoad(A, at + 32), VLoad(A, at + 48))
        g01 == Vuzp(d0[1], d1[1])
        g23 == Vuzp(d0[2], d1[2])
    IN <<g01[1], g01[2], g23[1], g23[2]>>

\* 64 activations split by k % 4 with two levels of vuzpq.
Deinterleaved(A, at) ==
    LET d0  == Vuzp(VLoad(A, at), VLoad(A, at + 16))
        d1  == Vuzp(VLoad(A, at + 32), VLoad(A, at + 48))
        g01 == Vuzp(d0[1], d1[1])
        g23 == Vuzp(d0[2], d1[2])
    IN <<g01[1], g23[1], g01[2], g23[2]>>

\* DECODE_WEIGHTS: bit 0 minus bit 1 of each field.
Decoded(wb) == [f \in 1 .. 4 |-> [i \in Lane |-> Trit(wb[i], f - 1)]]

\* The nibble tables and the four lookups that replace the decoding.
NibbleW0 == [i \in Lane |-> <<0, 1, -1, 0>>[(i % 4) + 1]]
NibbleW1 == [i \in Lane |-> <<0, 1, -1, 0>>[i \div 4 + 1]]
Looked(wb) ==
    LET lo == [i \in Lane |-> wb[i] % 16]
        hi == [i \in Lane |-> wb[i] \div 16]
    IN <<Tbl(NibbleW0, lo), Tbl(NibbleW1, lo), Tbl(NibbleW0, hi), Tbl(NibbleW1, hi)>>

\* One block of 64: decode or look up sixteen bytes, multiply and accumulate.
DecodeBlock(A, a, B, b, k) ==
    Padal(Mac16(Decoded(VLoad(B, b + k \div 4)), Deinterleaved(A, a + k)))
LookupBlock(A, a, B, b, k) ==
    Padal(Mac16(Looked(VLoad(B, b + k \div 4)), Deinterleaved(A, a + k)))

\* A column in blocks of 64 with a scalar tail, and a wholly scalar column.
Blocked(block(_), A, a, B, b, K) ==
    Blocks(block, 64, 0, Floor(K, 64)) + Rest(A, a, B, b, Floor(K, 64), K)
Scalar(A, a, B, b, K) == Rest(A, a, B, b, 0, K)

\* The same without branches: bit 0 minus bit 1, one byte at a time.
ByteSum(A, a, B, b, k, bytes) ==
    SumOver(LAMBDA i : SumOver(LAMBDA f : Trit(B[b + k \div 4 + i], f) * A[a + k + 4 * i + f],
                               0, 3),
            0, bytes - 1)

-----------------------------------------------------------------------------
(* hs_ml_ternary.c: blocks of 32 with an index table for the activations,    *)
(* comparison masks and separate sums for +1 and -1.                         *)
MaskBlock32(A, a, B, b, k) ==
    LET ag(f)         == [i \in HalfLane |-> A[a + k + 4 * i + f]]
        masked(f, c)  == [i \in HalfLane |->
                             IF Field(B[b + k \div 4 + i], f) = c THEN ag(f)[i] ELSE 0]
        pairs(c)      == [l \in 0 .. 3 |->
                             SumOver(LAMBDA f : masked(f, c)[2 * l] + masked(f, c)[2 * l + 1],
                                     0, 3)]
    IN SumOver(LAMBDA l : Wrap(16, pairs(1)[l]) - Wrap(16, pairs(2)[l]), 0, 3)

NeonColumn(A, a, B, K, n) ==
    LET b == n * Stride(K)
    IN Blocks(LAMBDA k : MaskBlock32(A, a, B, b, k), 32, 0, Floor(K, 32))
           + Rest(A, a, B, b, Floor(K, 32), K)

hs_ml_gemm_ternary_neon(A, a, B, N, K) ==
    [n \in 0 .. N - 1 |-> NeonColumn(A, a, B, K, n)]

\* The left-over columns of the four-column version are vectorised too.
hs_ml_gemm_ternary_neon_4col(A, a, B, N, K) ==
    Grouped(4, N, LAMBDA n : NeonColumn(A, a, B, K, n), LAMBDA n : NeonColumn(A, a, B, K, n))

\* hs_ml_ternary_mt.c: columns first .. last - 1 of a row, groups of four
\* counted from first.
gemm_kernel(A, a, B, K, first, last) ==
    [n \in first .. last - 1 |->
        IF n < first + Floor(last - first, 4)
        THEN Blocked(LAMBDA k : LookupBlock(A, a, B, n * Stride(K), k), A, a, B, n * Stride(K), K)
        ELSE Scalar(A, a, B, n * Stride(K), K)]

\* hs_ml.c: the same lookups over all columns of a row.
hs_ml_gemm_int8_neon_fallback(A, a, B, N, K) ==
    Grouped(4, N,
        LAMBDA n : Blocked(LAMBDA k : LookupBlock(A, a, B, n * Stride(K), k),
                           A, a, B, n * Stride(K), K),
        LAMBDA n : Scalar(A, a, B, n * Stride(K), K))

-----------------------------------------------------------------------------
(* The archive.                                                              *)

\* v2 expands each byte over four lanes with vqtbl1q, shifts each lane by its
\* field and keeps separate sums of the activations under +1 and under -1.
ExpandBlock(A, a, B, b, k) ==
    LET packed      == VLoad(B, b + k \div 4)
        bits(q)     == [i \in Lane |-> (Tbl(packed, [j \in Lane |-> 4 * q + j \div 4])[i]
                                            \div 4 ^ (i % 4)) % 4]
        under(q, c) == [i \in Lane |-> IF bits(q)[i] = c THEN A[a + k + 16 * q + i] ELSE 0]
        lanes(c)    == [l \in HalfLane |->
                           Wrap(16, SumOver(LAMBDA q : Paddl8(under(q, c))[l], 0, 3))]
    IN Padal(lanes(1)) - Padal(lanes(2))

hs_ml_gemm_ternary_v2(A, a, B, N, K) ==
    Grouped(4, N,
        LAMBDA n : Blocked(LAMBDA k : ExpandBlock(A, a, B, n * Stride(K), k),
                           A, a, B, n * Stride(K), K),
        LAMBDA n : Scalar(A, a, B, n * Stride(K), K))

\* v3 decodes column 0 in vectors it does not use; all four are summed by bytes.
hs_ml_gemm_ternary_v3(A, a, B, N, K) ==
    Grouped(4, N,
        LAMBDA n : Blocked(LAMBDA k : ByteSum(A, a, B, n * Stride(K), k, 16),
                           A, a, B, n * Stride(K), K),
        LAMBDA n : Scalar(A, a, B, n * Stride(K), K))

\* v4's vector loop computes nothing: the sums are scalar, over all of K.
hs_ml_gemm_ternary_v4(A, a, B, N, K) ==
    [n \in 0 .. N - 1 |->
        SumOver(LAMBDA k : Trit(B[n * Stride(K) + k \div 4], k % 4) * A[a + k], 0, K - 1)]

\* v5: eight bytes at a time into lane 0.
hs_ml_gemm_ternary_v5(A, a, B, N, K) ==
    Grouped(4, N,
        LAMBDA n : Blocks(LAMBDA k : ByteSum(A, a, B, n * Stride(K), k, 8), 32, 0, Floor(K, 32))
                       + Rest(A, a, B, n * Stride(K), Floor(K, 32), K),
        LAMBDA n : Scalar(A, a, B, n * Stride(K), K))

\* v6: whole bytes, no tail. The fourth weight subtracts bit 7 from the whole
\* two-bit field, so the code of -1 counts as +1.
V6Weight(byte, f) == IF f = 3 THEN byte \div 64 - Bit(byte, 7) ELSE Trit(byte, f)
hs_ml_gemm_ternary_v6(A, a, B, N, K) ==
    [n \in 0 .. N - 1 |->
        SumOver(LAMBDA i : SumOver(LAMBDA f : V6Weight(B[n * Stride(K) + i], f) * A[a + 4 * i + f],
                                   0, 3),
                0, Stride(K) - 1)]

\* v7: one column; v8: four; v9: eight at a time.
DecodedColumn(A, a, B, K, n) ==
    Blocked(LAMBDA k : DecodeBlock(A, a, B, n * Stride(K), k), A, a, B, n * Stride(K), K)

hs_ml_gemm_ternary_v7(A, a, B, N, K) ==
    [n \in 0 .. N - 1 |-> DecodedColumn(A, a, B, K, n)]
hs_ml_gemm_ternary_v8(A, a, B, N, K) ==
    Grouped(4, N, LAMBDA n : DecodedColumn(A, a, B, K, n),
                  LAMBDA n : Scalar(A, a, B, n * Stride(K), K))
hs_ml_gemm_ternary_v9(A, a, B, N, K) ==
    Grouped(8, N, LAMBDA n : DecodedColumn(A, a, B, K, n),
                  LAMBDA n : Scalar(A, a, B, n * Stride(K), K))

\* v10 keeps sixteen-bit lanes over chunks of 128 before it widens them.
hs_ml_gemm_ternary_v10(A, a, B, N, K) ==
    LET Decode(n, k) == Decoded(VLoad(B, n * Stride(K) + k \div 4))
        Chunk(n, k)  == Padal(Mac16(Decode(n, k) \o Decode(n, k + 64),
                                    Deinterleaved(A, a + k) \o Deinterleaved(A, a + k + 64)))
        c128 == Floor(K, 128)
    IN [n \in 0 .. N - 1 |->
           Blocks(LAMBDA k : Chunk(n, k), 128, 0, c128)
               + Blocks(LAMBDA k : DecodeBlock(A, a, B, n * Stride(K), k), 64, c128, Floor(K, 64))
               + Rest(A, a, B, n * Stride(K), Floor(K, 64), K)]

\* v11 zips the weights into the order of the activations instead.
ZippedBlock(A, a, B, b, k) ==
    LET w    == Decoded(VLoad(B, b + k \div 4))
        z01  == Vzip(1, w[1], w[2])
        z23  == Vzip(1, w[3], w[4])
        low  == Vzip(2, z01[1], z23[1])
        high == Vzip(2, z01[2], z23[2])
    IN Padal(Mac16(low \o high, [q \in 1 .. 4 |-> VLoad(A, a + k + 16 * (q - 1))]))

hs_ml_gemm_ternary_v11(A, a, B, N, K) ==
    Grouped(4, N,
        LAMBDA n : Blocked(LAMBDA k : ZippedBlock(A, a, B, n * Stride(K), k),
                           A, a, B, n * Stride(K), K),
        LAMBDA n : Scalar(A, a, B, n * Stride(K), K))

\* v12 adds the four contributions of a lane in eight bits.
V12Lanes(A, a, B, b, k) ==
    LET wb == VLoad(B, b + k \div 4)
        ag == Deinterleaved(A, a + k)
        contrib(f, i) == Wrap(8, Select(Field(wb[i], f), ag[f + 1][i]))
    IN [i \in Lane |-> Wrap(8, Wrap(8, contrib(0, i) + contrib(1, i))
                                 + Wrap(8, contrib(2, i) + contrib(3, i)))]

hs_ml_gemm_ternary_v12(A, a, B, N, K) ==
    Grouped(4, N,
        LAMBDA n : Blocked(LAMBDA k : Padal(Paddl8(V12Lanes(A, a, B, n * Stride(K), k))),
                           A, a, B, n * Stride(K), K),
        LAMBDA n : Scalar(A, a, B, n * Stride(K), K))

\* v13 walks K in blocks of 256, each with its own vector part and its own tail.
KBLOCK == 256
hs_ml_gemm_ternary_v13(A, a, B, N, K) ==
    LET InBlock(n, kb) ==
            LET kend == IF kb + KBLOCK > K THEN K ELSE kb + KBLOCK
                k64  == kb + Floor(kend - kb, 64)
            IN Blocks(LAMBDA k : DecodeBlock(A, a, B, n * Stride(K), k), 64, kb, k64)
                   + Rest(A, a, B, n * Stride(K), k64, kend)
    IN Grouped(4, N,
           LAMBDA n : Blocks(LAMBDA kb : InBlock(n, kb), KBLOCK, 0, K + (KBLOCK - 1)),
           LAMBDA n : Scalar(A, a, B, n * Stride(K), K))

\* v14: two accumulators over blocks of 128, then blocks of 64, then the tail.
TwoByTwo(block(_), A, a, B, b, K) ==
    Blocks(LAMBDA k : block(k) + block(k + 64), 128, 0, Floor(K, 128))
        + Blocks(block, 64, Floor(K, 128), Floor(K, 64))
        + Rest(A, a, B, b, Floor(K, 64), K)

hs_ml_gemm_ternary_v14(A, a, B, N, K) ==
    Grouped(4, N,
        LAMBDA n : TwoByTwo(LAMBDA k : DecodeBlock(A, a, B, n * Stride(K), k),
                            A, a, B, n * Stride(K), K),
        LAMBDA n : Scalar(A, a, B, n * Stride(K), K))

\* v15 is pipelined: each turn multiplies the registers loaded on the turn
\* before and loads the next block; the last block is multiplied after the loop.
hs_ml_gemm_ternary_v15(A, a, B, N, K) ==
    LET k64 == Floor(K, 64)
        Registers(n, k) ==      \* those in use on the turn of k
            LET from == IF k = 0 THEN 0 ELSE (k - 64) + 64
            IN <<VLoad(B, n * Stride(K) + from \div 4), Deinterleaved(A, a + from)>>
        Multiply(r) == Padal(Mac16(Decoded(r[1]), r[2]))
        Pipelined(n) ==
            IF k64 >= 64
            THEN Blocks(LAMBDA k : Multiply(Registers(n, k)), 64, 0, k64 - 64)
                     + Multiply(Registers(n, k64 - 64))
            ELSE 0
    IN Grouped(4, N,
           LAMBDA n : Pipelined(n) + Rest(A, a, B, n * Stride(K), k64, K),
           LAMBDA n : Scalar(A, a, B, n * Stride(K), K))

\* v16 expands bytes through a table of 256 rows into a buffer in the order of
\* the activations, and deinterleaves that buffer as it does the activations.
weight_lut == [byte \in 0 .. 255 |-> [f \in 0 .. 3 |-> Select(Field(byte, f), 1)]]
hs_ml_gemm_ternary_v16(A, a, B, N, K) ==
    LET wbuf(n, k) == [i \in 0 .. 63 |->
                          weight_lut[B[n * Stride(K) + k \div 4 + i \div 4]][i % 4]]
        LutBlock(n, k) == Padal(Mac16(Deinterleaved(wbuf(n, k), 0), Deinterleaved(A, a + k)))
    IN Grouped(4, N,
           LAMBDA n : Blocked(LAMBDA k : LutBlock(n, k), A, a, B, n * Stride(K), K),
           LAMBDA n : Scalar(A, a, B, n * Stride(K), K))

\* v17 keeps a table of two weights per nibble, 32 bytes long, but looks the
\* doubled nibble up in its first half only: a nibble of 8 or more yields 0.
nibble_lut == [i \in 0 .. 31 |-> IF i % 2 = 0 THEN NibbleW0[i \div 2] ELSE NibbleW1[i \div 2]]
hs_ml_gemm_ternary_v17(A, a, B, N, K) ==
    LET Weights(wb) ==
            LET lo == [i \in Lane |-> 2 * (wb[i] % 16)]
                hi == [i \in Lane |-> 2 * (wb[i] \div 16)]
                Next1(v) == [i \in Lane |-> v[i] + 1]
            IN <<Tbl(nibble_lut, lo), Tbl(nibble_lut, Next1(lo)),
                 Tbl(nibble_lut, hi), Tbl(nibble_lut, Next1(hi))>>
        Block(n, k) == Padal(Mac16(Weights(VLoad(B, n * Stride(K) + k \div 4)),
                                   Deinterleaved(A, a + k)))
    IN Grouped(4, N,
           LAMBDA n : Blocked(LAMBDA k : Block(n, k), A, a, B, n * Stride(K), K),
           LAMBDA n : Scalar(A, a, B, n * Stride(K), K))

\* v18 and v21 look nibbles up in two tables, four columns at a time; v19 does
\* it over blocks of 128; v20 takes six columns and vectorises those left over.
LookedColumn(A, a, B, K, n) ==
    Blocked(LAMBDA k : LookupBlock(A, a, B, n * Stride(K), k), A, a, B, n * Stride(K), K)

hs_ml_gemm_ternary_v18(A, a, B, N, K) ==
    Grouped(4, N, LAMBDA n : LookedColumn(A, a, B, K, n),
                  LAMBDA n : Scalar(A, a, B, n * Stride(K), K))
hs_ml_gemm_ternary_v19(A, a, B, N, K) ==
    Grouped(4, N,
        LAMBDA n : TwoByTwo(LAMBDA k : LookupBlock(A, a, B, n * Stride(K), k),
                            A, a, B, n * Stride(K), K),
        LAMBDA n : Scalar(A, a, B, n * Stride(K), K))
hs_ml_gemm_ternary_v20(A, a, B, N, K) ==
    Grouped(6, N, LAMBDA n : LookedColumn(A, a, B, K, n), LAMBDA n : LookedColumn(A, a, B, K, n))
hs_ml_gemm_ternary_v21(A, a, B, N, K) ==
    Grouped(4, N, LAMBDA n : LookedColumn(A, a, B, K, n),
                  LAMBDA n : Scalar(A, a, B, n * Stride(K), K))
=============================================================================
