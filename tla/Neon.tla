-------------------------------- MODULE Neon --------------------------------
(* The Advanced SIMD intrinsics of arm_neon.h the kernels are written with,  *)
(* by what they do to lanes. A vector is a function from lane to integer;    *)
(* memory is a function from address to integer. The library is not in the   *)
(* repository: these definitions are its contract as the kernels use it.     *)
EXTENDS Integers, Sequences

Lane == 0 .. 15
HalfLane == 0 .. 7

\* The value a signed register of w bits holds for x.
Wrap(w, x) == ((x + 2 ^ (w - 1)) % 2 ^ w) - 2 ^ (w - 1)

Bit(b, i) == (b \div 2 ^ i) % 2

\* vld1q: sixteen consecutive elements.
VLoad(mem, at) == [i \in Lane |-> mem[at + i]]

\* vuzpq: the even elements of the two vectors, then the odd ones.
Vuzp(a, b) ==
    LET Both(j) == IF j < 16 THEN a[j] ELSE b[j - 16]
    IN <<[i \in Lane |-> Both(2 * i)], [i \in Lane |-> Both(2 * i + 1)]>>

\* vzipq on runs of w elements (w = 1: vzipq_s8; w = 2: vzipq_s16 on bytes):
\* the runs of the two vectors alternate.
Vzip(w, a, b) ==
    LET Pick(j) == LET run == j \div w
                       at  == (run \div 2) * w + (j % w)
                   IN IF (run % 2) = 0 THEN a[at] ELSE b[at]
    IN <<[i \in Lane |-> Pick(i)], [i \in Lane |-> Pick(16 + i)]>>

\* vqtbl1q: a lane whose index is out of the table is 0.
Tbl(table, index) ==
    [i \in Lane |-> IF index[i] \in Lane THEN table[index[i]] ELSE 0]

\* A sum of f over lo .. hi (0 when the range is empty), by halves.
SumOver(f(_), lo, hi) ==
    LET s[r \in (lo .. hi) \X (lo .. hi)] ==
            IF r[1] = r[2] THEN f(r[1])
            ELSE LET mid == (r[1] + r[2]) \div 2
                 IN s[<<r[1], mid>>] + s[<<mid + 1, r[2]>>]
    IN IF hi < lo THEN 0 ELSE s[<<lo, hi>>]

\* vmull_s8 then vmlal_s8 on the low and high halves of the pairs of vectors
\* (w[f], a[f]): sixteen-bit lanes.
Mac16(w, a) ==
    [l \in HalfLane |->
        Wrap(16, SumOver(LAMBDA f : w[f][l] * a[f][l] + w[f][l + 8] * a[f][l + 8],
                         1, Len(w)))]

\* vpaddl_s8 of one vector: neighbouring bytes, sixteen-bit lanes.
Paddl8(v) == [l \in HalfLane |-> v[2 * l] + v[2 * l + 1]]

\* vpadalq_s16 and, at the end of a kernel, vaddvq_s32: what a vector of
\* sixteen-bit lanes adds to the sum (32 bits hold it for every K a row has).
Padal(p) == SumOver(LAMBDA l : p[l], 0, 7)
=============================================================================
