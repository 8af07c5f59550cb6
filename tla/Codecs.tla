------------------------------- MODULE Codecs -------------------------------
(* How weights and activations are stored: multi-trit floats of seven and    *)
(* eleven trits (src/src/hs_ml_mt7.c, hs_ml_mt7_neon.c, hs_ml_mt11.c), the    *)
(* two-bit ternary packings of the quantizer and of the loader, eight-bit     *)
(* activations, half floats, and the eight trit planes of the LM head         *)
(* (hs_mlt_lmhead_encode).                                                    *)
(*                                                                            *)
(* An array is a function from index to integer. A multi-trit float is counted *)
(* in units of its smallest step, 3^-4 / 80 and 3^-13 / 2186; a two-bit or     *)
(* eight-bit value in any unit that makes the input whole; a float by its      *)
(* three fields.                                                               *)
EXTENDS ProjKernels, FiniteSets

CONSTANTS
    Samples,        \* the arrays that are stored: [codec, values, ...]
    QuantBlock      \* HS_ML_QK_I2_S: values that share a scale

ASSUME QuantBlockAssumption == QuantBlock \in Nat \ {0} /\ QuantBlock % 4 = 0

VARIABLES
    sample,     \* the array being stored, or NoSample
    stored,     \* what the encoder wrote
    got         \* what a reader made of it: [by, out], or NotRead

codecVars == <<sample, stored, got>>

NoSample == [codec |-> "none"]
NotRead == [by |-> "none"]

Abs(x) == IF x < 0 THEN -x ELSE x
Least(x, y) == IF x < y THEN x ELSE y
SignTrit(v) == IF v > 0 THEN 2 ELSE 0
Top(S) == CHOOSE x \in S : \A y \in S : y <= x
Indices(n) == 0 .. n - 1
LengthOf(array) == Cardinality(DOMAIN array)

-----------------------------------------------------------------------------
(* The search both encoders make: every exponent in turn, its nearest        *)
(* mantissa, and the first of the exponents with the smallest error.         *)

Mantissa(av, e, most) == Least(most, (2 * av + 3 ^ e) \div (2 * 3 ^ e))
Miss(av, e, most) == Abs(av - Mantissa(av, e, most) * 3 ^ e)
BestExponent(av, most, exps) ==
    CHOOSE e \in exps :
        \A f \in exps : /\ Miss(av, e, most) <= Miss(av, f, most)
                        /\ f < e => Miss(av, e, most) < Miss(av, f, most)

-----------------------------------------------------------------------------
(* Seven trits: 1 of sign, 4 of mantissa, 2 of exponent; two codes in three  *)
(* bytes.                                                                    *)

mt7_encode_scalar(v) ==
    IF v = 0 THEN 1 + 4 * 243
    ELSE LET e == BestExponent(Abs(v), 80, 0 .. 8)
         IN SignTrit(v) + 3 * Mantissa(Abs(v), e, 80) + 243 * e

mt7_decode_lut ==
    [code \in 0 .. 2186 |-> ((code % 3) - 1) * ((code \div 3) % 81) * 3 ^ (code \div 243)]
LutIndex(code) == IF code < 2187 THEN code ELSE 0

mt7_pack2(c0, c1) == <<c0 % 256, (c0 \div 256) + 16 * (c1 % 16), c1 \div 16>>

\* Mutant of mt7_unpack2: the nibbles of the middle byte change places.
mt7_unpack2_swapped(in, p) ==
    <<in[p] + 256 * (in[p + 1] \div 16), (in[p + 1] % 16) + 16 * in[p + 2]>>

mt7_unpack2(in, p) ==
    <<in[p] + 256 * (in[p + 1] % 16), (in[p + 1] \div 16) + 16 * in[p + 2]>>

mt7_storage_bytes(n) == ((n + 1) \div 2) * 3

mt7_encode_f32(values) ==
    LET n == LengthOf(values)
        Code(i) == IF i < n THEN mt7_encode_scalar(values[i]) ELSE 0
    IN [b \in Indices(mt7_storage_bytes(n)) |->
           mt7_pack2(Code(2 * (b \div 3)), Code(2 * (b \div 3) + 1))[1 + (b % 3)]]

\* The weight of slot i % 2 in pair i \div 2.
PairWeight(in, i) == mt7_decode_lut[LutIndex(mt7_unpack2(in, 3 * (i \div 2))[1 + (i % 2)])]
mt7_decode_to_f32(in, n) == [i \in Indices(n) |-> PairWeight(in, i)]

\* Eight at a time from twelve bytes, then one by one.
decode8(in, p) == [j \in 0 .. 7 |->
    mt7_decode_lut[LutIndex(mt7_unpack2(in, p + 3 * (j \div 2))[1 + (j % 2)])]]
mt7_decode_neon(in, n) ==
    [i \in Indices(n) |-> IF i < Floor(n, 8) THEN decode8(in, 3 * (Floor(i, 8) \div 2))[i % 8]
                          ELSE PairWeight(in, i)]

-----------------------------------------------------------------------------
(* Eleven trits, a pair of bits each: 1 of sign, 7 of mantissa, 3 of         *)
(* exponent; a code in three bytes.                                          *)

CONSTANT MT11_EXPS      \* bound: the exponents tried, up to 26 in the code; for a
                        \* value below 3^10 the larger ones round to mantissa 0
ASSUME MT11ExpsAssumption == MT11_EXPS \in 1 .. 26

int_to_trits(v, n) == SumOver(LAMBDA i : ((v \div 3 ^ i) % 3) * 4 ^ i, 0, n - 1)
trits_to_int(raw, n) == SumOver(LAMBDA i : ((raw \div 4 ^ i) % 4) * 3 ^ i, 0, n - 1)

mt11_encode_one(v) ==
    IF v = 0 THEN 1 + int_to_trits(13, 3) * 2 ^ 16
    ELSE LET e == BestExponent(Abs(v), 2186, 0 .. MT11_EXPS)
         IN SignTrit(v) + 4 * int_to_trits(Mantissa(Abs(v), e, 2186), 7) + int_to_trits(e, 3) * 2 ^ 16

mt11_decode_one(code) ==
    LET sign    == (code % 4) - 1
        mant    == trits_to_int((code \div 4) % 2 ^ 14, 7)
        exp_idx == Least(26, trits_to_int((code \div 2 ^ 16) % 2 ^ 6, 3))
    IN IF mant = 0 THEN 0 ELSE sign * mant * 3 ^ exp_idx

mt11_pack(code) == <<code % 256, (code \div 256) % 256, (code \div 2 ^ 16) % 64>>
mt11_unpack(in, p) == in[p] + 256 * in[p + 1] + 2 ^ 16 * (in[p + 2] % 64)

mt11_encode_f32(values) ==
    [b \in Indices(3 * LengthOf(values)) |-> mt11_pack(mt11_encode_one(values[b \div 3]))[1 + (b % 3)]]
mt11_decode_to_f32(in, n) == [i \in Indices(n) |-> mt11_decode_one(mt11_unpack(in, 3 * i))]

mt11_decode_4_neon(in, p) == [j \in 0 .. 3 |-> mt11_decode_one(mt11_unpack(in, p + 3 * j))]
mt11_decode_neon(in, n) ==
    [i \in Indices(n) |-> IF i < Floor(n, 4) THEN mt11_decode_4_neon(in, 3 * Floor(i, 4))[i % 4]
                          ELSE mt11_decode_one(mt11_unpack(in, 3 * i))]

\* The normalisations with stored weights, in units of the root mean square:
\* each activation times its weight.
Scaled(x, weights) == [i \in DOMAIN weights |-> x[i] * weights[i]]
mt7_rmsnorm(x, in, n) == Scaled(x, mt7_decode_to_f32(in, n))
mt7_rmsnorm_neon(x, in, n) == Scaled(x, mt7_decode_neon(in, n))
mt11_rmsnorm_neon(x, in, n) == Scaled(x, mt11_decode_neon(in, n))

-----------------------------------------------------------------------------
(* Two bits and eight bits.                                                  *)

PackFields(code(_), n) ==
    [b \in Indices((n + 3) \div 4) |->
        SumOver(LAMBDA f : IF 4 * b + f < n THEN code(4 * b + f) * 4 ^ f ELSE 0, 0, 3)]

\* hs_ml_quantize_ternary: what exceeds a tenth of its block's largest value.
BlockOf(i, n) == Floor(i, QuantBlock) .. Least(n, Floor(i, QuantBlock) + QuantBlock) - 1
BlockMax(values, i) == Top({Abs(values[j]) : j \in BlockOf(i, LengthOf(values))})
hs_ml_quantize_ternary(values) ==
    LET Code(i) == CASE 10 * values[i] > BlockMax(values, i) -> 1
                     [] 10 * values[i] < -BlockMax(values, i) -> 2
                     [] OTHER -> 0
    IN PackFields(Code, LengthOf(values))

\* f32_to_ternary_packed: what exceeds a half, in quarters here.
f32_to_ternary_packed(values) ==
    LET Code(i) == CASE values[i] > 2 -> 1 [] values[i] < -2 -> 2 [] OTHER -> 0
    IN PackFields(Code, LengthOf(values))

\* How the products read either packing.
ReadTrits(in, n) == [i \in Indices(n) |-> Trit(in[i \div 4], i % 4)]

\* hs_mlt_quantize: eight bits, towards zero. Where the quotient is whole the
\* float product may come out just below it.
Toward(v, absmax, below) ==
    LET q == (127 * Abs(v)) \div absmax
        r == IF below /\ q > 0 /\ (127 * Abs(v)) % absmax = 0 THEN q - 1 ELSE q
    IN IF v < 0 THEN -r ELSE r
hs_mlt_quantize(values, below) ==
    LET absmax == Top({Abs(values[i]) : i \in DOMAIN values})
    IN [i \in DOMAIN values |-> IF absmax = 0 THEN 0 ELSE Toward(values[i], absmax, below)]

-----------------------------------------------------------------------------
(* Half floats: [s, e, m], five bits of exponent and ten of mantissa; floats *)
(* have eight and twenty-three.                                              *)

f32_to_fp16(v) ==
    LET e == v.e - 112
    IN CASE e <= 0  -> [s |-> v.s, e |-> 0, m |-> 0]
         [] e >= 31 -> [s |-> v.s, e |-> 31, m |-> 0]
         [] OTHER   -> [s |-> v.s, e |-> e, m |-> v.m \div 2 ^ 13]

\* fp16_to_f32 of the LM head and of the encoder: subnormal numbers are zero.
fp16_to_f32_inline(h) ==
    CASE h.e = 0  -> [s |-> h.s, e |-> 0, m |-> 0]
      [] h.e = 31 -> [s |-> h.s, e |-> 255, m |-> h.m * 2 ^ 13]
      [] OTHER    -> [s |-> h.s, e |-> h.e + 112, m |-> h.m * 2 ^ 13]

\* fp16_to_f32 of the loader: subnormal numbers are normalised.
fp16_to_f32(h) ==
    IF h.e = 0 /\ h.m # 0
    THEN LET k == CHOOSE j \in 1 .. 10 : h.m * 2 ^ j \in 1024 .. 2047
         IN [s |-> h.s, e |-> 113 - k, m |-> ((h.m * 2 ^ k) % 1024) * 2 ^ 13]
    ELSE fp16_to_f32_inline(h)

-----------------------------------------------------------------------------
(* The LM head: a row is divided by its largest value, and eight planes each *)
(* take a trit off, nearest first, and magnify what is left.                 *)

RowMax(row) == LET m == Top({Abs(row[h]) : h \in DOMAIN row}) IN IF m = 0 THEN 1 ELSE m

\* The trit taken off the residual r / scale, and what is left of it.
NextTrit(r, scale) == CASE 2 * r > scale -> 1 [] 2 * r < -scale -> -1 [] OTHER -> 0
Residual(x, scale) ==
    LET r[k \in 0 .. 8] == IF k = 0 THEN x
                           ELSE 3 * (r[k - 1] - NextTrit(r[k - 1], scale) * scale)
    IN r
hs_mlt_lmhead_encode(row) ==
    LET scale == RowMax(row)
    IN [k \in 0 .. 7 |->
           PackFields(LAMBDA h : NextTrit(Residual(row[h], scale)[k], scale) + 1, LengthOf(row))]

\* The two stages of session_logits_trit together, in units of the row scale
\* divided by 3^7: what all planes say of column h.
PlanesSum(planes, n) ==
    [h \in Indices(n) |->
        SumOver(LAMBDA k : g_lut[planes[k][h \div 4]][h % 4] * 3 ^ (7 - k), 0, 7)]

-----------------------------------------------------------------------------
Encoded(s, below) ==
    CASE s.codec = "mt7" -> mt7_encode_f32(s.values)
      [] s.codec = "mt11" -> mt11_encode_f32(s.values)
      [] s.codec = "ternary" -> hs_ml_quantize_ternary(s.values)
      [] s.codec = "packed" -> f32_to_ternary_packed(s.values)
      [] s.codec = "int8" -> hs_mlt_quantize(s.values, below)
      [] s.codec = "f32" -> [i \in DOMAIN s.values |-> f32_to_fp16(s.values[i])]
      [] s.codec = "f16" -> [i \in DOMAIN s.values |-> fp16_to_f32(s.values[i])]
      [] s.codec = "lmhead" -> hs_mlt_lmhead_encode(s.values)

\* Who reads what.
Readers(codec) ==
    CASE codec = "mt7" -> {"portable", "neon", "rmsnorm", "rmsnorm_neon"}
      [] codec = "mt11" -> {"portable", "neon", "rmsnorm_neon"}
      [] OTHER -> {"portable"}

Read(s, in, by) ==
    LET n == LengthOf(s.values)
    IN CASE s.codec = "mt7" /\ by = "portable" -> mt7_decode_to_f32(in, n)
         [] s.codec = "mt7" /\ by = "neon" -> mt7_decode_neon(in, n)
         [] s.codec = "mt7" /\ by = "rmsnorm" -> mt7_rmsnorm(s.x, in, n)
         [] s.codec = "mt7" /\ by = "rmsnorm_neon" -> mt7_rmsnorm_neon(s.x, in, n)
         [] s.codec = "mt11" /\ by = "portable" -> mt11_decode_to_f32(in, n)
         [] s.codec = "mt11" /\ by = "neon" -> mt11_decode_neon(in, n)
         [] s.codec = "mt11" /\ by = "rmsnorm_neon" -> mt11_rmsnorm_neon(s.x, in, n)
         [] s.codec \in {"ternary", "packed"} -> ReadTrits(in, n)
         [] s.codec = "int8" -> in
         [] s.codec = "f32" -> [i \in Indices(n) |-> fp16_to_f32_inline(in[i])]
         [] s.codec = "f16" -> [i \in Indices(n) |-> f32_to_fp16(in[i])]
         [] s.codec = "lmhead" -> PlanesSum(in, n)

CodecInit ==
    /\ sample = NoSample
    /\ stored = <<>>
    /\ got = NotRead

\* An array is stored.
Store ==
    /\ sample = NoSample
    /\ \E s \in Samples, below \in BOOLEAN :
        /\ sample' = s
        /\ stored' = Encoded(s, below)
    /\ got' = NotRead

\* One of the readers of its format reads it; it stays.
ReadBack ==
    /\ sample # NoSample
    /\ \E by \in Readers(sample.codec) : got' = [by |-> by, out |-> Read(sample, stored, by)]
    /\ UNCHANGED <<sample, stored>>

\* Its owner lets it go.
Discard ==
    /\ sample # NoSample
    /\ sample' = NoSample
    /\ stored' = <<>>
    /\ got' = NotRead

CodecNext == Store \/ ReadBack \/ Discard

-----------------------------------------------------------------------------
(* What storing a value must keep of it, stated without digits and bytes.    *)

\* A float of mantissas 0 .. most and exponents up to top is off by half a step
\* of the finest exponent that still reaches the value; beyond them all it is the
\* largest value there is.
Near(out, v, most, top) ==
    LET reaching == {e \in 0 .. top : Abs(v) <= most * 3 ^ e}
    IN IF reaching = {} THEN Abs(out) = most * 3 ^ top /\ (out > 0 <=> v > 0)
       ELSE 2 * Abs(out - v) <= 3 ^ (CHOOSE e \in reaching : \A f \in reaching : e <= f)

\* The same of a weight times an activation.
NearTimes(out, x, v, most, top) == out % x = 0 /\ Near(out \div x, v, most, top)

SignOf(v) == IF v > 0 THEN 1 ELSE IF v < 0 THEN -1 ELSE 0

Kept(s, by, i) ==
    LET v   == s.values[i]
        out == got.out[i]
        in8 == {Abs(s.values[j]) : j \in DOMAIN s.values}
    IN CASE s.codec = "mt7" /\ by \in {"portable", "neon"} -> Near(out, v, 80, 8)
         [] s.codec = "mt11" /\ by \in {"portable", "neon"} -> Near(out, v, 2186, MT11_EXPS)
         [] s.codec = "mt7" -> NearTimes(out, s.x[i], v, 80, 8)
         [] s.codec = "mt11" -> NearTimes(out, s.x[i], v, 2186, MT11_EXPS)
         \* a trit is the value's sign, or 0 if another of its block is ten times it
         [] s.codec = "ternary" ->
                out = IF \E j \in DOMAIN s.values : j \div QuantBlock = i \div QuantBlock
                                                   /\ 10 * Abs(v) <= Abs(s.values[j])
                      THEN 0 ELSE SignOf(v)
         \* the loader's trit is the whole number nearest to a value of -1 .. 1
         [] s.codec = "packed" -> Abs(v) <= 4 => Abs(4 * out - v) <= 2
         \* eight bits are off by one step at most, and never too large
         [] s.codec = "int8" ->
                \A a \in in8 : (\A b \in in8 : b <= a) =>
                    /\ Abs(127 * v - out * a) <= a
                    /\ Abs(out) * a <= 127 * Abs(v) /\ out * v >= 0
         \* a float in the half float's range loses less than its last bit
         [] s.codec = "f32" ->
                v.e \in 113 .. 142 => out.s = v.s /\ out.e = v.e /\ (v.m - out.m) \in 0 .. 2 ^ 13 - 1
         \* a half float survives unless it is subnormal or not a number
         [] s.codec = "f16" -> (v.e \in 1 .. 30 \/ v.m = 0) => out = v
         \* eight planes are off by half of their last trit
         [] s.codec = "lmhead" -> 2 * Abs(3 ^ 7 * v - RowMax(s.values) * out) <= RowMax(s.values)

\* Every stored value comes back as its format promises, whatever position it
\* has, whoever reads it and whether it is read in blocks or one by one: half a
\* step for the multi-trit floats, the sign for two bits, a step for eight bits,
\* the last bit for half floats, half of 3^-7 of the row's scale for the LM head.
CodecsKeepValues ==
    got # NotRead => \A i \in DOMAIN sample.values : i \in DOMAIN got.out /\ Kept(sample, got.by, i)
=============================================================================
