------------------------------- MODULE MCRuntime -------------------------------
(* The parts that one thread runs and that share no state, checked in one     *)
(* run: the matrix products, the decode sessions, the products on the GPU,    *)
(* what is stored, the loaders, the tokenizers, the samplers, and the program *)
(* that draws.                                                                *)
(* A behaviour is a behaviour of one of them; the others stay as they start.  *)
EXTENDS ProductProps, InferenceProps, GpuGemm, Codecs,
        Tokens, Sampling, Frame, Loader

CONSTANTS u1, u2    \* two sessions

VARIABLE part       \* the part that runs

(***************************************************************************)
(* The sessions: few layers, heads and tokens, one model per kind of head. *)
(***************************************************************************)
MCUsers == {u1, u2}
Shape(l, h, kv, c, head, users) ==
    [layers |-> l, heads |-> h, kvHeads |-> kv, context |-> c, head |-> head, users |-> users]
MCModels == {Shape(2, 4, 2, 3, "trit", {u1}), Shape(1, 2, 2, 2, "f16", MCUsers),
             Shape(1, 1, 1, 1, "gpu", MCUsers), Shape(1, 1, 1, 3, "float", {})}

(***************************************************************************)
(* The calls of the kernels.                                               *)
(***************************************************************************)
\* Families of activations and of weights.
Activation(fam, i) ==
    CASE fam = "ramp"  -> ((i * 37 + 11) % 256) - 128
      [] fam = "min"   -> -128
      [] fam = "small" -> ((i * 5) % 7) - 3
WeightCode(fam, i) ==
    CASE fam = "mix"   -> (i * i + i \div 3) % 3
      [] fam = "any"   -> (i * i + i \div 5) % 4
      [] fam = "two"   -> 2
      [] fam = "sparse" -> IF i % 8 = 1 THEN 1 ELSE IF i % 8 = 4 THEN 2 ELSE 0

Activations(fam, len) == [i \in 0 .. len - 1 |-> Activation(fam, i)]
Packed(fam, len) ==
    [b \in 0 .. len - 1 |->
        WeightCode(fam, 4 * b) + 4 * WeightCode(fam, 4 * b + 1)
            + 16 * WeightCode(fam, 4 * b + 2) + 64 * WeightCode(fam, 4 * b + 3)]
BitBytes(seed, len) == [b \in 0 .. len - 1 |-> (b * 73 + seed * 29 + b \div 3) % 256]

Ternary(kernel, M, N, K, threads, act, wt) ==
    [kernel |-> kernel, M |-> M, N |-> N, K |-> K, threads |-> threads,
     in |-> [A |-> Activations(act, M * K), B |-> Packed(wt, N * (K \div 4))]]

Archive == {"v2", "v3", "v4", "v5", "v6", "v7", "v8", "v9", "v10", "v11", "v12", "v13", "v14",
            "v15", "v16", "v17", "v18", "v19", "v20", "v21", "neon", "neon_4col",
            "int8_fallback"}
ArchiveShapes == {<<2, 5, 68>>, <<1, 13, 196>>, <<1, 7, 60>>}
\* Sparse weights are in the domain of the three kernels that have a narrow one.
ArchiveCalls ==
    {Ternary(k, s[1], s[2], s[3], 1, "ramp", "any") : k \in Archive, s \in ArchiveShapes}
    \cup {Ternary(k, 2, 5, 68, 1, "ramp", "sparse") : k \in Archive}
    \cup {Ternary(k, 1, 13, 196, 1, "ramp", "sparse") : k \in {"v6", "v12", "v17"}}
    \cup {Ternary(k, 1, 4, 324, 1, "min", "two") : k \in Archive}

ThreadedCalls ==
    {Ternary("gemm_ternary_mt", 2, N, 68, t, "ramp", "any") : N \in {15, 16, 22}, t \in {0, 2, 3, 5}}
    \cup {Ternary("gemm_ternary_omp", 2, N, 68, t, "ramp", "mix") : N \in {3, 9, 22}, t \in {1, 3, 4}}
    \cup {Ternary("f32_proj", 1, N, 36, 1, "ramp", "mix") : N \in {7, 8, 9, 10}}
    \cup {Ternary("gemm_ternary_mt", 1, 16, 12, 3, "ramp", "any")}
    \cup {Ternary("int8", 2, N, 68, 1, "ramp", "any") : N \in {15, 16, 22}}
    \cup {[Ternary("coproc", 1, N, 36, 1, "ramp", "mix") EXCEPT !.in = @ @@ [gpu |-> FALSE]] : N \in {7, 9}}
    \cup {[Ternary("coproc", 1, 9, K, 1, "ramp", "mix") EXCEPT !.in = @ @@ [gpu |-> TRUE]] : K \in {36, 48}}

Plain(kernel, N, K, in) ==
    [kernel |-> kernel, M |-> 1, N |-> N, K |-> K, threads |-> 1, in |-> in]
ProjCalls ==
    {Ternary(k, 1, 3, 128, 1, "ramp", "mix") : k \in {"i2s_proj", "i2s_f32_scalar", "i2s_f32_neon"}}
    \cup {Plain("i2s_f32_norm", 2, 20,
              [A |-> Activations("small", 20), B |-> Packed("mix", 10), scale |-> 3,
               norm |-> [i \in 0 .. 19 |-> (i % 4) - 1]])}
    \cup {Plain("lmhead_stage1", N, 36,
              [A |-> Activations("small", 36),
               B |-> <<Packed("mix", 9 * N), Packed("two", 9 * N), Packed("sparse", 9 * N),
                       [b \in 0 .. 9 * N - 1 |-> (b * 5) % 170]>>,
               scale |-> [n \in 0 .. N - 1 |-> 1024 * (1 + (n % 3)) + 300 * n]]) : N \in {1, 5}}
BinaryCalls ==
    {Plain(k, 5, 256, [A |-> BitBytes(1, 32), B |-> BitBytes(2, 160)]) :
        k \in {"binary", "binary_portable", "binary_opt"}}
    \cup {Plain("trit_x_trit", 3, 256,
              [A |-> <<BitBytes(3, 32), BitBytes(5, 32)>>,
               B |-> <<BitBytes(7, 96), BitBytes(4, 96)>>])}
    \cup {Plain("trit_x_trit", 1, 128,
              [A |-> <<[i \in 0 .. 15 |-> 255], [i \in 0 .. 15 |-> 0]>>,
               B |-> <<[i \in 0 .. 15 |-> 255], [i \in 0 .. 15 |-> 255]>>])}
RouteCalls ==
    {[kernel |-> "route", M |-> m, N |-> 16, K |-> IF f = "binary" THEN 128 ELSE 36, threads |-> 1,
      in |-> [format |-> f, A |-> IF f = "binary" THEN BitBytes(1, 32) ELSE Activations("ramp", 256),
              B |-> IF f = "binary" THEN BitBytes(2, 256) ELSE Packed("mix", 512)]] :
        m \in 0 .. 2, f \in {"binary", "ternary_2bit", "sparse"}}

MCCalls == ArchiveCalls \cup ThreadedCalls \cup ProjCalls \cup BinaryCalls \cup RouteCalls

(***************************************************************************)
(* The arrays that are stored: odd lengths, more than a block of eight,    *)
(* whole steps, halves between two steps, the ends of the range.           *)
(***************************************************************************)
Array(seq) == [i \in 0 .. Len(seq) - 1 |-> seq[i + 1]]
Weights(len) == [i \in 0 .. len - 1 |-> 1 + (i % 3)]
Stored7 == {Array(<<0, 1, -1, 80, -81, 120, 121, -241, 6480>>),
            Array(<<6481, -7000, 719, 720, 721>>), Array(<<-5>>),
            [i \in 0 .. 15 |-> 97 * i - 700], [i \in 0 .. 10 |-> 8 * i * i * i - 3000]}
Stored11 == {Array(<<0, 1, -2186, 2187, 6558, 6560, -19674, 59049, 40000>>),
             [i \in 0 .. 6 |-> 7919 * i - 30011], Array(<<-5, 58001, 4>>)}
StoredBits == {[i \in 0 .. 9 |-> ((i * 7) % 11) - 5], [i \in 0 .. 12 |-> 60 * (i % 2) - 3 * i],
               Array(<<0, 0, 0>>), Array(<<100, 10, 11, -10, -11>>)}
Floats == {[s |-> z, e |-> e, m |-> m] : z \in {0, 1}, e \in {0, 1, 112, 113, 127, 142, 143, 254},
                                         m \in {0, 8191, 8192, 8388607}}
Halves == {[s |-> z, e |-> e, m |-> m] : z \in {0, 1}, e \in {0, 1, 15, 30, 31}, m \in {0, 1, 511, 512, 1023}}
MCSamples ==
    {[codec |-> "mt7", values |-> a, x |-> Weights(16)] : a \in Stored7}
    \cup {[codec |-> "mt11", values |-> a, x |-> Weights(16)] : a \in Stored11}
    \cup {[codec |-> c, values |-> a] : c \in {"ternary", "packed", "int8"}, a \in StoredBits}
    \cup {[codec |-> "f32", values |-> Array(<<v>>)] : v \in Floats}
    \cup {[codec |-> "f16", values |-> Array(<<h>>)] : h \in Halves}
    \cup {[codec |-> "lmhead", values |-> a] :
             a \in {[i \in 0 .. 7 |-> ((i * 37) % 64) - 31], Array(<<0, 0, 0, 0>>),
                     Array(<<2, 1, -1, -2>>), Array(<<9, -3, 4, 5>>)}}

(***************************************************************************)
(* The files of a model: both formats of weights, with and without an      *)
(* output, a vocabulary and norms; cut off early, late and in the header;  *)
(* with more and fewer strings than vocab_size says.  The scales of the    *)
(* projections are of every size, whole, cut off or missing.  Within a     *)
(* file all weights are of one format, as in the files the loader is       *)
(* written for.                                                            *)
(***************************************************************************)
WholeTensor(type) == [type |-> type, whole |-> TRUE]
CutOff(type) == [WholeTensor(type) EXCEPT !.whole = FALSE]
ProjTensors(type) == [f \in InLayers(Projs) |-> WholeTensor(type)]
ScaleTensor(elems, whole, follows) ==
    [type |-> "F32", elems |-> elems, whole |-> whole, follows |-> follows]
\* The usual one but for the last projections; o_proj has none.
ScaleTensors(elems) ==
    [f \in AllScales \ Scales(Depth, {"o_proj"}) |->
        CASE f = Scale(Depth, "gate_proj") -> ScaleTensor("scalar", TRUE, TRUE)
          [] f = Scale(Depth, "up_proj")   -> ScaleTensor("other", TRUE, TRUE)
          [] f = Scale(Depth, "k_proj")    -> ScaleTensor("rows", FALSE, FALSE)
          [] f = Scale(Depth, "v_proj")    -> ScaleTensor("scalar", FALSE, FALSE)
          [] f = Scale(Depth, "down_proj") -> ScaleTensor("scalar", TRUE, FALSE)
          [] f = Scale(1, "down_proj")     -> ScaleTensor("rows", TRUE, TRUE)
          [] OTHER -> ScaleTensor(elems, TRUE, TRUE)]
NormTensors(type) == [f \in NormFields |-> WholeTensor(type)]
Gguf(meta, tokens, vocab, tensors) ==
    [header |-> TRUE, meta |-> meta, tokens |-> tokens, vocab |-> vocab, tensors |-> tensors]
Usual == <<"config", "tokens", "merges">>
Bitnet == ProjTensors("I2_S") @@ ScaleTensors("scalar") @@ NormTensors("F32")
              @@ (<<0, "embedding">> :> WholeTensor("F16"))
Synthetic == ProjTensors("F32") @@ ScaleTensors("rows")
                 @@ (<<0, "embedding">> :> WholeTensor("F32")) @@ (<<0, "lm_head_f16">> :> WholeTensor("F16"))
MCFiles ==
    {Gguf(Usual, 5, 0, Bitnet), Gguf(<<"config">>, 0, 3, Synthetic),
     Gguf(Usual, 5, 5, (<<Depth, "down_proj">> :> CutOff("I2_S")) @@ Bitnet),
     Gguf(Usual, 5, 5, (<<Depth, "ffn_norm">> :> CutOff("F32"))
                           @@ (<<0, "lm_head_f16">> :> CutOff("F16")) @@ Bitnet),
     Gguf(<<"config", "tokens", "end">>, 5, 5, Bitnet), Gguf(<<"config", "merges">>, 0, 0, Bitnet),
     Gguf(Usual, 5, 4, Bitnet), Gguf(Usual, 5, 6, Bitnet),
     [Gguf(Usual, 5, 5, Bitnet) EXCEPT !.header = FALSE]}
\* A file that is cut off ends there.
Entry(f, fits, what) == [field |-> f, fits |-> fits, what |-> what]
MCSidecars ==
    {<<Entry(<<1, "attn_norm">>, TRUE, "whole"), Entry(<<0, "final_norm">>, TRUE, "no memory"),
       Entry(<<0, "final_norm">>, FALSE, "whole"), Entry(<<1, "ffn_sub_norm">>, TRUE, "cut")>>,
     <<Entry(<<0, "final_norm">>, TRUE, "whole"), Entry(<<Depth + 1, "ffn_norm">>, TRUE, "whole")>>}

(***************************************************************************)
(* The tokenizers: strings that begin others, repeated ones, ones longer   *)
(* than the longest match; 3 is the space, 9 in no text.                   *)
(***************************************************************************)
Vocabulary(vocab, merges) == [vocab |-> vocab, merges |-> merges, unk |-> 1]
MCVocabularies ==
    {Vocabulary(<<<<9>>, <<1>>, <<2>>, <<3>>, <<0>>, <<1, 2>>, <<1, 2, 1>>, <<0, 1>>, <<2, 1>>, <<0, 1, 2>>>>,
                <<<<<<1>>, <<2>>>>, <<<<0>>, <<1>>>>, <<<<0, 1>>, <<2>>>>, <<<<2>>, <<1>>>>, <<<<1, 2>>, <<1>>>>>>),
     Vocabulary(<<<<9>>, <<1>>, <<2>>, <<3>>, <<2, 2>>, <<2, 2>>, <<3, 3, 3, 3>>, <<0>>>>, <<<<<<2>>, <<2>>>>>>),
     Vocabulary(<<<<9>>, <<1>>, <<1, 1>>>>, <<<<<<1>>, <<1>>>>>>)}
MCTexts == UNION {[1 .. n -> {1, 2, 3}] : n \in 1 .. 5}

(***************************************************************************)
(* The samplers: rising, falling and equal logits.                         *)
(***************************************************************************)
MCCoarse == {Array(<<5, 4, 3, 2, 1, 0>>), Array(<<0, 1, 2, 3, 4, 5>>), Array(<<3, 0, 3, 2, 5>>),
             Array(<<2, 2, 2, 2>>), Array(<<1, 9, 1, 9, 2>>)}

(***************************************************************************)
(* The programs that draw: the kinds of settings each node keeps, calls of *)
(* every length, valid or not, and the orders of recordings and replays.   *)
(***************************************************************************)
GpuCall(op, at, v) == [op |-> op, at |-> at, v |-> v, long |-> FALSE]
LongText(op) == [op |-> op, at |-> 0, v |-> 0, long |-> TRUE]
Programs(called, max, plans, validate, log) ==
    {[calls |-> called, max |-> max, plan |-> p, validate |-> validate, log |-> log] : p \in plans}
FramePlans == {<<"begin", "end", "begin", "end">>}
ReplayPlans == {<<"replay", "stop", "capture", "replay capture", "replay capture">>,
                <<"clear", "start", "capture", "clear", "replay capture", "replay">>}
MCSettings ==
    Programs({GpuCall("BLEND", 0, 56), GpuCall("ALPHA", 0, 0)}, 3, ReplayPlans, FALSE, 2)
    \cup Programs({GpuCall("CLEAR", 0, 7)}, 6, ReplayPlans, FALSE, 9)
    \cup Programs({GpuCall("ALPHA", 0, 1), GpuCall("DRAW", 1, 0)}, 4, FramePlans, FALSE, 9)
    \cup Programs({GpuCall("FRAME_BEGIN", 0, 0), GpuCall("CLIP", 0, 0), GpuCall("DRAW_TEXT", 0, 0)},
                  3, FramePlans \cup ReplayPlans, TRUE, 9)
    \cup Programs({GpuCall("DEPTH_COMPARE", 0, 3), GpuCall("SHOW_TEXTURE", 2, 0), GpuCall("FENCE", 0, 0)},
                  3, FramePlans \cup ReplayPlans, TRUE, 9)
    \cup Programs({GpuCall("SET_PARAM", 15, 1), GpuCall("SET_PARAM", 16, 2), GpuCall("SET_GLOBAL", 0, 3)},
                  3, ReplayPlans, TRUE, 9)
    \cup Programs({GpuCall("STENCIL", 0, 1), GpuCall("CULL", 0, 255), LongText("ERROR")}, 3, {<<>>}, TRUE, 9)
    \cup Programs({GpuCall("STENCIL_FUNC", 0, 1), GpuCall("SET_TARGET", 0, 2), GpuCall("SET_CHANNEL", 3, 2)},
                  3, ReplayPlans, FALSE, 9)
MCBudget == [RT |-> 1, RENDER |-> 2, TELEM |-> 1]

-----------------------------------------------------------------------------
RuntimeVars == <<part, productVars, inferVars, gpuVars, codecVars, tokenVars, sampleVars, frameVars, loaderVars>>

RuntimeInit ==
    /\ part \in {"products", "sessions", "gpu", "codecs", "tokens", "sampling", "frame", "loading"}
    /\ ProductInit
    /\ InferenceInit /\ (part = "sessions" \/ model = CHOOSE m \in Models : TRUE)
    /\ GpuInit /\ CodecInit /\ TokenInit /\ SamplingInit
    /\ LoaderInit
    /\ FrameInit /\ (part = "frame" \/ setting = CHOOSE s \in Settings : TRUE)

RuntimeNext ==
    \/ /\ part = "products" /\ ProductNext
       /\ UNCHANGED <<part, inferVars, gpuVars, codecVars, tokenVars, sampleVars, frameVars, loaderVars>>
    \/ /\ part = "sessions" /\ InferenceNext
       /\ UNCHANGED <<part, productVars, gpuVars, codecVars, tokenVars, sampleVars, frameVars, loaderVars>>
    \/ /\ part = "gpu" /\ GpuNext
       /\ UNCHANGED <<part, productVars, inferVars, codecVars, tokenVars, sampleVars, frameVars, loaderVars>>
    \/ /\ part = "codecs" /\ CodecNext
       /\ UNCHANGED <<part, productVars, inferVars, gpuVars, tokenVars, sampleVars, frameVars, loaderVars>>
    \/ /\ part = "tokens" /\ TokenNext
       /\ UNCHANGED <<part, productVars, inferVars, gpuVars, codecVars, sampleVars, frameVars, loaderVars>>
    \/ /\ part = "sampling" /\ SamplingNext
       /\ UNCHANGED <<part, productVars, inferVars, gpuVars, codecVars, tokenVars, frameVars, loaderVars>>
    \/ /\ part = "frame" /\ FrameNext
       /\ UNCHANGED <<part, productVars, inferVars, gpuVars, codecVars, tokenVars, sampleVars, loaderVars>>
    \/ /\ part = "loading" /\ LoaderNext
       /\ UNCHANGED <<part, productVars, inferVars, gpuVars, codecVars, tokenVars, sampleVars, frameVars>>

RuntimeSpec == RuntimeInit /\ [][RuntimeNext]_RuntimeVars
=============================================================================
