------------------------------- MODULE Loader -------------------------------
(***************************************************************************)
(* The memory of a ternary model (hs_ml_loader_ternary.c, hs_ml_infer.c):  *)
(* hs_mlt_load_gguf, hs_mlt_load_norms_sidecar, hs_mlt_lmhead_encode,      *)
(* hs_mlt_alloc_random, the table hs_mlt_bpe_encode makes and hs_mlt_free. *)
(* A call runs as one step; a file may end early, and one allocation may  *)
(* fail, wherever it stands.                                               *)
(*                                                                         *)
(* An array is named by the field that holds it, <<layer, name>>, with     *)
(* layer 0 for the model's own; what it holds is where that came from.     *)
(***************************************************************************)
EXTENDS Integers, Sequences, FiniteSets, TLC

CONSTANTS
    Depth,      \* the number of layers of a model
    Files,      \* GGUF files: [header, meta, tokens, vocab, tensors]
    Sidecars,   \* files of norms: sequences of entries
    MaxLoads    \* bound on the calls

VARIABLES
    mlt,        \* HSMLTernary, the heap and the ghosts lost and harm
    given,      \* ghost: [file, norms]: what the model was made of
    tainted,    \* ghost: one of the known ways to spoil the heap was taken
    starved,    \* an allocation has failed
    loads

loaderVars == <<mlt, given, tainted, starved, loads>>

Norms == {"attn_norm", "attn_sub_norm", "ffn_norm", "ffn_sub_norm"}
Attention == {"q_proj", "k_proj", "v_proj", "o_proj"}
Ffn == {"gate_proj", "up_proj", "down_proj"}
Projs == Attention \cup Ffn
ProjTurns == <<"q_proj", "k_proj", "v_proj", "o_proj", "gate_proj", "up_proj", "down_proj">>
InLayer(l, names) == {<<l, n>> : n \in names}
InLayers(names) == UNION {InLayer(l, names) : l \in 1 .. Depth}
Own(names) == InLayer(0, names)
Scale(l, p) == <<l, p, "scale">>
Scales(l, ps) == {Scale(l, p) : p \in ps}
AllScales == UNION {Scales(l, Projs) : l \in 1 .. Depth}
Planes == {<<0, "lm_head_planes", ToString(k)>> : k \in 1 .. 8}
Scratch == Own({"quant_buf", "gemm_buf", "hidden_buf", "ffn_buf", "q_buf", "k_buf", "v_buf", "attn_buf",
                "gate_buf", "up_buf", "score_buf", "ffn_qbuf"})
Embedding == <<0, "embedding">>
LmHead == <<0, "lm_head_f16">>
FinalNorm == <<0, "final_norm">>
Unquantized == {Embedding, LmHead, FinalNorm}
LayerArray == <<0, "layers">>
Vocab == <<0, "tokenizer_vocab">>
TokenStrings == <<0, "tokenizer_vocab", "strings">>
Merges == <<0, "tokenizer_merges">>
Ranks == <<0, "merge_ranks">>
RowScales == <<0, "lm_head_row_scale">>
NormFields == {FinalNorm} \cup InLayers(Norms)

Besides(f, what) == Append(f, what)    \* another allocation made for a field

Tensor(file, f) == IF f \in DOMAIN file.tensors THEN file.tensors[f] ELSE [type |-> "missing"]

ASSUME BlocksAssumption == Depth \in Nat /\ MaxLoads \in Nat
\* A key is once in the metadata of a GGUF file, and the weights of one file are of one
\* format: the loader is written for these.  So it is for tensors with as many elements
\* as the shape of the model says, which it does not compare; a scale may have others.
ASSUME FilesAssumption ==
    \A file \in Files :
        /\ file.header \in BOOLEAN
        /\ DOMAIN file.meta = 1 .. Len(file.meta) /\ Len(file.meta) \in Nat
        /\ \A i, j \in DOMAIN file.meta : file.meta[i] = file.meta[j] => i = j
        /\ file.tokens \in Nat /\ file.vocab \in Nat
        /\ \A f, g \in InLayers(Projs) :
              Tensor(file, f).type = "I2_S" => Tensor(file, g).type # "F32"
\* A file of norms that is cut off ends there.
ASSUME SidecarsAssumption ==
    \A norms \in Sidecars :
        /\ DOMAIN norms = 1 .. Len(norms) /\ Len(norms) \in Nat
        /\ \A i \in DOMAIN norms :
              /\ norms[i].fits \in BOOLEAN /\ norms[i].what \in {"whole", "no memory", "cut"}
              /\ norms[i].what = "cut" => i = Len(norms)

\* fails: the allocation that fails in this call; ok: the call goes on.
NoModel ==
    [ptr |-> {}, holds |-> [f \in {} |-> "one"], tokens |-> 0, vocab |-> 0, i2s |-> FALSE,
     trit |-> FALSE, loaded |-> FALSE, ok |-> TRUE, fails |-> <<>>,
     heap |-> {}, lost |-> {}, harm |-> FALSE]
hs_mlt_init(m) == [NoModel EXCEPT !.heap = m.heap, !.lost = m.lost, !.harm = m.harm]

\* Mutant of hs_mlt_free: the sub-norms are forgotten.
hs_mlt_free_short(m) ==
    hs_mlt_init([m EXCEPT !.heap = @ \ {f \in m.ptr : f[2] \notin {"attn_sub_norm", "ffn_sub_norm"}}])

\* As many strings as vocab_size says go with the vocabulary; merge_ranks stays behind.
hs_mlt_free(m) ==
    LET all == Vocab \in m.ptr /\ m.vocab >= m.tokens
    IN hs_mlt_init(
        [m EXCEPT !.heap = @ \ (m.ptr \cup IF all THEN {TokenStrings} ELSE {}),
                  !.lost = @ \cup (m.ptr \cap {Ranks}),
                  !.harm = @ \/ ~(m.ptr \subseteq m.heap) \/ (Vocab \in m.ptr /\ m.vocab > m.tokens)])

Failed(m) == [hs_mlt_free(m) EXCEPT !.ok = FALSE]

\* Every one of fs is tried. A pointer that is replaced leaves its array to nobody.
Alloc(m, fs) ==
    LET got == fs \ {m.fails}
    IN [m EXCEPT !.ptr = (@ \ fs) \cup got, !.heap = @ \cup got,
                 !.lost = @ \cup (got \cap m.ptr \cap m.heap)]
\* All of them are tried before the call gives up.
AllocAll(m, fs) ==
    IF ~m.ok THEN m ELSE IF m.fails \in fs THEN Failed(Alloc(m, fs)) ELSE Alloc(m, fs)
Holding(m, fs, what(_)) ==
    IF m.ok
    THEN [m EXCEPT !.holds = [f \in fs \cup DOMAIN @ |-> IF f \in fs THEN what(f) ELSE @[f]]]
    ELSE m

-----------------------------------------------------------------------------
(* Reading a GGUF file.  A tensor is [type, whole]: it has all of its       *)
(* elements in the file.  A scale has elems too, "scalar", "rows" or        *)
(* "other", and follows: as many floats as the projection has rows can be   *)
(* read from where it begins, be they its own or not.                       *)

Reads(t) == t.type \in {"F32", "F16", "I8"} /\ t.whole
load_as_f32(m, t, site) == Reads(t) /\ site # m.fails

\* The strings of the metadata, which are the loader's until the model owns them.
MetaStep(m, file, key) ==
    CASE ~m.ok -> m
      [] m.ok /\ key = "end" -> [m EXCEPT !.ok = FALSE]
      [] m.ok /\ key = "tokens" ->
            LET n == Alloc(m, {Vocab})
            IN IF Vocab \in n.ptr THEN [n EXCEPT !.tokens = file.tokens, !.heap = @ \cup {TokenStrings}]
               ELSE n
      [] m.ok /\ key = "merges" -> Alloc(m, {Merges})
      [] OTHER -> m
MetaStates(m, file) ==
    LET after[i \in 0 .. Len(file.meta)] ==
            IF i = 0 THEN m ELSE MetaStep(after[i - 1], file, file.meta[i])
    IN after
Given(file, key) == \E i \in DOMAIN file.meta : file.meta[i] = key
StringsOf(file) == IF file.vocab = 0 /\ Given(file, "tokens") THEN file.tokens ELSE file.vocab
\* At the label fail they are released one by one.
MetaRead(m, file) ==
    LET n == MetaStates(m, file)[Len(file.meta)]
    IN IF n.ok /\ Given(file, "config") /\ StringsOf(file) # 0 /\ <<0, "tis">> # m.fails
       THEN [n EXCEPT !.vocab = StringsOf(file)]
       ELSE [hs_mlt_init([n EXCEPT !.heap = @ \ {Vocab, TokenStrings, Merges}]) EXCEPT !.ok = FALSE]

EmbeddingLoaded(m, file) ==
    IF ~m.ok THEN m
    ELSE IF load_as_f32(m, Tensor(file, Embedding), <<0, "raw">>)
    THEN Holding(m, {Embedding}, LAMBDA f : "file") ELSE Failed(m)
\* An output of another type than F16, or cut off, counts as none.
LmHeadLoaded(m, file) ==
    LET t == Tensor(file, LmHead)
    IN Holding(m, {LmHead}, LAMBDA f : IF t.type = "F16" /\ t.whole THEN "file" ELSE "embedding")
NormsLoaded(m, file, fs) ==
    Holding(m, fs, LAMBDA f : IF load_as_f32(m, Tensor(file, f), Besides(f, "raw")) THEN "file" ELSE "one")

\* With packed weights one scale for all rows or one for each is read, with F32
\* weights always one for each row, whatever the tensor has: another one's values are
\* taken for scales then.  They are 1 where that cannot be read.
ScaleRead(t, format) ==
    LET own == t.elems \in (IF format = "I2_S" THEN {"scalar", "rows"} ELSE {"rows"})
        misfit == format = "F32" /\ ~own /\ t.follows
    IN IF t.type # "missing" /\ own /\ t.whole THEN t.elems
       ELSE IF t.type # "missing" /\ misfit THEN "misfit" ELSE "one"

\* load_ternary_proj and the macro around it: the arrays are new, the array of
\* scales the layer had is not freed.
load_ternary_proj(m, file, l, p) ==
    LET f == <<l, p>>
        t == Tensor(file, f)
        \* No array of the call stays when the call fails.
        able == /\ t.type \in {"I2_S", "F32"} /\ t.whole
                /\ m.fails \notin {Besides(f, "scales"), f, Besides(f, "raw")}
        n == Alloc(m, {f, Scale(l, p)})
    IN IF ~m.ok THEN m ELSE IF ~able THEN Failed(m)
       ELSE Holding([n EXCEPT !.i2s = @ \/ t.type = "I2_S"], {f, Scale(l, p)},
                    LAMBDA g : IF g = f THEN t.type ELSE ScaleRead(Tensor(file, g), t.type))

ProjStates(m, file, l) ==
    LET after[i \in 0 .. Len(ProjTurns)] ==
            IF i = 0 THEN m ELSE load_ternary_proj(after[i - 1], file, l, ProjTurns[i])
    IN after
LayerLoaded(m, file, l) ==
    LET normed == NormsLoaded(AllocAll(m, InLayer(l, Norms)), file, InLayer(l, Norms))
    IN ProjStates(AllocAll(normed, Scales(l, Projs)), file, l)[Len(ProjTurns)]
LayerStates(m, file) ==
    LET after[l \in 0 .. Depth] == IF l = 0 THEN m ELSE LayerLoaded(after[l - 1], file, l)
    IN after

Ready(m) == [m EXCEPT !.loaded = m.ok, !.ok = TRUE, !.fails = <<>>]

GgufRead(m, file) ==
    LET head == EmbeddingLoaded(AllocAll(MetaRead(m, file), Unquantized), file)
        normed == NormsLoaded(LmHeadLoaded(head, file), file, {FinalNorm})
        layers == LayerStates(AllocAll(normed, {LayerArray}), file)[Depth]
    IN Ready(AllocAll(layers, Scratch))

\* The places where an allocation of a call can fail.
LoadSites ==
    Unquantized \cup Scratch \cup {<<0, "tis">>, <<0, "raw">>, LayerArray, Vocab, Merges}
    \cup InLayers(Norms) \cup AllScales
    \cup UNION {{f, Besides(f, "scales"), Besides(f, "raw")} : f \in InLayers(Projs)}
    \cup {Besides(f, "raw") : f \in NormFields}
Nowhere == <<>>
MayFail(sites) == IF starved THEN {Nowhere} ELSE sites \cup {Nowhere}

-----------------------------------------------------------------------------
NothingGiven == [file |-> <<>>, norms |-> {}, failing |-> Nowhere]

LoaderInit ==
    /\ mlt = NoModel /\ given = NothingGiven
    /\ tainted = FALSE /\ starved = FALSE /\ loads = 0

Called(fails) == loads < MaxLoads /\ loads' = loads + 1 /\ starved' = (starved \/ fails # Nowhere)

\* A header that cannot be read goes to the label fail past the declarations of
\* the metadata's strings: what is freed there is anybody's guess.
hs_mlt_load_gguf(file, fails) ==
    LET m == [hs_mlt_init(hs_mlt_free(mlt)) EXCEPT !.fails = fails]
    IN  /\ Called(fails)
        /\ IF file.header
           THEN mlt' = GgufRead(m, file)
           ELSE \E wild \in BOOLEAN : mlt' = Ready([Failed(m) EXCEPT !.harm = @ \/ wild])
        /\ given' = IF mlt'.loaded THEN [file |-> file, norms |-> {}, failing |-> fails] ELSE NothingGiven
        /\ tainted' = (tainted \/ ~file.header \/ (file.header /\ Given(file, "tokens") /\ StringsOf(file) # file.tokens))

\* An entry is [field, fits, what]; it is cut off, its memory fails, or it is placed
\* where its name and its length fit.
NormPlaced(a, entry) ==
    IF a.end \/ entry.what = "cut" THEN [holds |-> a.holds, end |-> TRUE]
    ELSE IF entry.what = "no memory" \/ ~entry.fits \/ entry.field \notin NormFields THEN a
    ELSE [holds |-> [a.holds EXCEPT ![entry.field] = "sidecar"], end |-> FALSE]
PlacedStates(holds, norms) ==
    LET after[i \in 0 .. Len(norms)] ==
            IF i = 0 THEN [holds |-> holds, end |-> FALSE] ELSE NormPlaced(after[i - 1], norms[i])
    IN after
hs_mlt_load_norms_sidecar(norms) ==
    /\ Called(Nowhere) /\ mlt.loaded
    /\ mlt' = [mlt EXCEPT !.holds = PlacedStates(@, norms)[Len(norms)].holds]
    /\ given' = [given EXCEPT !.norms = @ \cup {norms[i] : i \in DOMAIN norms}]
    /\ UNCHANGED tainted

\* Every failure gives back what the call has taken; the last leaves the pointer.
LmHeadEncode(fails) ==
    LET m == Alloc(mlt, Planes \cup {RowScales})
        given_back == [mlt EXCEPT !.ptr = IF fails = <<0, "row_f">> THEN @ \cup {RowScales} ELSE @ \ {fails}]
    IN  /\ Called(fails) /\ mlt.loaded /\ LmHead \in mlt.ptr
        /\ mlt' = IF fails # Nowhere THEN given_back
                  ELSE [m EXCEPT !.heap = @ \ {LmHead}, !.ptr = @ \ {LmHead}, !.trit = TRUE]
        /\ tainted' = (tainted \/ fails = <<0, "row_f">>)
        /\ UNCHANGED given

\* Group after group, as the code tests them.
RandomLayer(m, l) ==
    LET attention == AllocAll(AllocAll(m, Scales(l, Attention)), InLayer(l, Attention))
        ffn == AllocAll(AllocAll(attention, Scales(l, Ffn)), InLayer(l, Ffn))
    IN Holding(AllocAll(ffn, InLayer(l, Norms)), InLayer(l, Norms), LAMBDA f : "one")
RandomStates(m) ==
    LET after[l \in 0 .. Depth] == IF l = 0 THEN m ELSE RandomLayer(after[l - 1], l)
    IN after
hs_mlt_alloc_random(fails) ==
    LET m == AllocAll([hs_mlt_free(mlt) EXCEPT !.fails = fails], Unquantized)
        normed == AllocAll(Holding(m, {FinalNorm}, LAMBDA f : "one"), {LayerArray})
    IN  /\ Called(fails)
        /\ mlt' = Ready(AllocAll(RandomStates(normed)[Depth], Scratch))
        /\ given' = NothingGiven
        /\ UNCHANGED tainted

\* hs_mlt_bpe_encode makes the table of ranks when it is first called.
RanksBuilt ==
    /\ Called(Nowhere) /\ mlt.loaded /\ Merges \in mlt.ptr /\ Ranks \notin mlt.ptr
    /\ mlt' = Alloc(mlt, {Ranks})
    /\ UNCHANGED <<given, tainted>>

ModelFreed ==
    /\ Called(Nowhere) /\ mlt.ptr # {}
    /\ mlt' = hs_mlt_free(mlt) /\ given' = NothingGiven
    /\ UNCHANGED tainted

LoaderNext ==
    \/ \E file \in Files, s \in MayFail(LoadSites) : hs_mlt_load_gguf(file, s)
    \/ \E norms \in Sidecars : hs_mlt_load_norms_sidecar(norms)
    \/ \E s \in MayFail(Planes \cup {RowScales, <<0, "row_f">>}) : LmHeadEncode(s)
    \/ \E s \in MayFail(LoadSites) : hs_mlt_alloc_random(s)
    \/ RanksBuilt \/ ModelFreed

LoaderSpec == LoaderInit /\ [][LoaderNext]_loaderVars

-----------------------------------------------------------------------------
(* What a model that was loaded is.                                         *)

\* An entry of a side file for this norm came whole.
FromSidecar(f) == \E e \in given.norms : e.field = f /\ e.fits /\ e.what = "whole"
Readable(f) == Reads(Tensor(given.file, f))
Needed ==
    Scratch \cup NormFields \cup {Embedding, LayerArray}
    \cup (IF mlt.trit THEN Planes \cup {RowScales} ELSE {LmHead})
    \cup InLayers(Projs) \cup AllScales

\* A scale that is missing, or has a number of elements its projection's branch of the
\* loader reads or refuses: not one for a row of F32 weights and present.
Fitting(scale) == scale.type = "missing" \/ mlt.i2s \/ scale.elems = "rows"
ScaleOf(scale) ==
    IF scale.type # "missing" /\ scale.whole /\ scale.elems \in {"scalar", "rows"} THEN scale.elems ELSE "one"
HeadInFile == Tensor(given.file, LmHead).type = "F16" /\ Tensor(given.file, LmHead).whole

ModelIsFile ==
    /\ mlt.holds[Embedding] = "file"
    /\ mlt.holds[LmHead] = IF HeadInFile THEN "file" ELSE "embedding"
    /\ \A f \in {g \in NormFields : FromSidecar(g)} : mlt.holds[f] = "sidecar"
    /\ \A f \in {g \in NormFields : Readable(g) /\ ~FromSidecar(g)} :
          mlt.holds[f] = IF given.failing = Besides(f, "raw") THEN "one" ELSE "file"
    /\ \A f \in {g \in NormFields : ~Readable(g) /\ ~FromSidecar(g)} : mlt.holds[f] = "one"
    /\ \A f \in InLayers(Projs) :
          mlt.holds[f] = Tensor(given.file, f).type /\ (mlt.i2s <=> mlt.holds[f] = "I2_S")
    /\ \A l \in 1 .. Depth, p \in Projs :
          LET scale == Tensor(given.file, Scale(l, p))
          IN Fitting(scale) => mlt.holds[Scale(l, p)] = ScaleOf(scale)

\* Whichever allocation fails and wherever a file ends: a model that is loaded has
\* every array the decoding needs, one that is not has none.  In the arrays are the
\* values of the file: the embedding, the head's own weights or else the embedding's
\* (holds keeps saying so when the head is encoded into planes), the norms or 1, the
\* weights in their format, and their scales, or 1 where a scale is missing, cut off or
\* of a size nobody reads; but not of a scale that F32 weights come with and that has
\* not one element for a row.  No array is freed twice or kept by nobody ("Free all
\* allocations", src/include/hs_ml_infer.h), but for the scales that load_ternary_proj
\* replaces and the ranks, which are lost, and where the known ways to spoil the heap
\* were taken.
LoadIsWhole ==
    /\ mlt.loaded => Needed \subseteq mlt.ptr
    /\ mlt.loaded /\ given.file # <<>> => ModelIsFile
    /\ ~mlt.loaded => mlt.ptr = {}
    /\ ~tainted => ~mlt.harm /\ mlt.heap \ {TokenStrings} = mlt.ptr /\ (TokenStrings \in mlt.heap => Vocab \in mlt.ptr)
    /\ mlt.lost \subseteq {Ranks} \cup AllScales
=============================================================================
