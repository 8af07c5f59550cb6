------------------------------- MODULE Tokens -------------------------------
(* Text to tokens and back: the longest-match tokenizer of src/src/hs_ml.c    *)
(* and the byte pair encoding of src/src/hs_ml_infer.c (hs_mlt_bpe_encode).   *)
(* Both look strings up in hash tables with open addressing.  A text is a     *)
(* sequence of letters; a word of the encoder is cut into pieces,             *)
(* [start, len], which merge until no rule applies.  Tokens count from 1.     *)
EXTENDS Integers, Sequences, FiniteSets

CONSTANTS
    Letters,        \* what texts are made of: Space among them, and 0 for a space
                    \* that has become part of the word behind it
    Space,
    Vocabularies,   \* [vocab, merges, unk]: token strings, merge rules <<left, right>>
    Texts,          \* the texts encoded
    MaxMatch,       \* longest match tried: 64
    MaxWord,        \* letters of a word before it is cut: 508
    MaxPieces,      \* pieces of a word: 256
    MaxOut,         \* bound: room for tokens in the caller's array
    MaxText         \* bound: room for text in the caller's buffer

ASSUME TokensAssumption ==
    /\ Space \in Letters /\ 0 \in Letters /\ Letters \subseteq Nat
    /\ MaxMatch \in Nat \ {0} /\ MaxWord \in Nat \ {0, 1} /\ MaxPieces \in Nat \ {0}
    /\ MaxOut \in Nat \ {0} /\ MaxText \in Nat \ {0}
    /\ Texts \subseteq Seq(Letters)
ASSUME VocabulariesAssumption ==
    \A v \in Vocabularies :
        /\ v.vocab \in Seq(Seq(Letters)) /\ v.merges \in Seq(Seq(Letters) \X Seq(Letters))
        \* The string of the unknown token, as "<unk>", is in no text.
        /\ v.unk \in DOMAIN v.vocab =>
              \A text \in Texts : \A i, j \in DOMAIN text : SubSeq(text, i, j) # v.vocab[v.unk]

VARIABLES
    loaded,     \* the vocabulary in use with its two tables, or NotLoaded
    job         \* the call being made, or NoJob

tokenVars == <<loaded, job>>

NotLoaded == [vocab |-> <<>>]
NoJob == [kind |-> "none"]

-----------------------------------------------------------------------------
(* The tables: a slot holds 0, or the number of an entry plus one.           *)

\* Doubled from 1 until it holds twice as many.
Sizes(n) ==
    LET after[k \in 0 .. 2 * n] == IF k = 0 THEN 1 ELSE 2 * after[k - 1]
    IN after
TableSize(n) ==
    Sizes(n)[CHOOSE k \in 0 .. 2 * n : Sizes(n)[k] >= 2 * n /\ \A i \in 0 .. k - 1 : Sizes(n)[i] < 2 * n]
\* A hash of a string; which one does not matter, collisions do.
HashWith(hash, letter) == (3 * hash + letter) % 65536
HashStates(str) ==
    LET after[i \in 0 .. Len(str)] == IF i = 0 THEN 7 ELSE HashWith(after[i - 1], str[i])
    IN after
HashOf(str, size) == HashStates(str)[Len(str)] % size

Probe(hash, i, size) == (hash + i) % size

\* Mutant of Inserted: a taken slot is taken over.
InsertedOver(table, size, str, entry) == [table EXCEPT ![HashOf(str, size)] = entry]

\* The entry goes to the first empty slot from its hash on.
Inserted(table, size, str, entry) ==
    LET free == {i \in 0 .. size - 1 : table[Probe(HashOf(str, size), i, size)] = 0}
    IN [table EXCEPT ![Probe(HashOf(str, size), CHOOSE i \in free : \A j \in free : i <= j, size)] = entry]

BuiltStates(strings, size) ==
    LET after[i \in 0 .. Len(strings)] ==
            IF i = 0 THEN [s \in 0 .. size - 1 |-> 0] ELSE Inserted(after[i - 1], size, strings[i], i)
    IN after
Built(strings) == BuiltStates(strings, TableSize(Len(strings)))[Len(strings)]

\* The entry of a string, or 0: probing ends at an empty slot.
Found(table, strings, str) ==
    LET size == Cardinality(DOMAIN table)
        At(i) == table[Probe(HashOf(str, size), i, size)]
        hits  == {i \in 0 .. size - 1 : At(i) # 0 /\ strings[At(i)] = str
                                        /\ \A j \in 0 .. i - 1 : At(j) # 0}
    IN IF hits = {} THEN 0 ELSE At(CHOOSE i \in hits : \A j \in hits : i <= j)

\* hs_tokenizer_init and bpe_build_ranks. A rule is stored as the string
\* "left right".
RuleString(left, right) == left \o <<Space>> \o right
hs_tokenizer_init(v) == Built(v.vocab)
RuleStrings(v) == [r \in DOMAIN v.merges |-> RuleString(v.merges[r][1], v.merges[r][2])]
bpe_build_ranks(v) == Built(RuleStrings(v))

-----------------------------------------------------------------------------
(* The longest-match tokenizer.                                              *)

\* hs_tok_find: the token of the longest beginning of text that is one, else unk.
hs_tok_find(v, text) ==
    LET lens == {l \in 1 .. Len(text) : Found(v.table, v.vocab, SubSeq(text, 1, l)) # 0}
    IN IF lens = {} THEN v.unk
       ELSE Found(v.table, v.vocab, SubSeq(text, 1, CHOOSE l \in lens : \A k \in lens : k <= l))

Smaller(x, y) == IF x < y THEN x ELSE y

\* Sequences put one behind the other.
JoinStates(seqs) ==
    LET after[i \in 0 .. Len(seqs)] == IF i = 0 THEN <<>> ELSE after[i - 1] \o seqs[i]
    IN after
Joined(seqs) == JoinStates(seqs)[Len(seqs)]
CutTo(seq, n) == SubSeq(seq, 1, Smaller(n, Len(seq)))

\* hs_tokenizer_decode: tokens out of range are left out, what does not fit is cut,
\* and one place is kept for the terminator.
hs_tokenizer_decode(v, tokens, room) ==
    CutTo(Joined([i \in DOMAIN tokens |->
                        IF tokens[i] \in DOMAIN v.vocab THEN v.vocab[tokens[i]] ELSE <<>>]), room - 1)

-----------------------------------------------------------------------------
(* Byte pair encoding.                                                       *)

NoRank == 1000000
Piece(start, len) == [start |-> start, len |-> len]
Text(word, p) == SubSeq(word, p.start, p.start + p.len - 1)

\* bpe_rank: the number of the rule for two neighbours (of less than 255 letters
\* together, which the words of the model are).
RankOf(v, word, p, q) ==
    LET r == Found(v.ranks, RuleStrings(v), RuleString(Text(word, p), Text(word, q)))
    IN IF r = 0 THEN NoRank ELSE r

\* The next word: a space becomes its first letter; then all up to the next space.
Lead(text, pos) == IF text[pos] = Space THEN <<0>> ELSE <<>>
WordEnd(text, from, room) ==
    CHOOSE e \in from .. Len(text) + 1 :
        /\ e - from <= room
        /\ \A i \in from .. e - 1 : text[i] # Space
        /\ e = Len(text) + 1 \/ e - from = room \/ text[e] = Space

\* The pair of neighbours with the lowest rank, the first of them, merges.
BestPair(v, word, pieces) ==
    CHOOSE i \in 1 .. Len(pieces) - 1 :
        \A j \in 1 .. Len(pieces) - 1 :
            LET r(k) == RankOf(v, word, pieces[k], pieces[k + 1])
            IN r(i) <= r(j) /\ (j < i => r(i) < r(j))
Merged(pieces, i) ==
    [k \in 1 .. Len(pieces) - 1 |->
        CASE k < i -> pieces[k]
          [] k = i -> Piece(pieces[k].start, pieces[k].len + pieces[k + 1].len)
          [] k > i -> pieces[k + 1]]
CanMerge(v, word, pieces) ==
    \E i \in 1 .. Len(pieces) - 1 : RankOf(v, word, pieces[i], pieces[i + 1]) < NoRank

\* bpe_find_token goes through the vocabulary; what is not in it is spelled, and
\* a letter that is not in it either is left out.
bpe_find_token(v, str) ==
    LET ids == {t \in DOMAIN v.vocab : v.vocab[t] = str}
    IN IF ids = {} THEN <<>> ELSE <<CHOOSE t \in ids : \A u \in ids : t <= u>>
TokensOf(v, str) ==
    IF bpe_find_token(v, str) # <<>> THEN bpe_find_token(v, str)
    ELSE Joined([i \in DOMAIN str |-> bpe_find_token(v, <<str[i]>>)])
\* Tokens that have no room are dropped.
Emitted(v, word, pieces, out) ==
    CutTo(out \o Joined([i \in DOMAIN pieces |-> TokensOf(v, Text(word, pieces[i]))]), MaxOut)

-----------------------------------------------------------------------------
TokenInit == loaded = NotLoaded /\ job = NoJob

\* A model is loaded.
Load ==
    /\ loaded = NotLoaded
    /\ \E v \in Vocabularies :
        loaded' = [vocab |-> v.vocab, merges |-> v.merges, unk |-> v.unk,
                   table |-> hs_tokenizer_init(v), ranks |-> bpe_build_ranks(v)]
    /\ UNCHANGED job

\* hs_tokenizer_free
Unload ==
    /\ loaded # NotLoaded /\ job = NoJob
    /\ loaded' = NotLoaded
    /\ UNCHANGED job

\* A text is to be encoded.
Ask ==
    /\ loaded # NotLoaded /\ job = NoJob
    /\ \E kind \in {"longest", "bpe"}, text \in Texts :
        job' = [kind |-> kind, text |-> text, pos |-> 1, word |-> <<>>, pieces |-> <<>>,
                out |-> <<>>, back |-> <<>>, at |-> "encode"]
    /\ UNCHANGED loaded

More == job # NoJob /\ job.at = "encode" /\ job.pos <= Len(job.text) /\ Len(job.out) < MaxOut

\* hs_tokenizer_encode, one token.
TokenizerEncode ==
    /\ More /\ job.kind = "longest"
    /\ LET rest == SubSeq(job.text, job.pos, Smaller(Len(job.text), job.pos + MaxMatch - 1))
           t    == hs_tok_find(loaded, rest)
       IN job' = [job EXCEPT !.out = Append(@, t),
                             !.pos = @ + IF t = loaded.unk THEN 1 ELSE Len(loaded.vocab[t])]
    /\ UNCHANGED loaded

\* hs_mlt_bpe_encode: a word is taken and cut into its letters ...
BpeWord ==
    /\ More /\ job.kind = "bpe" /\ job.word = <<>>
    /\ LET lead == Lead(job.text, job.pos)
           from == job.pos + Len(lead)
           end  == WordEnd(job.text, from, MaxWord - Len(lead))
           word == lead \o SubSeq(job.text, from, end - 1)
       IN job' = [job EXCEPT !.pos = end, !.word = word,
                             !.pieces = [i \in 1 .. Smaller(MaxPieces, Len(word)) |-> Piece(i, 1)]]
    /\ UNCHANGED loaded

\* ... two pieces merge ...
BpeMerge ==
    /\ job # NoJob /\ job.word # <<>> /\ CanMerge(loaded, job.word, job.pieces)
    /\ job' = [job EXCEPT !.pieces = Merged(@, BestPair(loaded, job.word, @))]
    /\ UNCHANGED loaded

\* ... and when no rule applies the pieces become tokens.
BpeEmit ==
    /\ job # NoJob /\ job.word # <<>> /\ ~CanMerge(loaded, job.word, job.pieces)
    /\ job' = [job EXCEPT !.out = Emitted(loaded, job.word, job.pieces, @),
                          !.word = <<>>, !.pieces = <<>>]
    /\ UNCHANGED loaded

\* The tokens of the longest-match tokenizer are decoded.
Decoding ==
    /\ job # NoJob /\ job.at = "encode" /\ job.word = <<>> /\ ~More
    /\ job' = [job EXCEPT !.at = "done",
                             !.back = IF job.kind = "longest"
                                      THEN hs_tokenizer_decode(loaded, job.out, MaxText) ELSE <<>>]
    /\ UNCHANGED loaded

JobDone ==
    /\ job # NoJob /\ job.at = "done"
    /\ job' = NoJob
    /\ UNCHANGED loaded

TokenNext == \/ Load \/ Unload \/ Ask \/ TokenizerEncode
             \/ BpeWord \/ BpeMerge \/ BpeEmit \/ Decoding \/ JobDone

TokenSpec == TokenInit /\ [][TokenNext]_tokenVars

-----------------------------------------------------------------------------
(* What tokens must keep of a text, stated without hashes and pieces.        *)

StringsIn(vocab, tokens) == Joined([i \in DOMAIN tokens |-> vocab[tokens[i]]])
Strings(tokens) == StringsIn(loaded.vocab, tokens)
InVocabulary(str) == \E t \in DOMAIN loaded.vocab : loaded.vocab[t] = str
Known(text) == \A i \in DOMAIN text : InVocabulary(<<text[i]>>)
\* No word has more letters than the encoder has pieces.
ShortWords(text) ==
    \A i \in 1 .. Len(text) - MaxPieces : \E j \in i + 1 .. i + MaxPieces : text[j] = Space
Led(text) == [i \in DOMAIN text |-> IF text[i] = Space THEN 0 ELSE text[i]]

\* Where the token of number n begins.
StartOf(n) == 1 + Len(Strings(SubSeq(job.out, 1, n - 1)))

\* A token of the longest-match tokenizer is the longest string of the
\* vocabulary that the text goes on with, if there is one.
IsLongest(n) ==
    LET from == StartOf(n)
        here(l) == SubSeq(job.text, from, from + l - 1)
        lens == {l \in 1 .. MaxMatch : from + l - 1 <= Len(job.text) /\ InVocabulary(here(l))}
    IN lens # {} => loaded.vocab[job.out[n]] = here(CHOOSE l \in lens : \A k \in lens : k <= l)

\* A text whose letters the vocabulary knows comes back from its tokens, as far
\* as the caller's arrays reach, although strings share hash slots and probing
\* wraps: token by token the text is used up without a gap, the tokenizer always
\* with the longest match, and the pieces of the byte pair encoder tile their
\* word however they merge.
TokensKeepText ==
    job # NoJob /\ Known(job.text) /\ (job.kind = "bpe" => InVocabulary(<<0>>)) =>
        /\ job.kind = "longest" =>
             /\ Strings(job.out) = SubSeq(job.text, 1, job.pos - 1)
             /\ \A n \in DOMAIN job.out : IsLongest(n)
             /\ job.at = "done" => job.back = SubSeq(job.text, 1, Len(job.back))
                                  /\ Len(job.back) >= Smaller(MaxText, job.pos) - 1
        /\ job.kind = "bpe" =>
             /\ \A i \in DOMAIN job.pieces :
                  job.pieces[i].start =
                    (IF i = 1 THEN 1 ELSE job.pieces[i - 1].start + job.pieces[i - 1].len)
             /\ job.word # <<>> =>
                  LET last == job.pieces[Len(job.pieces)]
                  IN last.start + last.len = Smaller(MaxPieces, Len(job.word)) + 1
             /\ job.word = <<>> /\ Len(job.out) < MaxOut /\ ShortWords(job.text) =>
                  Strings(job.out) = Led(SubSeq(job.text, 1, job.pos - 1))
=============================================================================
