------------------------------ MODULE Features ------------------------------
(***************************************************************************)
(* How a content's super features are computed: by NTransForm              *)
(* (Ntrans_similarity.cc, a polynomial rolling hash of every window),      *)
(* Finesse (absMethod.cc, GetSF, the largest window hash of each of twelve *)
(* subchunks), and by Odess, BiSearch and Palantir                         *)
(* (odess_similarity_detection.cc, a gear hash, sampled).  Machine words,  *)
(* windows and the number of features are parameters.  XXH64 and SHA-256   *)
(* of a group of features stand for the group (no collisions).             *)
(***************************************************************************)
EXTENDS Integers, Sequences, FiniteSetsExt, TLC

CONSTANTS
    Word,              \* 2^64
    FeatureWord,       \* 2^32
    Byte,              \* 0 .. 255
    Window,            \* 64 in NTransForm, 48 in Finesse
    FeatureNumber,     \* 12
    PolyBase,          \* 257
    FinesseA,          \* 37
    FinesseMOD,        \* 1000000007
    Multiplier, Addend,\* the linear transformations, one for each feature
    Gear,              \* byte -> GEARmx
    Sampled            \* the hashes whose bits of kSampleRatioMask are 0

SFNumber == 3
Feature  == 1 .. FeatureNumber

-----------------------------------------------------------------------------
(* NTransForm *)

powerLUT == [i \in 0 .. Window - 1 |-> (PolyBase ^ i) % Word]

\* the negative of what a byte adds to the hash as the window's first
removeLUT == [v \in Byte |-> (Word - ((v * powerLUT[Window - 1]) % Word)) % Word]

\* (mutant: the byte is removed with the power of the window's size)
RollingHash_RemovesShifted(s) ==
    LET fp[n \in 0 .. Len(s)] ==
            IF n = 0 THEN 0
            ELSE IF n <= Window
            THEN (fp[n - 1] + s[n] * powerLUT[Window - n]) % Word
            ELSE (fp[n - 1] * PolyBase + removeLUT[s[n - Window]] + s[n]) % Word
    IN  fp

\* winFp after n bytes
RollingHash(s) ==
    LET fp[n \in 0 .. Len(s)] ==
            IF n = 0 THEN 0
            ELSE IF n <= Window
            THEN (fp[n - 1] + s[n] * powerLUT[Window - n]) % Word
            ELSE ((fp[n - 1] + removeLUT[s[n - Window]]) * PolyBase + s[n]) % Word
    IN  fp

\* fpList: the hash is pushed when the next byte arrives, the last one never
fpList(s) == [k \in 1 .. Len(s) - Window |-> RollingHash(s)[k + Window - 1]]

\* the first hash whose transformation is the largest, 0 when all are 0
TargetFp(fps, i) ==
    LET Pi(k) == (Multiplier[i] * fps[k] + Addend[i]) % FeatureWord
        best  == {k \in DOMAIN fps : Pi(k) > 0
                                     /\ \A m \in DOMAIN fps : Pi(m) <= Pi(k)}
    IN  IF best = {} THEN 0 ELSE fps[Min(best)] % FeatureWord

\* super feature i takes every third feature
Interleaved(features) ==
    [i \in 1 .. SFNumber |->
        [j \in 1 .. FeatureNumber \div SFNumber |-> features[(j - 1) * SFNumber + i]]]

NTransSF(s) ==
    LET fps == fpList(s) IN Interleaved([i \in Feature |-> TargetFp(fps, i)])

-----------------------------------------------------------------------------
(* Finesse *)

subchunkIndex(s, i) == (Len(s) * i) \div FeatureNumber

Apower == (FinesseA ^ (Window - 1)) % FinesseMOD

\* (mutant: one byte less is left for the last window)
SubchunkFeature_ReadsOn(s, past, i) ==
    LET first == subchunkIndex(s, i - 1)
        last  == subchunkIndex(s, i) - Window + 1
        At(j) == IF j < Len(s) THEN s[j + 1] ELSE past
        fill[n \in 0 .. Window] ==
            IF n = 0 THEN 0 ELSE (fill[n - 1] * FinesseA + At(first + n - 1)) % FinesseMOD
        fp[j \in first .. last] ==
            IF j = first THEN fill[Window]
            ELSE ((fp[j - 1] - At(j - 1) * Apower) * FinesseA + At(j + Window - 1))
                 % FinesseMOD
    IN  IF last < first THEN 0 ELSE Max({fp[j] : j \in first .. last})

\* The largest hash of a window inside subchunk i.  The first window is read
\* even when the subchunk is shorter: "past" are the bytes after the chunk.
SubchunkFeature(s, past, i) ==
    LET first == subchunkIndex(s, i - 1)
        last  == subchunkIndex(s, i) - Window
        At(j) == IF j < Len(s) THEN s[j + 1] ELSE past
        fill[n \in 0 .. Window] ==
            IF n = 0 THEN 0 ELSE (fill[n - 1] * FinesseA + At(first + n - 1)) % FinesseMOD
        fp[j \in first .. last] ==
            IF j = first THEN fill[Window]
            ELSE ((fp[j - 1] - At(j - 1) * Apower) * FinesseA + At(j + Window - 1))
                 % FinesseMOD
    IN  IF last < first THEN 0 ELSE Max({fp[j] : j \in first .. last})

\* neighbouring features are sorted, super feature i takes the i-th of each
FinesseSF(s, past) ==
    LET features == [i \in Feature |-> SubchunkFeature(s, past, i)]
        ranked(g) == SortSeq([k \in 1 .. SFNumber |-> features[g * SFNumber + k]],
                             LAMBDA a, b : a < b)
    IN  Interleaved([i \in Feature |->
            ranked((i - 1) \div SFNumber)[((i - 1) % SFNumber) + 1]])

-----------------------------------------------------------------------------
(* Odess and Palantir: features is the generator's own vector, still with  *)
(* what the previous chunk left in it                                      *)

\* OdessResemblanceDetect and PalantirResemblanceDetect
ResemblanceDetect(features, s) ==
    LET hash[n \in 0 .. Len(s)] ==
            IF n = 0 THEN 0 ELSE (2 * hash[n - 1] + Gear[s[n]]) % Word
        sampled == {hash[n] : n \in 1 .. Len(s)} \cap Sampled
        transform(h, j) == (h * Multiplier[j] + Addend[j]) % Word
    IN  [j \in Feature |-> Max({features[j]} \cup {transform(h, j) : h \in sampled})]

CleanFeatures(features) == [j \in Feature |-> 0]

\* k groups of neighbouring features
Grouped(features, k) ==
    LET len == FeatureNumber \div k
    IN  [i \in 1 .. k |-> SubSeq(features, (i - 1) * len + 1, i * len)]

\* (mutant: CleanFeatures is not called)
GenerateSuperFeatures_NotCleaned(features, s) ==
    Grouped(ResemblanceDetect(features, s), SFNumber)

GenerateSuperFeatures(features, s) ==
    Grouped(ResemblanceDetect(CleanFeatures(features), s), SFNumber)

\* (mutant: the second level has its groups off by one feature)
PalantirMakeSF_Overlap(features) ==
    Grouped(features, 3) \o Grouped(features, 4)
        \o [i \in 1 .. 6 |-> SubSeq(features, i, i + FeatureNumber \div 6 - 1)]

PalantirMakeSF(features) ==
    Grouped(features, 3) \o Grouped(features, 4) \o Grouped(features, 6)

PalantirGetSF(features, s) ==
    PalantirMakeSF(ResemblanceDetect(CleanFeatures(features), s))

\* places 1 to 3, 4 to 7 and 8 to 13
PalantirLevel == [i \in 1 .. 13 |-> IF i <= 3 THEN 1 ELSE IF i <= 7 THEN 2 ELSE 3]

-----------------------------------------------------------------------------
(* What they compute, without rolling hashes and buffers that are kept *)

Polynomial(s, base, mod) ==
    LET value[n \in 0 .. Len(s)] ==
            IF n = 0 THEN 0 ELSE (value[n - 1] * base + s[n]) % mod
    IN  value[Len(s)]

Windows(s) == {SubSeq(s, k, k + Window - 1) : k \in 1 .. Len(s) - Window + 1}

\* every window's hash but the last one's, in order
RollsOverWindows(s) ==
    \A k \in 1 .. Len(s) - Window :
        fpList(s)[k] = Polynomial(SubSeq(s, k, k + Window - 1), PolyBase, Word)

\* the largest hash of the subchunk's own windows
InsideSubchunks(s) ==
    \A i \in Feature, past \in Byte :
        LET sub == SubSeq(s, subchunkIndex(s, i - 1) + 1, subchunkIndex(s, i))
        IN  SubchunkFeature(s, past, i) =
                Max({0} \cup {Polynomial(w, FinesseA, FinesseMOD) : w \in Windows(sub)})

\* a sampled hash is that of the last bytes, as many as a word has bits
GearHash(s, n) ==
    LET bits == CHOOSE w \in 1 .. Word : 2 ^ w = Word
        tail == SubSeq(s, Max({1, n - bits + 1}), n)
    IN  Polynomial([k \in DOMAIN tail |-> Gear[tail[k]]], 2, Word)

\* Odess's super features are those of the chunk, whatever was before it
SampledOfContent(s, before) ==
    LET sampled == {GearHash(s, n) : n \in 1 .. Len(s)} \cap Sampled
    IN  GenerateSuperFeatures(before, s) =
            Grouped([j \in Feature |->
                Max({0} \cup {(h * Multiplier[j] + Addend[j]) % Word : h \in sampled})],
                SFNumber)

\* what is alike at one of Palantir's levels is alike at the finest one
LevelsNested(f, g) ==
    LET a == PalantirMakeSF(f)
        b == PalantirMakeSF(g)
    IN  (\E i \in 1 .. 7 : a[i] = b[i]) => \E i \in 8 .. 13 : a[i] = b[i]
=============================================================================
