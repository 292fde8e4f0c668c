----------------------------- MODULE MCMethods -----------------------------
(* The methods on four contents whose super features are computed, with     *)
(* bytes 0 to 2, windows of 2 bytes and words of 4 bits.                    *)
EXTENDS Methods, TLC

CONSTANTS d1, d2, d3, h1

Multipliers == [i \in 1 .. 12 |-> 2 * i + 1]
Addends     == [i \in 1 .. 12 |-> (5 * i) % 16]
Gears       == [b \in 0 .. 2 |-> 3 + 5 * b]

Hash == INSTANCE Features WITH
    Word <- 16, FeatureWord <- 8, Byte <- 0 .. 2, Window <- 2, FeatureNumber <- 12,
    PolyBase <- 5, FinesseA <- 5, FinesseMOD <- 7, Multiplier <- Multipliers,
    Addend <- Addends, Gear <- Gears, Sampled <- {h \in 0 .. 15 : h % 8 < 4}

Repeated(s, n) == [i \in 1 .. n * Len(s) |-> s[((i - 1) % Len(s)) + 1]]

\* d1 and d2 have common super features by every method; d3 is short, and has
\* one of the second level with d1, one of the third with d2.
OfEach(SF1(_)) ==
    d1 :> SF1(Repeated(<<0, 1, 2>>, 8))
    @@ d2 :> SF1(Repeated(<<0, 1, 2>>, 7) \o <<2, 0, 1>>)
    @@ d3 :> SF1(<<0, 0>>)
    @@ h1 :> SF1(Repeated(<<0>>, 24))

None == [i \in 1 .. 12 |-> 0]

\* computed once
Sampling == OfEach(LAMBDA s : Hash!GenerateSuperFeatures(None, s))
Position ==
    "NTRANSFORM" :> OfEach(Hash!NTransSF)
    @@ "FINESSE" :> OfEach(LAMBDA s : Hash!FinesseSF(s, 0))
Layers   == OfEach(LAMBDA s : Hash!PalantirGetSF(None, s))
AllSF    == UNION {{Sampling[c][i] : i \in 1 .. 3} : c \in Content}
Level    == Hash!PalantirLevel

MCFeatures         == Sampling
MCSF               == AllSF
MCPositionFeatures == Position
MCPalantirFeatures == Layers
MCLevelOf          == Level

\* LocalDedup needs five chunks for its first delta, Palantir four backups for
\* its first entry that expires at both levels.
MCBound ==
    CASE method = "LOCALITY" -> backup <= 2
      [] method = "PALANTIR" -> logicalchunkNum <= 3
      [] OTHER               -> logicalchunkNum <= 3 /\ backup <= 2

\* three features, so that the subchunks of short contents hold windows
Small == INSTANCE Features WITH
    Word <- 16, FeatureWord <- 8, Byte <- 0 .. 2, Window <- 2, FeatureNumber <- 3,
    PolyBase <- 5, FinesseA <- 5, FinesseMOD <- 7, Multiplier <- Multipliers,
    Addend <- Addends, Gear <- Gears, Sampled <- {h \in 0 .. 15 : h % 8 < 4}

Contents == UNION {[1 .. n -> 0 .. 2] : n \in 0 .. 7}

\* Super features are a function of the content alone, the one that the windows
\* or the sampled positions define: no byte from outside a window, a subchunk
\* or the chunk, nothing of the chunk before.  And what is alike at a coarse
\* level of Palantir's is alike at the finest.
FeaturesOfContent ==
    backup = 1 /\ logicalchunkNum = 0 =>
        /\ method = "NTRANSFORM" => \A s \in Contents : Small!RollsOverWindows(s)
        /\ method = "FINESSE" => \A s \in Contents : Small!InsideSubchunks(s)
        /\ method = "ODESS" => \A s \in Contents, b \in {None, Addends} :
                                   Small!SampledOfContent(s, b)
        /\ method = "PALANTIR" => \A f \in [1 .. 12 -> 0 .. 1] :
                                      Hash!LevelsNested(f, None)
=============================================================================
