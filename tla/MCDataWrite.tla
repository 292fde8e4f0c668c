----------------------------- MODULE MCDataWrite -----------------------------
(* Containers of two units and chunks of one or two: a container holds two *)
(* small chunks or one large one, so both a full and a half-full container *)
(* are sealed; all three kinds of stored chunk occur.                      *)
EXTENDS DataWrite

MCRequest ==
    {[deltaFlag |-> "NO_DELTA", chunkSize |-> 2, saveSize |-> 1],
     [deltaFlag |-> "NO_LZ4",   chunkSize |-> 2, saveSize |-> 2],
     [deltaFlag |-> "DELTA",    chunkSize |-> 2, saveSize |-> 1]}

\* bound: a base is left behind before the last chunk is inserted, or not at
\* all
MCLeft == left = 0 \/ Len(chunklist) < MaxChunks

-----------------------------------------------------------------------------
(* Local compression, with constants so small that every text over two bytes *)
(* of up to ten meets long literals, long matches, distances out of reach    *)
(* and both ends, under two hashes: by the first byte, and all alike.        *)

FirstByte == INSTANCE Lz4 WITH
    MINMATCH <- 2, LASTLITERALS <- 2, MFLIMIT <- 5, RUN_MASK <- 1, ML_MASK <- 1,
    LZ4_DISTANCE_MAX <- 4, skipTrigger <- 2, acceleration <- 1, Hash <- Head

AllAlike(bytes) == 0
Alike == INSTANCE Lz4 WITH
    MINMATCH <- 2, LASTLITERALS <- 2, MFLIMIT <- 5, RUN_MASK <- 1, ML_MASK <- 1,
    LZ4_DISTANCE_MAX <- 9, skipTrigger <- 1, acceleration <- 1, Hash <- AllAlike

Texts == UNION {[1 .. n -> 0 .. 1] : n \in 0 .. 10}
Rooms(n) == {n, n + 3, n + 5, n + 20}   \* n + 20: no limit

\* the constants of the code, on texts about the lengths at which the halves
\* of the token and the bytes behind it are full, and of every period to 20
HashOf(bytes) == (bytes[1] + 3 * bytes[2] + 5 * bytes[3] + 7 * bytes[4]) % 61
Lz == INSTANCE Lz4 WITH
    MINMATCH <- 4, LASTLITERALS <- 5, MFLIMIT <- 12, RUN_MASK <- 15, ML_MASK <- 15,
    LZ4_DISTANCE_MAX <- 65535, skipTrigger <- 64, acceleration <- 3, Hash <- HashOf

Varied(n) == [i \in 1 .. n |-> (i * i + i \div 7) % 251]
Period(p, n) == [i \in 1 .. n |-> Varied(p)[((i - 1) % p) + 1]]
LongTexts ==
    {Varied(n) : n \in {12, 13, 14, 15, 16, 269, 270, 271}}
    \cup {Period(p, 90) : p \in 1 .. 20}
    \cup {Period(1, n) : n \in {24, 25, 26, 278, 279, 280, 281}}
    \cup {Varied(n) \o Varied(40) : n \in {14, 15, 16, 270}}

Initially == chunklist = << >> /\ held = << >> /\ files[0] = NoFile

\* What is stored compressed can be restored: a function of the text alone, so
\* it is looked at in the first state only.
CompressionExact ==
    Initially =>
        /\ \A s \in Texts : \A max \in Rooms(Len(s)) :
               FirstByte!RoundTrips(s, max) /\ Alike!RoundTrips(s, max)
        /\ \A s \in LongTexts : Lz!RoundTrips(s, Len(s))
        /\ \A s \in [1 .. 10 -> 0 .. 1] : \A p \in 1 .. 9 : \A q \in 0 .. p - 1 :
               Lz!CountsEqual(s, p, q, 10)

\* A match is copied in stripes of bytes as it would be byte by byte.
StripesExact ==
    Initially =>
        \A offset \in 1 .. 40, length \in 4 .. 40, beyond \in {5, 6, 7, 8, 11, 12, 13, 64} :
            Lz!StripesCopy(offset, length, beyond)
=============================================================================
