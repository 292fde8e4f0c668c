----------------------------- MODULE MTarProofs -----------------------------
(***************************************************************************)
(* What MCMTar checks of the two passes of Chunker::MTar on small          *)
(* archives, for any archives and window sizes.  The invariant knows of    *)
(* the data pass only what it has left out, which are headers: the first   *)
(* block, and what follows the data of another one.  The header pass       *)
(* starts over with other windows, and finds exactly those.                *)
(***************************************************************************)
EXTENDS MTar, TLAPS

-----------------------------------------------------------------------------
(* The invariant *)

Type == {FILE_HEADER, FILE_CHUNK, BIG_CHUNK}
NextSet == [type: Type, size: Nat, bigSize: Nat, bigOffset: Nat]

TypeOK ==
    /\ files \in [1 .. backupNum -> Archives]
    /\ backup \in 1 .. backupNum
    /\ chunker \in {"read", "cut", "closed"} /\ cpSum = 0
    /\ window \in [totalOffset: Nat, len: Nat, end: BOOLEAN]
    /\ localOffset \in Nat
    /\ next \in NextSet
    /\ pass \in {"data", "headers", "restore", "done"}
    /\ outFile \in [data: Seq(Block), headers: Seq(Block)]
    /\ mfiles \in [1 .. backupNum -> [dataSize: Nat, blocks: Seq(Block)]]

\* how much of the file is cut
Done == window.totalOffset + (IF chunker = "cut" THEN localOffset ELSE 0)

BufferOK ==
    /\ window.totalOffset <= Len(File)
    /\ chunker = "closed" => window.totalOffset = Len(File)
    /\ chunker = "cut" => /\ window.totalOffset + window.len <= Len(File)
                          /\ window.end => window.totalOffset + window.len = Len(File)
                          /\ localOffset <= window.len
    /\ pass \in {"restore", "done"} => chunker = "read" /\ window.totalOffset = 0

\* the data a header announces
Gap(b) == IF b.kind \in {"other", "AREGTYPE"} THEN 0 ELSE b.size

\* H are the headers among the first n blocks: the first block is one, and
\* the next one follows the data of the one before
Headed(F, H, n) ==
    /\ H \subseteq 1 .. n
    /\ n > 0 => 1 \in H
    /\ \A p \in H : /\ \A q \in H : q <= p \/ q > p + Gap(F[p])
                    /\ p + Gap(F[p]) < n => p + Gap(F[p]) + 1 \in H

\* what comes next, behind the first n blocks, is the data of a header
Announced(F, H, n, nx) ==
    /\ nx.type = FILE_CHUNK => /\ n \in H /\ nx.size = Gap(F[n])
                               /\ nx.size <= CONTAINER_MAX_SIZE
    /\ nx.type = BIG_CHUNK =>
           \E p \in H : /\ p + nx.bigOffset = n /\ nx.bigSize = Gap(F[p])
                        /\ nx.bigOffset < nx.bigSize /\ p + nx.bigSize <= Len(F)

\* blocks are part of a file, in its order, and these are their places
Ids(blocks) == {blocks[i].id : i \in DOMAIN blocks}
\* and these the places of the first n blocks left out
Heads(blocks, n) == {i \in 1 .. n : i \notin Ids(blocks)}

\* the data pass has cut n blocks: what it has left out are headers
DataPart(F, D, n, nx) ==
    /\ PartOf(D, F) /\ Ids(D) \subseteq 1 .. n
    /\ Headed(F, Heads(D, n), n)
    /\ Announced(F, Heads(D, n), n, nx)
    /\ nx.type = FILE_HEADER =>
           n = Len(F) \/ \A p \in Heads(D, n) : p + Gap(F[p]) <= n

\* the header pass has cut n blocks: it has found the same headers
HeaderPart(F, D, hs, n, nx) ==
    LET H == Heads(D, Len(F))
    IN  /\ PartOf(D, F) /\ Ids(D) \subseteq 1 .. Len(F) /\ Headed(F, H, Len(F))
        /\ PartOf(hs, F) /\ Ids(hs) = {p \in H : p <= n}
        /\ Announced(F, H, n, nx)
        /\ nx.type = FILE_HEADER => n = Len(F) \/ n + 1 \in H

PassOK ==
    /\ pass = "data" => outFile.headers = << >>
                        /\ DataPart(File, outFile.data, Done, next)
    /\ pass = "headers" =>
           HeaderPart(File, outFile.data, outFile.headers, Done, next)

MTarInv == TypeOK /\ BufferOK /\ PassOK /\ PassesAgree

\* header n's data fits into the part of a window that is read again if it is
\* a long name, and is in the archive if it is a big file
Reachable(F, n) ==
    LET b == F[n]
    IN  /\ b.kind = "LONGNAME" => b.size <= CONTAINER_MAX_SIZE
        /\ b.kind = "REGTYPE" /\ b.size > BigChunkSize => n + b.size <= Len(F)

\* The hypothesis: so it is wherever a header is read.
DataInReach ==
    chunker = "cut" /\ InBuffer /\ next.type = FILE_HEADER
        => Reachable(File, Done + 1)

-----------------------------------------------------------------------------
(* Sequences *)

LEMMA SeqFacts ==
    ASSUME NEW S, NEW s \in Seq(S)
    PROVE  /\ Len(s) \in Nat
           /\ DOMAIN s = 1 .. Len(s)
           /\ \A i \in 1 .. Len(s) : s[i] \in S
BY SMT

LEMMA ConcatFacts ==
    ASSUME NEW S, NEW s \in Seq(S), NEW t \in Seq(S)
    PROVE  /\ s \o t \in Seq(S) /\ Len(s \o t) = Len(s) + Len(t)
           /\ Len(s) \in Nat /\ Len(t) \in Nat
           /\ \A i \in 1 .. Len(s) : (s \o t)[i] = s[i]
           /\ \A i \in 1 .. Len(t) : (s \o t)[Len(s) + i] = t[i]
BY SMT

LEMMA SubSeqFacts ==
    ASSUME NEW S, NEW s \in Seq(S), NEW n \in Nat, NEW m \in Nat, n + m <= Len(s)
    PROVE  /\ SubSeq(s, n + 1, n + m) \in Seq(S)
           /\ Len(SubSeq(s, n + 1, n + m)) = m
           /\ \A k \in 1 .. m : SubSeq(s, n + 1, n + m)[k] = s[n + k]
BY SMT

LEMMA SameSeq ==
    ASSUME NEW S, NEW s \in Seq(S), NEW t \in Seq(S), Len(s) = Len(t),
           \A i \in 1 .. Len(s) : s[i] = t[i]
    PROVE  s = t
<1>1. DOMAIN s = 1 .. Len(s) /\ DOMAIN t = 1 .. Len(t)
  BY SeqFacts
<1> QED BY <1>1

\* The two parts of what was put together.
LEMMA PartsFacts ==
    ASSUME NEW S, NEW s \in Seq(S), NEW t \in Seq(S)
    PROVE  /\ SubSeq(s \o t, 1, Len(s)) = s
           /\ SubSeq(s \o t, Len(s) + 1, Len(s \o t)) = t
<1> DEFINE n == Len(s)
           m == Len(t)
           u == s \o t
<1>1. /\ u \in Seq(S) /\ Len(u) = n + m /\ n \in Nat /\ m \in Nat
      /\ \A i \in 1 .. n : u[i] = s[i]
      /\ \A i \in 1 .. m : u[n + i] = t[i]
  BY ConcatFacts
<1> HIDE DEF n, m, u
<1>2. SubSeq(u, 0 + 1, 0 + n) = s
  <2>1. /\ SubSeq(u, 0 + 1, 0 + n) \in Seq(S) /\ Len(SubSeq(u, 0 + 1, 0 + n)) = n
        /\ \A k \in 1 .. n : SubSeq(u, 0 + 1, 0 + n)[k] = u[0 + k]
    BY <1>1, SubSeqFacts
  <2>2. \A k \in 1 .. n : u[0 + k] = s[k]
    BY <1>1
  <2> QED BY <2>1, <2>2, SameSeq DEF n
<1>3. SubSeq(u, n + 1, n + m) = t
  <2>1. /\ SubSeq(u, n + 1, n + m) \in Seq(S) /\ Len(SubSeq(u, n + 1, n + m)) = m
        /\ \A k \in 1 .. m : SubSeq(u, n + 1, n + m)[k] = u[n + k]
    BY <1>1, SubSeqFacts
  <2> QED BY <1>1, <2>1, SameSeq DEF m
<1>4. 0 + 1 = 1 /\ 0 + n = n
  BY <1>1
<1> QED BY <1>1, <1>2, <1>3, <1>4 DEF u, n

\* t is what follows the first n blocks of F
Behind(F, n, t) == \A j \in 1 .. Len(t) : t[j] = F[n + j] /\ F[n + j].id = n + j

\* More blocks of the file behind a part of it.
LEMMA MoreOfPart ==
    ASSUME NEW F, NEW s \in Seq(Block), PartOf(s, F), NEW n \in Nat, Ids(s) \subseteq 1 .. n,
           NEW t \in Seq(Block), Behind(F, n, t)
    PROVE  PartOf(s \o t, F) /\ Ids(s \o t) = Ids(s) \cup (n + 1 .. n + Len(t))
<1> DEFINE k == Len(s)
           m == Len(t)
           u == s \o t
<1>1. /\ u \in Seq(Block) /\ Len(u) = k + m /\ k \in Nat /\ m \in Nat
      /\ \A i \in 1 .. k : u[i] = s[i]
      /\ \A i \in 1 .. m : u[k + i] = t[i]
  BY ConcatFacts
<1>2. DOMAIN u = 1 .. k + m /\ DOMAIN s = 1 .. k
  BY <1>1, SeqFacts
<1> HIDE DEF k, m, u
<1>3. \A i \in 1 .. m : u[k + i].id = n + i /\ u[k + i] = F[n + i]
  BY <1>1 DEF m, Behind
<1>4. \A i \in 1 .. k : u[i].id \in 1 .. n /\ u[i].id = s[i].id /\ u[i] = F[u[i].id]
  BY <1>1, <1>2 DEF Ids, PartOf
<1>5. ASSUME NEW i \in 1 .. k + m PROVE i \in 1 .. k \/ \E j \in 1 .. m : i = k + j
  <2>1. CASE i <= k
    BY <1>1, <2>1
  <2>2. CASE i > k
    <3>1. i - k \in 1 .. m /\ i = k + (i - k)
      BY <1>1, <2>2
    <3> QED BY <3>1
  <2> QED BY <1>1, <2>1, <2>2
<1>6. PartOf(u, F)
  <2>1. ASSUME NEW i \in DOMAIN u PROVE u[i] = F[u[i].id]
    <3>1. CASE i \in 1 .. k
      BY <1>4, <3>1
    <3>2. CASE \E j \in 1 .. m : i = k + j
      BY <1>3, <3>2
    <3> QED BY <1>2, <1>5, <3>1, <3>2
  <2>2. ASSUME NEW i \in DOMAIN u, NEW j \in DOMAIN u, i < j PROVE u[i].id < u[j].id
    <3>1. CASE i \in 1 .. k /\ j \in 1 .. k
      BY <1>2, <1>4, <2>2, <3>1 DEF PartOf
    <3>2. ASSUME i \in 1 .. k, NEW q \in 1 .. m, j = k + q PROVE u[i].id < u[j].id
      <4>1. u[i].id \in 1 .. n /\ u[j].id = n + q
        BY <1>3, <1>4, <3>2
      <4> QED BY <4>1
    <3>3. ASSUME NEW p \in 1 .. m, i = k + p, NEW q \in 1 .. m, j = k + q
          PROVE  u[i].id < u[j].id
      <4>1. p < q
        BY <1>1, <2>2, <3>3
      <4> QED BY <1>3, <3>3, <4>1
    <3>4. ASSUME NEW p \in 1 .. m, i = k + p, j \in 1 .. k PROVE FALSE
      BY <1>1, <2>2, <3>4
    <3> QED BY <1>2, <1>5, <3>1, <3>2, <3>3, <3>4
  <2> QED BY <2>1, <2>2 DEF PartOf
<1>7. Ids(u) = Ids(s) \cup (n + 1 .. n + m)
  <2>1. ASSUME NEW i \in DOMAIN u PROVE u[i].id \in Ids(s) \cup (n + 1 .. n + m)
    <3>1. CASE i \in 1 .. k
      BY <1>2, <1>4, <3>1 DEF Ids
    <3>2. ASSUME NEW j \in 1 .. m, i = k + j PROVE u[i].id \in n + 1 .. n + m
      <4>1. u[i].id = n + j
        BY <1>3, <3>2
      <4> QED BY <1>1, <4>1
    <3> QED BY <1>2, <1>5, <3>1, <3>2
  <2>2. ASSUME NEW i \in DOMAIN s PROVE s[i].id \in Ids(u)
    <3>1. i \in DOMAIN u /\ u[i].id = s[i].id
      BY <1>1, <1>2, <1>4
    <3> QED BY <3>1 DEF Ids
  <2>3. ASSUME NEW x \in n + 1 .. n + m PROVE x \in Ids(u)
    <3>1. PICK j \in 1 .. m : x = n + j
      <4>1. x - n \in 1 .. m /\ x = n + (x - n)
        BY <1>1
      <4> QED BY <4>1
    <3>2. k + j \in DOMAIN u /\ u[k + j].id = x
      BY <1>1, <1>2, <1>3, <3>1
    <3> QED BY <3>2 DEF Ids
  <2>4. Ids(u) \subseteq Ids(s) \cup (n + 1 .. n + m)
    BY <2>1 DEF Ids
  <2>5. Ids(s) \subseteq Ids(u)
    BY <2>2 DEF Ids
  <2> QED BY <2>3, <2>4, <2>5
<1> QED BY <1>6, <1>7 DEF u, m

-----------------------------------------------------------------------------
(* Headers and their data *)

\* what is left of the data that comes next
Rest(nx) == IF nx.type = BIG_CHUNK THEN nx.bigSize - nx.bigOffset ELSE nx.size

\* a cut of k blocks of data, and what comes after it
DataCut(F, n, nx, k, nx2) ==
    /\ k \in Nat /\ k <= Rest(nx) /\ n + k <= Len(F)
    /\ nx2.type \in {FILE_HEADER, BIG_CHUNK}
    /\ nx2.type = FILE_HEADER => k = Rest(nx) \/ n + k = Len(F)
    /\ nx2.type = BIG_CHUNK =>
           /\ nx.type = BIG_CHUNK /\ nx2.bigSize = nx.bigSize
           /\ nx2.bigOffset = nx.bigOffset + k /\ nx2.bigOffset < nx2.bigSize

\* what a header says that is block n of its file
Parsed(F, n, nx) ==
    /\ nx.type = FILE_HEADER => Gap(F[n]) = 0
    /\ nx.type = FILE_CHUNK => nx.size = Gap(F[n]) /\ nx.size <= CONTAINER_MAX_SIZE
    /\ nx.type = BIG_CHUNK =>
           /\ nx.bigOffset = 0 /\ nx.bigSize = Gap(F[n])
           /\ 0 < nx.bigSize /\ n + nx.bigSize <= Len(F)

LEMMA Types == FILE_HEADER # FILE_CHUNK /\ FILE_HEADER # BIG_CHUNK /\ FILE_CHUNK # BIG_CHUNK
BY DEF FILE_HEADER, FILE_CHUNK, BIG_CHUNK

LEMMA BlockFacts ==
    ASSUME NEW F \in Seq(Block)
    PROVE  Len(F) \in Nat /\ \A p \in 1 .. Len(F) : F[p].size \in Nat /\ Gap(F[p]) \in Nat
<1>1. Len(F) \in Nat /\ \A p \in 1 .. Len(F) : F[p] \in Block
  BY SeqFacts
<1>2. \A b \in Block : b.size \in Nat /\ Gap(b) \in Nat
  BY DEF Block, Gap
<1> QED BY <1>1, <1>2

LEMMA HeadsMore ==
    ASSUME NEW s, NEW t, NEW n \in Nat, NEW k \in Nat, Ids(s) \subseteq 1 .. n,
           Ids(t) = Ids(s) \cup (n + 1 .. n + k)
    PROVE  Heads(t, n + k) = Heads(s, n) /\ Ids(t) \subseteq 1 .. n + k
<1>1. \A i \in n + 1 .. n + k : i \in 1 .. n + k /\ i \notin 1 .. n
  OBVIOUS
<1>2. \A i \in 1 .. n + k : i \in 1 .. n \/ i \in n + 1 .. n + k
  OBVIOUS
<1>3. \A i \in 1 .. n : i \in 1 .. n + k /\ i \notin n + 1 .. n + k
  OBVIOUS
<1> DEFINE A == 1 .. n
           B == n + 1 .. n + k
           C == 1 .. n + k
<1> HIDE DEF A, B, C
<1>4. /\ \A i \in B : i \in C /\ i \notin A
      /\ \A i \in C : i \in A \/ i \in B
      /\ \A i \in A : i \in C /\ i \notin B
      /\ Ids(s) \subseteq A /\ Ids(t) = Ids(s) \cup B
  BY <1>1, <1>2, <1>3 DEF A, B, C
<1>5. {i \in C : i \notin Ids(t)} = {i \in A : i \notin Ids(s)} /\ Ids(t) \subseteq C
  BY <1>4
<1> QED BY <1>5 DEF Heads, A, C

LEMMA HeadsOne ==
    ASSUME NEW s, NEW n \in Nat, Ids(s) \subseteq 1 .. n
    PROVE  Heads(s, n + 1) = Heads(s, n) \cup {n + 1} /\ Ids(s) \subseteq 1 .. n + 1
<1>1. \A i : i \in 1 .. n + 1 <=> i \in 1 .. n \/ i = n + 1
  OBVIOUS
<1>2. n + 1 \notin 1 .. n
  OBVIOUS
<1> DEFINE A == 1 .. n
           C == 1 .. n + 1
           e == n + 1
<1> HIDE DEF A, C, e
<1>3. (\A i : i \in C <=> i \in A \/ i = e) /\ e \notin A /\ Ids(s) \subseteq A
  BY <1>1, <1>2 DEF A, C, e
<1>4. {i \in C : i \notin Ids(s)} = {i \in A : i \notin Ids(s)} \cup {e} /\ Ids(s) \subseteq C
  BY <1>3
<1> QED BY <1>4 DEF Heads, A, C, e

\* The header whose data comes next.
LEMMA Announcer ==
    ASSUME NEW F \in Seq(Block), NEW n \in Nat, NEW H, H \subseteq 1 .. Len(F),
           NEW nx \in NextSet, nx.type # FILE_HEADER, Announced(F, H, n, nx)
    PROVE  \E p \in H : p <= n /\ p + Gap(F[p]) = n + Rest(nx) /\ Gap(F[p]) \in Nat
<1>1. /\ nx.size \in Nat /\ nx.bigSize \in Nat /\ nx.bigOffset \in Nat
      /\ nx.type = FILE_CHUNK \/ nx.type = BIG_CHUNK
  BY DEF NextSet, Type
<1>2. \A p \in H : p \in Nat /\ Gap(F[p]) \in Nat
  BY BlockFacts
<1>3. CASE nx.type = FILE_CHUNK
  <2>1. n \in H /\ nx.size = Gap(F[n]) /\ Rest(nx) = nx.size
    BY <1>3, Types DEF Announced, Rest
  <2> QED BY <1>2, <2>1
<1>4. CASE nx.type = BIG_CHUNK
  <2>1. PICK p \in H : p + nx.bigOffset = n /\ nx.bigSize = Gap(F[p])
    BY <1>4 DEF Announced
  <2>2. Rest(nx) = nx.bigSize - nx.bigOffset
    BY <1>4 DEF Rest
  <2> QED BY <1>1, <1>2, <2>1, <2>2
<1> QED BY <1>1, <1>3, <1>4

\* Data that was announced holds no header.
LEMMA HeadedMore ==
    ASSUME NEW F \in Seq(Block), NEW n \in Nat, n <= Len(F), NEW H, Headed(F, H, n),
           NEW p \in H, NEW k \in Nat, n + k <= p + Gap(F[p])
    PROVE  /\ Headed(F, H, n + k)
           /\ n + k = p + Gap(F[p]) => \A q \in H : q + Gap(F[q]) <= n + k
<1>1. \A q \in H : q \in Nat /\ q <= n /\ 1 <= q /\ Gap(F[q]) \in Nat
  <2>1. \A q \in 1 .. n : q \in 1 .. Len(F) /\ q \in Nat /\ q <= n /\ 1 <= q
    BY BlockFacts
  <2>2. H \subseteq 1 .. n
    BY DEF Headed
  <2> QED BY <2>1, <2>2, BlockFacts
<1>2. /\ \A q \in H, r \in H : r <= q \/ r > q + Gap(F[q])
      /\ \A q \in H : q + Gap(F[q]) < n => q + Gap(F[q]) + 1 \in H
      /\ n > 0 => 1 \in H
  BY DEF Headed
<1>3. ASSUME NEW q \in H PROVE q = p \/ q + Gap(F[q]) < p
  <2>1. q <= p \/ q > p + Gap(F[p])
    BY <1>2
  <2>2. p <= q \/ p > q + Gap(F[q])
    BY <1>2
  <2>3. q \in Nat /\ q <= n /\ Gap(F[q]) \in Nat /\ p \in Nat /\ p <= n /\ Gap(F[p]) \in Nat
    BY <1>1
  <2> QED BY <2>1, <2>2, <2>3
<1>4. ASSUME NEW q \in H, q + Gap(F[q]) < n + k PROVE q + Gap(F[q]) + 1 \in H
  <2>1. q # p
    BY <1>1, <1>4
  <2>2. q + Gap(F[q]) < n
    BY <1>1, <1>3, <2>1
  <2> QED BY <1>2, <2>2
<1>5. H \subseteq 1 .. n + k /\ (n + k > 0 => 1 \in H)
  <2>1. \A q \in H : q \in 1 .. n + k
    BY <1>1
  <2>2. n > 0
    BY <1>1
  <2> QED BY <1>2, <2>1, <2>2
<1>6. Headed(F, H, n + k)
  BY <1>2, <1>4, <1>5 DEF Headed
<1>7. n + k = p + Gap(F[p]) => \A q \in H : q + Gap(F[q]) <= n + k
  BY <1>1, <1>3
<1> QED BY <1>6, <1>7

\* One more header, where no data is announced.
LEMMA HeadedOne ==
    ASSUME NEW F \in Seq(Block), NEW n \in Nat, n < Len(F), NEW H, Headed(F, H, n),
           \A p \in H : p + Gap(F[p]) <= n
    PROVE  Headed(F, H \cup {n + 1}, n + 1)
<1> DEFINE G == H \cup {n + 1}
<1>1. \A q \in H : q \in Nat /\ q <= n /\ 1 <= q /\ q \in 1 .. n + 1 /\ Gap(F[q]) \in Nat
  <2>1. \A q \in 1 .. n : q \in 1 .. Len(F) /\ q \in Nat /\ q <= n /\ 1 <= q /\ q \in 1 .. n + 1
    BY BlockFacts
  <2>2. H \subseteq 1 .. n
    BY DEF Headed
  <2> QED BY <2>1, <2>2, BlockFacts
<1>2. /\ \A q \in H, r \in H : r <= q \/ r > q + Gap(F[q])
      /\ \A q \in H : q + Gap(F[q]) < n => q + Gap(F[q]) + 1 \in H
      /\ n > 0 => 1 \in H
  BY DEF Headed
<1>3. n + 1 \in 1 .. n + 1 /\ Gap(F[n + 1]) \in Nat
  <2>1. n + 1 \in 1 .. Len(F)
    BY BlockFacts
  <2> QED BY <2>1, BlockFacts
<1>4. ASSUME NEW p \in G, NEW q \in G PROVE q <= p \/ q > p + Gap(F[p])
  <2>1. CASE p \in H /\ q \in H
    BY <1>2, <2>1
  <2>2. CASE p \in H /\ q = n + 1
    BY <1>1, <2>2
  <2>3. CASE p = n + 1
    BY <1>1, <2>3
  <2> QED BY <2>1, <2>2, <2>3
<1>5. ASSUME NEW p \in G, p + Gap(F[p]) < n + 1 PROVE p + Gap(F[p]) + 1 \in G
  <2>1. p # n + 1
    BY <1>3, <1>5
  <2>2. p \in H /\ p + Gap(F[p]) <= n /\ p \in Nat /\ Gap(F[p]) \in Nat
    BY <1>1, <2>1
  <2>3. CASE p + Gap(F[p]) = n
    BY <2>3
  <2>4. CASE p + Gap(F[p]) < n
    BY <1>2, <2>2, <2>4
  <2> QED BY <2>2, <2>3, <2>4
<1>6. G \subseteq 1 .. n + 1 /\ 1 \in G
  <2>1. \A q \in G : q \in 1 .. n + 1
    BY <1>1, <1>3
  <2>2. n = 0 => n + 1 = 1
    OBVIOUS
  <2> QED BY <1>2, <2>1, <2>2
<1> QED BY <1>4, <1>5, <1>6 DEF Headed

-----------------------------------------------------------------------------
(* The two passes *)

\* the blocks of a file are known by their places
Numbered(F) == F \in Seq(Block) /\ \A i \in 1 .. Len(F) : F[i].id = i

\* the k blocks of F behind the first n
Run(F, n, k, t) == t \in Seq(Block) /\ Len(t) = k /\ \A j \in 1 .. k : t[j] = F[n + j]

LEMMA RunOfPart ==
    ASSUME NEW F, Numbered(F), NEW s \in Seq(Block), PartOf(s, F), NEW n \in Nat,
           Ids(s) \subseteq 1 .. n, NEW k \in Nat, n + k <= Len(F), NEW t, Run(F, n, k, t)
    PROVE  /\ s \o t \in Seq(Block) /\ PartOf(s \o t, F)
           /\ Ids(s \o t) = Ids(s) \cup (n + 1 .. n + k)
<1>1. t \in Seq(Block) /\ Len(t) = k
  BY DEF Run
<1>2. ASSUME NEW j \in 1 .. Len(t) PROVE t[j] = F[n + j] /\ F[n + j].id = n + j
  <2>1. Len(F) \in Nat
    BY SeqFacts DEF Numbered
  <2>2. n + j \in 1 .. Len(F)
    BY <1>1, <2>1
  <2> QED BY <1>1, <2>2 DEF Run, Numbered
<1>3. s \o t \in Seq(Block)
  BY <1>1, ConcatFacts
<1>4. PartOf(s \o t, F) /\ Ids(s \o t) = Ids(s) \cup (n + 1 .. n + Len(t))
  <2>1. Behind(F, n, t)
    BY <1>2 DEF Behind
  <2> QED BY <1>1, <2>1, MoreOfPart
<1> QED BY <1>1, <1>3, <1>4

\* A big file goes on.
LEMMA StillAnnounced ==
    ASSUME NEW F, NEW n \in Nat, NEW H, \A q \in H : q \in Nat, NEW nx \in NextSet,
           Announced(F, H, n, nx), NEW k, NEW nx2, DataCut(F, n, nx, k, nx2)
    PROVE  Announced(F, H, n + k, nx2)
<1>1. nx2.type # FILE_CHUNK /\ k \in Nat
  BY Types DEF DataCut
<1>2. ASSUME nx2.type = BIG_CHUNK
      PROVE  \E q \in H : /\ q + nx2.bigOffset = n + k /\ nx2.bigSize = Gap(F[q])
                          /\ nx2.bigOffset < nx2.bigSize /\ q + nx2.bigSize <= Len(F)
  <2>1. /\ nx.type = BIG_CHUNK /\ nx2.bigSize = nx.bigSize
        /\ nx2.bigOffset = nx.bigOffset + k /\ nx2.bigOffset < nx2.bigSize
    BY <1>2 DEF DataCut
  <2>2. PICK q \in H : /\ q + nx.bigOffset = n /\ nx.bigSize = Gap(F[q])
                       /\ q + nx.bigSize <= Len(F)
    BY <2>1 DEF Announced
  <2>3. PICK o \in Nat : o = nx.bigOffset
    BY DEF NextSet
  <2>4. q + (o + k) = n + k
    <3>1. q \in Nat /\ q + o = n
      BY <2>2, <2>3
    <3> QED BY <1>1, <3>1
  <2> QED BY <2>1, <2>2, <2>3, <2>4
<1> QED BY <1>1, <1>2 DEF Announced

\* The data of a header, or a run of it, is cut.
LEMMA CutAnnounced ==
    ASSUME NEW F, Numbered(F), NEW n \in Nat, NEW H, Headed(F, H, n), NEW nx \in NextSet,
           nx.type # FILE_HEADER, Announced(F, H, n, nx), NEW k, NEW nx2,
           DataCut(F, n, nx, k, nx2), n <= Len(F)
    PROVE  /\ Headed(F, H, n + k) /\ Announced(F, H, n + k, nx2)
           /\ nx2.type = FILE_HEADER =>
                  n + k = Len(F) \/ \A q \in H : q + Gap(F[q]) <= n + k
<1>1. F \in Seq(Block) /\ Len(F) \in Nat
  BY SeqFacts DEF Numbered
<1>2. H \subseteq 1 .. Len(F)
  <2>1. \A q \in 1 .. n : q \in 1 .. Len(F)
    BY <1>1
  <2> QED BY <2>1 DEF Headed
<1>3. PICK p \in H : p <= n /\ p + Gap(F[p]) = n + Rest(nx) /\ Gap(F[p]) \in Nat
  BY <1>1, <1>2, Announcer
<1>4. /\ k \in Nat /\ n + k <= n + Rest(nx) /\ p \in Nat
      /\ k = Rest(nx) => n + k = p + Gap(F[p])
  <2>1. k \in Nat /\ k <= Rest(nx)
    BY DEF DataCut
  <2>2. p \in Nat /\ Rest(nx) \in Int
    <3>1. nx.size \in Nat /\ nx.bigSize \in Nat /\ nx.bigOffset \in Nat
      BY DEF NextSet
    <3> QED BY <1>1, <1>2, <3>1 DEF Rest
  <2> QED BY <1>3, <2>1, <2>2
<1>5. /\ Headed(F, H, n + k)
      /\ n + k = p + Gap(F[p]) => \A q \in H : q + Gap(F[q]) <= n + k
  BY <1>1, <1>3, <1>4, HeadedMore
<1>6. nx2.type = FILE_HEADER =>
          n + k = Len(F) \/ \A q \in H : q + Gap(F[q]) <= n + k
  BY <1>4, <1>5 DEF DataCut
<1>7. Announced(F, H, n + k, nx2)
  <2>1. \A q \in H : q \in Nat
    BY <1>1, <1>2
  <2> QED BY <2>1, StillAnnounced
<1> QED BY <1>5, <1>6, <1>7

LEMMA DataPassCut ==
    ASSUME NEW F, Numbered(F), NEW n \in Nat, NEW D \in Seq(Block), NEW nx \in NextSet,
           DataPart(F, D, n, nx), nx.type # FILE_HEADER, n <= Len(F),
           NEW k, NEW nx2, DataCut(F, n, nx, k, nx2), NEW t, Run(F, n, k, t)
    PROVE  D \o t \in Seq(Block) /\ DataPart(F, D \o t, n + k, nx2)
<1>1. k \in Nat /\ n + k <= Len(F)
  BY DEF DataCut
<1>2. /\ PartOf(D, F) /\ Ids(D) \subseteq 1 .. n /\ Headed(F, Heads(D, n), n)
      /\ Announced(F, Heads(D, n), n, nx)
  BY DEF DataPart
<1>3. /\ D \o t \in Seq(Block) /\ PartOf(D \o t, F)
      /\ Ids(D \o t) = Ids(D) \cup (n + 1 .. n + k)
  BY <1>1, <1>2, RunOfPart
<1>4. Heads(D \o t, n + k) = Heads(D, n) /\ Ids(D \o t) \subseteq 1 .. n + k
  BY <1>1, <1>2, <1>3, HeadsMore
<1>5. /\ Headed(F, Heads(D, n), n + k) /\ Announced(F, Heads(D, n), n + k, nx2)
      /\ nx2.type = FILE_HEADER =>
             n + k = Len(F) \/ \A q \in Heads(D, n) : q + Gap(F[q]) <= n + k
  BY <1>2, CutAnnounced
<1> QED BY <1>3, <1>4, <1>5 DEF DataPart

\* A header announces what comes next.
LEMMA ParsedAnnounced ==
    ASSUME NEW F, NEW n \in Nat, NEW H, n \in H, NEW nx, Parsed(F, n, nx)
    PROVE  Announced(F, H, n, nx)
<1>1. nx.type = BIG_CHUNK =>
          /\ n + nx.bigOffset = n /\ nx.bigSize = Gap(F[n])
          /\ nx.bigOffset < nx.bigSize /\ n + nx.bigSize <= Len(F)
  BY DEF Parsed
<1> QED BY <1>1 DEF Parsed, Announced

LEMMA DataPassHeader ==
    ASSUME NEW F, Numbered(F), NEW n \in Nat, NEW D, NEW nx, DataPart(F, D, n, nx),
           nx.type = FILE_HEADER, n < Len(F), NEW nx2, Parsed(F, n + 1, nx2)
    PROVE  DataPart(F, D, n + 1, nx2)
<1>1. /\ PartOf(D, F) /\ Ids(D) \subseteq 1 .. n /\ Headed(F, Heads(D, n), n)
      /\ n = Len(F) \/ \A p \in Heads(D, n) : p + Gap(F[p]) <= n
  BY DEF DataPart
<1>2. F \in Seq(Block) /\ Len(F) \in Nat
  BY SeqFacts DEF Numbered
<1>3. \A p \in Heads(D, n) : p + Gap(F[p]) <= n
  BY <1>1, <1>2
<1>4. Heads(D, n + 1) = Heads(D, n) \cup {n + 1} /\ Ids(D) \subseteq 1 .. n + 1
  BY <1>1, HeadsOne
<1>5. Headed(F, Heads(D, n + 1), n + 1)
  BY <1>1, <1>2, <1>3, <1>4, HeadedOne
<1>6. Announced(F, Heads(D, n + 1), n + 1, nx2)
  BY <1>4, ParsedAnnounced
<1>7. nx2.type = FILE_HEADER => \A p \in Heads(D, n + 1) : p + Gap(F[p]) <= n + 1
  <2> SUFFICES ASSUME nx2.type = FILE_HEADER, NEW p \in Heads(D, n + 1)
               PROVE  p + Gap(F[p]) <= n + 1
    OBVIOUS
  <2>1. CASE p = n + 1
    <3>1. Gap(F[n + 1]) = 0
      BY DEF Parsed
    <3> QED BY <2>1, <3>1
  <2>2. CASE p \in Heads(D, n)
    <3>1. p + Gap(F[p]) <= n /\ p \in Nat /\ p \in 1 .. Len(F)
      BY <1>2, <1>3, <2>2 DEF Heads
    <3>2. Gap(F[p]) \in Nat
      BY <1>2, <3>1, BlockFacts
    <3> QED BY <3>1, <3>2
  <2> QED BY <1>4, <2>1, <2>2
<1> QED BY <1>1, <1>4, <1>5, <1>6, <1>7 DEF DataPart

LEMMA HeaderPassCut ==
    ASSUME NEW F, Numbered(F), NEW n \in Nat, NEW D, NEW hs, NEW nx \in NextSet,
           HeaderPart(F, D, hs, n, nx), nx.type # FILE_HEADER, n <= Len(F),
           NEW k, NEW nx2, DataCut(F, n, nx, k, nx2)
    PROVE  HeaderPart(F, D, hs, n + k, nx2)
<1> DEFINE H == Heads(D, Len(F))
<1>1. F \in Seq(Block) /\ Len(F) \in Nat
  BY SeqFacts DEF Numbered
<1>2. /\ Headed(F, H, Len(F)) /\ Announced(F, H, n, nx) /\ Ids(hs) = {p \in H : p <= n}
      /\ H \subseteq 1 .. Len(F)
  BY DEF HeaderPart, Headed
<1> HIDE DEF H
<1>3. PICK p \in H : p <= n /\ p + Gap(F[p]) = n + Rest(nx) /\ Gap(F[p]) \in Nat
  BY <1>1, <1>2, Announcer
<1>4. /\ k \in Nat /\ n + k <= p + Gap(F[p]) /\ n + k <= Len(F)
      /\ nx2.type = FILE_HEADER => n + k = p + Gap(F[p]) \/ n + k = Len(F)
  <2>1. /\ k \in Nat /\ k <= Rest(nx) /\ n + k <= Len(F)
        /\ nx2.type = FILE_HEADER => k = Rest(nx) \/ n + k = Len(F)
    BY DEF DataCut
  <2>2. Rest(nx) \in Int
    <3>1. nx.size \in Nat /\ nx.bigSize \in Nat /\ nx.bigOffset \in Nat
      BY DEF NextSet
    <3> QED BY <3>1 DEF Rest
  <2> QED BY <1>3, <2>1, <2>2
<1>5. \A q \in H : q \in Nat /\ (q <= p \/ q > p + Gap(F[p])) /\ p \in Nat
  BY <1>1, <1>2 DEF Headed
<1>6. {q \in H : q <= n} = {q \in H : q <= n + k}
  <2>1. ASSUME NEW q \in H PROVE q <= n <=> q <= n + k
    <3>1. q \in Nat /\ (q <= p \/ q > p + Gap(F[p])) /\ p \in Nat
      BY <1>5
    <3>2. q > p + Gap(F[p]) => q > n + k
      BY <1>3, <1>4, <3>1
    <3> QED BY <1>3, <1>4, <3>1, <3>2
  <2> QED BY <2>1
<1>7. nx2.type = FILE_HEADER => n + k = Len(F) \/ n + k + 1 \in H
  <2> SUFFICES ASSUME nx2.type = FILE_HEADER, n + k # Len(F) PROVE n + k + 1 \in H
    OBVIOUS
  <2>1. n + k = p + Gap(F[p]) /\ n + k < Len(F)
    BY <1>1, <1>4
  <2> QED BY <1>2, <2>1 DEF Headed
<1>8. Announced(F, H, n + k, nx2)
  BY <1>2, <1>5, StillAnnounced
<1>9. /\ PartOf(D, F) /\ Ids(D) \subseteq 1 .. Len(F) /\ PartOf(hs, F)
  BY DEF HeaderPart
<1> QED BY <1>2, <1>6, <1>7, <1>8, <1>9 DEF HeaderPart, H

LEMMA HeaderPassHeader ==
    ASSUME NEW F, Numbered(F), NEW n \in Nat, NEW D, NEW hs \in Seq(Block), NEW nx,
           HeaderPart(F, D, hs, n, nx), nx.type = FILE_HEADER, n < Len(F),
           NEW nx2, Parsed(F, n + 1, nx2), NEW t, Run(F, n, 1, t)
    PROVE  hs \o t \in Seq(Block) /\ HeaderPart(F, D, hs \o t, n + 1, nx2)
<1> DEFINE H == Heads(D, Len(F))
<1>1. F \in Seq(Block) /\ Len(F) \in Nat
  BY SeqFacts DEF Numbered
<1>2. /\ Headed(F, H, Len(F)) /\ Ids(hs) = {p \in H : p <= n} /\ PartOf(hs, F)
      /\ H \subseteq 1 .. Len(F) /\ n + 1 \in H
      /\ PartOf(D, F) /\ Ids(D) \subseteq 1 .. Len(F)
  BY <1>1 DEF HeaderPart, Headed
<1> HIDE DEF H
<1>3. \A q \in H : q \in Nat /\ q >= 1
  BY <1>1, <1>2
<1>4. Ids(hs) \subseteq 1 .. n
  <2>1. \A q \in H : q <= n => q \in 1 .. n
    BY <1>3
  <2> QED BY <1>2, <2>1
<1>5. /\ hs \o t \in Seq(Block) /\ PartOf(hs \o t, F)
      /\ Ids(hs \o t) = Ids(hs) \cup (n + 1 .. n + 1)
  <2>1. 1 \in Nat /\ n + 1 <= Len(F)
    BY <1>1
  <2> QED BY <1>2, <1>4, <2>1, RunOfPart
<1>6. Ids(hs \o t) = {p \in H : p <= n + 1}
  <2>1. n + 1 .. n + 1 = {n + 1}
    OBVIOUS
  <2>2. \A q \in H : q <= n + 1 <=> q <= n \/ q = n + 1
    BY <1>3
  <2> DEFINE e == n + 1
  <2>3. /\ \A q \in H : q <= e <=> q <= n \/ q = e
        /\ e \in H /\ Ids(hs \o t) = {q \in H : q <= n} \cup {e}
    BY <1>2, <1>5, <2>1, <2>2
  <2> HIDE DEF e
  <2>4. Ids(hs \o t) = {q \in H : q <= e}
    BY <2>3
  <2> QED BY <2>4 DEF e
<1>7. Announced(F, H, n + 1, nx2)
  BY <1>2, ParsedAnnounced
<1>8. nx2.type = FILE_HEADER => n + 1 = Len(F) \/ n + 1 + 1 \in H
  <2> SUFFICES ASSUME nx2.type = FILE_HEADER, n + 1 # Len(F) PROVE n + 1 + 1 \in H
    OBVIOUS
  <2>1. n + 1 + Gap(F[n + 1]) = n + 1 /\ n + 1 < Len(F)
    BY <1>1 DEF Parsed
  <2>2. n + 1 + Gap(F[n + 1]) + 1 \in H
    BY <1>2, <2>1 DEF Headed
  <2> QED BY <2>1, <2>2
<1> QED BY <1>2, <1>5, <1>6, <1>7, <1>8 DEF HeaderPart, H

-----------------------------------------------------------------------------
(* What is cut *)

\* The constants, as numbers.
LEMMA ConstantFacts ==
    /\ backupNum \in Nat \ {0} /\ MAX_CHUNK_SIZE \in Nat \ {0}
    /\ CONTAINER_MAX_SIZE \in Nat /\ CONTAINER_MAX_SIZE > MAX_CHUNK_SIZE
    /\ BigChunkSize \in Nat /\ READ_FILE_SIZE \in Nat \ {0} /\ Window \in Nat \ {0}
<1>1. PICK m \in Nat \ {0} : m = MULTI_HEADER_CHUNK
  BY TarChunkerAssumption
<1>2. PICK c \in Nat : c = CONTAINER_MAX_SIZE
  BY TarChunkerAssumption
<1>3. Reserve \in Nat
  <2>1. m * c \in Nat
    BY <1>1, <1>2
  <2> QED BY <1>1, <1>2, <2>1 DEF Reserve
<1> QED BY <1>3, TarChunkerAssumption DEF Window

\* The file being cut is a sequence of numbered blocks.
LEMMA FileFacts ==
    ASSUME TypeOK
    PROVE  /\ Numbered(File) /\ File \in Seq(Block) /\ Len(File) \in Nat
           /\ \A i \in 1 .. Len(File) : File[i] \in Block
<1>1. File \in Archives
  BY DEF TypeOK, File
<1>2. File \in Seq(Block) /\ \A i \in DOMAIN File : File[i].id = i
  BY <1>1, TarChunkerAssumption
<1> QED BY <1>2, SeqFacts DEF Numbered

\* The buffer holds what follows what is cut: all that is left, or more than
\* a chunk.
LEMMA BufferFacts ==
    ASSUME TypeOK, BufferOK, chunker = "cut"
    PROVE  /\ Done = window.totalOffset + localOffset /\ Done \in Nat
           /\ SegLen \in Nat /\ SegLen = window.len - localOffset
           /\ Done + SegLen <= Len(File) /\ Done <= Len(File)
           /\ InBuffer => /\ SegLen > 0
                          /\ SegLen >= CONTAINER_MAX_SIZE \/ Done + SegLen = Len(File)
<1>1. /\ window.totalOffset \in Nat /\ window.len \in Nat /\ localOffset \in Nat
      /\ Len(File) \in Nat
  BY FileFacts DEF TypeOK
<1>2. /\ window.totalOffset + window.len <= Len(File)
      /\ window.end => window.totalOffset + window.len = Len(File)
      /\ localOffset <= window.len
  BY DEF BufferOK
<1>3. Done = window.totalOffset + localOffset /\ SegLen = window.len - localOffset
  BY DEF Done, SegLen
<1>4. InBuffer => SegLen >= CONTAINER_MAX_SIZE \/ (window.end /\ SegLen > 0)
  <2>1. ~(localOffset > window.len)
    BY <1>1, <1>2
  <2> QED BY <2>1 DEF InBuffer
<1>5. CONTAINER_MAX_SIZE \in Nat /\ CONTAINER_MAX_SIZE > 0
  BY ConstantFacts
<1>6. /\ Done \in Nat /\ SegLen \in Nat /\ Done <= Len(File)
      /\ Done + SegLen = window.totalOffset + window.len
  BY <1>1, <1>2, <1>3
<1>7. InBuffer => /\ SegLen > 0
                  /\ SegLen >= CONTAINER_MAX_SIZE \/ Done + SegLen = Len(File)
  <2> SUFFICES ASSUME InBuffer
               PROVE  /\ SegLen > 0
                      /\ SegLen >= CONTAINER_MAX_SIZE \/ Done + SegLen = Len(File)
    OBVIOUS
  <2>1. CASE SegLen >= CONTAINER_MAX_SIZE
    BY <1>5, <1>6, <2>1
  <2>2. CASE window.end /\ SegLen > 0
    BY <1>2, <1>6, <2>2
  <2> QED BY <1>4, <2>1, <2>2
<1> QED BY <1>2, <1>3, <1>6, <1>7

\* n blocks from where the chunker stands.
LEMMA SrcFacts ==
    ASSUME TypeOK, BufferOK, chunker = "cut", NEW n \in Nat, n <= SegLen
    PROVE  Run(File, Done, n, Src(n))
<1>1. /\ Done \in Nat /\ Done + n <= Len(File)
      /\ Done = window.totalOffset + localOffset
      /\ Len(File) \in Nat /\ File \in Seq(Block)
  BY BufferFacts, FileFacts
<1>2. PICK d \in Nat : d = Done
  BY <1>1
<1>3. MinOf(d + n, Len(File)) = d + n
  BY <1>1, <1>2 DEF MinOf
<1>4. Src(n) = SubSeq(File, d + 1, d + n)
  <2>1. window.totalOffset + localOffset + cpSum = d
    BY <1>1, <1>2 DEF TypeOK
  <2> QED BY <1>3, <2>1 DEF Src
<1>5. PICK s \in Seq(Block) : s = File
  BY <1>1
<1>6. d + n <= Len(s)
  BY <1>1, <1>2, <1>5
<1>7. /\ SubSeq(s, d + 1, d + n) \in Seq(Block)
      /\ Len(SubSeq(s, d + 1, d + n)) = n
      /\ \A k \in 1 .. n : SubSeq(s, d + 1, d + n)[k] = s[d + k]
  BY <1>6, SubSeqFacts
<1> QED BY <1>2, <1>4, <1>5, <1>7 DEF Run

\* Setting a field of what comes next leaves the others as they are.
LEMMA HeaderNext ==
    ASSUME NEW r \in NextSet
    PROVE  /\ [r EXCEPT !.type = FILE_HEADER] \in NextSet
           /\ [r EXCEPT !.type = FILE_HEADER].type = FILE_HEADER
BY DEF NextSet, Type

LEMMA HeaderNextSize ==
    ASSUME NEW r \in NextSet
    PROVE  /\ [r EXCEPT !.type = FILE_HEADER, !.size = 1] \in NextSet
           /\ [r EXCEPT !.type = FILE_HEADER, !.size = 1].type = FILE_HEADER
<1>1. FILE_HEADER \in Type
  BY DEF Type
<1>2. PICK n \in Nat : n = 1
  OBVIOUS
<1>3. /\ [r EXCEPT !.type = FILE_HEADER, !.size = n] \in NextSet
      /\ [r EXCEPT !.type = FILE_HEADER, !.size = n].type = FILE_HEADER
  BY <1>1 DEF NextSet
<1> QED BY <1>2, <1>3

LEMMA OffsetNext ==
    ASSUME NEW r \in NextSet, NEW n \in Nat
    PROVE  /\ [r EXCEPT !.bigOffset = n] \in NextSet
           /\ [r EXCEPT !.bigOffset = n].type = r.type
           /\ [r EXCEPT !.bigOffset = n].bigOffset = n
           /\ [r EXCEPT !.bigOffset = n].bigSize = r.bigSize
BY DEF NextSet

\* What a header announces.
LEMMA ParseHeaderFacts ==
    ASSUME BigChunkSize <= CONTAINER_MAX_SIZE,
           next \in NextSet, next.type = FILE_HEADER,
           NEW F, NEW n \in Nat, F[n] \in Block, Reachable(F, n)
    PROVE  ParseHeader(F[n]) \in NextSet /\ Parsed(F, n, ParseHeader(F[n]))
<1> DEFINE b == F[n]
           big == b.kind = "REGTYPE" /\ b.size > BigChunkSize
           size == IF b.kind = "AREGTYPE" THEN 0 ELSE b.size
           nx == ParseHeader(b)
<1>1. /\ b.size \in Nat /\ size \in Nat /\ b.kind \in Kind
      /\ CONTAINER_MAX_SIZE \in Nat /\ BigChunkSize \in Nat
  BY ConstantFacts DEF Block
<1>2. /\ b.kind = "LONGNAME" => b.size <= CONTAINER_MAX_SIZE
      /\ big => n + b.size <= Len(F)
  BY DEF Reachable
<1>3. b.kind # "other" => Gap(b) = size
  BY DEF Gap
<1> HIDE DEF size, b
<1>4. CASE big
  <2>1. nx = [next EXCEPT !.type = BIG_CHUNK, !.size = size,
                          !.bigSize = size, !.bigOffset = 0]
    BY <1>4 DEF ParseHeader, size
  <2>2. size = b.size /\ Gap(b) = size /\ 0 < size
    BY <1>1, <1>3, <1>4 DEF size
  <2> HIDE DEF nx
  <2>3. nx \in NextSet /\ nx.type = BIG_CHUNK /\ nx.bigSize = size /\ nx.bigOffset = 0
    BY <1>1, <2>1 DEF NextSet, Type
  <2>4. Parsed(F, n, nx)
    BY <1>2, <1>4, <2>2, <2>3, Types DEF Parsed, b
  <2> QED BY <2>3, <2>4 DEF nx, b
<1>5. CASE ~big
  <2> DEFINE t == IF b.kind = "other" THEN FILE_HEADER ELSE FILE_CHUNK
  <2>1. nx = [next EXCEPT !.type = t, !.size = size,
                          !.bigSize = next.bigSize, !.bigOffset = next.bigOffset]
    BY <1>5 DEF ParseHeader, size
  <2>2. t \in Type /\ t # BIG_CHUNK
    BY Types DEF Type
  <2>3. t = FILE_HEADER => Gap(b) = 0
    BY Types DEF Gap
  <2>4. t = FILE_CHUNK => Gap(b) = size /\ size <= CONTAINER_MAX_SIZE
    <3> SUFFICES ASSUME t = FILE_CHUNK PROVE Gap(b) = size /\ size <= CONTAINER_MAX_SIZE
      OBVIOUS
    <3>1. b.kind # "other"
      BY Types
    <3>2. b.kind = "AREGTYPE" => size <= CONTAINER_MAX_SIZE
      BY <1>1 DEF size
    <3>3. b.kind = "LONGNAME" => size <= CONTAINER_MAX_SIZE
      BY <1>2 DEF size
    <3>4. b.kind = "REGTYPE" => size <= CONTAINER_MAX_SIZE
      BY <1>1, <1>5 DEF size
    <3>5. b.kind = "AREGTYPE" \/ b.kind = "LONGNAME" \/ b.kind = "REGTYPE"
      BY <1>1, <3>1 DEF Kind
    <3>6. size <= CONTAINER_MAX_SIZE
      BY <3>2, <3>3, <3>4, <3>5
    <3> QED BY <1>3, <3>1, <3>6
  <2> HIDE DEF t, nx
  <2>5. nx \in NextSet /\ nx.type = t /\ nx.size = size
    BY <1>1, <2>1, <2>2 DEF NextSet
  <2>6. Parsed(F, n, nx)
    BY <2>2, <2>3, <2>4, <2>5 DEF Parsed, b
  <2> QED BY <2>5, <2>6 DEF nx, b
<1> QED BY <1>4, <1>5

\* A file's data is cut whole, or as far as the archive goes.
LEMMA CutFileFacts ==
    ASSUME TypeOK, BufferOK, chunker = "cut", InBuffer, next.type = FILE_CHUNK,
           next.size <= CONTAINER_MAX_SIZE
    PROVE  /\ DataCut(File, Done, next, CutFile.cp, CutFile.next)
           /\ CutFile.cp <= SegLen /\ CutFile.next \in NextSet
<1>1. /\ Done \in Nat /\ SegLen \in Nat /\ Done + SegLen <= Len(File)
      /\ SegLen >= CONTAINER_MAX_SIZE \/ Done + SegLen = Len(File)
      /\ CONTAINER_MAX_SIZE \in Nat /\ Len(File) \in Nat
  BY BufferFacts, ConstantFacts, FileFacts
<1>2. next.size \in Nat /\ next \in NextSet /\ cpSum = 0
  BY DEF TypeOK, NextSet
<1>3. CutFile.cp = MinOf(next.size, SegLen)
  <2>1. CutFile.cp = MinOf(next.size, SegLen - cpSum)
    BY DEF CutFile
  <2>2. SegLen - cpSum = SegLen
    BY <1>1, <1>2
  <2> QED BY <2>1, <2>2
<1>4. CutFile.next \in NextSet /\ CutFile.next.type = FILE_HEADER
  <2>1. CutFile.next = [next EXCEPT !.type = FILE_HEADER, !.size = 1]
    BY DEF CutFile
  <2> QED BY <1>2, <2>1, HeaderNextSize
<1>5. PICK k \in Nat : k = CutFile.cp
  BY <1>1, <1>2, <1>3 DEF MinOf
<1>6. /\ k <= next.size /\ k <= SegLen /\ Done + k <= Len(File)
      /\ k = next.size \/ Done + k = Len(File)
  <2>1. (k = next.size /\ next.size <= SegLen) \/ (k = SegLen /\ k <= next.size)
    BY <1>1, <1>2, <1>3, <1>5 DEF MinOf
  <2>2. ASSUME k = SegLen, k <= next.size PROVE k = next.size \/ Done + k = Len(File)
    BY <1>1, <1>2, <2>2
  <2> QED BY <1>1, <1>2, <2>1, <2>2
<1>7. Rest(next) = next.size
  BY Types DEF Rest
<1> QED BY <1>4, <1>5, <1>6, <1>7, Types DEF DataCut

\* A chunk of a big file is in the window.
LEMMA CutsBigFacts ==
    ASSUME TypeOK, BufferOK, chunker = "cut", InBuffer, next.type = BIG_CHUNK,
           next.bigOffset < next.bigSize,
           Done + (next.bigSize - next.bigOffset) <= Len(File), NEW c \in CutsBig
    PROVE  /\ DataCut(File, Done, next, c.cp, c.next)
           /\ c.cp <= SegLen /\ c.next \in NextSet
<1>1. /\ Done \in Nat /\ SegLen \in Nat
      /\ SegLen >= CONTAINER_MAX_SIZE \/ Done + SegLen = Len(File)
      /\ CONTAINER_MAX_SIZE \in Nat /\ Len(File) \in Nat /\ MAX_CHUNK_SIZE \in Nat
      /\ CONTAINER_MAX_SIZE > MAX_CHUNK_SIZE
  BY BufferFacts, ConstantFacts, FileFacts
<1>2. next \in NextSet
  BY DEF TypeOK
<1>3. PICK o \in Nat, z \in Nat : o = next.bigOffset /\ z = next.bigSize
  BY <1>2 DEF NextSet
<1>4. Rest(next) = z - o /\ o < z /\ Done + (z - o) <= Len(File)
  BY <1>3 DEF Rest
<1>5. CASE z - o > MAX_CHUNK_SIZE
  <2>1. PICK k \in 1 .. MAX_CHUNK_SIZE :
            c = [cp |-> k, next |-> [next EXCEPT !.bigOffset = @ + k]]
    BY <1>3, <1>5 DEF CutsBig
  <2>2. k \in Nat /\ o + k < z /\ k <= z - o /\ Done + k <= Len(File) /\ k <= SegLen
        /\ o + k \in Nat
    BY <1>1, <1>4, <1>5
  <2>3. PICK m \in Nat : m = o + k
    BY <2>2
  <2>4. c.cp = k /\ c.next = [next EXCEPT !.bigOffset = m]
    BY <1>3, <2>1, <2>3
  <2>5. /\ c.next \in NextSet /\ c.next.type = BIG_CHUNK
        /\ c.next.bigOffset = m /\ c.next.bigSize = z
    BY <1>2, <1>3, <2>4, OffsetNext
  <2> QED BY <1>3, <1>4, <2>2, <2>3, <2>4, <2>5, Types DEF DataCut
<1>6. CASE ~(z - o > MAX_CHUNK_SIZE)
  <2>1. c = [cp |-> z - o, next |-> [next EXCEPT !.type = FILE_HEADER]]
    BY <1>3, <1>6 DEF CutsBig
  <2>2. c.cp = z - o /\ c.next \in NextSet /\ c.next.type = FILE_HEADER
    BY <1>2, <2>1, HeaderNext
  <2>3. z - o \in Nat /\ z - o <= SegLen
    BY <1>1, <1>4, <1>6
  <2> QED BY <1>4, <2>2, <2>3, Types DEF DataCut
<1> QED BY <1>5, <1>6

-----------------------------------------------------------------------------
(* The steps *)

\* file.m holds the file in its two parts
InTwoParts(F, m) ==
    LET data == SubSeq(m.blocks, 1, m.dataSize)
        headers == SubSeq(m.blocks, m.dataSize + 1, Len(m.blocks))
    IN  /\ PartOf(data, F) /\ PartOf(headers, F)
        /\ \A i \in DOMAIN data, j \in DOMAIN headers : data[i].id # headers[j].id
        /\ Ids(m.blocks) = DOMAIN F

LEMMA AgreeFacts ==
    PassesAgree <=> \A b \in 1 .. backupNum :
        pass \in {"restore", "done"} \/ b < backup => InTwoParts(files[b], mfiles[b])
BY DEF PassesAgree, InTwoParts, Ids

LEMMA AgreeNext ==
    PassesAgree' <=> \A b \in 1 .. backupNum :
        pass' \in {"restore", "done"} \/ b < backup' => InTwoParts(files'[b], mfiles'[b])
BY DEF PassesAgree, InTwoParts, Ids

\* A step that closes no file.m.
LEMMA AgreeStays ==
    ASSUME PassesAgree, UNCHANGED <<files, mfiles, backup>>,
           pass' = pass \/ pass' = "headers"
    PROVE  PassesAgree'
<1> SUFFICES ASSUME NEW b \in 1 .. backupNum,
                    pass' \in {"restore", "done"} \/ b < backup'
             PROVE  InTwoParts(files'[b], mfiles'[b])
  BY AgreeNext
<1>1. pass \in {"restore", "done"} \/ b < backup
  OBVIOUS
<1> QED BY <1>1, AgreeFacts

\* In both passes what comes next is the data of a header.
LEMMA AnnouncedFacts ==
    ASSUME TypeOK, PassOK, pass \in {"data", "headers"}, Done <= Len(File), Done \in Nat
    PROVE  /\ next.type = FILE_CHUNK => next.size <= CONTAINER_MAX_SIZE
           /\ next.type = BIG_CHUNK =>
                  /\ next.bigOffset < next.bigSize
                  /\ Done + (next.bigSize - next.bigOffset) <= Len(File)
<1>1. PICK H : H \subseteq 1 .. Len(File) /\ Announced(File, H, Done, next)
  <2>1. CASE pass = "data"
    <3> DEFINE H == Heads(outFile.data, Done)
    <3>1. Announced(File, H, Done, next)
      BY <2>1 DEF PassOK, DataPart
    <3>2. H \subseteq 1 .. Len(File)
      <4>1. \A q \in 1 .. Done : q \in 1 .. Len(File)
        BY FileFacts
      <4> QED BY <4>1 DEF Heads
    <3> QED BY <3>1, <3>2
  <2>2. CASE pass = "headers"
    <3> DEFINE H == Heads(outFile.data, Len(File))
    <3>1. Announced(File, H, Done, next) /\ H \subseteq 1 .. Len(File)
      BY <2>2 DEF PassOK, HeaderPart, Heads
    <3> QED BY <3>1
  <2> QED BY <2>1, <2>2
<1>2. ASSUME next.type = BIG_CHUNK
      PROVE  /\ next.bigOffset < next.bigSize
             /\ Done + (next.bigSize - next.bigOffset) <= Len(File)
  <2>1. PICK p \in H : /\ p + next.bigOffset = Done /\ next.bigOffset < next.bigSize
                       /\ p + next.bigSize <= Len(File)
    BY <1>1, <1>2 DEF Announced
  <2>2. PICK o \in Nat, z \in Nat : o = next.bigOffset /\ z = next.bigSize
    BY DEF TypeOK, NextSet
  <2>3. p \in Nat /\ Len(File) \in Nat
    BY <1>1, FileFacts
  <2> QED BY <2>1, <2>2, <2>3
<1> QED BY <1>1, <1>2 DEF Announced

\* How far a step of CutPointTarFast gets.
LEMMA CutFacts ==
    ASSUME BigChunkSize <= CONTAINER_MAX_SIZE, MTarInv, DataInReach,
           chunker = "cut", InBuffer, NEW c \in CutPointTarFast
    PROVE  /\ c.next \in NextSet /\ c.cp \in Nat /\ c.cp <= SegLen
           /\ Run(File, Done, c.cp, Src(c.cp))
           /\ next.type = FILE_HEADER =>
                  c.cp = 1 /\ Done < Len(File) /\ Parsed(File, Done + 1, c.next)
           /\ next.type # FILE_HEADER => DataCut(File, Done, next, c.cp, c.next)
<1>1. /\ TypeOK /\ BufferOK /\ PassOK /\ next \in NextSet /\ next.type \in Type
      /\ pass \in {"data", "headers"}
  BY DEF MTarInv, TypeOK, BufferOK, NextSet
<1>2. /\ Done \in Nat /\ SegLen \in Nat /\ SegLen > 0 /\ Done + SegLen <= Len(File)
      /\ Done <= Len(File) /\ Len(File) \in Nat
  BY <1>1, BufferFacts, FileFacts
<1>3. /\ next.type = FILE_CHUNK => next.size <= CONTAINER_MAX_SIZE
      /\ next.type = BIG_CHUNK =>
             /\ next.bigOffset < next.bigSize
             /\ Done + (next.bigSize - next.bigOffset) <= Len(File)
  BY <1>1, <1>2, AnnouncedFacts
<1>4. CASE next.type = FILE_HEADER
  <2>1. c = [cp |-> 1, next |-> ParseHeader(Src(1)[1])]
    <3> DEFINE x == [cp |-> 1, next |-> ParseHeader(Src(1)[1])]
    <3>1. CutPointTarFast = CASE next.type = FILE_HEADER -> {x}
                              [] next.type = FILE_CHUNK  -> {CutFile}
                              [] next.type = BIG_CHUNK   -> CutsBig
      BY Zenon DEF CutPointTarFast
    <3> HIDE DEF x
    <3>2. c = x
      BY <1>4, <3>1, Types
    <3> QED BY <3>2 DEF x
  <2>2. 1 <= SegLen /\ Done < Len(File) /\ Done + 1 \in 1 .. Len(File)
    BY <1>2
  <2>3. Run(File, Done, 1, Src(1))
    BY <1>1, <2>2, SrcFacts
  <2>4. Src(1)[1] = File[Done + 1] /\ File[Done + 1] \in Block
    BY <1>1, <2>2, <2>3, FileFacts DEF Run
  <2>5. Reachable(File, Done + 1)
    BY <1>4 DEF DataInReach
  <2>6. /\ ParseHeader(File[Done + 1]) \in NextSet
        /\ Parsed(File, Done + 1, ParseHeader(File[Done + 1]))
    <3>1. PICK n \in Nat : n = Done + 1
      BY <1>2
    <3>2. /\ ParseHeader(File[n]) \in NextSet
          /\ Parsed(File, n, ParseHeader(File[n]))
      BY <1>1, <1>4, <2>4, <2>5, <3>1, ParseHeaderFacts
    <3> QED BY <3>1, <3>2
  <2> QED BY <1>4, <2>1, <2>2, <2>3, <2>4, <2>6
<1>5. CASE next.type = FILE_CHUNK
  <2>1. c = CutFile
    BY <1>5, Types DEF CutPointTarFast
  <2>2. /\ DataCut(File, Done, next, c.cp, c.next)
        /\ c.cp <= SegLen /\ c.next \in NextSet
    BY <1>1, <1>3, <1>5, <2>1, CutFileFacts
  <2>3. c.cp \in Nat
    BY <2>2 DEF DataCut
  <2>4. Run(File, Done, c.cp, Src(c.cp))
    BY <1>1, <2>2, <2>3, SrcFacts
  <2> QED BY <1>5, <2>2, <2>3, <2>4, Types
<1>6. CASE next.type = BIG_CHUNK
  <2>1. c \in CutsBig
    BY <1>6, Types DEF CutPointTarFast
  <2>2. /\ DataCut(File, Done, next, c.cp, c.next)
        /\ c.cp <= SegLen /\ c.next \in NextSet
    BY <1>1, <1>3, <1>6, <2>1, CutsBigFacts
  <2>3. c.cp \in Nat
    BY <2>2 DEF DataCut
  <2>4. Run(File, Done, c.cp, Src(c.cp))
    BY <1>1, <2>2, <2>3, SrcFacts
  <2> QED BY <1>6, <2>2, <2>3, <2>4, Types
<1> QED BY <1>1, <1>4, <1>5, <1>6 DEF Type

LEMMA RewriteStep ==
    ASSUME BigChunkSize <= CONTAINER_MAX_SIZE, MTarInv, DataInReach, Rewrite
    PROVE  MTarInv'
<1>1. /\ TypeOK /\ BufferOK /\ PassOK /\ PassesAgree /\ chunker = "cut" /\ InBuffer
      /\ UNCHANGED <<files, cpSum, backup, chunker, window, pass, mfiles>>
      /\ pass \in {"data", "headers"}
  BY DEF MTarInv, Rewrite, unused, BufferOK, TypeOK
<1>2. PICK c \in CutPointTarFast :
          /\ next' = c.next
          /\ localOffset' = localOffset + c.cp
          /\ outFile' = IF (next.type = FILE_HEADER) = (pass = "headers")
                        THEN [outFile EXCEPT ![pass] = @ \o Src(c.cp)]
                        ELSE outFile
  BY DEF Rewrite
<1>3. /\ c.next \in NextSet /\ c.cp \in Nat /\ c.cp <= SegLen
      /\ Run(File, Done, c.cp, Src(c.cp))
      /\ next.type = FILE_HEADER =>
             c.cp = 1 /\ Done < Len(File) /\ Parsed(File, Done + 1, c.next)
      /\ next.type # FILE_HEADER => DataCut(File, Done, next, c.cp, c.next)
  BY <1>1, CutFacts
<1>4. PICK k \in Nat : k = c.cp
  BY <1>3
<1>5. /\ Done = window.totalOffset + localOffset /\ Done \in Nat /\ Done <= Len(File)
      /\ SegLen = window.len - localOffset /\ window.totalOffset \in Nat
      /\ window.len \in Nat /\ localOffset \in Nat
  BY <1>1, BufferFacts DEF TypeOK
<1>6. localOffset' \in Nat /\ localOffset' <= window.len /\ Done' = Done + k
  <2>1. localOffset' = localOffset + k /\ k <= SegLen
    BY <1>2, <1>3, <1>4
  <2>2. Done' = window.totalOffset + localOffset'
    BY <1>1 DEF Done
  <2> QED BY <1>5, <2>1, <2>2
<1>7. BufferOK' /\ File' = File
  BY <1>1, <1>6 DEF BufferOK, File
<1>8. PassesAgree'
  BY <1>1, AgreeStays
<1>9. PICK d \in Seq(Block), h \in Seq(Block) : outFile = [data |-> d, headers |-> h]
  BY <1>1 DEF TypeOK
<1>10. next \in NextSet /\ Numbered(File) /\ Src(k) \in Seq(Block)
  BY <1>1, <1>3, <1>4, FileFacts DEF TypeOK, Run
<1>11. ASSUME NEW d2 \in Seq(Block), NEW h2 \in Seq(Block),
              outFile' = [data |-> d2, headers |-> h2],
              /\ pass = "data" => h2 = << >> /\ DataPart(File, d2, Done + k, c.next)
              /\ pass = "headers" => HeaderPart(File, d2, h2, Done + k, c.next)
       PROVE  MTarInv'
  <2>1. TypeOK'
    <3>1. outFile' \in [data: Seq(Block), headers: Seq(Block)]
      BY <1>11
    <3> QED BY <1>1, <1>2, <1>3, <1>6, <3>1 DEF TypeOK
  <2>2. PassOK'
    <3>1. outFile'.data = d2 /\ outFile'.headers = h2
      BY <1>11
    <3>2. File' = File /\ Done' = Done + k /\ next' = c.next /\ pass' = pass
      BY <1>1, <1>2, <1>6, <1>7
    <3> QED BY <1>11, <3>1, <3>2 DEF PassOK
  <2> QED BY <1>7, <1>8, <2>1, <2>2 DEF MTarInv
<1>12. CASE pass = "data" /\ next.type = FILE_HEADER
  <2>1. outFile' = [data |-> d, headers |-> h]
    BY <1>2, <1>9, <1>12
  <2>2. h = << >> /\ DataPart(File, d, Done, next)
    BY <1>1, <1>9, <1>12 DEF PassOK
  <2>3. DataPart(File, d, Done + k, c.next)
    BY <1>3, <1>4, <1>5, <1>10, <1>12, <2>2, DataPassHeader
  <2> QED BY <1>11, <1>12, <2>1, <2>2, <2>3
<1>13. CASE pass = "data" /\ next.type # FILE_HEADER
  <2>1. outFile' = [data |-> d \o Src(k), headers |-> h]
    <3>1. outFile' = [outFile EXCEPT !["data"] = outFile["data"] \o Src(k)]
      BY <1>2, <1>4, <1>13
    <3>2. PICK x \in Seq(Block) : x = outFile["data"] \o Src(k)
      BY <1>9, <1>10, ConcatFacts
    <3> QED BY <1>9, <3>1, <3>2
  <2>2. h = << >> /\ DataPart(File, d, Done, next)
    BY <1>1, <1>9, <1>13 DEF PassOK
  <2>3. d \o Src(k) \in Seq(Block) /\ DataPart(File, d \o Src(k), Done + k, c.next)
    BY <1>3, <1>4, <1>5, <1>10, <1>13, <2>2, DataPassCut
  <2> QED BY <1>11, <1>13, <2>1, <2>2, <2>3
<1>14. CASE pass = "headers" /\ next.type = FILE_HEADER
  <2>1. outFile' = [data |-> d, headers |-> h \o Src(k)]
    <3>1. outFile' = [outFile EXCEPT !["headers"] = outFile["headers"] \o Src(k)]
      BY <1>2, <1>4, <1>14
    <3>2. PICK x \in Seq(Block) : x = outFile["headers"] \o Src(k)
      BY <1>9, <1>10, ConcatFacts
    <3> QED BY <1>9, <3>1, <3>2
  <2>2. HeaderPart(File, d, h, Done, next)
    BY <1>1, <1>9, <1>14 DEF PassOK
  <2>3. h \o Src(k) \in Seq(Block) /\ HeaderPart(File, d, h \o Src(k), Done + k, c.next)
    <3>1. Run(File, Done, 1, Src(k)) /\ k = 1 /\ Parsed(File, Done + 1, c.next)
      BY <1>3, <1>4, <1>14
    <3> QED BY <1>3, <1>5, <1>10, <1>14, <2>2, <3>1, HeaderPassHeader
  <2> QED BY <1>11, <1>14, <2>1, <2>2, <2>3
<1>15. CASE pass = "headers" /\ next.type # FILE_HEADER
  <2>1. outFile' = [data |-> d, headers |-> h]
    BY <1>2, <1>9, <1>15
  <2>2. HeaderPart(File, d, h, Done, next)
    BY <1>1, <1>9, <1>15 DEF PassOK
  <2>3. HeaderPart(File, d, h, Done + k, c.next)
    BY <1>3, <1>4, <1>5, <1>10, <1>15, <2>2, HeaderPassCut
  <2> QED BY <1>11, <1>15, <2>1, <2>2, <2>3
<1> QED BY <1>1, <1>12, <1>13, <1>14, <1>15

LEMMA ReadStep ==
    ASSUME MTarInv, Read
    PROVE  MTarInv'
<1> DEFINE left == Len(File) - window.totalOffset
<1>1. /\ TypeOK /\ BufferOK /\ PassOK /\ PassesAgree /\ chunker = "read"
      /\ pass \in {"data", "headers"}
      /\ UNCHANGED <<files, cpSum, backup, next, pass, outFile, mfiles>>
      /\ window' = [window EXCEPT !.len = MinOf(BufferSize, left),
                                  !.end = left < BufferSize]
      /\ chunker' = IF left = 0 THEN "closed" ELSE "cut"
      /\ localOffset' = IF left = 0 THEN localOffset ELSE 0
  BY DEF MTarInv, Read, unused
<1>2. /\ left \in Nat /\ BufferSize \in Nat /\ window.totalOffset \in Nat
      /\ Len(File) \in Nat /\ localOffset \in Nat
  <2>1. window.totalOffset <= Len(File)
    BY <1>1 DEF BufferOK
  <2>2. window.totalOffset \in Nat /\ localOffset \in Nat
    BY <1>1 DEF TypeOK
  <2> QED BY <1>1, <2>1, <2>2, FileFacts, ConstantFacts DEF BufferSize
<1>3. PICK n \in Nat : n = MinOf(BufferSize, left)
  BY <1>2 DEF MinOf
<1>4. n <= left /\ (left < BufferSize => n = left)
  BY <1>2, <1>3 DEF MinOf
<1>5. PICK e \in BOOLEAN : e <=> left < BufferSize
  OBVIOUS
<1>6. /\ window' \in [totalOffset: Nat, len: Nat, end: BOOLEAN]
      /\ window'.totalOffset = window.totalOffset
      /\ window'.len = n /\ window'.end = e
  <2>1. window' = [window EXCEPT !.len = n, !.end = e]
    <3>1. (left < BufferSize) \in BOOLEAN
      OBVIOUS
    <3>2. (left < BufferSize) = e
      BY <1>5, <3>1
    <3> QED BY <1>1, <1>3, <3>2
  <2>2. window \in [totalOffset: Nat, len: Nat, end: BOOLEAN]
    BY <1>1 DEF TypeOK
  <2> QED BY <2>1, <2>2
<1>7. File' = File /\ localOffset' \in Nat
  BY <1>1, <1>2 DEF File
<1>8. Done' = Done
  <2>1. CASE left = 0
    BY <1>1, <1>6, <2>1 DEF Done
  <2>2. CASE left # 0
    BY <1>1, <1>2, <1>6, <2>2 DEF Done
  <2> QED BY <2>1, <2>2
<1>9. TypeOK'
  BY <1>1, <1>6, <1>7 DEF TypeOK
<1>10. BufferOK'
  <2>0. pass' \notin {"restore", "done"}
    BY <1>1
  <2>1. window.totalOffset <= Len(File)
    BY <1>1 DEF BufferOK
  <2>2. chunker' = "closed" => window.totalOffset = Len(File)
    BY <1>1, <1>2
  <2>3. chunker' = "cut" =>
            /\ window.totalOffset + n <= Len(File)
            /\ e => window.totalOffset + n = Len(File)
            /\ localOffset' <= n
    <3>1. chunker' = "cut" => localOffset' = 0
      BY <1>1
    <3> QED BY <1>2, <1>4, <1>5, <3>1
  <2> HIDE DEF left
  <2> QED BY <1>6, <1>7, <2>0, <2>1, <2>2, <2>3 DEF BufferOK
<1>11. PassOK'
  BY <1>1, <1>7, <1>8 DEF PassOK
<1>12. PassesAgree'
  BY <1>1, AgreeStays
<1> QED BY <1>9, <1>10, <1>11, <1>12 DEF MTarInv

LEMMA NextWindowStep ==
    ASSUME MTarInv, NextWindow
    PROVE  MTarInv'
<1>1. /\ TypeOK /\ BufferOK /\ PassOK /\ PassesAgree /\ chunker = "cut" /\ ~InBuffer
      /\ UNCHANGED <<files, cpSum, backup, localOffset, next, pass, outFile, mfiles>>
      /\ window' = [window EXCEPT !.totalOffset = @ + localOffset]
      /\ chunker' = IF window.end THEN "closed" ELSE "read"
  BY DEF MTarInv, NextWindow, unused
<1>2. /\ Done = window.totalOffset + localOffset /\ Done \in Nat /\ Done <= Len(File)
      /\ SegLen \in Nat /\ SegLen = window.len - localOffset
      /\ window.totalOffset \in Nat /\ window.len \in Nat /\ localOffset \in Nat
  BY <1>1, BufferFacts DEF TypeOK
<1>3. /\ window' \in [totalOffset: Nat, len: Nat, end: BOOLEAN]
      /\ window'.totalOffset = Done
  <2>1. PICK d \in Nat : d = Done
    BY <1>2
  <2>2. window' = [window EXCEPT !.totalOffset = d]
    BY <1>1, <1>2, <2>1
  <2>3. window \in [totalOffset: Nat, len: Nat, end: BOOLEAN]
    BY <1>1 DEF TypeOK
  <2> QED BY <2>1, <2>2, <2>3
<1>4. File' = File /\ Done' = Done
  <2>1. chunker' # "cut"
    BY <1>1
  <2> QED BY <1>1, <1>2, <1>3, <2>1 DEF File, Done
<1>5. TypeOK'
  BY <1>1, <1>3 DEF TypeOK
<1>6. BufferOK'
  <2>1. chunker' = "closed" => Done = Len(File)
    <3> SUFFICES ASSUME window.end PROVE Done = Len(File)
      BY <1>1
    <3>1. window.totalOffset + window.len = Len(File)
      BY <1>1 DEF BufferOK
    <3>2. ~(SegLen > 0)
      BY <1>1 DEF InBuffer
    <3> QED BY <1>2, <3>1, <3>2
  <2>2. pass' \notin {"restore", "done"} /\ chunker' # "cut"
    BY <1>1 DEF BufferOK
  <2> QED BY <1>2, <1>3, <1>4, <2>1, <2>2 DEF BufferOK
<1>7. PassOK'
  BY <1>1, <1>4 DEF PassOK
<1>8. PassesAgree'
  BY <1>1, AgreeStays
<1> QED BY <1>5, <1>6, <1>7, <1>8 DEF MTarInv

\* A pass starts at the beginning of its file.
LEMMA StartPassFacts ==
    ASSUME TypeOK, StartPass, Len(File') \in Nat
    PROVE  /\ window' \in [totalOffset: Nat, len: Nat, end: BOOLEAN]
           /\ next' \in NextSet /\ next'.type = FILE_HEADER
           /\ chunker' = "read" /\ Done' = 0 /\ BufferOK'
<1>1. /\ window' = [totalOffset |-> 0, len |-> 0, end |-> FALSE]
      /\ next' = [next EXCEPT !.type = FILE_HEADER] /\ chunker' = "read"
  BY DEF StartPass
<1>2. next' \in NextSet /\ next'.type = FILE_HEADER
  BY <1>1, HeaderNext DEF TypeOK
<1>3. /\ window' \in [totalOffset: Nat, len: Nat, end: BOOLEAN]
      /\ window'.totalOffset = 0
  BY <1>1
<1>4. Done' = 0
  BY <1>1, <1>3 DEF Done
<1>5. BufferOK'
  BY <1>1, <1>3 DEF BufferOK
<1> QED BY <1>1, <1>2, <1>3, <1>4, <1>5

LEMMA NoBlocks ==
    ASSUME NEW F
    PROVE  PartOf(<< >>, F) /\ Ids(<< >>) = {} /\ << >> \in Seq(Block)
<1>1. DOMAIN << >> = {}
  OBVIOUS
<1> QED BY <1>1 DEF PartOf, Ids

\* Nothing is announced where a pass starts.
LEMMA StartAnnounced ==
    ASSUME NEW F, NEW H, NEW n, NEW nx, nx.type = FILE_HEADER
    PROVE  Announced(F, H, n, nx)
BY Types DEF Announced

LEMMA HeaderPassStep ==
    ASSUME MTarInv, HeaderPass
    PROVE  MTarInv'
<1>1. /\ TypeOK /\ BufferOK /\ PassOK /\ PassesAgree /\ chunker = "closed"
      /\ pass = "data" /\ pass' = "headers" /\ StartPass
      /\ UNCHANGED <<files, cpSum, backup, localOffset, outFile, mfiles>>
  BY DEF MTarInv, HeaderPass, unused
<1>2. File' = File /\ Len(File) \in Nat
  BY <1>1, FileFacts DEF File
<1>3. /\ window' \in [totalOffset: Nat, len: Nat, end: BOOLEAN]
      /\ next' \in NextSet /\ next'.type = FILE_HEADER
      /\ chunker' = "read" /\ Done' = 0 /\ BufferOK'
  BY <1>1, <1>2, StartPassFacts
<1>4. TypeOK'
  BY <1>1, <1>3 DEF TypeOK
<1>5. PassOK'
  <2> DEFINE D == outFile.data
             H == Heads(D, Len(File))
  <2>1. Done = Len(File)
    BY <1>1, <1>2 DEF BufferOK, Done, TypeOK
  <2>2. outFile.headers = << >> /\ DataPart(File, D, Len(File), next)
    BY <1>1, <2>1 DEF PassOK
  <2>3. PartOf(D, File) /\ Ids(D) \subseteq 1 .. Len(File) /\ Headed(File, H, Len(File))
    BY <2>2 DEF DataPart
  <2>4. {p \in H : p <= 0} = {}
    <3>1. \A p \in 1 .. Len(File) : ~(p <= 0)
      BY <1>2
    <3> QED BY <3>1 DEF Heads
  <2>5. 0 = Len(File) \/ 0 + 1 \in H
    <3>1. Len(File) > 0 => 1 \in H
      BY <2>3 DEF Headed
    <3>2. 0 + 1 = 1
      OBVIOUS
    <3> QED BY <1>2, <3>1, <3>2
  <2>6. Announced(File, H, 0, next')
    BY <1>3, StartAnnounced
  <2>7. PartOf(<< >>, File) /\ Ids(<< >>) = {}
    BY NoBlocks
  <2>8. HeaderPart(File, D, << >>, 0, next')
    BY <2>3, <2>4, <2>5, <2>6, <2>7 DEF HeaderPart
  <2>9. outFile'.data = D /\ outFile'.headers = << >>
    BY <1>1, <2>2
  <2> HIDE DEF D
  <2> QED BY <1>1, <1>2, <1>3, <2>8, <2>9 DEF PassOK
<1>6. PassesAgree'
  BY <1>1, AgreeStays
<1> QED BY <1>3, <1>4, <1>5, <1>6 DEF MTarInv

\* Where the next data pass starts nothing is cut.
LEMMA EmptyDataPart ==
    ASSUME NEW F, NEW nx, nx.type = FILE_HEADER
    PROVE  DataPart(F, << >>, 0, nx)
<1>1. PartOf(<< >>, F) /\ Ids(<< >>) = {}
  BY NoBlocks
<1>2. Heads(<< >>, 0) = {}
  <2>1. 1 .. 0 = {}
    OBVIOUS
  <2> QED BY <2>1 DEF Heads
<1>3. Headed(F, {}, 0)
  BY DEF Headed
<1>4. Announced(F, {}, 0, nx)
  BY StartAnnounced
<1> QED BY <1>1, <1>2, <1>3, <1>4 DEF DataPart

\* Both passes over a file are done.
LEMMA TwoParts ==
    ASSUME NEW F, Numbered(F), NEW D \in Seq(Block), NEW hs \in Seq(Block), NEW nx,
           HeaderPart(F, D, hs, Len(F), nx)
    PROVE  InTwoParts(F, [dataSize |-> Len(D), blocks |-> D \o hs])
<1> DEFINE u == D \o hs
           m == [dataSize |-> Len(D), blocks |-> u]
           H == Heads(D, Len(F))
<1>1. SubSeq(u, 1, Len(D)) = D /\ SubSeq(u, Len(D) + 1, Len(u)) = hs
  BY PartsFacts
<1>2. /\ PartOf(D, F) /\ PartOf(hs, F) /\ Ids(D) \subseteq 1 .. Len(F)
      /\ Ids(hs) = {p \in H : p <= Len(F)}
  BY DEF HeaderPart
<1>3. Len(F) \in Nat /\ DOMAIN F = 1 .. Len(F)
  BY SeqFacts DEF Numbered
<1>4. Ids(hs) = H
  <2>1. \A p \in H : p <= Len(F)
    BY <1>3 DEF Heads
  <2> QED BY <1>2, <2>1
<1>5. Ids(D) \cup Ids(hs) = DOMAIN F
  BY <1>2, <1>3, <1>4 DEF Heads
<1>6. Ids(u) = Ids(D) \cup Ids(hs)
  <2> DEFINE k == Len(D)
             n == Len(hs)
  <2>1. /\ u \in Seq(Block) /\ Len(u) = k + n /\ k \in Nat /\ n \in Nat
        /\ \A i \in 1 .. k : u[i] = D[i]
        /\ \A i \in 1 .. n : u[k + i] = hs[i]
    BY ConcatFacts
  <2>2. DOMAIN u = 1 .. k + n /\ DOMAIN D = 1 .. k /\ DOMAIN hs = 1 .. n
    <3>1. DOMAIN u = 1 .. k + n
      BY <2>1, SeqFacts
    <3>2. DOMAIN D = 1 .. k
      BY SeqFacts
    <3>3. DOMAIN hs = 1 .. n
      BY SeqFacts
    <3> QED BY <3>1, <3>2, <3>3
  <2> HIDE DEF k, n, u
  <2>3. ASSUME NEW i \in 1 .. k + n PROVE u[i].id \in Ids(D) \cup Ids(hs)
    <3>1. CASE i \in 1 .. k
      BY <2>1, <2>2, <3>1 DEF Ids
    <3>2. CASE i \notin 1 .. k
      <4>1. i - k \in 1 .. n /\ i = k + (i - k)
        BY <2>1, <3>2
      <4>2. u[i] = hs[i - k]
        BY <2>1, <4>1
      <4> QED BY <2>2, <4>1, <4>2 DEF Ids
    <3> QED BY <3>1, <3>2
  <2>4. ASSUME NEW i \in 1 .. k PROVE D[i].id \in Ids(u)
    <3>1. i \in 1 .. k + n /\ u[i] = D[i]
      BY <2>1
    <3> QED BY <2>2, <3>1 DEF Ids
  <2>5. ASSUME NEW i \in 1 .. n PROVE hs[i].id \in Ids(u)
    <3>1. k + i \in 1 .. k + n /\ u[k + i] = hs[i]
      BY <2>1
    <3> QED BY <2>2, <3>1 DEF Ids
  <2>6. Ids(u) \subseteq Ids(D) \cup Ids(hs)
    <3>1. \A x \in Ids(u) : \E i \in 1 .. k + n : x = u[i].id
      BY <2>2 DEF Ids
    <3> QED BY <2>3, <3>1
  <2>7. Ids(D) \subseteq Ids(u)
    <3>1. \A x \in Ids(D) : \E i \in 1 .. k : x = D[i].id
      BY <2>2 DEF Ids
    <3> QED BY <2>4, <3>1
  <2>8. Ids(hs) \subseteq Ids(u)
    <3>1. \A x \in Ids(hs) : \E i \in 1 .. n : x = hs[i].id
      BY <2>2 DEF Ids
    <3> QED BY <2>5, <3>1
  <2> QED BY <2>6, <2>7, <2>8
<1>7. m.dataSize = Len(D) /\ m.blocks = u
  OBVIOUS
<1>8. ASSUME NEW i \in DOMAIN D, NEW j \in DOMAIN hs PROVE D[i].id # hs[j].id
  <2>1. D[i].id \in Ids(D) /\ hs[j].id \in Ids(hs)
    BY DEF Ids
  <2> QED BY <1>4, <2>1 DEF Heads
<1> HIDE DEF u, m
<1>9. InTwoParts(F, m)
  BY <1>1, <1>2, <1>5, <1>6, <1>7, <1>8 DEF InTwoParts
<1> QED BY <1>9 DEF m, u

LEMMA CloseMTarStep ==
    ASSUME MTarInv, CloseMTar
    PROVE  MTarInv'
<1> DEFINE m == [dataSize |-> Len(outFile.data),
                 blocks   |-> outFile.data \o outFile.headers]
<1>1. /\ TypeOK /\ BufferOK /\ PassOK /\ PassesAgree /\ chunker = "closed"
      /\ pass = "headers" /\ StartPass
      /\ UNCHANGED <<files, cpSum, localOffset>>
      /\ mfiles' = [mfiles EXCEPT ![backup] = m]
      /\ outFile' = [data |-> << >>, headers |-> << >>]
      /\ \/ backup < backupNum /\ backup' = backup + 1 /\ pass' = "data"
         \/ ~(backup < backupNum) /\ backup' = 1 /\ pass' = "restore"
  BY DEF MTarInv, CloseMTar, unused
<1>2. PICK d \in Seq(Block), h \in Seq(Block) : outFile = [data |-> d, headers |-> h]
  BY <1>1 DEF TypeOK
<1>3. m = [dataSize |-> Len(d), blocks |-> d \o h]
  BY <1>2
<1>4. InTwoParts(File, m) /\ m \in [dataSize: Nat, blocks: Seq(Block)]
  <2>1. Done = Len(File) /\ Numbered(File)
    BY <1>1, FileFacts DEF BufferOK, Done, TypeOK
  <2>2. HeaderPart(File, d, h, Len(File), next)
    <3>1. HeaderPart(File, outFile.data, outFile.headers, Len(File), next)
      BY <1>1, <2>1 DEF PassOK
    <3> QED BY <1>2, <3>1
  <2>3. d \o h \in Seq(Block) /\ Len(d) \in Nat
    BY ConcatFacts
  <2> QED BY <1>3, <2>1, <2>2, <2>3, TwoParts
<1> HIDE DEF m
<1>5. backupNum \in Nat /\ backup \in 1 .. backupNum /\ backup' \in 1 .. backupNum
  <2>1. backupNum \in Nat \ {0} /\ backup \in 1 .. backupNum
    BY <1>1, ConstantFacts DEF TypeOK
  <2> QED BY <1>1, <2>1
<1>6. mfiles' \in [1 .. backupNum -> [dataSize: Nat, blocks: Seq(Block)]]
  BY <1>1, <1>4, <1>5 DEF TypeOK
<1>7. Len(File') \in Nat
  <2>1. files[backup'] \in Archives /\ File' = files[backup']
    BY <1>1, <1>5 DEF TypeOK, File
  <2>2. File' \in Seq(Block)
    BY <2>1, TarChunkerAssumption
  <2> QED BY <2>2, SeqFacts
<1>8. /\ window' \in [totalOffset: Nat, len: Nat, end: BOOLEAN]
      /\ next' \in NextSet /\ next'.type = FILE_HEADER
      /\ chunker' = "read" /\ Done' = 0 /\ BufferOK'
  BY <1>1, <1>7, StartPassFacts
<1>9. TypeOK'
  <2>1. outFile' \in [data: Seq(Block), headers: Seq(Block)]
    <3>1. << >> \in Seq(Block)
      BY NoBlocks
    <3> QED BY <1>1, <3>1
  <2>2. pass' \in {"data", "restore"}
    BY <1>1
  <2> QED BY <1>1, <1>5, <1>6, <1>8, <2>1, <2>2 DEF TypeOK
<1>10. PassOK'
  <2>1. pass' # "headers"
    BY <1>1
  <2>2. outFile'.data = << >> /\ outFile'.headers = << >>
    BY <1>1
  <2>3. DataPart(File', << >>, 0, next')
    BY <1>8, EmptyDataPart
  <2> QED BY <1>8, <2>1, <2>2, <2>3 DEF PassOK
<1>11. PassesAgree'
  <2>1. \A b \in 1 .. backupNum : b < backup => InTwoParts(files[b], mfiles[b])
    BY <1>1, AgreeFacts
  <2>2. InTwoParts(files[backup], m)
    BY <1>4 DEF File
  <2>3. ASSUME NEW b \in 1 .. backupNum, pass' \in {"restore", "done"} \/ b < backup'
        PROVE  InTwoParts(files[b], mfiles'[b])
    <3>1. b <= backup
      BY <1>1, <1>5, <2>3
    <3>2. CASE b = backup
      <4>1. mfiles'[b] = m
        BY <1>1, <1>5, <3>2 DEF TypeOK
      <4> QED BY <2>2, <3>2, <4>1
    <3>3. CASE b < backup
      <4>1. mfiles'[b] = mfiles[b]
        BY <1>1, <1>5, <3>3 DEF TypeOK
      <4> QED BY <2>1, <3>3, <4>1
    <3> QED BY <1>5, <3>1, <3>2, <3>3
  <2> QED BY <1>1, <2>3, AgreeNext
<1> QED BY <1>8, <1>9, <1>10, <1>11 DEF MTarInv

LEMMA RestoreStep ==
    ASSUME MTarInv, Restore
    PROVE  MTarInv'
<1>1. /\ TypeOK /\ BufferOK /\ PassesAgree /\ pass = "restore"
      /\ chunker = "read" /\ window.totalOffset = 0
      /\ pass' \in {"restore", "done"}
      /\ \/ backup < backupNum /\ backup' = backup + 1
         \/ backup' = backup
      /\ UNCHANGED <<files, cpSum, chunker, window, localOffset, next, outFile, mfiles>>
  BY DEF MTarInv, Restore, unused, BufferOK
<1>2. backup' \in 1 .. backupNum
  <2>1. backupNum \in Nat /\ backup \in 1 .. backupNum
    BY <1>1, ConstantFacts DEF TypeOK
  <2> QED BY <1>1, <2>1
<1>3. TypeOK'
  BY <1>1, <1>2 DEF TypeOK
<1>4. BufferOK'
  <2>1. Len(File') \in Nat
    <3>1. files[backup'] \in Archives /\ File' = files[backup']
      BY <1>1, <1>2 DEF TypeOK, File
    <3>2. File' \in Seq(Block)
      BY <3>1, TarChunkerAssumption
    <3> QED BY <3>2, SeqFacts
  <2> QED BY <1>1, <2>1 DEF BufferOK
<1>5. PassOK'
  BY <1>1 DEF PassOK
<1>6. PassesAgree'
  <2> SUFFICES ASSUME NEW b \in 1 .. backupNum
               PROVE  InTwoParts(files'[b], mfiles'[b])
    BY AgreeNext
  <2>1. InTwoParts(files[b], mfiles[b])
    BY <1>1, AgreeFacts
  <2> QED BY <1>1, <2>1
<1> QED BY <1>3, <1>4, <1>5, <1>6 DEF MTarInv

LEMMA MTarInvInit == MTarInit => MTarInv
<1> SUFFICES ASSUME MTarInit PROVE MTarInv
  OBVIOUS
<1>1. /\ files \in [1 .. backupNum -> Archives] /\ backup = 1 /\ chunker = "read"
      /\ window = [totalOffset |-> 0, len |-> 0, end |-> FALSE]
      /\ localOffset = 0 /\ cpSum = 0
      /\ next = [type |-> FILE_HEADER, size |-> 0, bigSize |-> 0, bigOffset |-> 0]
      /\ pass = "data" /\ outFile = [data |-> << >>, headers |-> << >>]
      /\ mfiles = [b \in 1 .. backupNum |-> [dataSize |-> 0, blocks |-> << >>]]
  BY DEF MTarInit, ChunkerInit
<1>2. next \in NextSet /\ next.type = FILE_HEADER
  BY <1>1 DEF NextSet, Type
<1>3. /\ window \in [totalOffset: Nat, len: Nat, end: BOOLEAN]
      /\ window.totalOffset = 0
  BY <1>1
<1>4. backup \in 1 .. backupNum
  BY <1>1, ConstantFacts
<1>5. << >> \in Seq(Block)
  BY NoBlocks
<1>6. outFile \in [data: Seq(Block), headers: Seq(Block)]
  BY <1>1, <1>5
<1>7. mfiles \in [1 .. backupNum -> [dataSize: Nat, blocks: Seq(Block)]]
  <2>1. [dataSize |-> 0, blocks |-> << >>] \in [dataSize: Nat, blocks: Seq(Block)]
    BY <1>5
  <2> QED BY <1>1, <2>1
<1>8. TypeOK
  BY <1>1, <1>2, <1>3, <1>4, <1>6, <1>7 DEF TypeOK
<1>9. BufferOK
  <2>1. Len(File) \in Nat
    BY <1>8, FileFacts
  <2> QED BY <1>1, <1>3, <2>1 DEF BufferOK
<1>10. PassOK
  <2>1. Done = 0
    BY <1>1, <1>3 DEF Done
  <2>2. DataPart(File, << >>, 0, next)
    BY <1>2, EmptyDataPart
  <2>3. outFile.data = << >> /\ outFile.headers = << >>
    BY <1>1
  <2> QED BY <1>1, <2>1, <2>2, <2>3 DEF PassOK
<1>11. PassesAgree
  BY <1>1, ConstantFacts DEF PassesAgree
<1> QED BY <1>8, <1>9, <1>10, <1>11 DEF MTarInv

LEMMA MTarInvStep ==
    ASSUME BigChunkSize <= CONTAINER_MAX_SIZE
    PROVE  MTarInv /\ DataInReach /\ [MTarNext]_mtarVars => MTarInv'
<1> SUFFICES ASSUME MTarInv, DataInReach, [MTarNext]_mtarVars PROVE MTarInv'
  OBVIOUS
<1>1. CASE Read
  BY <1>1, ReadStep
<1>2. CASE Rewrite
  BY <1>2, RewriteStep
<1>3. CASE NextWindow
  BY <1>3, NextWindowStep
<1>4. CASE HeaderPass
  BY <1>4, HeaderPassStep
<1>5. CASE CloseMTar
  BY <1>5, CloseMTarStep
<1>6. CASE Restore
  BY <1>6, RestoreStep
<1>7. CASE UNCHANGED mtarVars
  <2>1. UNCHANGED <<files, backup, chunker, window, localOffset, cpSum, next, pass,
                    outFile, mfiles>>
    BY <1>7 DEF mtarVars, chunkerVars
  <2>2. PassesAgree'
    BY <2>1, AgreeStays DEF MTarInv
  <2> QED BY <2>1, <2>2 DEF MTarInv, TypeOK, BufferOK, PassOK, Done, File
<1> QED BY <1>1, <1>2, <1>3, <1>4, <1>5, <1>6, <1>7 DEF MTarNext

-----------------------------------------------------------------------------
(* The theorem *)

\* Wherever the windows of the two passes over a file and their cuts of a big
\* file fall, each block of it is in exactly one part of file.m, in its order
\* (Chunker::MTar), as long as the data that headers announce is in reach.
\* Option -B must be within a container's size, as its default is.
THEOREM MTarPassesAgree ==
    ASSUME BigChunkSize <= CONTAINER_MAX_SIZE
    PROVE  MTarSpec /\ []DataInReach => []PassesAgree
<1>1. MTarInit => MTarInv
  BY MTarInvInit
<1>2. MTarInv /\ DataInReach /\ [MTarNext]_mtarVars => MTarInv'
  BY MTarInvStep
<1>3. MTarInv => PassesAgree
  BY DEF MTarInv
<1> QED BY <1>1, <1>2, <1>3, PTL DEF MTarSpec
=============================================================================
