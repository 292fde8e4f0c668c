---------------------------- MODULE MCTarRestore ----------------------------
EXTENDS TarRestore, TarArchives

\* the fourth and fifth have a segment that is longer than the rest of its
\* window: the last file's data is continued as headers
MCArchives == {
    Archive(<<>>),
    Archive(Regular(7, f) \o Regular(0, f) \o Regular(2, f) \o Trailer),
    Archive(LongName(2) \o Regular(3, <<"g">>) \o Directory \o Regular(4, f)
            \o Trailer),
    Archive(Regular(1, f) \o Directory \o Regular(3, f) \o Nested
            \o Regular(1, f) \o Trailer),
    Archive(Directory \o Directory \o Nested \o Regular(3, f) \o Regular(5, f)
            \o Regular(3, f) \o Trailer)}

MCArchivesLink == {
    Archive(LongLink \o Regular(1, f) \o Trailer),
    Archive(LongLink \o Regular(1, f) \o Regular(3, f) \o Trailer)}

\* an archive that was cut off
MCArchivesTail ==
    {Archive(Regular(1, f) \o Trailer),
     Archive(Regular(1, f) \o <<[Zero EXCEPT !.whole = FALSE]>>)}

\* long names the chunker makes something else of: of a directory, whose flag
\* the next file finds; without a slash; without a NUL, over a longer one
MCArchivesLong == {
    Archive(LongDirectory \o Regular(1, f) \o Trailer),
    Archive(LongNamed(1, <<"g">>, NULAfter(<<"g">>)) \o Trailer),
    Archive(LongNamed(1, longer, NULAfter(longer)) \o LongName(2) \o Trailer),
    Archive(LongNamed(1, longer, NULAfter(longer)) \o LongNamed(1, f, f) \o Trailer)}

\* the restorer cannot follow these: chunker and restorer read a header of theirs
\* differently
MCArchivesOdd == MCArchivesLink \cup MCArchivesTail
MCArchivesAll == MCArchives \cup MCArchivesOdd \cup MCArchivesLong
=============================================================================
