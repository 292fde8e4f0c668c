------------------------------- MODULE MCMTar -------------------------------
EXTENDS MTar, TarArchives

\* a long name (or pax header) that takes more than one block
LongLongName ==
    <<Header("LONGNAME", 2, <<"L">>), Header("other", 0, <<"v", "d", "long">>),
      Header("other", 0, <<"er">>), Header("REGTYPE", 1, <<"v", "d", "lo">>)>>
    \o Data(1, <<"v", "d", "longer">>)

\* the last one is cut off
MCArchives == {
    Archive(<<>>),
    Archive(Regular(7, f) \o Regular(0, f) \o Regular(2, f) \o Trailer),
    Archive(LongName(2) \o Regular(3, <<"g">>) \o Directory \o Regular(4, f)
            \o Trailer),
    Archive(Regular(1, f) \o Directory \o Regular(3, f) \o Nested
            \o Regular(1, f) \o Trailer),
    Archive(Regular(2, f) \o LongLink \o Regular(6, f) \o Nested \o Trailer),
    Archive(Directory \o Regular(3, f) \o <<[Zero EXCEPT !.whole = FALSE]>>)}

MCArchivesLongName == {Archive(LongLongName \o Regular(2, f) \o Trailer)}
MCArchivesAll == MCArchives \cup MCArchivesLongName

\* An archive without a name of a block or more comes back block for block,
\* but for a last block that is not whole: that one the merge drops.
MTarRestored ==
    \A b \in 1 .. backupNum :
        (pass = "done" \/ (pass = "restore" /\ b < backup)) /\ files[b] \in MCArchives
            => tars[b] = SelectSeq(files[b], LAMBDA x : x.whole)
=============================================================================
