---------------------------- MODULE TarArchives ----------------------------
(***************************************************************************)
(* Tar archives put together from entries: a header block, the blocks of   *)
(* its data, and the zero blocks that end an archive.                      *)
(***************************************************************************)
EXTENDS Integers, Sequences

\* a block that says nothing to a tar reader
Text == [kind |-> "other", size |-> 0, whole |-> TRUE, name |-> <<"t">>,
         owner |-> <<>>]
Zero == [Text EXCEPT !.kind = "AREGTYPE"]
Header(kind, size, name) ==
    [Text EXCEPT !.kind = kind, !.size = size, !.name = name]

Data(size, owner) == [i \in 1 .. size |-> [Text EXCEPT !.owner = owner]]
Regular(size, name) == <<Header("REGTYPE", size, name)>> \o Data(size, name)

\* a long name is in the data of an entry before the header of what it names,
\* which holds only the beginning of it; tar ends it with a NUL, the records
\* of a pax header have none, and may name nothing (text)
LongEntry(text) == <<Header("LONGNAME", 1, <<"L">>), Header("other", 0, text)>>
LongNamed(size, name, text) ==
    LongEntry(text) \o <<Header("REGTYPE", size, <<"v", "d", "lo">>)>>
        \o Data(size, name)
NULAfter(name) == name \o <<"NUL">>

long == <<"v", "d", "e", "long">>
longer == <<"v", "d", "e", "f", "longer">>
LongName(size) == LongNamed(size, long, NULAfter(long))
LongDirectory == LongEntry(NULAfter(longer)) \o <<Header("other", 0, <<"v", "d", "lo">>)>>

\* a file whose data reads as headers: an archive in an archive
Nested ==
    LET name == <<"v", "n">>
    IN  <<Header("REGTYPE", 3, name), [Text EXCEPT !.owner = name],
          Header("REGTYPE", 3, <<"i", "j">>), Zero>>

\* a symbolic link whose target is long is in the data of a 'K' entry, a type
\* the chunker does not know: a target of 125 to 155 characters leaves byte
\* 156 zero and reads as a huge size at 124
LongLink ==
    <<Header("other", 1, <<"K">>), Header("AREGTYPE", 99, <<"target">>),
      Header("other", 0, <<"v", "l">>)>>

Trailer == <<Zero, Zero>>
\* blocks are told apart by where they are
Archive(blocks) ==
    [i \in DOMAIN blocks |-> [id |-> i, kind |-> blocks[i].kind,
        size |-> blocks[i].size, whole |-> blocks[i].whole,
        name |-> blocks[i].name, owner |-> blocks[i].owner]]

f == <<"v", "d", "f">>
Directory == <<Header("other", 0, <<"v", "d">>)>>
=============================================================================
