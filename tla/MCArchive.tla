------------------------------ MODULE MCArchive ------------------------------
(* Archives, for TLC: the framework that keeps their trees, or one of the   *)
(* modules that make the tree of one file, or the parser of ls lines.  They *)
(* share no state; part says which of them a behaviour is of.               *)
EXTENDS Archive, Tar, Zip, Ar, Rar, Extfs, Listing

VARIABLE part

-----------------------------------------------------------------------------
\* What can be in an archive: d, d/f and g, and for rar a name in capitals.

RootPath == <<>>
D  == <<"d">>
DF == <<"d", "f">>
G  == <<"g">>
AllPaths == {RootPath, D, DF, G, <<"G">>}

TarOf(n, type, blocks, link, long, pax) ==
    [name |-> n, type |-> type, blocks |-> blocks, link |-> link, long |-> long, pax |-> pax]
SomeTarMembers ==
    {TarOf(n, "file", 1, <<>>, FALSE, FALSE) : n \in {D, DF, G}}
    \cup {TarOf(n, "dir", 0, <<>>, FALSE, FALSE) : n \in {RootPath, D, G}}
    \cup {TarOf(DF, "file", 2, <<>>, TRUE, FALSE), TarOf(G, "file", 0, <<>>, FALSE, TRUE),
          TarOf(G, "file", 0, <<>>, TRUE, TRUE),
          TarOf(G, "link", 0, DF, FALSE, FALSE), TarOf(DF, "link", 0, G, TRUE, FALSE),
          TarOf(G, "link", 0, G, FALSE, FALSE)}
SomeReads == {<<0, 6>>, <<1, 3>>, <<3, 9>>}

ZipOf(n, dir, size, comp, local, extra, big, late) ==
    [name |-> n, dir |-> dir, size |-> size, comp |-> comp, local |-> local, extra |-> extra,
     big |-> big, late |-> late]
SomeZipMembers ==
    {ZipOf(RootPath, TRUE, 0, 0, 0, 0, {}, FALSE),
     ZipOf(D, TRUE, 0, 0, 0, 0, {}, FALSE),
     ZipOf(D, FALSE, 2, 1, 0, 1, {}, FALSE),
     ZipOf(DF, FALSE, 5, 2, 1, 1, {"size", "off"}, FALSE),
     ZipOf(DF, FALSE, 3, 3, 0, 0, {}, FALSE),
     ZipOf(G, FALSE, 7, 3, 0, 1, {"size", "comp", "off"}, TRUE),
     ZipOf(G, FALSE, 4, 4, 2, 0, {}, TRUE)}

ArOf(k, n, len, size, typed) ==
    [kind |-> k, name |-> n, len |-> len, size |-> size, typed |-> typed]
SomeArMembers ==
    {ArOf("table", <<>>, 0, 0, TRUE), ArOf("symbols", <<>>, 0, 1, TRUE),
     ArOf("short", D, 0, 1, TRUE), ArOf("short", G, 0, 2, TRUE), ArOf("short", G, 0, 1, FALSE),
     ArOf("long", G, 0, 1, TRUE), ArOf("long", D, 0, 2, TRUE),
     ArOf("bsd", D, 1, 2, TRUE), ArOf("bsd", G, 2, 1, TRUE)}

RarOf(k, n, dir, dos, extra, comment, data) ==
    [kind |-> k, name |-> n, dir |-> dir, dos |-> dos, extra |-> extra, comment |-> comment,
     data |-> data]
SomeRarMembers ==
    {RarOf("file", D, TRUE, FALSE, 0, 0, 0), RarOf("file", DF, FALSE, FALSE, 1, 0, 2),
     RarOf("file", G, FALSE, FALSE, 0, 1, 1), RarOf("file", <<"G">>, FALSE, TRUE, 0, 0, 1),
     RarOf("sub", D, FALSE, FALSE, 1, 0, 1)}
\* Nothing before the marker, and what may be taken for a part of it.
BeforeMarker == {<<>>, <<"R">>, <<"a">>, <<"R", "a">>, <<"R", "R">>, <<"R", "x", "R", "a">>}

LineOf(type, n, link) == [type |-> type, name |-> n, link |-> link]
SomeLines ==
    {LineOf("dir", D, <<>>), LineOf("file", D, <<>>), LineOf("file", DF, <<>>), LineOf("file", G, <<>>),
     LineOf("link", G, DF), LineOf("link", DF, G), LineOf("link", G, D), LineOf("link", G, G),
     LineOf("file", RootPath, <<>>)}

\* Names of words that may look like a part of a date, or like the arrow of a link.
SomeNames ==
    {<<"w">>, <<"year">>, <<"time">>, <<"n">>, <<"month">>, <<"->">>, <<"w", "w">>, <<"year", "w">>,
     <<"time", "w">>, <<"n", "w">>, <<"->", "w">>, <<"w", "->", "w">>, <<"year", "time">>,
     <<"year", "->">>, <<"w", "n", "w">>}
SomeDates ==
    {<<"month", "n", "time">>, <<"month", "n", "year">>, <<"month", "n", "year", "time">>,
     <<"month", "n", "time", "year">>, <<"week", "month", "n", "time", "year">>,
     <<"dos", "time">>, <<"iso", "time">>}

-----------------------------------------------------------------------------
\* One part of the state is in use; the others are not there.

NoTar  == tar = {}
NoZip  == zip = {}
NoAr   == ar = {}
NoRar  == rar = {} /\ unrar = {} /\ rar_available = TRUE /\ rartmp = {}
NoExtfs == xlist = {} /\ xbase = 1 /\ xlock = {} /\ xcache = 0 /\ xtmp = <<>> /\ xcall = {}
NoLs   == ls = {}

MCInit ==
    /\ part \in {"archive", "tar", "zip", "ar", "rar", "extfs", "ls"}
    /\ Init
    /\ IF part = "tar"   THEN TarInit   ELSE NoTar
    /\ IF part = "zip"   THEN ZipInit   ELSE NoZip
    /\ IF part = "ar"    THEN ArInit    ELSE NoAr
    /\ IF part = "rar"   THEN RarInit   ELSE NoRar
    /\ IF part = "extfs" THEN ExtfsInit ELSE NoExtfs
    /\ IF part = "ls"    THEN LsInit    ELSE NoLs

ArchivePart == part = "archive" /\ Next  /\ UNCHANGED <<part, tar, zip, ar, rar_vars, extfs_vars, ls>>
TarPart   == part = "tar"   /\ TarNext   /\ UNCHANGED <<part, vars, zip, ar, rar_vars, extfs_vars, ls>>
ZipPart   == part = "zip"   /\ ZipNext   /\ UNCHANGED <<part, vars, tar, ar, rar_vars, extfs_vars, ls>>
ArPart    == part = "ar"    /\ ArNext    /\ UNCHANGED <<part, vars, tar, zip, rar_vars, extfs_vars, ls>>
RarPart   == part = "rar"   /\ RarNext   /\ UNCHANGED <<part, vars, tar, zip, ar, extfs_vars, ls>>
ExtfsPart == part = "extfs" /\ ExtfsNext /\ UNCHANGED <<part, vars, tar, zip, ar, rar_vars, ls>>
LsPart    == part = "ls"    /\ LsNext    /\ UNCHANGED <<part, vars, tar, zip, ar, rar_vars, extfs_vars>>

MCNext == ArchivePart \/ TarPart \/ ZipPart \/ ArPart \/ RarPart \/ ExtfsPart \/ LsPart

MCSpec ==
    /\ MCInit /\ [][MCNext]_<<part, vars, tar, zip, ar, rar_vars, extfs_vars, ls>>
    /\ \A t \in Threads : SF_vars(part = "archive" /\ Continue(t))

-----------------------------------------------------------------------------
\* The promises of the modules, each where the module is in use.

\* Whatever a file has in it, in whatever order, of every format: the tree has what the
\* members mean, with exact references; what is read of a sparse file of a tar archive,
\* and of a file of a zip archive, is that member's; and a line of ls gives the file it
\* was printed for.  The temporary files that programs unpack to are deleted with their
\* last user, no earlier and no later.
ModulesTrue ==
    /\ part = "tar"   => TarTreeTrue /\ SparseTrue
    /\ part = "zip"   => ZipTreeTrue /\ ZipDataTrue
    /\ part = "ar"    => ArTreeTrue
    /\ part = "rar"   => RarTreeTrue /\ RarTmpTrue
    /\ part = "extfs" => ExtfsTreeTrue /\ ExtfsTmpTrue
    /\ part = "ls"    => LineTrue
==============================================================================
