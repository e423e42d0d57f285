------------------------------------ MODULE Rar ------------------------------------
(***************************************************************************)
(* The rar archives of src/modules/urar.c, of format 4 and of format 5.    *)
(* A file is a sequence of units: a self-extracting program before the     *)
(* archive, the marker, and blocks.  A block has a header, whose length    *)
(* its size field says, and contents.  Contents are extracted by one of    *)
(* the programs rar and unrar into a temporary file.                       *)
(***************************************************************************)
EXTENDS Tree

CONSTANTS
    RarMembers,    \* what blocks can be: kind, name, dir, dos, extra, comment, data
    MaxRarMembers, \* bound: blocks of an archive
    RarBefore,     \* what is before the marker: sequences of the marker's bytes and others
    RarCalls       \* threads that open files

VARIABLES
    rar,           \* the parser: st, a (the archive), file, pos, tree, bad
    unrar,         \* per thread: pc, out (what is written to its temporary file)
    rar_available, \* the variable of get_rar_file
    rartmp         \* the threads whose temporary file is there

rar_vars == <<rar, unrar, rar_available, rartmp>>

-----------------------------------------------------------------------------
\* The file.  The marker is "Rar!", two bytes more and that of the version, here three.

RarUnit(k, i) == [k |-> k, m |-> i]
RarUnits(k, i, n) == [j \in 1 .. n |-> RarUnit(k, i)]
RarByte(c) == [k |-> c, m |-> 0]
MarkerLen == 3
Marker(format) == <<RarByte("R"), RarByte("a"), RarByte(format)>>

\* What the size in the header counts: in format 4 from the beginning of the block, and
\* in format 5 after the checksum and the size itself.
Head4(m, i) == <<RarUnit("head", i), RarUnit("fh", i)>> \o RarUnits("extra", i, m.extra)
Head5(m, i) == <<RarUnit("fields", i), RarUnit("name", i)>> \o RarUnits("extra", i, m.extra)
Body(m, i)  == RarUnits("comment", i, m.comment) \o RarUnits("data", i, m.data)

RarBlock(a, i) ==
    IF a.format = "v0" THEN Head4(a.ms[i], i) \o Body(a.ms[i], i)
    ELSE <<RarUnit("head", i), RarUnit("size", i)>> \o Head5(a.ms[i], i) \o Body(a.ms[i], i)
RarBlocks(a) == FlattenSeq([i \in DOMAIN a.ms |-> RarBlock(a, i)])

\* After the marker: the main header, or in format 5 a byte more.
RarFile(a) ==
    [j \in DOMAIN a.before |-> RarByte(a.before[j])] \o Marker(a.format) \o <<RarUnit("main", 0)>>
    \o RarBlocks(a) \o (IF a.format = "v1" /\ a.end THEN RarUnits("end", 0, 2) ELSE <<>>)

-----------------------------------------------------------------------------
\* read_marker_block: a window of the marker's length, moved to the next byte that can
\* be the marker's first.

FirstR(buf) == {j \in 2 .. Len(buf) : buf[j].k = "R"}

\* Mutant of MovedBy: a window that is not the marker is passed by.
MovedWhole(buf) == MarkerLen

MovedBy(buf) ==
    IF FirstR(buf) = {} THEN MarkerLen ELSE (CHOOSE j \in FirstR(buf) : \A l \in FirstR(buf) : j <= l) - 1

RarMarker ==
    /\ rar.st = "marker"
    /\ LET buf == SubSeq(rar.file, rar.pos + 1, rar.pos + MarkerLen)
       IN rar' = IF rar.pos + MarkerLen > Len(rar.file) THEN [rar EXCEPT !.st = "error"]
                 ELSE IF buf \in {Marker("v0"), Marker("v1")}
                 THEN [rar EXCEPT !.st = "main", !.pos = @ + MarkerLen]
                 ELSE IF buf = Marker("v2") THEN [rar EXCEPT !.st = "error"]
                 ELSE [rar EXCEPT !.pos = @ + MovedBy(buf)]

\* read_archive_header, or the byte more of format 5.
read_archive_header ==
    /\ rar.st = "main"
    /\ rar' = IF rar.bad = 0 THEN [rar EXCEPT !.st = "error"] ELSE [rar EXCEPT !.st = "blocks", !.pos = @ + 1]

-----------------------------------------------------------------------------
\* A block.

\* insert_rarentry and fill_rarentry, insert_rar5entry and fill_rar5entry.  A name of
\* MS-DOS is in lower case.
Lower(p) == [j \in DOMAIN p |-> IF p[j] = "G" THEN "g" ELSE p[j]]
insert_rarentry(t, m, i, off) ==
    LET p == IF m.dos THEN Lower(m.name) ELSE m.name
        c == av_arch_create(t, p)
    IN IF c.ok THEN av_arch_new_node(c.t, p, m.dir, i, off) ELSE c.t

\* Mutant of NextBlock: from where the header has been read to.
NextFromRead(headstart, read, size) == read + size

\* The next block is as far as the size says from the beginning of this.
NextBlock(headstart, read, size) == headstart + size

\* read_rarentry: contents begin after the header, what its size says it has more, and
\* the comment.
DataStart(m, pos) == pos + Len(Head4(m, 0)) + m.comment

\* A block of read_rarfile.  The end of the file is the end of the archive.
RarEntry ==
    /\ rar.st = "blocks" /\ rar.a.format = "v0"
    /\ IF rar.pos >= Len(rar.file) THEN rar' = [rar EXCEPT !.st = "done"]
       ELSE LET u == rar.file[rar.pos + 1]
                m == rar.a.ms[u.m]
            IN IF u.k # "head" THEN rar' = [rar EXCEPT !.st = "error"]
               ELSE IF m.kind = "file" /\ (rar.bad = u.m \/ rar.pos + Len(Head4(m, 0)) > Len(rar.file))
               THEN rar' = [rar EXCEPT !.st = "error"]
               ELSE rar' = [rar EXCEPT
                      !.tree = IF m.kind = "file" THEN insert_rarentry(@, m, u.m, DataStart(m, rar.pos)) ELSE @,
                      !.pos = NextBlock(@, DataStart(m, @), Len(RarBlock(rar.a, u.m)))]

\* parse_rar5_block and parse_rar5_file_header, in the loop of read_rar5file: an entry
\* is made before the checksum is known.
Rar5Block ==
    /\ rar.st = "blocks" /\ rar.a.format = "v1"
    /\ IF rar.pos + 2 > Len(rar.file) THEN rar' = [rar EXCEPT !.st = "error"]
       ELSE LET u == rar.file[rar.pos + 1]
                headstart == rar.pos + 2
            IN CASE u.k = "end"  -> rar' = [rar EXCEPT !.st = "done"]
                 [] u.k = "head" ->
                      LET m == rar.a.ms[u.m]
                          size == Len(Head5(m, 0))
                          made == IF m.kind = "file" THEN insert_rarentry(rar.tree, [m EXCEPT !.dos = FALSE], u.m, 0)
                                  ELSE rar.tree
                      IN rar' = IF headstart + size > Len(rar.file) THEN [rar EXCEPT !.st = "error"]
                                ELSE IF rar.bad = u.m THEN [rar EXCEPT !.tree = made, !.st = "error"]
                                ELSE [rar EXCEPT !.tree = made, !.pos = headstart + size + Len(Body(m, 0))]
                 [] OTHER -> rar' = [rar EXCEPT !.st = "error"]

-----------------------------------------------------------------------------
\* The contents.

\* rar_open and do_unrar: an empty temporary file.
do_unrar(t) ==
    /\ unrar[t].pc = "idle"
    /\ unrar' = [unrar EXCEPT ![t] = [pc |-> IF rar_available THEN "rar" ELSE "unrar", out |-> <<>>]]
    /\ rartmp' = rartmp \cup {t}
    /\ UNCHANGED rar_available

\* get_rar_file runs rar: all is written; or it cannot be run or fails, with something
\* written or not, and unrar is next.
get_rar_file(t) ==
    /\ unrar[t].pc = "rar"
    /\ \/ /\ unrar' = [unrar EXCEPT ![t] = [pc |-> "open", out |-> Append(@.out, "whole")]]
          /\ UNCHANGED rar_available
       \/ \E part \in {<<>>, <<"part">>} :
            unrar' = [unrar EXCEPT ![t] = [pc |-> "unrar", out |-> @.out \o part]]
          /\ rar_available' = FALSE
    /\ UNCHANGED rartmp

\* Mutant of UnrarFailed: the temporary file stays.
FailedKeepsTmp(t) == UNCHANGED rartmp

UnrarFailed(t) == rartmp' = rartmp \ {t}

\* unrar: after it has failed rar is what is tried first again.
RunUnrar(t) ==
    /\ unrar[t].pc = "unrar"
    /\ \/ /\ unrar' = [unrar EXCEPT ![t] = [pc |-> "open", out |-> Append(@.out, "whole")]]
          /\ rar_available' = FALSE /\ UNCHANGED rartmp
       \/ /\ unrar' = [unrar EXCEPT ![t] = [pc |-> "idle", out |-> <<>>]]
          /\ rar_available' = TRUE /\ UnrarFailed(t)

rar_close(t) ==
    /\ unrar[t].pc = "open"
    /\ unrar' = [unrar EXCEPT ![t] = [pc |-> "idle", out |-> <<>>]]
    /\ rartmp' = rartmp \ {t}
    /\ UNCHANGED rar_available

-----------------------------------------------------------------------------
RarArchives ==
    {[format |-> f, ms |-> ms, before |-> b, end |-> e] :
        f \in {"v0", "v1", "v2"}, ms \in UNION {[1 .. n -> RarMembers] : n \in 0 .. MaxRarMembers},
        b \in RarBefore, e \in BOOLEAN}

RarInit ==
    /\ \E a \in RarArchives, cut \in 0 .. 1 : \E bad \in -1 .. Len(a.ms) :
         rar = [st |-> "marker", a |-> a, file |-> SubSeq(RarFile(a), 1, Len(RarFile(a)) - cut),
                pos |-> 0, tree |-> EmptyTree, bad |-> bad]
    /\ unrar = [t \in RarCalls |-> [pc |-> "idle", out |-> <<>>]]
    /\ rar_available = TRUE /\ rartmp = {}

\* What reads the list, and the contents.  A file is opened when the list is there; of
\* one archive is enough.
RarParse    == (RarMarker \/ read_archive_header \/ RarEntry \/ Rar5Block) /\ UNCHANGED <<unrar, rar_available, rartmp>>
RarContents == /\ rar.st = "done" /\ Len(rar.a.ms) = 1 /\ rar.a.before = <<>>
               /\ \E t \in RarCalls : do_unrar(t) \/ get_rar_file(t) \/ RunUnrar(t) \/ rar_close(t)
               /\ UNCHANGED rar

RarNext == RarParse \/ RarContents

-----------------------------------------------------------------------------
\* Properties.

\* The member a name is of: the first of it, unless something is in the way.
RarMeans(a, p) ==
    LET n(i) == IF a.ms[i].dos /\ a.format = "v0" THEN Lower(a.ms[i].name) ELSE a.ms[i].name
        file(i) == a.ms[i].kind = "file"
        of == {i \in DOMAIN a.ms : file(i) /\ n(i) = p
                 /\ \A j \in 1 .. i - 1 : file(j) =>
                      ~IsPrefix(p, n(j)) /\ (IsPrefix(n(j), p) => a.ms[j].dir)}
    IN IF of = {} THEN 0 ELSE CHOOSE i \in of : \A j \in of : i <= j

\* Where the archive begins: at the first marker.
RarBegins(a) == Len(a.before) + MarkerLen + 1

\* The tree is that of the members, at the end.
RarShown ==
    rar.st = "done" =>
        /\ \A p \in Paths \ {<<>>} : LET i == RarMeans(rar.a, p) IN
             i # 0 => /\ At(rar.tree, p).mem = i /\ At(rar.tree, p).dir = rar.a.ms[i].dir
                      /\ rar.a.format = "v0" =>
                           At(rar.tree, p).off = RarBegins(rar.a) + Len(Head4(rar.a.ms[i], 0)) + rar.a.ms[i].comment
                              + Len(RarBlocks([rar.a EXCEPT !.ms = SubSeq(@, 1, i - 1)]))
        /\ RefsTrue(rar.tree) /\ DirLinksTrue(rar.tree) /\ ParentsTrue(rar.tree)

\* An archive is found behind whatever is before it, whatever that has of the marker; it
\* shows under every name its first member of the name, with the contents where they
\* are; and it is refused only, and always, if a checksum or the end is wrong or the
\* version is not known.
RarTreeTrue ==
    /\ rar.st = "error" =>
         \/ rar.a.format = "v2" \/ rar.bad # -1 \/ rar.file # RarFile(rar.a)
         \/ rar.a.format = "v1" /\ ~rar.a.end
    /\ rar.st = "done" => rar.bad \notin {0} \cup {i \in DOMAIN rar.a.ms : rar.a.ms[i].kind = "file" \/ rar.a.format = "v1"}
    /\ RarShown

\* The temporary files are those of the files that are open or being extracted, and an
\* open file has all its contents, after what a program that failed has left in it.
RarTmpTrue ==
    /\ rartmp = {t \in RarCalls : unrar[t].pc # "idle"}
    /\ \A t \in RarCalls : unrar[t].pc = "open" => unrar[t].out \in {<<"whole">>, <<"part", "whole">>}
===================================================================================
