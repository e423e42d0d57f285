------------------------------------ MODULE Zip ------------------------------------
(***************************************************************************)
(* The zip archives of src/modules/uzip.c.  A file is a sequence of units: *)
(* something before the archive, for each member its local header and its  *)
(* contents, the central directory, the zip64 records if there are any,    *)
(* the end record, and a comment.  The directory is found from the end     *)
(* of the file; a member is found when it is opened.                       *)
(*                                                                         *)
(* A header is one unit, and the name and the extra fields after it are    *)
(* others.  Sizes and positions are numbers of units; those that a header  *)
(* has no room for are in an extra field.                                  *)
(***************************************************************************)
EXTENDS Tree

CONSTANTS
    ZipMembers,    \* what members can be: name, dir, size, comp, local, extra, big, late
    MaxZipMembers, \* bound: members of an archive
    ZipBefore,     \* lengths of what is before the archive
    SearchLen      \* SEARCHLEN

VARIABLE zip

-----------------------------------------------------------------------------
\* The file.

Unit(k, i)   == [k |-> k, m |-> i]
Units(k, i, n) == [j \in 1 .. n |-> Unit(k, i)]

LocalUnits(m, i)   == <<Unit("local", i), Unit("name", i)>> \o Units("extra", i, m.local) \o Units("data", i, m.comp)
CentralUnits(m, i) == <<Unit("central", i), Unit("name", i)>> \o Units("extra", i, m.extra)

Locals(a)   == FlattenSeq([i \in DOMAIN a.ms |-> LocalUnits(a.ms[i], i)])
Centrals(a) == FlattenSeq([i \in DOMAIN a.ms |-> CentralUnits(a.ms[i], i)])

\* Positions count from 0; those in the records from the beginning of the archive, or of
\* the file if what is before it has been counted in.
Shift(a)      == IF a.counted THEN a.before ELSE 0
CdirOff(a)    == Shift(a) + Len(Locals(a))
Zip64Off(a)   == CdirOff(a) + Len(Centrals(a))
TrueLocal(a, i) == a.before + Len(Locals([a EXCEPT !.ms = SubSeq(a.ms, 1, i - 1)]))
HeaderOff(a, i) == TrueLocal(a, i) - a.before + Shift(a)

ZipFile(a) ==
    Units("before", 0, a.before) \o Locals(a) \o Centrals(a)
    \o (IF a.zip64 THEN <<Unit("end64", 0), Unit("locator", 0)>> ELSE <<>>)
    \o <<Unit("end", 0), Unit("count", 0)>> \o Units("comment", 0, a.comment)

-----------------------------------------------------------------------------
\* The records at the end.

\* find_ecrec: backwards from where the record can be at the latest.
find_ecrec(f) ==
    LET from == Len(f) - 2
        at == {p \in 0 .. from : p > from - SearchLen /\ f[p + 1].k = "end"}
    IN IF at = {} THEN -1 ELSE CHOOSE p \in at : \A q \in at : q <= p

\* find_and_validate_z64_ecdl: what is before the end record.
find_z64_ecdl(f, pos) == pos >= 1 /\ f[pos].k = "locator"

\* read_zipfile and read_zip64file: where the directory ends and how much more is before
\* it than its record says.
read_zipfile(a, f) ==
    LET rec  == find_ecrec(f)
        is64 == rec >= 0 /\ find_z64_ecdl(f, rec)
        pos  == IF is64 THEN Zip64Off(a) ELSE rec
        more == pos - (CdirOff(a) + Len(Centrals(a)))
    IN IF rec < 0 \/ pos >= Len(f) \/ (is64 /\ f[pos + 1].k # "end64") \/ more < 0
       THEN [ok |-> FALSE, end |-> 0, cdir |-> 0]
       ELSE [ok |-> TRUE, end |-> pos, cdir |-> CdirOff(a) + more]

-----------------------------------------------------------------------------
\* A member in the directory.

ZipFields == <<"size", "comp", "off">>
ZipTrue(a, i) == [size |-> a.ms[i].size, comp |-> a.ms[i].comp, off |-> HeaderOff(a, i)]

\* The extra field has the values of those that are too big, in that order.
ExtraValues(a, i) ==
    LET big == SelectSeq(ZipFields, LAMBDA x : x \in a.ms[i].big)
    IN [n \in DOMAIN big |-> ZipTrue(a, i)[big[n]]]

\* Mutant of ExtraIndex: all values are read where the first one is.
ExtraAtFirst(m, x) == 1

\* How many values of the extra field have been read, with that of x.
ExtraIndex(m, x) ==
    Cardinality({n \in DOMAIN ZipFields : ZipFields[n] \in m.big
                    /\ \E l \in n .. Len(ZipFields) : ZipFields[l] = x})

\* parse_extra_header of the central header.
parse_extra_header(a, i) ==
    [x \in {"size", "comp", "off"} |->
        IF x \in a.ms[i].big THEN ExtraValues(a, i)[ExtraIndex(a.ms[i], x)] ELSE ZipTrue(a, i)[x]]

\* insert_zipentry and fill_zipentry: what is there already stays.
insert_zipentry(t, m, i) ==
    LET c == av_arch_create(t, m.name)
    IN IF c.ok THEN av_arch_new_node(c.t, m.name, m.dir, i, 0) ELSE c.t

\* read_entry, at the position cpos of the directory.
read_entry(a, f, z) ==
    LET i == f[z.cpos + 1].m
        m == a.ms[i]
    IN [z EXCEPT !.n = @ + 1, !.cpos = @ + Len(CentralUnits(m, i)),
                 !.tree = insert_zipentry(@, m, i),
                 !.nodes = @ \cup {[mem |-> i] @@ parse_extra_header(a, i)}]

-----------------------------------------------------------------------------
ZipDirectory ==
    /\ zip.st = "find"
    /\ LET r == read_zipfile(zip.a, zip.file)
       IN zip' = IF ~r.ok THEN [zip EXCEPT !.st = "error"]
                 ELSE [zip EXCEPT !.st = "read", !.end = r.end, !.cpos = r.cdir]

ZipEntry ==
    /\ zip.st = "read"
    /\ zip' = IF zip.n = Len(zip.a.ms) THEN [zip EXCEPT !.st = "done"]
              ELSE IF zip.cpos >= zip.end \/ zip.file[zip.cpos + 1].k # "central"
              THEN [zip EXCEPT !.st = "error"]
              ELSE read_entry(zip.a, zip.file, zip)

NodeOf(i) == CHOOSE x \in zip.nodes : x.mem = i

\* Mutant of DataBegins: the fields after the header are those of the directory.
CentralLength(m) == 2 + m.extra

\* The length of the local header with what comes after it.
DataBegins(m) == 2 + m.local

\* Mutant of ZipCrc: the local header has the checksum.
LocalCrc(m, i) == IF m.late THEN 0 ELSE i

\* The checksum is in the local header, or, if it came after the contents, only in the
\* directory.
ZipCrc(m, i) == IF m.late THEN NodeOf(i).mem ELSE i

\* zip_open: the local header is where the directory says, with nothing added for what
\* is before the archive.
zip_open(p) ==
    /\ zip.st = "done" /\ zip.tree.at[p] # 0 /\ ~At(zip.tree, p).dir
    /\ LET n == NodeOf(At(zip.tree, p).mem)
           u == IF n.off < Len(zip.file) THEN zip.file[n.off + 1] ELSE Unit("none", 0)
       IN zip' = IF u.k # "local" THEN [zip EXCEPT !.st = "openerror"]
                 ELSE [zip EXCEPT !.st = "open",
                         !.got = [mem |-> n.mem, data |-> n.off + DataBegins(zip.a.ms[u.m]),
                                  crc |-> ZipCrc(zip.a.ms[u.m], u.m)]]

ZipInit ==
    \E n \in 0 .. MaxZipMembers :
    \E ms \in [1 .. n -> ZipMembers], b \in ZipBefore, c \in {0, 1}, counted, zip64 \in BOOLEAN :
        LET a == [ms |-> ms, before |-> b, counted |-> counted, zip64 |-> zip64, comment |-> c] IN
        zip = [a |-> a, file |-> ZipFile(a), st |-> "find", end |-> 0, cpos |-> 0, n |-> 0,
               tree |-> EmptyTree, nodes |-> {}, got |-> [mem |-> 0, data |-> 0, crc |-> 0]]

ZipNext == ZipDirectory \/ ZipEntry \/ \E p \in Paths : zip_open(p)

-----------------------------------------------------------------------------
\* Properties.

\* Which member a name is of: the first one of the name, 0 if there is none, or if
\* something that is not a directory is in the way of it.
ZipMeans(ms, p) ==
    LET free(i) == \A j \in 1 .. i - 1 :
                      ~(ms[j].dir) /\ Len(ms[j].name) < Len(ms[i].name) =>
                          ms[j].name # SubSeq(ms[i].name, 1, Len(ms[j].name))
        made(i) == \A j \in 1 .. i - 1 : ~IsPrefix(ms[i].name, ms[j].name)
        of == {i \in DOMAIN ms : ms[i].name = p /\ free(i) /\ made(i)}
    IN IF of = {} THEN 0 ELSE CHOOSE i \in of : \A j \in of : i <= j

\* The directory of an archive is found behind whatever is before it, and shows under
\* every name its first member, with the sizes of the member.
ZipTreeTrue ==
    /\ zip.st = "error" => zip.a.zip64 /\ zip.a.before > 0 /\ ~zip.a.counted
    /\ zip.st = "done" =>
         /\ \A p \in Paths \ {<<>>} : LET i == ZipMeans(zip.a.ms, p) IN
              i # 0 => /\ At(zip.tree, p).mem = i /\ At(zip.tree, p).dir = zip.a.ms[i].dir
                       /\ NodeOf(i) = [mem |-> i] @@ ZipTrue(zip.a, i)
         /\ RefsTrue(zip.tree) /\ DirLinksTrue(zip.tree) /\ ParentsTrue(zip.tree)

\* What is opened in an archive that nothing is before, or that has counted it, is
\* the contents of the member, and the checksum that of the member.
ZipDataTrue ==
    zip.a.before = 0 \/ zip.a.counted =>
        /\ zip.st # "openerror"
        /\ zip.st = "open" =>
             LET m == zip.a.ms[zip.got.mem] IN
             /\ zip.got.data = TrueLocal(zip.a, zip.got.mem) + 2 + m.local
             /\ zip.got.crc = zip.got.mem
===================================================================================
