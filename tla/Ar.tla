------------------------------------ MODULE Ar ------------------------------------
(***************************************************************************)
(* The ar archives of src/modules/uar.c.  A file is a sequence of units:   *)
(* for every member a header of two of them, what the header says comes    *)
(* after it, and padding to an even position.  A name is in the header, at *)
(* a position of the table of long names, or before the contents of the    *)
(* member (BSD), which the size in the header then includes.               *)
(***************************************************************************)
EXTENDS Tree

CONSTANTS
    ArMembers,    \* what members can be: kind, name, len (of a BSD name), size, typed
    MaxArMembers  \* bound: members of an archive

VARIABLE ar

-----------------------------------------------------------------------------
\* The file.

ArUnit(k, i) == [k |-> k, m |-> i]
ArUnits(k, i, n) == [j \in 1 .. n |-> ArUnit(k, i)]

\* The long names, in the table of the first table member; a name is one unit and its
\* end another.
LongNames(ms) == SelectSeq([i \in DOMAIN ms |-> i], LAMBDA i : ms[i].kind = "long")
TableOffset(ms, i) == 2 * (CHOOSE n \in DOMAIN LongNames(ms) : LongNames(ms)[n] = i) - 2
ArTable(ms) == FlattenSeq([n \in DOMAIN LongNames(ms) |-> <<ArUnit("name", LongNames(ms)[n]), ArUnit("nul", 0)>>])

\* What a header says comes after it.
ArContents(ms, i) ==
    CASE ms[i].kind = "table" -> ArTable(ms)
      [] ms[i].kind = "bsd" -> ArUnits("name", i, ms[i].len) \o ArUnits("data", i, ms[i].size)
      [] OTHER -> ArUnits("data", i, ms[i].size)

ArPadding(n) == IF n % 2 = 1 THEN <<ArUnit("pad", 0)>> ELSE <<>>
ArMember(ms, i) == <<ArUnit("header", i), ArUnit("header2", i)>> \o ArContents(ms, i) \o ArPadding(Len(ArContents(ms, i)))
ArFile(ms) == FlattenSeq([i \in DOMAIN ms |-> ArMember(ms, i)])

-----------------------------------------------------------------------------
\* interpret_header: both parts of the header are there.
IsHeader(f, p) == p + 2 <= Len(f) /\ f[p + 1].k = "header" /\ f[p + 2].k = "header2"

\* What the header at p says comes after it, and where that begins.
ArValues(a, p) == [mem |-> a.file[p + 1].m, size |-> Len(ArContents(a.ms, a.file[p + 1].m)), offset |-> p + 2]

\* insert_arentry and fill_arentry: a member without a type is left out, and one whose
\* name is there.
insert_arentry(a, arv, name) ==
    IF ~a.ms[arv.mem].typed THEN a
    ELSE LET c == av_arch_create(a.tree, name)
         IN IF ~c.ok THEN [a EXCEPT !.tree = c.t]
            ELSE [a EXCEPT !.tree = av_arch_new_node(c.t, name, FALSE, arv.mem, arv.offset),
                           !.size[arv.mem] = arv.size]

\* What a read of n units at p gets.
ArGot(f, p, n) == SubSeq(f, p + 1, IF p + n < Len(f) THEN p + n ELSE Len(f))

\* read_longnames: the second table is passed by; a table that is cut off ends the list.
read_longnames(a, arv) ==
    IF a.names # <<>> \/ arv.size = 0 THEN [a |-> a, go |-> TRUE]
    ELSE LET got == ArGot(a.file, arv.offset, arv.size)
         IN [a |-> [a EXCEPT !.names = got], go |-> Len(got) = arv.size]

\* Mutant of BsdValues: the name is taken for contents.
BsdKeepsName(arv, len) == arv

\* The contents of a member come after its BSD name.
BsdValues(arv, len) == [arv EXCEPT !.size = @ - len, !.offset = @ + len]

read_bsd_longname(a, arv) ==
    LET m == a.ms[arv.mem]
    IN IF Len(ArGot(a.file, arv.offset, m.len)) # m.len THEN [a |-> a, go |-> FALSE]
       ELSE [a |-> insert_arentry(a, BsdValues(arv, m.len), m.name), go |-> TRUE]

\* insert_longname: from the position in the table to the end of the name.
insert_longname(a, arv) ==
    LET off == TableOffset(a.ms, arv.mem)
    IN IF off < Len(a.names) THEN insert_arentry(a, arv, a.ms[a.names[off + 1].m].name) ELSE a

\* process_name.
process_name(a, arv) ==
    LET m == a.ms[arv.mem]
    IN CASE m.kind = "table"   -> read_longnames(a, arv)
         [] m.kind = "bsd"     -> read_bsd_longname(a, arv)
         [] m.kind = "long"    -> [a |-> insert_longname(a, arv), go |-> TRUE]
         [] m.kind = "symbols" -> [a |-> a, go |-> TRUE]
         [] m.kind = "short"   -> [a |-> insert_arentry(a, arv, m.name), go |-> TRUE]

\* Mutant of NextAt: headers are where contents end.
NextUnpadded(arv) == arv.offset + arv.size

\* The next header is at an even position.
NextAt(arv) == 2 * ((arv.offset + arv.size + 1) \div 2)

\* read_entry, in the loop of read_arfile.  What is not a header ends the list as the end
\* of the file does.
ArEntry ==
    /\ ar.st = "parse"
    /\ ar' = IF ~IsHeader(ar.file, ar.pos) THEN [ar EXCEPT !.st = "done"]
             ELSE LET arv == ArValues(ar, ar.pos)
                      r   == process_name(ar, arv)
                  IN IF r.go THEN [r.a EXCEPT !.pos = NextAt(arv)] ELSE [r.a EXCEPT !.st = "done"]

ArInit ==
    \E n \in 0 .. MaxArMembers : \E ms \in [1 .. n -> ArMembers] : \E cut \in 0 .. 3 :
        ar = [ms |-> ms, file |-> SubSeq(ArFile(ms), 1, Len(ArFile(ms)) - cut), st |-> "parse",
              pos |-> 0, names |-> <<>>, tree |-> EmptyTree, size |-> [i \in 1 .. n |-> 0]]

ArNext == ArEntry

-----------------------------------------------------------------------------
\* Properties.

\* Whether member i has a name the parser can know: that of the table, once the table
\* has come with it in it.
ArNamed(a, i) ==
    a.ms[i].kind = "long" => \E j \in 1 .. i - 1 : a.ms[j].kind = "table" /\ Len(ArTable(a.ms)) > 0

\* The members there are headers of, in the part of the file that is there and up to
\* a table or BSD name that is cut off.
ArThere(a) ==
    {i \in DOMAIN a.ms : Len(ArFile(SubSeq(a.ms, 1, i))) <= Len(a.file)}

\* The member a name is of: the first that has the name and a type, if nothing above or
\* below the name was there before.
ArMeans(a, p) ==
    LET mem(i) == a.ms[i].kind \in {"short", "long", "bsd"} /\ a.ms[i].typed /\ ArNamed(a, i)
        of == {i \in ArThere(a) : mem(i) /\ a.ms[i].name = p
                 /\ \A j \in 1 .. i - 1 : mem(j) => ~IsPrefix(a.ms[j].name, p) /\ ~IsPrefix(p, a.ms[j].name)}
    IN IF of = {} THEN 0 ELSE CHOOSE i \in of : \A j \in of : i <= j

\* Every name of an archive, wherever it is stored and wherever the file is cut off, is
\* that of its first member, with the place and the size of what that member has.
ArTreeTrue ==
    ar.st = "done" =>
        /\ \A p \in Paths \ {<<>>} : LET i == ArMeans(ar, p) IN
             i # 0 => /\ At(ar.tree, p).mem = i /\ ar.size[i] = ar.ms[i].size
                      /\ i \in ArThere(ar) =>
                           ArGot(ar.file, At(ar.tree, p).off, ar.size[i]) = ArUnits("data", i, ar.size[i])
        /\ RefsTrue(ar.tree) /\ DirLinksTrue(ar.tree) /\ ParentsTrue(ar.tree)
===================================================================================
