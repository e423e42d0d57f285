------------------------------------ MODULE Tar ------------------------------------
(***************************************************************************)
(* The tar archives of src/modules/utar.c.  A file is a sequence of        *)
(* blocks: for each member a header, before it, if its name is long, a     *)
(* header and a block with the name, or, if it has attributes of pax, a    *)
(* header and a block with those; then its contents; and a zero block at   *)
(* the end, unless the file has been cut.  What of a header is not looked  *)
(* at by the tree is left out.                                             *)
(*                                                                         *)
(* A sparse member has a map of the parts of it that are stored, in the    *)
(* header and in as many blocks after it as are needed.                    *)
(***************************************************************************)
EXTENDS Tree

CONSTANTS
    TarMembers,     \* what members can be: name, type, blocks, link, long, pax
    MaxTarMembers,  \* bound: members of an archive
    TarBlock,       \* BLOCKSIZE
    TarSparseSize,  \* bound: the size of a sparse file
    TarReads        \* the positions and lengths of reads of one

VARIABLE tar  \* the blocks, the parser, the tree, and a sparse file

-----------------------------------------------------------------------------
\* The file.

Header(m, i)    == [k |-> "header", m |-> i, name |-> IF m.long THEN <<>> ELSE m.name]
TarLong(m, i)   == IF m.long THEN <<[k |-> "long", m |-> i, name |-> <<>>], [k |-> "text", m |-> i, name |-> m.name]>> ELSE <<>>
TarPax(m, i)    == IF m.pax THEN <<[k |-> "pax", m |-> i, name |-> <<>>], [k |-> "text", m |-> i, name |-> <<>>]>> ELSE <<>>
TarData(m, i)   == [n \in 1 .. m.blocks |-> [k |-> "data", m |-> i, name |-> <<>>]]
Zero            == <<[k |-> "zero", m |-> 0, name |-> <<>>]>>

TarFile(ms) ==
    FlattenSeq([i \in DOMAIN ms |-> TarPax(ms[i], i) \o TarLong(ms[i], i) \o <<Header(ms[i], i)>> \o TarData(ms[i], i)])
        \o Zero

-----------------------------------------------------------------------------
\* The tree.

\* check_existing: whether the entry is free for what has been read now.  A directory
\* stays what it is.
check_existing(t, p, m) ==
    IF At(t, p).dir THEN [t |-> t, ok |-> FALSE]
    ELSE [t |-> av_arch_del_node(t, p), ok |-> TRUE]

fill_link(t, p, q) ==
    LET r == av_arch_resolve(t, q, FALSE)
    IN IF ~r.ok \/ t.at[q] = 0 \/ At(t, q).dir THEN t ELSE Link(t, p, q)

fill_node(t, p, m, i, off) == av_arch_new_node(t, p, m.type = "dir", i, off)

fill_tarentry(t, p, m, i, off) ==
    LET c == IF t.at[p] # 0 THEN check_existing(t, p, m) ELSE [t |-> t, ok |-> TRUE]
    IN IF ~c.ok THEN c.t
       ELSE IF m.type = "link" THEN fill_link(c.t, p, m.link)
       ELSE fill_node(c.t, p, m, i, off)

insert_tarentry(t, p, m, i, off) ==
    LET r == av_arch_resolve(t, p, TRUE)
    IN IF ~r.ok \/ p = <<>> THEN r.t ELSE fill_tarentry(r.t, p, m, i, off)

-----------------------------------------------------------------------------
\* The parser.

\* find_next_block.
AtEnd == tar.pos > Len(tar.file)
Block == tar.file[tar.pos]
TarParsing(k) == tar.st = "parse" /\ ~AtEnd /\ Block.k = k

\* The header of a long name, and the block with it.
LongHeader ==
    /\ TarParsing("long")
    /\ tar' = IF tar.pos = Len(tar.file) THEN [tar EXCEPT !.st = "error"]
              ELSE [tar EXCEPT !.pos = @ + 2, !.long = <<tar.file[tar.pos + 1].name>>]

\* The header of pax is passed by, and what comes after it is not a header: its checksum
\* is wrong, and read_entry starts again without what it had of a long name.
PaxHeader == TarParsing("pax") /\ tar' = [tar EXCEPT !.pos = @ + 1]
BadHeader == TarParsing("text") /\ tar' = [tar EXCEPT !.pos = @ + 1, !.long = <<>>]

\* Where the next header is: av_lseek by the size, in blocks; a link has none.
NextHeader(pos, m) == pos + 1 + m.blocks

\* Mutant of LongKept: the name is for all that come.
LongKeptAll(long) == long

\* A long name is for one member.
LongKept(long) == <<>>

\* A member: read_entry, and insert_tarentry of read_tarfile.
Member ==
    /\ TarParsing("header")
    /\ LET m == tar.members[Block.m]
           p == IF tar.long # <<>> THEN tar.long[1] ELSE Block.name
       IN tar' = [tar EXCEPT !.pos = NextHeader(@, m), !.long = LongKept(@),
                             !.tree = insert_tarentry(@, p, m, Block.m, tar.pos + 1)]

\* The end of the file, or the first zero block.
Ended ==
    /\ tar.st = "parse" /\ (~AtEnd => Block.k = "zero")
    /\ tar' = [tar EXCEPT !.st = "done"]

-----------------------------------------------------------------------------
\* Sparse files.  A part is <<offset, numbytes>>; all but the last are of whole blocks.

InBlocks(n) == (n + TarBlock - 1) \div TarBlock

SparseParts == {p \in (0 .. TarSparseSize) \X (1 .. TarSparseSize) : p[1] + p[2] <= TarSparseSize}
SparseMaps ==
    {sp \in UNION {[1 .. n -> SparseParts] : n \in 1 .. 3} :
        \A i \in 1 .. Len(sp) - 1 : sp[i][1] + sp[i][2] <= sp[i + 1][1] /\ sp[i][2] % TarBlock = 0}

\* How many parts the header and the blocks after it have room for, here 1 and 1.
ExtBlocks(sp) == Len(sp) - 1

\* What is stored after the header: the blocks with the map, and the parts in whole
\* blocks.  A byte is the position in the file it is of.
Padding == -1
OfMap   == -2
Hole    == -3
StoredPart(p) == [i \in 1 .. InBlocks(p[2]) * TarBlock |-> IF i <= p[2] THEN p[1] + i - 1 ELSE Padding]
Stored(sp) ==
    [i \in 1 .. ExtBlocks(sp) * TarBlock |-> OfMap] \o FlattenSeq([i \in DOMAIN sp |-> StoredPart(sp[i])])

\* Mutant of read_sparsearray: the contents begin after the header, as those of others do.
AfterHeader(sp) == 0

\* read_sparsearray: nod->offset is after the blocks it has read.
read_sparsearray(sp) == ExtBlocks(sp) * TarBlock

\* How far the part after p is from p.
RealOff(p) == ((p[2] - 1) \div TarBlock + 1) * TarBlock

\* read_sparse: the parts of sp that the read from start to end has something of.  All
\* else is zero.
read_sparse(sp, start, end) ==
    LET offset   == read_sparsearray(sp)
        real[c \in 1 .. Len(sp)] == IF c = 1 THEN 0 ELSE real[c - 1] + RealOff(sp[c - 1])
        realsize == FoldLeft(LAMBDA n, p : n + p[2], 0, sp)
        in(c, x) == sp[c][1] <= x /\ x < sp[c][1] + sp[c][2] /\ real[c] < realsize
    IN [i \in 1 .. end - start |->
          LET x == start + i - 1
              c == {d \in DOMAIN sp : in(d, x)}
          IN IF c = {} THEN Hole
             ELSE LET d == CHOOSE d \in c : TRUE IN Stored(sp)[real[d] + offset + (x - sp[d][1]) + 1]]

ReadSparse ==
    /\ tar.st = "done" /\ tar.members = <<>>
    /\ \E sp \in SparseMaps, r \in TarReads :
         tar' = [tar EXCEPT !.st = "sparse", !.sparse = sp, !.at = r,
                            !.got = read_sparse(sp, r[1], IF r[1] + r[2] < TarSparseSize THEN r[1] + r[2] ELSE TarSparseSize)]

-----------------------------------------------------------------------------
TarInit ==
    \E n \in 0 .. MaxTarMembers : \E ms \in [1 .. n -> TarMembers] : \E cut \in {0, 1} :
        tar = [st |-> "parse", members |-> ms, file |-> SubSeq(TarFile(ms), 1, Len(TarFile(ms)) - cut),
               pos |-> 1, long |-> <<>>, tree |-> EmptyTree,
               sparse |-> <<>>, at |-> <<0, 0>>, got |-> <<>>]

TarNext == LongHeader \/ PaxHeader \/ BadHeader \/ Member \/ Ended \/ ReadSparse
TarSpec == TarInit /\ [][TarNext]_tar

-----------------------------------------------------------------------------
\* Properties.

\* What the members up to i make of the names: 0 nothing, -1 a directory, or the member
\* the contents of a file are of, the last one of its name.
TarMeans(ms) ==
    LET up(p, f) == {q \in Paths : \E k \in 0 .. Len(p) - 1 : q = SubSeq(p, 1, k)}
        step(f, m, i) ==
            IF \E q \in up(m.name, f) : f[q] > 0 THEN f
            ELSE LET g == [q \in Paths |-> IF q \in up(m.name, f) THEN -1 ELSE f[q]]
                 IN IF m.name = <<>> \/ g[m.name] = -1 THEN g
                    ELSE [g EXCEPT ![m.name] = CASE m.type = "file" -> i
                                                 [] m.type = "dir" -> -1
                                                 [] m.type = "link" ->
                                                      IF m.link # m.name /\ g[m.link] > 0
                                                         /\ \A q \in up(m.link, g) : g[q] = -1
                                                      THEN g[m.link] ELSE 0]
        f0 == [p \in Paths |-> IF p = <<>> THEN -1 ELSE 0]
        after[i \in 0 .. Len(ms)] == IF i = 0 THEN f0 ELSE step(after[i - 1], ms[i], i)
    IN after[Len(ms)]

\* Where the contents of member i begin.
TarStart(ms, i) ==
    2 + SelectLastInSeq(TarFile(SubSeq(ms, 1, i)), LAMBDA b : b.k = "header") - 1

\* A tar file that is read to its end shows under every name the last member of that
\* name, hard links what they were made of, with the contents where they are in the
\* file; its counts of references are true and its directories count their links.
TarTreeTrue ==
    tar.st = "done" =>
        LET f == TarMeans(tar.members) IN
        /\ \A p \in Paths :
             LET n == At(tar.tree, p) IN
             CASE f[p] = 0  -> tar.tree.at[p] = 0
               [] f[p] = -1 -> tar.tree.at[p] # 0 /\ n.dir
               [] f[p] > 0  -> tar.tree.at[p] # 0 /\ n.mem = f[p] /\ n.off = TarStart(tar.members, f[p])
        /\ RefsTrue(tar.tree) /\ DirLinksTrue(tar.tree) /\ ParentsTrue(tar.tree)

\* A read of a sparse file has what is stored of the file where it belongs, and zero in
\* the holes.
SparseTrue ==
    tar.st = "sparse" =>
        \A i \in DOMAIN tar.got :
            LET x == tar.at[1] + i - 1
                stored == \E c \in DOMAIN tar.sparse : tar.sparse[c][1] <= x /\ x < tar.sparse[c][1] + tar.sparse[c][2]
            IN tar.got[i] = IF stored THEN x ELSE Hole
===================================================================================
