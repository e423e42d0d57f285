----------------------------------- MODULE Extfs -----------------------------------
(***************************************************************************)
(* The archives that a program outside lists and extracts:                 *)
(* src/modules/extfs.c.  The list is made into a tree once for every       *)
(* version of the archive file; the files that are extracted are in the    *)
(* disk cache, under the name of the archive and that of the file, until   *)
(* the cache drops them.                                                   *)
(***************************************************************************)
EXTENDS Tree

CONSTANTS
    ExtfsLines,   \* what lines can list: type, name, link
    MaxLines,     \* bound: lines of a list
    ExtfsCalls,   \* threads
    MaxExtfsBase, \* bound: versions of the archive file
    MaxExtfsTmp   \* bound: temporary files

VARIABLES
    xlist,  \* the lists: of the first version, how far it is read, and the tree
    xbase,  \* the version of the archive file
    xlock,  \* per version of the tree: who has the lock of the file's node
    xcache, \* the temporary file that the cache has of the file, 0 for none
    xtmp,   \* the temporary files: version of what is in it, refs of its object, there
    xcall   \* per thread: pc, the version of its tree, its temporary file

extfs_vars == <<xlist, xbase, xlock, xcache, xtmp, xcall>>

-----------------------------------------------------------------------------
\* The list.

\* Mutant of fill_extfs_link: a hard link to a directory is made.
LinkToAny(t, p, q) == IF t.at[q] = 0 \/ q = p THEN t ELSE Link(t, p, q)

\* fill_extfs_link: what is there, and is not a directory.
fill_extfs_link(t, p, q) ==
    LET r == av_arch_resolve(t, q, FALSE)
    IN IF ~r.ok \/ t.at[q] = 0 \/ At(t, q).dir THEN t ELSE Link(t, p, q)

\* insert_extfs_entry: what is there already stays.
insert_extfs_entry(t, l, i) ==
    LET c == av_arch_create(t, l.name)
    IN IF ~c.ok THEN c.t
       ELSE IF l.type = "link" THEN fill_extfs_link(c.t, l.name, l.link)
       ELSE av_arch_new_node(c.t, l.name, l.type = "dir", i, 0)

\* read_extfs_list: a line, until the program has no more.
read_extfs_list ==
    /\ xlist.n < Len(xlist.lines)
    /\ xlist' = [xlist EXCEPT !.n = @ + 1, !.tree = insert_extfs_entry(@, xlist.lines[xlist.n + 1], xlist.n + 1)]
    /\ UNCHANGED <<xbase, xlock, xcache, xtmp, xcall>>

-----------------------------------------------------------------------------
\* Opening a file.  The steps of two threads of one tree are one after the other, under
\* the lock of the node.

RefTmp(x)   == xtmp' = [xtmp EXCEPT ![x].refs = @ + 1]

\* extfscacheentry_delete: the last reference removes the file.
UnrefTmp(f, x) == IF x = 0 THEN f
                  ELSE [f EXCEPT ![x].refs = @ - 1, ![x].there = @ /\ f[x].refs > 1]

\* extfs_open up to the cache: what that has is referenced, or a temporary file is made.
OpenCached(t) ==
    /\ xcall[t].pc = "idle" /\ xcall[t].tmp = 0
    /\ \E v \in 1 .. xbase :
         /\ xlock[v] = {}
         /\ IF xcache # 0
            THEN /\ RefTmp(xcache)
                 /\ xcall' = [xcall EXCEPT ![t] = [pc |-> "fd", v |-> v, tmp |-> xcache]]
                 /\ UNCHANGED xlock
            ELSE /\ Len(xtmp) < MaxExtfsTmp
                 /\ xtmp' = Append(xtmp, [ver |-> 0, refs |-> 0, there |-> TRUE])
                 /\ xcall' = [xcall EXCEPT ![t] = [pc |-> "copy", v |-> v, tmp |-> Len(xtmp) + 1]]
                 /\ xlock' = [xlock EXCEPT ![v] = {t}]
    /\ UNCHANGED <<xlist, xbase, xcache>>

\* get_extfs_file: the program extracts from the archive file as it is now.
get_extfs_file(t) ==
    /\ xcall[t].pc = "copy"
    /\ xtmp' = [xtmp EXCEPT ![xcall[t].tmp].ver = xbase]
    /\ xcall' = [xcall EXCEPT ![t].pc = "set"]
    /\ UNCHANGED <<xlist, xbase, xlock, xcache>>

\* Mutant of CopyFails: the temporary file is not removed.
FailKeepsTmp(t) == UNCHANGED xtmp

CopyFails(t) == xtmp' = [xtmp EXCEPT ![xcall[t].tmp].there = FALSE]

\* It fails.
CopyFailed(t) ==
    /\ xcall[t].pc = "copy"
    /\ CopyFails(t)
    /\ xlock' = [xlock EXCEPT ![xcall[t].v] = {}]
    /\ xcall' = [xcall EXCEPT ![t] = [pc |-> "idle", v |-> 0, tmp |-> 0]]
    /\ UNCHANGED <<xlist, xbase, xcache>>

\* Mutant of CacheSet: the object is given to the cache without a reference of its own.
SetWithoutRef(f, x) == UnrefTmp([f EXCEPT ![x].refs = 1], xcache)

\* av_cache2_set: what the cache had under the name it drops.
CacheSet(f, x) == UnrefTmp([f EXCEPT ![x].refs = 2], xcache)

SetCached(t) ==
    /\ xcall[t].pc = "set"
    /\ xtmp' = CacheSet(xtmp, xcall[t].tmp)
    /\ xcache' = xcall[t].tmp
    /\ xlock' = [xlock EXCEPT ![xcall[t].v] = {}]
    /\ xcall' = [xcall EXCEPT ![t].pc = "fd"]
    /\ UNCHANGED <<xlist, xbase>>

\* open of the temporary file.
OpenTmp(t) ==
    /\ xcall[t].pc = "fd"
    /\ \/ /\ xcall' = [xcall EXCEPT ![t].pc = "open"] /\ UNCHANGED xtmp
       \/ /\ xcall' = [xcall EXCEPT ![t] = [pc |-> "idle", v |-> 0, tmp |-> 0]]
          /\ xtmp' = UnrefTmp(xtmp, xcall[t].tmp)
    /\ UNCHANGED <<xlist, xbase, xlock, xcache>>

extfs_close(t) ==
    /\ xcall[t].pc = "open"
    /\ xcall' = [xcall EXCEPT ![t] = [pc |-> "idle", v |-> 0, tmp |-> 0]]
    /\ xtmp' = UnrefTmp(xtmp, xcall[t].tmp)
    /\ UNCHANGED <<xlist, xbase, xlock, xcache>>

\* The cache needs the space.
CacheDrops ==
    /\ xcache # 0
    /\ xtmp' = UnrefTmp(xtmp, xcache) /\ xcache' = 0
    /\ UNCHANGED <<xlist, xbase, xlock, xcall>>

\* Another program changes the archive file; the next lookup makes a tree of it, and
\* those that have the old one keep it.
ArchiveChanges ==
    /\ xbase < MaxExtfsBase
    /\ xbase' = xbase + 1
    /\ UNCHANGED <<xlist, xlock, xcache, xtmp, xcall>>

-----------------------------------------------------------------------------
ExtfsInit ==
    /\ \E n \in 0 .. MaxLines : \E ls \in [1 .. n -> ExtfsLines] :
         xlist = [lines |-> ls, n |-> 0, tree |-> EmptyTree]
    /\ xbase = 1 /\ xlock = [v \in 1 .. MaxExtfsBase |-> {}]
    /\ xcache = 0 /\ xtmp = <<>>
    /\ xcall = [t \in ExtfsCalls |-> [pc |-> "idle", v |-> 0, tmp |-> 0]]

\* What is opened is of one list: one line is enough.
Opens ==
    /\ Len(xlist.lines) = 1 /\ xlist.n = 1
    /\ \/ ArchiveChanges \/ CacheDrops
       \/ \E t \in ExtfsCalls :
            OpenCached(t) \/ get_extfs_file(t) \/ CopyFailed(t) \/ SetCached(t) \/ OpenTmp(t) \/ extfs_close(t)

ExtfsNext == read_extfs_list \/ Opens

-----------------------------------------------------------------------------
\* Properties.

\* The line whose file a name shows: that of its first line, if there was nothing in its
\* way; of a hard link, that of the name it is a link to; 0 for none and -1 for a directory.
ExtfsMeans(ls) ==
    LET up(p) == {SubSeq(p, 1, k) : k \in 0 .. Len(p) - 1}
        step(f, l, i) ==
            IF \E q \in up(l.name) : f[q] > 0 THEN f
            ELSE LET g == [q \in Paths |-> IF q \in up(l.name) THEN -1 ELSE f[q]]
                 IN IF g[l.name] # 0 THEN g
                    ELSE [g EXCEPT ![l.name] = CASE l.type = "file" -> i
                                                 [] l.type = "dir" -> -1
                                                 [] l.type = "link" -> IF g[l.link] > 0 THEN g[l.link] ELSE 0]
        f0 == [p \in Paths |-> IF p = <<>> THEN -1 ELSE 0]
        after[i \in 0 .. Len(ls)] == IF i = 0 THEN f0 ELSE step(after[i - 1], ls[i], i)
    IN after[Len(ls)]

\* The tree shows what the list says, with hard links that have the node of the file
\* and are counted.
ExtfsTreeTrue ==
    xlist.n = Len(xlist.lines) =>
        LET f == ExtfsMeans(xlist.lines) IN
        /\ \A p \in Paths : LET n == At(xlist.tree, p) IN
             CASE f[p] = 0  -> xlist.tree.at[p] = 0
               [] f[p] = -1 -> xlist.tree.at[p] # 0 /\ n.dir
               [] f[p] > 0  -> n.mem = f[p] /\ n.nlink = Cardinality({q \in Paths : f[q] = f[p]})
        /\ RefsTrue(xlist.tree) /\ DirLinksTrue(xlist.tree) /\ ParentsTrue(xlist.tree)

\* An extracted file is there as long as the cache or an open file has it or it is being
\* made, and then no longer.
ExtfsTmpTrue ==
    \A x \in DOMAIN xtmp :
        LET has  == {t \in ExtfsCalls : xcall[t].tmp = x /\ xcall[t].pc \in {"fd", "open"}}
            made == {t \in ExtfsCalls : xcall[t].tmp = x /\ xcall[t].pc \in {"copy", "set"}}
        IN /\ xtmp[x].refs = Cardinality(has) + (IF xcache = x THEN 1 ELSE 0)
           /\ xtmp[x].there <=> has \cup made # {} \/ xcache = x
====================================================================================
