--------------------------------- MODULE Volatile ---------------------------------
(***************************************************************************)
(* The volatile module, src/modules/volatile.c: a file system in memory.   *)
(* A node is an inode; an entry is a name in a directory, that refers to   *)
(* its parent entry; it is made by a lookup too, without a node, and is in *)
(* the list of its directory for as long as somebody holds it.  A call     *)
(* holds the lock of the avfs and is one step.                             *)
(*                                                                         *)
(* A directory that is renamed takes its list along, but the entries of    *)
(* the list still refer to the old entry, which has no node any more: what *)
(* is made or removed through them then uses NULL, and ends the process.   *)
(***************************************************************************)
EXTENDS Integers, FiniteSets, SequencesExt

CONSTANTS
    VolNames,   \* the names
    VolHands,   \* what the users have in hand: an entry each
    VolFiles,   \* open files
    MaxVolEntries, MaxVolNodes, MaxVolSize  \* bounds

ASSUME VolatileAssumption ==
    /\ MaxVolEntries \in Nat \ {0} /\ MaxVolNodes \in Nat \ {0} /\ MaxVolSize \in Nat
    /\ IsFiniteSet(VolHands) /\ IsFiniteSet(VolFiles)

VARIABLES
    vents,    \* the entries; one with no references is not there
    vnodes,   \* the nodes
    vhands,   \* ventry.data of the users
    vfiles,   \* vfile.data, and ptr
    vcrash    \* the process has used NULL or freed memory

vol_vars == <<vents, vnodes, vhands, vfiles, vcrash>>

VEntries == 1 .. MaxVolEntries
VNodes == 1 .. MaxVolNodes
VRoot == 1

NoVEntry == [refs |-> 0, name |-> "", node |-> 0, parent |-> 0]
NoVNode == [refs |-> 0, kind |-> "none", nlink |-> 0, size |-> 0, subdir |-> <<>>, parent |-> 0]
NoVFile == [node |-> 0, ptr |-> 0, append |-> FALSE]

\* What a step changes.
VNow == [e |-> vents, n |-> vnodes, crash |-> FALSE]
VBecomes(w) == vents' = w.e /\ vnodes' = w.n /\ vcrash' = w.crash
VCrash(w) == [w EXCEPT !.crash = TRUE]

NodeOf(w, x) == w.n[w.e[x].node]
IsDir(w, x) == w.e[x].node # 0 /\ NodeOf(w, x).kind = "dir"
FreeEntries(w) == {x \in VEntries : w.e[x].refs = 0}
FreeNodes(w) == {n \in VNodes : w.n[n].refs = 0}
VLeast(s) == CHOOSE x \in s : \A y \in s : x =< y

-----------------------------------------------------------------------------
\* Entries and nodes.

\* A list without some entries: the others keep their order.
vol_unlisted(list, gone) ==
    LET kept == {i \in DOMAIN list : list[i] \notin gone}
    IN [j \in 1 .. Cardinality(kept) |->
          list[CHOOSE i \in kept : Cardinality({k \in kept : k =< i}) = j]]

\* What goes with a reference of x: the entry itself, if that was its last one, then the
\* parent, if the entry had the last one of the parent, and so on.
LastRef(w, x) == w.e[x].refs =< 1
GoesUp(w, x, s) ==
    /\ LastRef(w, x) => x \in s
    /\ \A y \in s : LET p == w.e[y].parent IN p # 0 /\ LastRef(w, p) => p \in s
Gone(w, x) == {y \in VEntries : \A s \in SUBSET VEntries : GoesUp(w, x, s) => y \in s}

\* The last reference of an entry takes it out of the list, and drops that of its
\* parent.
vol_unlink_entry(w, x) ==
    LET gone == Gone(w, x)
        less == {x} \cup {w.e[y].parent : y \in gone}
    IN [w EXCEPT !.e = [y \in VEntries |-> IF y \in gone THEN NoVEntry
                          ELSE IF y \in less THEN [w.e[y] EXCEPT !.refs = @ - 1] ELSE w.e[y]],
                 !.n = [n \in VNodes |-> [w.n[n] EXCEPT !.subdir = vol_unlisted(@, gone)]]]

VRefEntry(w, x) == [w EXCEPT !.e[x].refs = @ + 1]
vol_free_node(w, n) ==
    IF w.n[n].refs > 1 THEN [w EXCEPT !.n[n].refs = @ - 1] ELSE [w EXCEPT !.n[n] = NoVNode]

\* The counts of a directory, links and entries, are left out; they are those of the
\* node of the parent entry, which has to have one.
InDir(w, p) == IF p # 0 /\ w.e[p].node = 0 THEN VCrash(w) ELSE w

vol_link_node(w, x, n) ==
    LET p == w.e[x].parent
        dir == w.n[n].kind = "dir"
        named == [w.e[x] EXCEPT !.refs = @ + 1, !.node = n]
        linked == [w.n[n] EXCEPT !.refs = @ + 1, !.nlink = IF dir THEN @ ELSE @ + 1,
                                 !.parent = IF ~dir THEN @ ELSE IF p = 0 THEN x ELSE p]
    IN InDir([w EXCEPT !.e[x] = named, !.n[n] = linked], p)

\* Mutant of vol_unlink_node: the count of links is left.
UnlinkKeepsLinks(w, x) ==
    LET n == w.e[x].node
        v == InDir(w, w.e[x].parent)
    IN IF v.crash THEN v ELSE vol_unlink_entry(vol_free_node([v EXCEPT !.e[x].node = 0], n), x)

\* The link of a directory is taken from the parent of the node, which may be another
\* one than that of the entry.
vol_unlink_node(w, x) ==
    LET n == w.e[x].node
        dir == w.n[n].kind = "dir"
        lost == dir /\ w.n[n].parent # 0 /\ w.e[w.n[n].parent].refs = 0
        a == [w EXCEPT !.n[n].nlink = IF dir THEN @ ELSE @ - 1]
        b == IF lost THEN VCrash(a) ELSE InDir(IF dir THEN InDir(a, w.n[n].parent) ELSE a, w.e[x].parent)
    IN IF b.crash THEN b ELSE vol_unlink_entry(vol_free_node([b EXCEPT !.e[x].node = 0], n), x)

vol_new_node(w, kind) == [w EXCEPT !.n[VLeast(FreeNodes(w))] = [NoVNode EXCEPT !.kind = kind]]

vol_make_node(w, x, kind) ==
    vol_link_node(vol_new_node(w, kind), x, VLeast(FreeNodes(w)))

-----------------------------------------------------------------------------
\* Walking a path.

Held(u) == vhands[u]

vol_get_root(u) ==
    /\ Held(u) = 0
    /\ VBecomes(VRefEntry(VNow, VRoot))
    /\ vhands' = [vhands EXCEPT ![u] = VRoot]
    /\ UNCHANGED vfiles

\* A name that is not there is given an entry at the end of the list.
vol_get_entry(w, p, name) ==
    LET there == {x \in ToSet(NodeOf(w, p).subdir) : w.e[x].name = name}
        new == VLeast(FreeEntries(w))
    IN IF there # {} THEN {[w |-> VRefEntry(w, VLeast(there)), x |-> VLeast(there)]}
       ELSE IF FreeEntries(w) = {} THEN {}
       ELSE {[w |-> [VRefEntry(w, p) EXCEPT
                       !.e[new] = [NoVEntry EXCEPT !.refs = 1, !.name = name, !.parent = p],
                       !.n[w.e[p].node].subdir = Append(@, new)],
              x |-> new]}

vol_lookup(u, name) ==
    /\ Held(u) # 0 /\ IsDir(VNow, Held(u))
    /\ \E r \in vol_get_entry(VNow, Held(u), name) :
         /\ VBecomes(vol_unlink_entry(r.w, Held(u)))
         /\ vhands' = [vhands EXCEPT ![u] = r.x]
    /\ UNCHANGED vfiles

\* The lookup of no name is that of the parent.
vol_lookup_parent(u) ==
    /\ Held(u) # 0 /\ vents[Held(u)].node # 0 /\ vents[Held(u)].parent # 0
    /\ VBecomes(vol_unlink_entry(VRefEntry(VNow, vents[Held(u)].parent), Held(u)))
    /\ vhands' = [vhands EXCEPT ![u] = vents[Held(u)].parent]
    /\ UNCHANGED vfiles

vol_putent(u) ==
    /\ Held(u) # 0
    /\ VBecomes(vol_unlink_entry(VNow, Held(u)))
    /\ vhands' = [vhands EXCEPT ![u] = 0]
    /\ UNCHANGED vfiles

vol_copyent(u, v) ==
    /\ Held(u) # 0 /\ Held(v) = 0
    /\ VBecomes(VRefEntry(VNow, Held(u)))
    /\ vhands' = [vhands EXCEPT ![v] = Held(u)]
    /\ UNCHANGED vfiles

-----------------------------------------------------------------------------
\* Files.

\* vol_open_check: only a file is opened for writing.  What is opened without it is to be
\* read, or to be examined only (AVO_NOPERM, with AVO_NOFOLLOW), as a link has to be.
vol_open_check(w, x, write) ==
    IF w.e[x].node = 0 THEN write ELSE write => NodeOf(w, x).kind = "file"

vol_open(u, f) ==
    /\ Held(u) # 0 /\ vfiles[f] = NoVFile
    /\ LET x == Held(u)
       IN \E write, trunc, append \in BOOLEAN :
            LET made == vents[x].node = 0
                w == IF made THEN vol_make_node(VNow, x, "file")
                     ELSE IF trunc THEN [VNow EXCEPT !.n[vents[x].node].size = 0]
                     ELSE VNow
            IN /\ trunc \/ append => write
               /\ vol_open_check(VNow, x, write)
               /\ made => FreeNodes(VNow) # {}
               /\ VBecomes(IF w.crash THEN w ELSE [w EXCEPT !.n[w.e[x].node].refs = @ + 1])
               /\ vfiles' = [vfiles EXCEPT ![f] = [node |-> w.e[x].node, ptr |-> 0, append |-> append]]
    /\ UNCHANGED vhands

vol_close(f) ==
    /\ vfiles[f].node # 0
    /\ VBecomes(vol_free_node(VNow, vfiles[f].node))
    /\ vfiles' = [vfiles EXCEPT ![f] = NoVFile]
    /\ UNCHANGED vhands

\* The node of an open file that is not a directory.
vol_file(f) == vfiles[f].node # 0 /\ vnodes[vfiles[f].node].kind = "file"

vol_read(f) ==
    /\ vol_file(f) /\ vfiles[f].ptr < vnodes[vfiles[f].node].size
    /\ vfiles' = [vfiles EXCEPT ![f].ptr = @ + 1]
    /\ UNCHANGED <<vents, vnodes, vhands, vcrash>>

vol_write(f) ==
    /\ vol_file(f)
    /\ LET n == vfiles[f].node
           end == 1 + IF vfiles[f].append THEN vnodes[n].size ELSE vfiles[f].ptr
       IN /\ end =< MaxVolSize
          /\ vnodes' = [vnodes EXCEPT ![n].size = IF end > @ THEN end ELSE @]
          /\ vfiles' = [vfiles EXCEPT ![f].ptr = end]
    /\ UNCHANGED <<vents, vhands, vcrash>>

\* A file is not made longer.
vol_truncate(f) ==
    /\ vol_file(f)
    /\ \E length \in 0 .. MaxVolSize :
         /\ length < vnodes[vfiles[f].node].size
         /\ vnodes' = [vnodes EXCEPT ![vfiles[f].node].size = length]
    /\ UNCHANGED <<vents, vhands, vfiles, vcrash>>

\* The parent of the node, of which nobody holds a reference for it, is looked at for
\* the second entry.  An entry without a node ends the listing.
vol_readdir(f) ==
    /\ vfiles[f].node # 0 /\ vnodes[vfiles[f].node].kind = "dir"
    /\ LET d == vnodes[vfiles[f].node]
           ptr == vfiles[f].ptr
           lost == ptr = 1 /\ vents[d.parent].refs = 0
           more == IF ptr = 0 THEN TRUE
                   ELSE IF ptr = 1 THEN vents[d.parent].node # 0
                   ELSE ptr - 2 < Len(d.subdir) /\ vents[d.subdir[ptr - 1]].node # 0
       IN /\ lost \/ more
          /\ vcrash' = lost
          /\ vfiles' = [vfiles EXCEPT ![f].ptr = IF lost THEN @ ELSE @ + 1]
    /\ UNCHANGED <<vents, vnodes, vhands>>

-----------------------------------------------------------------------------
\* Names.

vol_unlink(u) ==
    /\ Held(u) # 0 /\ vents[Held(u)].node # 0 /\ ~IsDir(VNow, Held(u))
    /\ VBecomes(vol_unlink_node(VNow, Held(u)))
    /\ UNCHANGED <<vhands, vfiles>>

\* An entry without a node keeps a directory from being removed.
vol_check_rmdir(x) == IsDir(VNow, x) /\ NodeOf(VNow, x).subdir = <<>> /\ vents[x].parent # 0

vol_rmdir(u) ==
    /\ Held(u) # 0 /\ vol_check_rmdir(Held(u))
    /\ VBecomes(vol_unlink_node(VNow, Held(u)))
    /\ UNCHANGED <<vhands, vfiles>>

\* vol_mkdir, vol_symlink, and vol_mknod, that makes what is like a file.
vol_mknod(u, kind) ==
    /\ Held(u) # 0 /\ vents[Held(u)].node = 0 /\ FreeNodes(VNow) # {}
    /\ VBecomes(vol_make_node(VNow, Held(u), kind))
    /\ UNCHANGED <<vhands, vfiles>>

\* An entry is below another if that is one of its parents, or itself.
vol_is_subdir(dir, basedir) ==
    \A s \in SUBSET VEntries :
      dir \in s /\ (\A x \in s : vents[x].parent # 0 => vents[x].parent \in s) => basedir \in s

vol_check_rename(x, y) ==
    /\ vents[x].node # 0
    /\ IsDir(VNow, x) => ~vol_is_subdir(y, x)
    /\ vents[y].node # 0 =>
         IF IsDir(VNow, x) THEN IsDir(VNow, y) /\ NodeOf(VNow, y).subdir = <<>> ELSE ~IsDir(VNow, y)

\* Mutant of Renamed: what had the new name is not unlinked.
RenameOver(w, x, y) ==
    LET b == vol_link_node(w, y, w.e[x].node) IN IF b.crash THEN b ELSE vol_unlink_node(b, x)

\* What has the new name goes first.
Renamed(w, x, y) ==
    LET a == IF w.e[y].node # 0 THEN vol_unlink_node(w, y) ELSE w
        b == IF a.crash THEN a ELSE vol_link_node(a, y, a.e[x].node)
    IN IF b.crash THEN b ELSE vol_unlink_node(b, x)

vol_rename(u, v) ==
    /\ Held(u) # 0 /\ Held(v) # 0 /\ Held(u) # Held(v)
    /\ vol_check_rename(Held(u), Held(v))
    /\ VBecomes(Renamed(VNow, Held(u), Held(v)))
    /\ UNCHANGED <<vhands, vfiles>>

vol_link(u, v) ==
    /\ Held(u) # 0 /\ Held(v) # 0
    /\ vents[Held(u)].node # 0 /\ ~IsDir(VNow, Held(u)) /\ vents[Held(v)].node = 0
    /\ VBecomes(vol_link_node(VNow, Held(v), vents[Held(u)].node))
    /\ UNCHANGED <<vhands, vfiles>>

VolInit ==
    /\ vents = [x \in VEntries |-> IF x = VRoot THEN [NoVEntry EXCEPT !.refs = 2, !.name = "/", !.node = 1]
                                   ELSE NoVEntry]
    /\ vnodes = [n \in VNodes |-> IF n = 1 THEN [NoVNode EXCEPT !.refs = 1, !.kind = "dir",
                                                                !.parent = VRoot]
                                  ELSE NoVNode]
    /\ vhands = [u \in VolHands |-> 0] /\ vfiles = [f \in VolFiles |-> NoVFile] /\ vcrash = FALSE

VolNext ==
    /\ ~vcrash
    /\ \/ \E u \in VolHands :
            \/ vol_get_root(u) \/ vol_lookup_parent(u) \/ vol_putent(u) \/ vol_unlink(u) \/ vol_rmdir(u)
            \/ \E name \in VolNames : vol_lookup(u, name)
            \/ \E kind \in {"file", "dir", "link"} : vol_mknod(u, kind)
            \/ \E f \in VolFiles : vol_open(u, f)
            \/ \E v \in VolHands : vol_copyent(u, v) \/ vol_rename(u, v) \/ vol_link(u, v)
       \/ \E f \in VolFiles :
            vol_close(f) \/ vol_read(f) \/ vol_write(f) \/ vol_truncate(f) \/ vol_readdir(f)

-----------------------------------------------------------------------------
\* Properties.

\* The links of a file are its names, through every rename over another name, and
\* while it is open without a name.
VolLinkCount ==
    ~vcrash => \A n \in VNodes : vnodes[n].kind \in {"file", "link"} =>
                 vnodes[n].nlink = Cardinality({x \in VEntries : vents[x].node = n})

\* An entry lives exactly as long as a user, its node or an entry below it refers to
\* it, and a node as long as a name or an open file does.
VolRefsExact ==
    ~vcrash =>
      /\ \A x \in VEntries : vents[x].refs =
           Cardinality({u \in VolHands : vhands[u] = x}) + Cardinality({y \in VEntries : vents[y].parent = x})
             + (IF vents[x].node = 0 THEN 0 ELSE 1) + (IF x = VRoot THEN 1 ELSE 0)
      /\ \A n \in VNodes : vnodes[n].refs =
           Cardinality({x \in VEntries : vents[x].node = n}) + Cardinality({f \in VolFiles : vfiles[f].node = n})
=============================================================================
