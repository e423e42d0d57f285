----------------------------------- MODULE Tree -----------------------------------
(***************************************************************************)
(* The tree that a parser builds of the members of an archive:             *)
(* src/src/archutil.c on the entries of src/src/namespace.c.               *)
(*                                                                         *)
(* An entry is a path, a sequence of names; the root is <<>>.  A node is a *)
(* position in t.nodes, 0 is none.  The tree's own reference of an entry   *)
(* and the references of a node are counted as the code counts them.  A    *)
(* node is of the archive's member mem, or of none if it is a default      *)
(* directory, and off is where its contents begin.                         *)
(***************************************************************************)
EXTENDS Integers, FiniteSets, SequencesExt

CONSTANT Paths  \* that can be in an archive, closed under Front

\* struct archnode.
Node(isdir, mem, off) == [dir |-> isdir, nlink |-> IF isdir THEN 2 ELSE 1, nref |-> 1, mem |-> mem, off |-> off]

At(t, p) == IF t.at[p] = 0 THEN Node(FALSE, 0, 0) ELSE t.nodes[t.at[p]]

\* The tree's reference of the entry and of its node are dropped.
Dropped(t, p) ==
    IF t.at[p] = 0 THEN t
    ELSE [t EXCEPT !.nodes[t.at[p]].nref = @ - 1, !.held[p] = @ - 1]

\* Mutant of UpLinks: every new node is a link to its parent.
UpLinksAll(t, p, isdir) == {t.at[Front(q)] : q \in {p} \ {<<>>}} \ {0}

\* The node of the parent, which a new directory links to.
UpLinks(t, p, isdir) == IF isdir THEN {t.at[Front(q)] : q \in {p} \ {<<>>}} \ {0} ELSE {}

av_arch_new_node(t, p, isdir, mem, off) ==
    LET d   == Dropped(t, p)
        ups == UpLinks(d, p, isdir)
    IN [nodes |-> Append([n \in DOMAIN d.nodes |-> [d.nodes[n] EXCEPT !.nlink = IF n \in ups THEN @ + 1 ELSE @]],
                         Node(isdir, mem, off)),
        at    |-> [d.at EXCEPT ![p] = Len(d.nodes) + 1],
        held  |-> [d.held EXCEPT ![p] = @ + 1]]

\* Mutant of av_arch_del_node: the entry keeps the tree's reference.
DelKeepsEntry(t, p) == [[t EXCEPT !.nodes[t.at[p]].nref = @ - 1] EXCEPT !.at[p] = 0]

\* The count of links of a node with other entries stays.
av_arch_del_node(t, p) == [Dropped(t, p) EXCEPT !.at[p] = 0]

av_arch_default_dir(t, p) == av_arch_new_node(t, p, TRUE, 0, 0)

\* A hard link: p gets the node of q (fill_link of the modules).
Link(t, p, q) ==
    [t EXCEPT !.nodes[t.at[q]].nlink = @ + 1, !.nodes[t.at[q]].nref = @ + 1,
              !.at[p] = t.at[q], !.held[p] = @ + 1]

\* av_arch_resolve: the directories above p, from the root down, are made if they are
\* missing and that is asked for.  Anything else in the way is an error.
Above(p) == [i \in 1 .. Len(p) |-> SubSeq(p, 1, i - 1)]
av_arch_resolve(t, p, create) ==
    FoldLeft(LAMBDA r, q : IF ~r.ok THEN r
                           ELSE IF r.t.at[q] = 0
                                THEN [t |-> IF create THEN av_arch_default_dir(r.t, q) ELSE r.t, ok |-> create]
                                ELSE [r EXCEPT !.ok = At(r.t, q).dir],
            [t |-> t, ok |-> TRUE], Above(p))

\* av_arch_create: not the root, and not what is there already.
av_arch_create(t, p) ==
    LET r == av_arch_resolve(t, p, TRUE)
    IN [t |-> r.t, ok |-> r.ok /\ p # <<>> /\ r.t.at[p] = 0]

\* The tree that parse_archive begins with.
EmptyTree == av_arch_default_dir([nodes |-> <<>>, at |-> [p \in Paths |-> 0], held |-> [p \in Paths |-> 0]], <<>>)

-----------------------------------------------------------------------------
\* What holds of every tree.

\* A node has a reference of each entry it is at, and an entry one of the tree if it
\* has a node.
RefsTrue(t) ==
    /\ \A n \in DOMAIN t.nodes : t.nodes[n].nref = Cardinality({p \in Paths : t.at[p] = n})
    /\ \A p \in Paths : t.held[p] = IF t.at[p] = 0 THEN 0 ELSE 1

\* A directory has a link of itself, one of its parent and one of every directory in it.
DirLinksTrue(t) ==
    \A p \in Paths : t.at[p] # 0 /\ At(t, p).dir =>
        At(t, p).nlink = 2 + Cardinality({q \in Paths \ {<<>>} : Front(q) = p /\ t.at[q] # 0 /\ At(t, q).dir})

\* What is not in the tree cannot have anything in it.
ParentsTrue(t) ==
    \A p \in Paths \ {<<>>} : t.at[p] # 0 => t.at[Front(p)] # 0 /\ At(t, Front(p)).dir
===================================================================================
