------------------------------ MODULE Namespace ------------------------------
(***************************************************************************)
(* The tree of names in which archives and the state files keep their      *)
(* entries (src/src/namespace.c).  A lookup returns the entry of a name in *)
(* a directory, or makes one; an entry disappears with its last reference. *)
(* The hash table and the lists of children do not count as references, so *)
(* the counts of entries are guarded by namespace_lock, and the part of    *)
(* the destructor that takes the entry out of the tables runs under it     *)
(* (av_obj_set_ref_lock and av_obj_set_destr_locked).  The rest of the     *)
(* destructor drops the references to the parent and to the namespace      *)
(* without the lock.                                                       *)
(*                                                                         *)
(* Threads stands for any callers that drop what they were given: each has *)
(* the entry it has walked to, and may read that directory entry by entry. *)
(* An entry that stands for a file has a node, which keeps it alive.       *)
(***************************************************************************)
EXTENDS Integers, Sequences, FiniteSets

CONSTANTS
    Threads,  \* threads that use the namespace
    Entries,  \* addresses of struct entry; each is allocated once
    Names,    \* names of entries
    MaxSeek,  \* the farthest position a reader of a directory goes to
    Ns,       \* the struct namespace
    None      \* NULL

ASSUME FiniteAssumption == IsFiniteSet(Threads) /\ IsFiniteSet(Entries)
ASSUME SeekAssumption   == MaxSeek \in Nat
ASSUME NoneAssumption   == None \notin Threads \cup Entries \cup {Ns} /\ Ns \notin Entries

VARIABLES
    refctr,   \* reference counts of the entries and of the namespace
    made,     \* the entries allocated so far
    name,     \* ent->name
    parent,   \* ent->parent, None at the top
    hash,     \* the entries in ns->hashtab
    subdir,   \* the children of an entry, and of None: ns->root
    data,     \* does the entry have a node?
    owner,    \* the reference of whoever made the namespace
    at,       \* the entry a thread has walked to (archent.ent, stentry.ent)
    curr,     \* its position in that directory (archfile.curr)
    todo,     \* the references it is about to drop, the next one last
    reading,  \* is it reading the directory from the beginning, or done?
    steady,   \* what has been in that directory since it began to read
    seen      \* what it has read

tables == <<made, name, parent, hash, subdir>>
walk   == <<curr, reading, steady, seen>>
vars   == <<refctr, tables, data, owner, at, todo, walk>>

Objects  == Entries \cup {Ns}
Listed(s) == {s[i] : i \in DOMAIN s}

----------------------------------------------------------------------------
(* Helpers.                                                                *)

RefdForgotten(x) == refctr  \* mutant: no reference is taken

\* The counts after av_ref_obj on x; on NULL it does nothing.
Refd(x) == [o \in Objects |-> IF o = x /\ refctr[o] > 0 THEN refctr[o] + 1 ELSE refctr[o]]

\* Mutant of Created: a new entry does not keep its parent.
CreatedAlone(e, p) ==
    [o \in Objects |-> IF o = e THEN 1
                       ELSE IF o = Ns /\ refctr[o] > 0 THEN refctr[o] + 1 ELSE refctr[o]]

\* The counts after the making of entry e in directory p.
Created(e, p) ==
    [o \in Objects |-> IF o = e THEN 1
                       ELSE IF o \in {Ns, p} /\ refctr[o] > 0 THEN refctr[o] + 1 ELSE refctr[o]]

Position(s, e) == CHOOSE i \in DOMAIN s : s[i] = e

\* Mutant of Without: the last entry takes the place of the one removed.
WithoutSwapped(s, e) == [j \in 1..(Len(s) - 1) |-> IF s[j] = e THEN s[Len(s)] ELSE s[j]]

\* list_del.
Without(s, e)  == [j \in 1..(Len(s) - 1) |->
                       IF j < Position(s, e) THEN s[j] ELSE s[j + 1]]

\* Mutant of Found: an entry without a node is taken for a free one.
FoundWithNode(p, n) == {e \in hash : parent[e] = p /\ name[e] = n /\ data[e]}

\* The entries called n in directory p.
Found(p, n) == {e \in hash : parent[e] = p /\ name[e] = n}

\* Mutant of After: it jumps over an entry.
AfterNext(s, e) == IF Position(s, e) + 1 < Len(s) THEN s[Position(s, e) + 2] ELSE None

\* av_namespace_nth, counting from 0, and av_namespace_next.
Nth(s, n)   == IF n < Len(s) THEN s[n + 1] ELSE None
After(s, e) == IF Position(s, e) < Len(s) THEN s[Position(s, e) + 1] ELSE None

\* The thread is about to drop its reference to x, if it has one.
Later(t, x) == todo' = IF x = None THEN todo ELSE [todo EXCEPT ![t] = <<x>>]

Ready(t) == todo[t] = <<>>

----------------------------------------------------------------------------
Init ==
    /\ refctr = [o \in Objects |-> IF o = Ns THEN 1 ELSE 0]
    /\ made = {} /\ hash = {}
    /\ name = [e \in Entries |-> None]
    /\ parent = [e \in Entries |-> None]
    /\ subdir = [e \in Entries \cup {None} |-> <<>>]
    /\ data = [e \in Entries |-> FALSE]
    /\ owner = TRUE
    /\ at = [t \in Threads |-> None] /\ curr = [t \in Threads |-> None]
    /\ todo = [t \in Threads |-> <<>>]
    /\ reading = [t \in Threads |-> "no"]
    /\ steady = [t \in Threads |-> {}] /\ seen = [t \in Threads |-> {}]

----------------------------------------------------------------------------
(* Walking down and up: av_namespace_lookup_all.  The caller drops the entry *)
(* it comes from afterwards, as arch_lookup does.                          *)

\* A walk starts at the root of a namespace the caller has.
MayWalk(t) == Ready(t) /\ reading[t] = "no" /\ curr[t] = None /\ (at[t] = None => owner)

LookupFound(t, n) ==
    /\ MayWalk(t)
    /\ \E e \in Found(at[t], n) :
          /\ refctr' = Refd(e)
          /\ at' = [at EXCEPT ![t] = e]
    /\ Later(t, at[t])
    /\ UNCHANGED <<tables, data, owner, walk>>

LookupNew(t, n, e) ==
    /\ MayWalk(t) /\ Found(at[t], n) = {}
    /\ e \notin made
    /\ made' = made \cup {e}
    /\ name' = [name EXCEPT ![e] = n]
    /\ parent' = [parent EXCEPT ![e] = at[t]]
    /\ subdir' = [subdir EXCEPT ![at[t]] = Append(@, e)]
    /\ hash' = hash \cup {e}
    /\ refctr' = Created(e, at[t])
    /\ at' = [at EXCEPT ![t] = e]
    /\ Later(t, at[t])
    /\ UNCHANGED <<data, owner, walk>>

Up(t) ==
    /\ MayWalk(t) /\ at[t] # None
    /\ refctr' = Refd(parent[at[t]])
    /\ at' = [at EXCEPT ![t] = parent[at[t]]]
    /\ Later(t, at[t])
    /\ UNCHANGED <<tables, data, owner, walk>>

\* arch_copyent and arch_putent.
Copy(t, u) ==
    /\ Ready(t) /\ at[t] # None
    /\ MayWalk(u) /\ at[u] = None
    /\ refctr' = Refd(at[t])
    /\ at' = [at EXCEPT ![u] = at[t]]
    /\ UNCHANGED <<tables, data, owner, todo, walk>>

Put(t) ==
    /\ MayWalk(t) /\ at[t] # None
    /\ at' = [at EXCEPT ![t] = None]
    /\ Later(t, at[t])
    /\ UNCHANGED <<refctr, tables, data, owner, walk>>

----------------------------------------------------------------------------
(* Nodes: av_arch_new_node, av_arch_del_node.                              *)

SetNode(t) ==
    /\ Ready(t) /\ at[t] # None /\ ~data[at[t]]
    /\ data' = [data EXCEPT ![at[t]] = TRUE]
    /\ refctr' = Refd(at[t])
    /\ UNCHANGED <<tables, owner, at, todo, walk>>

DelNode(t) ==
    /\ Ready(t) /\ at[t] # None /\ data[at[t]]
    /\ data' = [data EXCEPT ![at[t]] = FALSE]
    /\ Later(t, at[t])
    /\ UNCHANGED <<refctr, tables, owner, at, walk>>

----------------------------------------------------------------------------
(* Reading a directory: the first entry, and one after a seek, is looked    *)
(* for from the beginning; then each is the one after the last.            *)

ReadNth(t, n) ==
    /\ Ready(t) /\ at[t] # None /\ reading[t] = "no"
    /\ LET e == Nth(subdir[at[t]], n) IN
          /\ refctr' = Refd(e)
          /\ curr' = [curr EXCEPT ![t] = e]
          /\ reading' = [reading EXCEPT ![t] = IF n # 0 THEN "no"
                                              ELSE IF e = None THEN "done" ELSE "yes"]
          /\ steady' = [steady EXCEPT ![t] = IF n = 0 THEN Listed(subdir[at[t]]) ELSE {}]
          /\ seen' = [seen EXCEPT ![t] = IF n = 0 THEN {e} \ {None} ELSE {}]
    /\ Later(t, curr[t])
    /\ UNCHANGED <<tables, data, owner, at>>

ReadNext(t) ==
    /\ Ready(t) /\ curr[t] # None
    /\ LET e == After(subdir[at[t]], curr[t]) IN
          /\ refctr' = Refd(e)
          /\ curr' = [curr EXCEPT ![t] = e]
          /\ IF reading[t] = "yes"
             THEN /\ reading' = [reading EXCEPT ![t] = IF e = None THEN "done" ELSE "yes"]
                  /\ seen' = [seen EXCEPT ![t] = @ \cup ({e} \ {None})]
             ELSE UNCHANGED <<reading, seen>>
    /\ Later(t, curr[t])
    /\ UNCHANGED <<tables, data, owner, at, steady>>

CloseDir(t) ==
    /\ Ready(t) /\ (reading[t] # "no" \/ curr[t] # None)
    /\ curr' = [curr EXCEPT ![t] = None]
    /\ reading' = [reading EXCEPT ![t] = "no"]
    /\ steady' = [steady EXCEPT ![t] = {}] /\ seen' = [seen EXCEPT ![t] = {}]
    /\ Later(t, curr[t])
    /\ UNCHANGED <<refctr, tables, data, owner, at>>

----------------------------------------------------------------------------
(* av_unref_obj.                                                           *)

\* The owner gives up the namespace.
PutNs(t) ==
    /\ Ready(t) /\ owner
    /\ owner' = FALSE
    /\ Later(t, Ns)
    /\ UNCHANGED <<refctr, tables, data, at, walk>>

\* Mutant of FreeEntryLocked: the entry stays in the hash table.
FreeEntryUnhashed(x) ==
    /\ UNCHANGED hash
    /\ subdir' = [subdir EXCEPT ![parent[x]] = Without(@, x)]

\* What the destructor of an entry does with the lock still held.
FreeEntryLocked(x) ==
    /\ hash' = hash \ {x}
    /\ subdir' = [subdir EXCEPT ![parent[x]] = Without(@, x)]

\* A reference is dropped; the last one of an entry takes it out of the tables,
\* and its parent and its namespace come next.
Unref(t) ==
    /\ ~Ready(t)
    /\ LET x    == todo[t][Len(todo[t])]
           rest == SubSeq(todo[t], 1, Len(todo[t]) - 1)
       IN  /\ refctr' = [refctr EXCEPT ![x] = IF @ >= 0 THEN @ - 1 ELSE @]
           /\ IF refctr[x] = 1 /\ x # Ns
              THEN /\ FreeEntryLocked(x)
                   /\ steady' = [u \in Threads |-> steady[u] \ {x}]
                   /\ todo' = [todo EXCEPT ![t] = rest \o
                                  IF parent[x] = None THEN <<Ns>> ELSE <<Ns, parent[x]>>]
              ELSE /\ todo' = [todo EXCEPT ![t] = rest]
                   /\ UNCHANGED <<hash, subdir, steady>>
    /\ UNCHANGED <<made, name, parent, data, owner, at, curr, reading, seen>>

----------------------------------------------------------------------------
Next == \E t \in Threads :
    \/ \E n \in Names : LookupFound(t, n)
    \/ \E n \in Names, e \in Entries : LookupNew(t, n, e)
    \/ Up(t) \/ Put(t)
    \/ \E u \in Threads : Copy(t, u)
    \/ SetNode(t) \/ DelNode(t)
    \/ \E n \in 0..MaxSeek : ReadNth(t, n)
    \/ ReadNext(t) \/ CloseDir(t)
    \/ PutNs(t)
    \/ Unref(t)

Spec == Init /\ [][Next]_vars

----------------------------------------------------------------------------
(* What the namespace promises.                                            *)

TypeOK ==
    /\ refctr \in [Objects -> Nat]
    /\ made \subseteq Entries /\ hash \subseteq made
    /\ name \in [Entries -> Names \cup {None}]
    /\ parent \in [Entries -> Entries \cup {None}]
    /\ subdir \in [Entries \cup {None} -> Seq(Entries)]
    /\ data \in [Entries -> BOOLEAN] /\ owner \in BOOLEAN
    /\ at \in [Threads -> Entries \cup {None}]
    /\ curr \in [Threads -> Entries \cup {None}]
    /\ todo \in [Threads -> Seq(Objects)]
    /\ reading \in [Threads -> {"no", "yes", "done"}]
    /\ steady \in [Threads -> SUBSET Entries] /\ seen \in [Threads -> SUBSET Entries]

\* namespace.c:182 "remove the entry from internal list while holding the lock
\* so it cannot be looked up by a different thread": what can be found is alive,
\* and what is alive can be found, once in the table and once in its directory.
TableIsLive ==
    /\ \A e \in Entries : e \in hash <=> refctr[e] > 0
    /\ \A p \in Entries \cup {None} :
          /\ Listed(subdir[p]) = {e \in hash : parent[e] = p}
          /\ \A i, j \in DOMAIN subdir[p] : subdir[p][i] = subdir[p][j] => i = j

\* The references that exist: to an entry those of the threads, of its children
\* and of its node, to the namespace those of its owner and of the entries; and
\* those that are about to be dropped.
HeldBy(f, x) == {y \in DOMAIN f : f[y] = x}
Dropping(x)  == UNION {{<<t, i>> : i \in HeldBy(todo[t], x)} : t \in Threads}
Holders(x)   ==
    IF x = Ns THEN hash \cup (IF owner THEN {Ns} ELSE {})
    ELSE {e \in hash : parent[e] = x} \cup (IF data[x] THEN {x} ELSE {})

\* Reference counts are exact, so nothing is freed that somebody still uses, and
\* a name that nobody uses and that has no node does not stay in the tables.
RefctrExact ==
    \A x \in Objects :
        refctr[x] = Cardinality(HeldBy(at, x)) + Cardinality(HeldBy(curr, x))
                    + Cardinality(Holders(x)) + Cardinality(Dropping(x))

\* Two threads that walk to one path get one entry.
OneEntryPerName ==
    \A e, f \in hash : parent[e] = parent[f] /\ name[e] = name[f] => e = f

\* All of the path of an entry is alive as long as the entry, and so is the
\* namespace: getpath and av_namespace_next follow these pointers.
PathAlive == \A e \in hash : refctr[Ns] > 0 /\ (parent[e] # None => parent[e] \in hash)

\* Who has read a directory to its end has seen all that was there all the
\* time, whatever comes and goes meanwhile.
WalkComplete == \A t \in Threads : reading[t] = "done" => steady[t] \subseteq seen[t]

=============================================================================
