------------------------------- MODULE Archive -------------------------------
(***************************************************************************)
(* The life of archives (src/src/archive.c), for one base file.  The first *)
(* user of an archive parses it under the lock of the new struct archive   *)
(* while the others wait; the file cache hands the result to all of them.  *)
(* Whoever looks the archive up again compares the base file with what it  *)
(* was at the parse, and replaces the archive if it has changed.  Entries  *)
(* and files that are open keep the old one alive.                         *)
(*                                                                         *)
(* The tree of an archive has here a root, one file, and one name that the *)
(* archive does not contain.  Names with a node have the reference of that *)
(* node as long as the archive exists; a missing name is an entry only     *)
(* while somebody holds it, so its references are counted.  It comes after *)
(* all others in the list of children (module Namespace).                  *)
(*                                                                         *)
(* What a function does under arch->lock is one step, except for a parse.  *)
(***************************************************************************)
EXTENDS Integers, FiniteSets

CONSTANTS
    Threads,     \* users, each of one archive at a time
    Archs,       \* addresses of struct archive
    MaxVersion,  \* bound: the base file changes one time less
    MaxTries,    \* 5 in get_archive
    None         \* NULL

ASSUME ThreadsArchsFinite == IsFiniteSet(Threads) /\ IsFiniteSet(Archs)
ASSUME NoneIsNothing      == None \notin Threads \cup Archs
ASSUME BoundsAreNumbers   == MaxVersion \in Nat \ {0} /\ MaxTries \in Nat

VARIABLES
    version,   \* of the base file: its size, inode and times
    cached,    \* the archive in the file cache under the key of the base file
    refctr,    \* reference counts of the archives, 0 where there is none
    lock,      \* the thread that holds arch->lock between two steps
    ready,     \* ARCHF_READY
    st,        \* arch->st: the version it is compared with
    contents,  \* the version the tree was made from
    missing,   \* references to the entry of the missing name
    numread,   \* arch->numread
    basefile,  \* arch->basefile # NULL
    pc,        \* where a thread is
    arch,      \* its archive in get_archive, then that of its archent
    tries,     \* of get_archive
    neednew,   \* of get_archive
    ent,       \* the entry of its archent
    fil,       \* the archive of its archfile
    kind,      \* what that was opened for
    curr       \* its fil->curr

parsed  == <<ready, st, contents>>
base    == <<numread, basefile>>
getting == <<pc, arch, tries, neednew>>
file    == <<fil, kind, curr>>
vars    == <<version, cached, refctr, lock, parsed, missing, base, getting, ent, file>>

\* out: it has no archent; in: it has one; the others are gaps of get_archive.
Places == {"out", "find", "lock", "parse", "unref", "uncache", "in"}
Names  == {"root", "file", "missing"}
Kinds  == {"none", "list", "read", "stat"}

----------------------------------------------------------------------------
(* References.                                                             *)

\* Mutant of Ref: the new user is not counted.
RefForgotten(a) == refctr

\* The counts after one more, and one fewer, reference to a.
Ref(a)   == [refctr EXCEPT ![a] = IF @ > 0 THEN @ + 1 ELSE @]
Unref(a) == [refctr EXCEPT ![a] = IF @ > 0 THEN @ - 1 ELSE @]

Counted(name) == IF name = "missing" THEN 1 ELSE 0

\* Mutant of Moved: the entry that was left is not dropped.
MovedKeeping(a, from, to) == [missing EXCEPT ![a] = @ + Counted(to)]

\* Mutant of Moved: the entry that is next is not counted.
MovedUncounted(a, from, to) == [missing EXCEPT ![a] = @ - Counted(from)]

\* A reference to one entry of a is exchanged for one to another.
Moved(a, from, to) == [missing EXCEPT ![a] = @ + Counted(to) - Counted(from)]

\* arch_delete.  arch_free_tree drops a reference of each entry it finds, be it
\* that of a node or not: the missing name goes too.
Deleted(a) ==
    /\ missing' = [missing EXCEPT ![a] = 0]
    /\ ready' = [ready EXCEPT ![a] = FALSE]
    /\ st' = [st EXCEPT ![a] = 0] /\ contents' = [contents EXCEPT ![a] = 0]

\* A reference to a is dropped; the last one deletes it.
DropArch(a) ==
    /\ refctr' = Unref(a)
    /\ IF refctr[a] = 1 THEN Deleted(a) ELSE UNCHANGED <<parsed, missing>>

Free(a) == lock[a] = None

----------------------------------------------------------------------------
Init ==
    /\ version = 1 /\ cached = None
    /\ refctr = [a \in Archs |-> 0]
    /\ lock = [a \in Archs |-> None]
    /\ ready = [a \in Archs |-> FALSE]
    /\ st = [a \in Archs |-> 0] /\ contents = [a \in Archs |-> 0]
    /\ missing = [a \in Archs |-> 0]
    /\ numread = [a \in Archs |-> 0] /\ basefile = [a \in Archs |-> FALSE]
    /\ pc = [t \in Threads |-> "out"] /\ arch = [t \in Threads |-> None]
    /\ tries = [t \in Threads |-> 0] /\ neednew = [t \in Threads |-> FALSE]
    /\ ent = [t \in Threads |-> "root"]
    /\ fil = [t \in Threads |-> None] /\ kind = [t \in Threads |-> "none"]
    /\ curr = [t \in Threads |-> "none"]

----------------------------------------------------------------------------
(* The environment: the base file is written to, and other archives push    *)
(* this one out of the file cache.                                         *)

BaseChanges ==
    /\ version < MaxVersion
    /\ version' = version + 1
    /\ UNCHANGED <<cached, refctr, lock, parsed, missing, base, getting, ent, file>>

\* filecache_check_limits.
Expire ==
    /\ cached # None
    /\ cached' = None
    /\ DropArch(cached)
    /\ UNCHANGED <<version, lock, base, getting, ent, file>>

----------------------------------------------------------------------------
(* get_archive.                                                            *)

Goto(t, place) == pc' = [pc EXCEPT ![t] = place]

\* A path is looked up from outside of the archive.
Enter(t) ==
    /\ pc[t] = "out" /\ fil[t] = None
    /\ Goto(t, "find")
    /\ UNCHANGED <<version, cached, refctr, lock, parsed, missing, base, arch, tries, neednew,
                   ent, file>>

\* find_archive: the one in the file cache, or a new one that is put there.
FindCached(t) ==
    /\ pc[t] = "find" /\ tries[t] <= MaxTries /\ cached # None
    /\ refctr' = Ref(cached)
    /\ arch' = [arch EXCEPT ![t] = cached]
    /\ Goto(t, "lock")
    /\ UNCHANGED <<version, cached, lock, parsed, missing, base, tries, neednew, ent, file>>

FindNew(t, a) ==
    /\ pc[t] = "find" /\ tries[t] <= MaxTries /\ cached = None
    /\ refctr[a] = 0
    /\ refctr' = [refctr EXCEPT ![a] = 2]
    /\ cached' = a
    /\ arch' = [arch EXCEPT ![t] = a]
    /\ Goto(t, "lock")
    /\ UNCHANGED <<version, lock, parsed, missing, base, tries, neednew, ent, file>>

\* "Giving up trying to create archive".
FindGivesUp(t) ==
    /\ pc[t] = "find" /\ tries[t] > MaxTries
    /\ Goto(t, "out")
    /\ tries' = [tries EXCEPT ![t] = 0]
    /\ UNCHANGED <<version, cached, refctr, lock, parsed, missing, base, arch, neednew, ent, file>>

\* The archive is the right one; arch_lookup goes on to its root and unlocks.
Got(t) ==
    /\ Goto(t, "in")
    /\ ent' = [ent EXCEPT ![t] = "root"]
    /\ tries' = [tries EXCEPT ![t] = 0]

\* Mutant of Refused: the archive stays locked.
RefusedLocked(t, again) ==
    /\ Goto(t, "unref")
    /\ tries' = [tries EXCEPT ![t] = @ + 1]
    /\ neednew' = [neednew EXCEPT ![t] = again]
    /\ lock' = [lock EXCEPT ![arch[t]] = t]
    /\ UNCHANGED ent

\* The archive cannot be made, or is outdated and another one is needed.
Refused(t, again) ==
    /\ Goto(t, "unref")
    /\ tries' = [tries EXCEPT ![t] = @ + 1]
    /\ neednew' = [neednew EXCEPT ![t] = again]
    /\ lock' = [lock EXCEPT ![arch[t]] = None]
    /\ UNCHANGED ent

\* check_archive.  getattr of the base file may fail.
Check(t) ==
    /\ pc[t] = "lock" /\ Free(arch[t]) /\ ready[arch[t]]
    /\ \/ st[arch[t]] = version /\ Got(t) /\ UNCHANGED <<neednew, lock>>
       \/ st[arch[t]] # version /\ Refused(t, TRUE)
       \/ Refused(t, FALSE)
    /\ UNCHANGED <<version, cached, refctr, parsed, missing, base, arch, file>>

\* new_archive begins.
ParseStart(t) ==
    /\ pc[t] = "lock" /\ Free(arch[t]) /\ ~ready[arch[t]]
    /\ lock' = [lock EXCEPT ![arch[t]] = t]
    /\ st' = [st EXCEPT ![arch[t]] = version]
    /\ contents' = [contents EXCEPT ![arch[t]] = version]
    /\ Goto(t, "parse")
    /\ UNCHANGED <<version, cached, refctr, ready, missing, base, arch, tries, neednew, ent, file>>

\* Mutant of Compared: the attributes of the base file are taken after the parse.
ComparedAfter(a) == version

\* What arch->st is when the parse ends: as taken before it.  (Only the size is
\* taken after it; if the file has changed meanwhile, the two match no version.)
Compared(a) == st[a]

\* new_archive ends; the base file was read at some time since its begin.
ParseEnds(t) ==
    /\ pc[t] = "parse"
    /\ \E v \in contents[arch[t]]..version : contents' = [contents EXCEPT ![arch[t]] = v]
    /\ st' = [st EXCEPT ![arch[t]] = Compared(arch[t])]
    /\ ready' = [ready EXCEPT ![arch[t]] = TRUE]
    /\ lock' = [lock EXCEPT ![arch[t]] = None]
    /\ Got(t)
    /\ UNCHANGED <<version, cached, refctr, missing, base, arch, neednew, file>>

\* The attributes of the base file cannot be had, or it is not an archive.
ParseFails(t) ==
    /\ \/ pc[t] = "parse"
       \/ pc[t] = "lock" /\ Free(arch[t]) /\ ~ready[arch[t]]
    /\ Refused(t, FALSE)
    /\ UNCHANGED <<version, cached, refctr, parsed, missing, base, arch, file>>

UnrefRefused(t) ==
    /\ pc[t] = "unref"
    /\ DropArch(arch[t])
    /\ arch' = [arch EXCEPT ![t] = None]
    /\ Goto(t, "uncache")
    /\ UNCHANGED <<version, cached, lock, base, tries, neednew, ent, file>>

\* av_filecache_set(key, NULL), whatever is in the file cache by now.
Uncache(t) ==
    /\ pc[t] = "uncache"
    /\ cached' = None
    /\ IF cached # None THEN DropArch(cached) ELSE UNCHANGED <<refctr, parsed, missing>>
    /\ Goto(t, IF neednew[t] THEN "find" ELSE "out")
    /\ tries' = [tries EXCEPT ![t] = IF neednew[t] THEN @ ELSE 0]
    /\ neednew' = [neednew EXCEPT ![t] = FALSE]
    /\ UNCHANGED <<version, lock, base, arch, ent, file>>

----------------------------------------------------------------------------
(* Entries.                                                                *)

Inside(t) == pc[t] = "in"

\* arch_lookup of a name in the root; a file or a missing name has none.
Lookup(t, name) ==
    /\ Inside(t) /\ Free(arch[t]) /\ ent[t] = "root" /\ name # "root"
    /\ ent' = [ent EXCEPT ![t] = name]
    /\ missing' = Moved(arch[t], "root", name)
    /\ UNCHANGED <<version, cached, refctr, lock, parsed, base, getting, file>>

\* arch_putent drops the entry, and then the archive; it does not lock.
PutEntry(t) ==
    /\ Inside(t) /\ ent[t] # "root"
    /\ missing' = Moved(arch[t], ent[t], "root")
    /\ ent' = [ent EXCEPT ![t] = "root"]
    /\ UNCHANGED <<version, cached, refctr, lock, parsed, base, getting, file>>

\* The same for the root, and arch_lookup of ".." in the root.
Leave(t) ==
    /\ Inside(t) /\ ent[t] = "root"
    /\ DropArch(arch[t])
    /\ arch' = [arch EXCEPT ![t] = None]
    /\ Goto(t, "out")
    /\ UNCHANGED <<version, cached, lock, base, tries, neednew, ent, file>>

\* arch_copyent, and the copy is given to u.
CopyEntry(t, u) ==
    /\ Inside(t) /\ pc[u] = "out" /\ fil[u] = None
    /\ refctr' = Ref(arch[t])
    /\ missing' = Moved(arch[t], "root", ent[t])
    /\ arch' = [arch EXCEPT ![u] = arch[t]] /\ ent' = [ent EXCEPT ![u] = ent[t]]
    /\ Goto(u, "in")
    /\ UNCHANGED <<version, cached, lock, parsed, base, tries, neednew, file>>

----------------------------------------------------------------------------
(* Files.                                                                  *)

\* Mutant of BaseReleased: the first reader that goes closes the base file.
BaseReleasedAlways(a, n) ==
    /\ numread' = [numread EXCEPT ![a] = n - 1]
    /\ basefile' = [basefile EXCEPT ![a] = FALSE]

\* arch_do_close: one of the n readers of the base file has gone; the last one closes it.
BaseReleased(a, n) ==
    /\ numread' = [numread EXCEPT ![a] = n - 1]
    /\ basefile' = [basefile EXCEPT ![a] = n > 1]

\* arch_do_open.  Only a file that is to be read opens the base file, which all
\* readers share.
Open(t, how) ==
    /\ Inside(t) /\ Free(arch[t]) /\ fil[t] = None
    /\ how # "none" /\ ent[t] # "missing" /\ (how = "list" => ent[t] = "root")
    /\ IF how = "read"
       THEN /\ basefile' = [basefile EXCEPT ![arch[t]] = TRUE]
            /\ numread' = [numread EXCEPT ![arch[t]] = @ + 1]
       ELSE UNCHANGED base
    /\ refctr' = Ref(arch[t])
    /\ fil' = [fil EXCEPT ![t] = arch[t]]
    /\ kind' = [kind EXCEPT ![t] = how]
    /\ UNCHANGED <<version, cached, lock, parsed, missing, getting, ent, curr>>

\* The open of a file that is to be read fails in the format's open, when it has been
\* counted as one more reader: it closes what it has opened, and gives its references
\* back.  (If the open of the base file fails, nothing has been done.)
OpenFails(t) ==
    /\ Inside(t) /\ Free(arch[t]) /\ fil[t] = None /\ ent[t] # "missing"
    /\ BaseReleased(arch[t], numread[arch[t]] + 1)
    /\ UNCHANGED <<version, cached, refctr, lock, parsed, missing, getting, ent, file>>

\* arch_readdir at some position: fil->curr becomes the entry there, if any.
ReadDir(t, next) ==
    /\ kind[t] = "list" /\ Free(fil[t])
    /\ next # "root" /\ (next = "missing" => missing[fil[t]] > 0)
    /\ missing' = Moved(fil[t], curr[t], next)
    /\ curr' = [curr EXCEPT ![t] = next]
    /\ UNCHANGED <<version, cached, refctr, lock, parsed, base, getting, ent, fil, kind>>

\* arch_close.  The archive is dropped before the entry the reader stands on.
Close(t) ==
    /\ fil[t] # None /\ Free(fil[t])
    /\ IF kind[t] = "read" THEN BaseReleased(fil[t], numread[fil[t]]) ELSE UNCHANGED base
    /\ refctr' = Unref(fil[t])
    /\ IF refctr[fil[t]] = 1 THEN Deleted(fil[t])
       ELSE missing' = Moved(fil[t], curr[t], "none") /\ UNCHANGED parsed
    /\ fil' = [fil EXCEPT ![t] = None]
    /\ kind' = [kind EXCEPT ![t] = "none"] /\ curr' = [curr EXCEPT ![t] = "none"]
    /\ UNCHANGED <<version, cached, lock, getting, ent>>

----------------------------------------------------------------------------
\* get_archive goes on ...
Continue(t) ==
    \/ FindCached(t) \/ FindGivesUp(t)
    \/ \E a \in Archs : FindNew(t, a)
    \/ Check(t) \/ ParseStart(t) \/ ParseEnds(t) \/ ParseFails(t)
    \/ UnrefRefused(t) \/ Uncache(t)

\* ... and what a program does.
Use(t) ==
    \/ Enter(t) \/ Leave(t) \/ PutEntry(t) \/ OpenFails(t) \/ Close(t)
    \/ \E name \in Names : Lookup(t, name)
    \/ \E u \in Threads : CopyEntry(t, u)
    \/ \E how \in Kinds : Open(t, how)
    \/ \E next \in Names \cup {"none"} : ReadDir(t, next)

Next == BaseChanges \/ Expire \/ \E t \in Threads : Use(t) \/ Continue(t)

Spec == Init /\ [][Next]_vars

\* A parse ends, and a thread that waits for the lock of an archive gets it.
FairSpec == Spec /\ \A t \in Threads : SF_vars(Continue(t))

----------------------------------------------------------------------------
(* What the archives promise.                                              *)

\* The types of the state.
TypeOK ==
    /\ version \in 1..MaxVersion /\ cached \in Archs \cup {None}
    /\ refctr \in [Archs -> Nat]
    /\ lock \in [Archs -> Threads \cup {None}]
    /\ ready \in [Archs -> BOOLEAN]
    /\ st \in [Archs -> 0..MaxVersion] /\ contents \in [Archs -> 0..MaxVersion]
    /\ missing \in [Archs -> Nat]
    /\ numread \in [Archs -> Nat] /\ basefile \in [Archs -> BOOLEAN]
    /\ pc \in [Threads -> Places] /\ arch \in [Threads -> Archs \cup {None}]
    /\ tries \in [Threads -> 0..(MaxTries + 1)] /\ neednew \in [Threads -> BOOLEAN]
    /\ ent \in [Threads -> Names]
    /\ fil \in [Threads -> Archs \cup {None}] /\ kind \in [Threads -> Kinds]
    /\ curr \in [Threads -> {"none", "file", "missing"}]

\* The references to an archive are those of the file cache, of get_archive and
\* of entries, and of files.  So an archive in use is not deleted when it is
\* replaced or falls out of the file cache, and one that nobody uses is.
HeldBy(f, a) == {t \in Threads : f[t] = a}
RefctrExact ==
    \A a \in Archs :
        refctr[a] = Cardinality(HeldBy(arch, a)) + Cardinality(HeldBy(fil, a))
                    + (IF cached = a THEN 1 ELSE 0)

\* A name that is not in the archive is remembered as long as somebody has
\* looked it up or stands on it in a listing, and no longer.
MissingExact ==
    \A a \in Archs :
        missing[a] = Cardinality({t \in HeldBy(arch, a) : Inside(t) /\ ent[t] = "missing"})
                     + Cardinality({t \in HeldBy(fil, a) : curr[t] = "missing"})

\* An archive that check_archive takes for the present one has the present tree,
\* also if the base file was changed during the parse.
PresentTree == \A a \in Archs : ready[a] /\ st[a] = version => contents[a] = version

\* An archive has one parser at a time, who holds its lock.
ParserAlone ==
    \A t \in Threads : pc[t] = "parse" =>
        /\ lock[arch[t]] = t
        /\ \A u \in Threads : pc[u] = "parse" /\ arch[u] = arch[t] => u = t

\* The base file of an archive is open as long as it has readers, and is closed
\* with the last of them, whatever else happens to the archive.
BaseFileShared ==
    \A a \in Archs :
        /\ numread[a] = Cardinality({t \in HeldBy(fil, a) : kind[t] = "read"})
        /\ basefile[a] <=> numread[a] > 0

\* get_archive comes to an end: everybody who waits for a parse gets the
\* archive, another one, or an error.
GetEnds == \A t \in Threads : pc[t] \notin {"out", "in"} ~> pc[t] \in {"out", "in"}

\* utils.c:329 reports "Unreferencing deleted object" as an error: when an
\* archive is deleted, nobody must be left who will drop one of its entries.
EntriesGoFirst ==
    [][\A a \in Archs : refctr[a] = 1 /\ refctr'[a] = 0 => missing[a] = 0]_vars

=============================================================================
