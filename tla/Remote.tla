-------------------------------- MODULE Remote --------------------------------
(***************************************************************************)
(* The remote framework (src/src/remote.c): a directory of a host and the  *)
(* entries in it.  Each entry has a node, which lives until the library is *)
(* left.  It keeps the attributes of the entry for a while, what a listing *)
(* has told, and a local copy of the file for as long as the disk cache    *)
(* lets it.                                                                *)
(*                                                                         *)
(* Who asks for the attributes of an entry holds the lock of its node and  *)
(* that of its parent's, for the answer may be a listing of the parent;    *)
(* the listing locks the nodes of all it finds.  A reader holds the        *)
(* `filelock' of the node, and takes the other two for a moment.  The      *)
(* reference nod->file is set under filelock by a reader and under the     *)
(* lock of the node by an open.                                            *)
(***************************************************************************)
EXTENDS Integers, FiniteSets

CONSTANTS
    Threads,     \* users, each with one call at a time
    Root,        \* the directory
    Files, Dirs, \* the entries it may have
    Copies,      \* addresses of local copies, each with its cell
    MaxVersion,  \* bound: versions of a remote file
    None         \* NULL

Kids  == Files \cup Dirs
Nodes == Kids \cup {Root}

ASSUME ThreadsCopiesFinite == IsFiniteSet(Threads) /\ IsFiniteSet(Copies) /\ IsFiniteSet(Kids)
ASSUME NoneIsNothing       == None \notin Threads \cup Copies \cup Nodes
ASSUME NodesDiffer         == Root \notin Kids /\ Files \cap Dirs = {}
ASSUME VersionsAreNumbers  == MaxVersion \in Nat \ {0}

VARIABLES
    ver,      \* the version of each file, 0 if it is not there
    dironly,  \* rem->flags has REM_DIR_ONLY
    attr,     \* nod->attr, as below
    file,     \* nod->file: the cell of a copy
    copy,     \* the copies: whether they are still transferred, and their signature
    copyref,  \* references to the copies, 0 where there is none
    cellref,  \* references to the cells, 0 where there is none
    incell,   \* whether the cell still has its copy
    lock,     \* who holds nod->lock
    filelock, \* who holds nod->filelock
    pc,       \* where a thread is
    call, at, \* what it does, and with which node
    fil,      \* its reference to a copy
    got,      \* what the remote host has listed
    todo,     \* the entries of it that are not in their nodes yet
    crashed   \* a cell that is not there has been used

remote  == <<ver, dironly>>
copies  == <<file, copy, copyref, cellref, incell>>
locks   == <<lock, filelock>>
lists   == <<got, todo>>
threads == <<pc, call, at, fil, lists>>
vars    == <<remote, attr, copies, locks, threads, crashed>>

\* Attributes: not known (valid = 0), of an entry that is there, with its version
\* (time of modification and size), of one that is missing, or those invented
\* for a root, which are valid for ever.
AttrType == [st : {"none", "there", "missing", "root"}, ver : 0..MaxVersion]
NoAttr   == [st |-> "none", ver |-> 0]
There(v) == [st |-> "there", ver |-> v]
Missing  == [st |-> "missing", ver |-> 0]
Invented == [st |-> "root", ver |-> 0]

Known(a) == a.st \in {"there", "root"}

Calls == {"none", "attr", "open", "check", "readdir", "read", "sign"}

NoList == [k \in Files |-> 0]

NoCopy == [data |-> FALSE, sig |-> 0]

\* The entries of a listing; directories stay, and their attributes are all one.
Entries(l) == Dirs \cup {k \in Files : l[k] # 0}
Attr(l, k) == There(IF k \in Files THEN l[k] ELSE 0)

\* A cell that has been freed, but is still in nod->file.
Gone(n) == file[n] # None /\ cellref[file[n]] = 0

\* What happens after the use of such a cell nobody knows; the model stops.
Alive == ~crashed

----------------------------------------------------------------------------
Init ==
    /\ ver \in [Files -> {0, 1}]
    /\ dironly \in BOOLEAN
    /\ attr = [n \in Nodes |-> NoAttr]
    /\ file = [n \in Nodes |-> None]
    /\ copy = [c \in Copies |-> NoCopy]
    /\ copyref = [c \in Copies |-> 0] /\ cellref = [c \in Copies |-> 0]
    /\ incell = [c \in Copies |-> FALSE]
    /\ lock = [n \in Nodes |-> None] /\ filelock = [n \in Nodes |-> None]
    /\ pc = [t \in Threads |-> "idle"] /\ call = [t \in Threads |-> "none"]
    /\ at = [t \in Threads |-> Root] /\ fil = [t \in Threads |-> None]
    /\ got = [t \in Threads |-> NoList] /\ todo = [t \in Threads |-> {}]
    /\ crashed = FALSE

----------------------------------------------------------------------------
(* The environment.                                                        *)

\* Somebody writes or makes the file k on the remote host ...
Modify(k) ==
    /\ Alive
    /\ \E v \in 1..MaxVersion \ {ver[k]} : ver' = [ver EXCEPT ![k] = v]
    /\ UNCHANGED <<dironly, attr, copies, locks, threads, crashed>>

\* ... or deletes it.
Delete(k) ==
    /\ Alive /\ ver[k] # 0
    /\ ver' = [ver EXCEPT ![k] = 0]
    /\ UNCHANGED <<dironly, attr, copies, locks, threads, crashed>>

\* rem_delete_file, when the last reference to a copy has gone.
KeepReferred(cp) ==
    copy' = [c \in Copies |-> IF copyref'[c] = 0 THEN NoCopy ELSE cp[c]]

\* The disk cache makes room: cacheobj_free, which may delete the local copy.
Evict(c) ==
    /\ Alive /\ incell[c]
    /\ incell' = [incell EXCEPT ![c] = FALSE]
    /\ copyref' = [copyref EXCEPT ![c] = @ - 1]
    /\ KeepReferred(copy)
    /\ UNCHANGED <<remote, attr, file, cellref, locks, threads, crashed>>

----------------------------------------------------------------------------
(* The locks of a node and its parent, and the attributes.                 *)

Goto(t, place) == pc' = [pc EXCEPT ![t] = place]

\* rem_get_locked_node begins.
Ask(t, c, n) ==
    /\ call' = [call EXCEPT ![t] = c] /\ at' = [at EXCEPT ![t] = n]
    /\ Goto(t, IF n = Root THEN "node" ELSE "parent")

\* A call that looks up or examines an entry, or opens a file.  (What an open does
\* with the node of a directory, `attr' does, too.)
Call(t, c, n) ==
    /\ Alive /\ pc[t] = "idle"
    /\ Ask(t, c, n)
    /\ UNCHANGED <<remote, attr, copies, locks, fil, lists, crashed>>

\* rem_readdir does without the parent.
ReadDir(t, n) ==
    /\ Alive /\ pc[t] = "idle"
    /\ call' = [call EXCEPT ![t] = "readdir"] /\ at' = [at EXCEPT ![t] = n]
    /\ Goto(t, "node")
    /\ UNCHANGED <<remote, attr, copies, locks, fil, lists, crashed>>

LockParent(t) ==
    /\ Alive /\ pc[t] = "parent" /\ lock[Root] = None
    /\ lock' = [lock EXCEPT ![Root] = t]
    /\ Goto(t, "node")
    /\ UNCHANGED <<remote, attr, copies, filelock, call, at, fil, lists, crashed>>

\* rem_put_locked_node: all nod->locks of t are given back.
Unlocked(t) == [n \in Nodes |-> IF lock[n] = t THEN None ELSE lock[n]]

\* The call has ended, and all locks are free.
Leave(t) ==
    /\ Goto(t, "idle")
    /\ call' = [call EXCEPT ![t] = "none"] /\ at' = [at EXCEPT ![t] = Root]
    /\ lock' = Unlocked(t)
    /\ filelock' = [n \in Nodes |-> IF filelock[n] = t THEN None ELSE filelock[n]]

\* What is done with the answer a once it is there, when rem_put_locked_node has
\* given the locks back: a call ends, an open of a file looks after the local
\* copy, and a new copy gets its signature.
Answer(t, a) ==
    LET n == at[t]
        goeson == call[t] = "open" /\ Known(a)
    IN
    \/ /\ call[t] \in {"attr", "readdir", "open"} /\ ~goeson
       /\ Leave(t)
       /\ UNCHANGED copy
    \/ /\ goeson
       /\ lock' = Unlocked(t) /\ Ask(t, "check", n)
       /\ UNCHANGED <<copy, filelock>>
    \/ /\ call[t] = "check"
       /\ Goto(t, "compare")
       /\ UNCHANGED <<copy, locks, call, at>>
    \/ /\ call[t] = "sign"
       /\ copy' = [copy EXCEPT ![fil[t]].sig = IF Known(a) THEN a.ver ELSE 0]
       /\ lock' = Unlocked(t) /\ Goto(t, "replace")
       /\ UNCHANGED <<filelock, call, at>>

\* What is known may be enough for the call, and may have to be: rem_node_type,
\* rem_check_node, rem_check_dir.  Attributes and listings get too old after
\* REM_ST_VALID or REM_DIR_VALID seconds; when that is, is left open.
MayAnswer(t) == call[t] = "readdir" \/ attr[at[t]] # NoAttr
MayAsk(t)    == IF call[t] = "open" THEN ~Known(attr[at[t]]) ELSE attr[at[t]] # Invented

\* While the remote host is asked, nothing is known.
AskHost(t) ==
    /\ MayAsk(t)
    /\ lock' = [lock EXCEPT ![at[t]] = t]
    /\ Goto(t, "list")
    /\ attr' = IF call[t] = "readdir" THEN attr ELSE [attr EXCEPT ![at[t]] = NoAttr]
    /\ UNCHANGED <<copy, filelock, call, at>>

LockNode(t) ==
    /\ Alive /\ pc[t] = "node" /\ lock[at[t]] = None /\ call[t] # "check"
    /\ \/ MayAnswer(t) /\ Answer(t, attr[at[t]]) /\ UNCHANGED attr
       \/ AskHost(t)
    /\ UNCHANGED <<remote, file, copyref, cellref, incell, fil, lists, crashed>>

\* The directory that is listed: that of the call, the parent of a node if the
\* remote host can only list directories (rem_dir_only), or none.
Listed(t) ==
    IF at[t] = Root \/ (dironly /\ call[t] # "readdir") THEN Root ELSE at[t]

Single(t) == call[t] # "readdir" /\ ~dironly

\* rem->list fails.  (That the directory itself has gone is left out.)
ListFails(t) ==
    /\ Alive /\ pc[t] = "list"
    /\ Answer(t, attr[at[t]])
    /\ UNCHANGED <<remote, attr, file, copyref, cellref, incell, fil, lists, crashed>>

\* rem_get_attr for an entry that was not listed; that can happen to a root.
NotListed(n) == IF n = Root THEN Invented ELSE Missing

\* rem_list_single.
ListSingle(t) ==
    LET n == at[t] IN
    /\ Alive /\ pc[t] = "list" /\ Single(t)
    /\ \E a \in IF n = Root THEN {There(0), Invented}
                ELSE {IF n \in Entries(ver) THEN Attr(ver, n) ELSE Missing} :
          attr' = [attr EXCEPT ![n] = a] /\ Answer(t, a)
    /\ UNCHANGED <<remote, file, copyref, cellref, incell, fil, lists, crashed>>

\* The remote host lists a directory, which takes time; by the end of it some of
\* what it says may be wrong.
List(t) ==
    /\ Alive /\ pc[t] = "list" /\ ~Single(t)
    /\ IF Listed(t) = Root
       THEN got' = [got EXCEPT ![t] = ver] /\ todo' = [todo EXCEPT ![t] = Entries(ver)]
       ELSE UNCHANGED lists
    /\ Goto(t, "fill")
    /\ UNCHANGED <<remote, attr, copies, locks, call, at, fil, crashed>>

\* Mutant of Fillable: the lock of the node that is asked for is taken, too.
FillableLocking(t, k) == lock[k] = None

\* The node of k is locked, unless it is already.
Fillable(t, k) == lock[k] = None \/ k = at[t]

\* One entry of rem_list_dir.
Fill(t, k) ==
    /\ Alive /\ pc[t] = "fill" /\ k \in todo[t] /\ Fillable(t, k)
    /\ attr' = [attr EXCEPT ![k] = Attr(got[t], k)]
    /\ todo' = [todo EXCEPT ![t] = @ \ {k}]
    /\ UNCHANGED <<remote, copies, locks, pc, call, at, fil, got, crashed>>

\* Mutant of Found: only the directory itself can be found.
FoundDirectory(t, dots) == at[t] = Listed(t) /\ dots

\* Whether what was asked for is among the entries, of which `.' may be one.
Found(t, dots) ==
    IF at[t] = Listed(t) THEN dots ELSE at[t] \in Entries(got[t])

\* The end of rem_list_dir, and of rem_get_attr.
FillEnd(t) ==
    LET d == Listed(t)  n == at[t] IN
    /\ Alive /\ pc[t] = "fill" /\ todo[t] = {}
    /\ \E dots \in BOOLEAN :
          LET withdot == IF dots THEN [attr EXCEPT ![d] = There(0)] ELSE attr
              new     == IF call[t] = "readdir" \/ Found(t, dots) THEN withdot
                         ELSE [withdot EXCEPT ![n] = NotListed(n)]
          IN  attr' = new /\ Answer(t, new[n])
    /\ got' = [got EXCEPT ![t] = NoList]
    /\ UNCHANGED <<remote, file, copyref, cellref, incell, fil, todo, crashed>>

----------------------------------------------------------------------------
(* Opening a file: is its local copy still good?                           *)

\* The node has a copy, for av_cacheobj_get.
HasCopy(n) == file[n] # None /\ incell[file[n]]

\* Mutant of Hold: the reference is not counted.
HoldUncounted(t) ==
    /\ fil' = [fil EXCEPT ![t] = file[at[t]]]
    /\ UNCHANGED copyref

\* fil is a new reference to that copy.
Hold(t) ==
    LET c == file[at[t]] IN
    /\ fil' = [fil EXCEPT ![t] = c]
    /\ copyref' = [copyref EXCEPT ![c] = @ + 1]

\* rem_check_file, with the locks that rem_get_locked_node takes.
CheckCopy(t) ==
    /\ Alive /\ pc[t] = "node" /\ lock[at[t]] = None /\ call[t] = "check"
    /\ crashed' = Gone(at[t])
    /\ \/ /\ HasCopy(at[t]) /\ Hold(t)
          /\ \/ /\ MayAnswer(t) /\ Goto(t, "compare")
                /\ lock' = [lock EXCEPT ![at[t]] = t]
                /\ UNCHANGED <<attr, copy, filelock, call, at>>
             \/ AskHost(t)
       \/ /\ ~HasCopy(at[t])
          /\ Leave(t)
          /\ UNCHANGED <<fil, copy, copyref, attr>>
    /\ UNCHANGED <<remote, file, cellref, incell, lists>>

\* rem_signature_valid.
SameFile(t) == Known(attr[at[t]]) /\ attr[at[t]].ver = copy[fil[t]].sig

\* The end of a call that has a copy, among the copies cp.
LeaveCopy(t, cp) ==
    /\ copyref' = [copyref EXCEPT ![fil[t]] = @ - 1]
    /\ KeepReferred(cp)
    /\ fil' = [fil EXCEPT ![t] = None]
    /\ Leave(t)

Compare(t) ==
    /\ Alive /\ pc[t] = "compare"
    /\ IF SameFile(t) THEN LeaveCopy(t, copy)
       ELSE Goto(t, "drop") /\ UNCHANGED <<copy, copyref, locks, call, at, fil>>
    /\ UNCHANGED <<remote, attr, file, cellref, incell, lists, crashed>>

\* av_unref_obj of nod->file.  With its last reference a cell drops its copy.
UnrefCell(n) ==
    LET c == file[n] IN
    /\ crashed' = Gone(n)
    /\ IF c = None \/ Gone(n) THEN UNCHANGED <<cellref, incell, copyref>>
       ELSE /\ cellref' = [cellref EXCEPT ![c] = @ - 1]
            /\ incell' = [incell EXCEPT ![c] = @ /\ cellref[c] > 1]
            /\ copyref' = [copyref EXCEPT ![c] = IF incell[c] /\ cellref[c] = 1
                                                 THEN @ - 1 ELSE @]
    /\ KeepReferred(copy)

\* The copy is not to be used again ...
Drop(t) ==
    /\ Alive /\ pc[t] = "drop"
    /\ UnrefCell(at[t])
    /\ Goto(t, "clear")
    /\ UNCHANGED <<remote, attr, file, locks, call, at, fil, lists>>

\* ... and nod->file is set to NULL.
Clear(t) ==
    /\ Alive /\ pc[t] = "clear"
    /\ file' = [file EXCEPT ![at[t]] = None]
    /\ LeaveCopy(t, copy)
    /\ UNCHANGED <<remote, attr, cellref, incell, lists, crashed>>

----------------------------------------------------------------------------
(* Reading a file.                                                         *)

\* The reader t takes the filelock, and a reference to the copy c.
Begin(t, n, c) ==
    /\ filelock' = [filelock EXCEPT ![n] = t]
    /\ fil' = [fil EXCEPT ![t] = c]

\* No reference, no cell and no node has the address c.
Unused(c) == copyref[c] = 0 /\ cellref[c] = 0 /\ \A n \in Nodes : file[n] # c

\* A call that has the filelock: rem_get_file finds a copy, or fails to get one, or
\* rem->get has made one or begun a transfer, and rem_get_signature asks for the
\* attributes.
Read(t, n) ==
    /\ Alive /\ pc[t] = "idle" /\ filelock[n] = None
    /\ crashed' = Gone(n)
    /\ \/ /\ HasCopy(n) /\ Begin(t, n, file[n])
          /\ copyref' = [copyref EXCEPT ![file[n]] = @ + 1]
          /\ call' = [call EXCEPT ![t] = "read"] /\ at' = [at EXCEPT ![t] = n]
          /\ Goto(t, "wait")
          /\ UNCHANGED copy
       \/ ~HasCopy(n) /\ UNCHANGED <<copy, copyref, filelock, threads>>
       \/ /\ ~HasCopy(n)
          /\ \E c \in Copies, more \in BOOLEAN :
                /\ Unused(c) /\ Begin(t, n, c)
                /\ copy' = [copy EXCEPT ![c] = [data |-> more, sig |-> 0]]
                /\ copyref' = [copyref EXCEPT ![c] = 1]
          /\ Ask(t, "sign", n)
    /\ UNCHANGED <<remote, attr, file, cellref, incell, lock, lists>>

\* The old cell goes ...
Replace(t) ==
    /\ Alive /\ pc[t] = "replace"
    /\ UnrefCell(at[t])
    /\ Goto(t, "store")
    /\ UNCHANGED <<remote, attr, file, locks, call, at, fil, lists>>

\* ... and the new one comes; some modules answer that the size is not known yet.
Store(t) ==
    LET c == fil[t] IN
    /\ Alive /\ pc[t] = "store"
    /\ file' = [file EXCEPT ![at[t]] = c]
    /\ cellref' = [cellref EXCEPT ![c] = 1] /\ incell' = [incell EXCEPT ![c] = TRUE]
    /\ copyref' = [copyref EXCEPT ![c] = @ + 1]
    /\ \E place \in IF copy[c].data THEN {"size", "wait"} ELSE {"size"} : Goto(t, place)
    /\ UNCHANGED <<remote, attr, copy, locks, call, at, fil, lists, crashed>>

\* av_cacheobj_setsize needs a cell.
NoCell(n) == file[n] = None \/ Gone(n)

SetSize(t) ==
    /\ Alive /\ pc[t] = "size"
    /\ crashed' = NoCell(at[t])
    /\ Goto(t, "wait")
    /\ UNCHANGED <<remote, attr, copies, locks, call, at, fil, lists>>

\* Mutant of WaitFails: the bad copy is kept in the cache, and in the reader's hands.
WaitFailsHolding(t) ==
    /\ Alive /\ pc[t] = "wait"
    /\ Leave(t) /\ fil' = [fil EXCEPT ![t] = None]
    /\ UNCHANGED <<remote, attr, copies, lists, crashed>>

\* The transfer fails, or the local copy cannot be read.
WaitFails(t) ==
    /\ Alive /\ pc[t] = "wait"
    /\ Goto(t, "drop")
    /\ UNCHANGED <<remote, attr, copies, locks, call, at, fil, lists, crashed>>

\* rem_wait_data, in which the transfer may end, and rem_real_read.
Wait(t) ==
    /\ Alive /\ pc[t] = "wait"
    /\ \E more \in {copy[fil[t]].data, FALSE} :
          /\ LeaveCopy(t, [copy EXCEPT ![fil[t]].data = more])
          /\ crashed' = (more # copy[fil[t]].data /\ NoCell(at[t]))
    /\ UNCHANGED <<remote, attr, file, cellref, incell, lists>>

----------------------------------------------------------------------------
\* The steps of a call under way.
Continue(t) ==
    \/ LockParent(t) \/ LockNode(t)
    \/ ListFails(t) \/ ListSingle(t) \/ List(t)
    \/ \E k \in Kids : Fill(t, k)
    \/ FillEnd(t)
    \/ CheckCopy(t) \/ Compare(t) \/ Drop(t) \/ Clear(t)
    \/ Replace(t) \/ Store(t) \/ SetSize(t) \/ WaitFails(t) \/ Wait(t)

Next ==
    \/ \E k \in Files : Modify(k) \/ Delete(k)
    \/ \E c \in Copies : Evict(c)
    \/ \E t \in Threads :
          \/ \E n \in Nodes : Call(t, "attr", n)
          \/ \E n \in Files : Call(t, "open", n)
          \/ \E n \in Dirs \cup {Root} : ReadDir(t, n)
          \/ \E n \in Files : Read(t, n)
          \/ Continue(t)

Spec == Init /\ [][Next]_vars

----------------------------------------------------------------------------
(* What the framework promises.                                            *)

Places == {"idle", "parent", "node", "list", "fill", "compare", "drop", "clear",
           "replace", "store", "size", "wait"}

\* The types of the state.
TypeOK ==
    /\ ver \in [Files -> 0..MaxVersion]
    /\ dironly \in BOOLEAN
    /\ attr \in [Nodes -> AttrType]
    /\ file \in [Nodes -> Copies \cup {None}]
    /\ copy \in [Copies -> [data : BOOLEAN, sig : 0..MaxVersion]]
    /\ copyref \in [Copies -> Nat] /\ cellref \in [Copies -> Nat]
    /\ incell \in [Copies -> BOOLEAN]
    /\ lock \in [Nodes -> Threads \cup {None}] /\ filelock \in [Nodes -> Threads \cup {None}]
    /\ pc \in [Threads -> Places] /\ call \in [Threads -> Calls]
    /\ at \in [Threads -> Nodes] /\ fil \in [Threads -> Copies \cup {None}]
    /\ got \in [Threads -> [Files -> 0..MaxVersion]] /\ todo \in [Threads -> SUBSET Kids]
    /\ crashed \in BOOLEAN

\* A local copy is kept by the calls that use it and by its cell, and deleted with
\* the last of them: none is deleted while somebody waits for it or reads it, and
\* none stays in /tmp when everybody has gone.
CopiesExact ==
    \A c \in Copies :
        copyref[c] = Cardinality({t \in Threads : fil[t] = c}) + (IF incell[c] THEN 1 ELSE 0)

\* Nobody is told that an entry is missing that has always been there, whoever
\* was asked for it and whatever else the listing was made for.
MissingTrue == \A k \in Dirs : attr[k] # Missing

\* Whom t waits for.
Awaited(t) ==
    CASE pc[t] = "parent" -> {lock[Root]} \ {None}
      [] pc[t] = "node"   -> {lock[at[t]]} \ {None}
      [] pc[t] = "fill"   -> {lock[k] : k \in {k \in todo[t] : ~Fillable(t, k)}} \ {None}
      [] OTHER            -> {}

\* Nobody waits for himself, nor for somebody who does not get any further either,
\* although a call locks a node, its parent and, one after the other, all its
\* siblings, and a reader as many with the filelock in its hands.
NoCircle ==
    \A T \in (SUBSET Threads) \ {{}} : \E t \in T : Awaited(t) \cap T = {}

=============================================================================
