-------------------------------- MODULE Filter --------------------------------
(***************************************************************************)
(* The filter handler (src/src/filter.c) for one path.  All who have the   *)
(* file open share a node: the translation of the base file (a serial      *)
(* file), the open base file it is made from, and what the base file       *)
(* looked like then.  An open compares that with the base file, a last     *)
(* close for writing translates back and closes the base file.             *)
(*                                                                         *)
(* A node is kept by its users and by a cell of the disk cache, which may  *)
(* be emptied at any time; the cell by its users and by the file cache,    *)
(* which may drop it at any time.                                          *)
(*                                                                         *)
(* The bytes are left to SerialFile: of the serial file there is the state *)
(* and whether it has changes.  What a function does under nod->lock is    *)
(* one step, except for the flush and what follows it.                     *)
(***************************************************************************)
EXTENDS Integers, FiniteSets

CONSTANTS
    Threads,     \* users, each with one file open at a time
    Nodes,       \* addresses of filtnodes, each with its cell
    Inodes,      \* files that may have the path
    MaxVersion,  \* bound: the newest version of a base file
    None         \* NULL

ASSUME ThreadsNodesFinite == IsFiniteSet(Threads) /\ IsFiniteSet(Nodes)
ASSUME NoneIsNothing      == None \notin Threads \cup Nodes
ASSUME VersionsAreNumbers == MaxVersion \in Nat \ {0}

VARIABLES
    now,      \* the newest version of a base file
    path,     \* the inode the path leads to
    ver,      \* the version of each inode: its size and time
    nopen,    \* how many vfiles of base files are open
    node,     \* the nodes, as below
    refctr,   \* references to the nodes, 0 where there is none
    cellref,  \* references to the cells, 0 where there is none
    incell,   \* whether the cell still has its node
    cached,   \* the cell in the file cache
    lock,     \* the thread that holds nod->lock between two steps
    pc,       \* where a thread is
    nod,      \* its ff->nod
    how,      \* the base file is opened to "read", "write", or "truncate"
    ino, buf, \* the inode of the vfile it has opened, and what getattr said
    size,     \* in filt_afterflush
    crashed   \* a vfile that is not open has been used

base    == <<now, path, ver>>
nodes   == <<node, refctr, cellref, incell, cached>>
threads == <<pc, nod, how, ino, buf, size>>
vars    == <<base, nopen, nodes, lock, threads, crashed>>

\* A node: its inode, version (-1 for a size of -1), writers, vfile (how it was
\* opened), whether the serial file was told of that vfile, and the serial file.
NodeType ==
    [id : Inodes \cup {None}, mod : -1..MaxVersion, writers : Nat,
     vf : {"none", "ro", "rw"}, told : BOOLEAN,
     sf : {"begin", "read", "fini"}, dirty : BOOLEAN]

NoNode == [id |-> None, mod |-> -1, writers |-> 0, vf |-> "none", told |-> FALSE,
           sf |-> "begin", dirty |-> FALSE]

Hows == {"read", "write", "truncate"}
IsWrite(t) == how[t] # "read"
VfOf(t) == IF IsWrite(t) THEN "rw" ELSE "ro"
Open(vf) == IF vf = "none" THEN 0 ELSE 1

\* The connection of a serial file reads a vfile, and seeks in it when it ends.
Dangling(d) == d.sf = "read" /\ ~d.told

\* After that anything may happen; the model stops.
Alive == ~crashed

----------------------------------------------------------------------------
Init ==
    /\ now = 1 /\ path \in Inodes /\ ver = [i \in Inodes |-> 1]
    /\ nopen = 0
    /\ node = [n \in Nodes |-> NoNode]
    /\ refctr = [n \in Nodes |-> 0] /\ cellref = [n \in Nodes |-> 0]
    /\ incell = [n \in Nodes |-> FALSE] /\ cached = None
    /\ lock = [n \in Nodes |-> None]
    /\ pc = [t \in Threads |-> "out"] /\ nod = [t \in Threads |-> None]
    /\ how = [t \in Threads |-> "read"]
    /\ ino = [t \in Threads |-> None] /\ buf = [t \in Threads |-> -1]
    /\ size = [t \in Threads |-> -1]
    /\ crashed = FALSE

----------------------------------------------------------------------------
(* The environment.                                                        *)

\* The size or time of the file i becomes a new one.
Changed(i) ==
    /\ now < MaxVersion
    /\ now' = now + 1 /\ ver' = [ver EXCEPT ![i] = now + 1]

\* Another program writes to the base file ...
Modify ==
    /\ Alive /\ Changed(path)
    /\ UNCHANGED <<path, nopen, nodes, lock, threads, crashed>>

\* ... or puts another file in its place.  Its inode is not one that is open.
Rename(i) ==
    /\ Alive /\ i # path
    /\ \A t \in Threads : pc[t] \notin {"base", "new", "wait"} \/ ino[t] # i
    /\ \A n \in Nodes : node[n].id = i => node[n].vf = "none"
    /\ Changed(i) /\ path' = i
    /\ UNCHANGED <<nopen, nodes, lock, threads, crashed>>

\* Of the references to node n, k are left, and d is what the step made of it; the
\* last one frees it: filtnode_free drops the serial file and closes the vfile.
\* The step has itself closed c vfiles.
Left(n, k, d, c) ==
    /\ refctr' = [refctr EXCEPT ![n] = k]
    /\ node' = [node EXCEPT ![n] = IF k = 0 THEN NoNode ELSE d]
    /\ nopen' = nopen - c - (IF k = 0 THEN Open(d.vf) ELSE 0)
    /\ crashed' = (k = 0 /\ Dangling(d))

\* The disk cache makes room: cacheobj_free.
Evict(n) ==
    /\ Alive /\ incell[n]
    /\ incell' = [incell EXCEPT ![n] = FALSE]
    /\ Left(n, refctr[n] - 1, node[n], 0)
    /\ UNCHANGED <<base, cellref, cached, lock, threads>>

\* A reference to the cell n is dropped, with the last one also that of the cell to
\* the node; k more are dropped of the node; the step has closed c vfiles.
DropCell(n, k, d, c) ==
    LET had == IF cellref[n] = 1 /\ incell[n] THEN 1 ELSE 0 IN
    /\ cellref' = [cellref EXCEPT ![n] = @ - 1]
    /\ incell' = [incell EXCEPT ![n] = @ /\ cellref[n] > 1]
    /\ Left(n, refctr[n] - k - had, d, c)

\* filecache_delete: the path has not been used for long, or gets a new node.
Expire ==
    /\ Alive /\ cached # None
    /\ cached' = None
    /\ DropCell(cached, 0, node[cached], 0)
    /\ UNCHANGED <<base, lock, threads>>

----------------------------------------------------------------------------
(* Opening.                                                                *)

Goto(t, place) == pc' = [pc EXCEPT ![t] = place]

\* filt_open_base; a truncation is seen at once.
OpenBase(t, h) ==
    /\ Alive /\ pc[t] = "out"
    /\ IF h = "truncate" THEN Changed(path) ELSE UNCHANGED <<now, ver>>
    /\ nopen' = nopen + 1
    /\ how' = [how EXCEPT ![t] = h] /\ ino' = [ino EXCEPT ![t] = path]
    /\ Goto(t, "base")
    /\ UNCHANGED <<path, nodes, lock, nod, buf, size, crashed>>

\* The thread is outside again.
Out(t) ==
    /\ Goto(t, "out")
    /\ nod' = [nod EXCEPT ![t] = None] /\ how' = [how EXCEPT ![t] = "read"]
    /\ ino' = [ino EXCEPT ![t] = None] /\ buf' = [buf EXCEPT ![t] = -1]
    /\ size' = [size EXCEPT ![t] = -1]

\* getattr of the base file fails, or it has no path.
GetFileFails(t) ==
    /\ Alive /\ pc[t] = "base"
    /\ nopen' = nopen - 1
    /\ Out(t)
    /\ UNCHANGED <<base, nodes, lock, crashed>>

\* Mutant of Found: the new user is not counted.
FoundUncounted(n) == UNCHANGED <<refctr, cellref>>

\* av_filecache_get and av_cacheobj_get.
Found(n) ==
    /\ refctr' = [refctr EXCEPT ![n] = @ + 1]
    /\ cellref' = [cellref EXCEPT ![n] = @ + 1]

\* filt_getfile: the node of the same file, or none.
GetFile(t) ==
    /\ Alive /\ pc[t] = "base"
    /\ buf' = [buf EXCEPT ![t] = ver[ino[t]]]
    /\ IF cached # None /\ incell[cached] /\ node[cached].id = ino[t]
       THEN Found(cached) /\ nod' = [nod EXCEPT ![t] = cached] /\ Goto(t, "wait")
       ELSE Goto(t, "new") /\ UNCHANGED <<refctr, cellref, nod>>
    /\ UNCHANGED <<base, nopen, node, incell, cached, lock, how, ino, size, crashed>>

\* av_sfile_truncate of the serial file of d to nothing.  It may be empty
\* already, or the temporary file may fail.
Truncated(d) ==
    {[d EXCEPT !.sf = "fini", !.dirty = TRUE], [d EXCEPT !.sf = "begin", !.dirty = FALSE]}
    \cup (IF d.sf = "fini" THEN {d} ELSE {})

\* The rest of filt_open_file: what becomes of the node.
Opened(t, d) ==
    LET e == [d EXCEPT !.writers = IF IsWrite(t) THEN @ + 1 ELSE @]
    IN  IF how[t] = "truncate" THEN Truncated(e) ELSE {e}

\* filt_newnode.  What the file cache has by now is dropped first (Expire).
NewNode(t, n) ==
    /\ Alive /\ pc[t] = "new" /\ cached = None /\ refctr[n] = 0 /\ cellref[n] = 0
    /\ cached' = n
    /\ incell' = [incell EXCEPT ![n] = TRUE]
    /\ refctr' = [refctr EXCEPT ![n] = 2] /\ cellref' = [cellref EXCEPT ![n] = 2]
    /\ \E d \in Opened(t, [NoNode EXCEPT !.id = ino[t], !.mod = buf[t], !.vf = VfOf(t),
                                           !.told = TRUE]) :
          node' = [node EXCEPT ![n] = d]
    /\ nod' = [nod EXCEPT ![t] = n]
    /\ Goto(t, "open")
    /\ UNCHANGED <<base, nopen, lock, how, ino, buf, size, crashed>>

\* Nobody is in a function of the node.
Free(t) == lock[nod[t]] = None

\* The thread has got the node and waits for its lock; what the base file looks
\* like now is not known.
Waiting(t)    == Alive /\ pc[t] = "wait" /\ Free(t)
Idle(t)       == node[nod[t]].writers = 0
Unmodified(t) == node[nod[t]].mod = buf[t]

\* filt_validate_file leaves d, and the open is done; c vfiles have been closed.
Validated(t, d, c) ==
    /\ \E e \in Opened(t, d) : node' = [node EXCEPT ![nod[t]] = e]
    /\ nopen' = nopen - c
    /\ Goto(t, "open")
    /\ UNCHANGED <<base, refctr, cellref, incell, cached, lock, nod, how, ino, buf, size>>

\* The base file has changed: all starts anew.
Renew(t) ==
    LET d == node[nod[t]] IN
    /\ Waiting(t) /\ Idle(t) /\ ~Unmodified(t)
    /\ crashed' = Dangling(d)
    /\ Validated(t, [d EXCEPT !.sf = "begin", !.dirty = FALSE, !.vf = VfOf(t), !.told = TRUE,
                               !.mod = buf[t]], Open(d.vf))

\* Mutant of SwitchNeeded: the vfile of a reader is good enough.
SwitchNever(t) == FALSE

\* The first writer needs a vfile that can be written.
SwitchNeeded(t) == Idle(t) /\ Unmodified(t) /\ IsWrite(t)

\* The serial file goes on with the vfile of the first writer, at the position
\* of the old one.
Switch(t) ==
    LET d == node[nod[t]] IN
    /\ Waiting(t) /\ SwitchNeeded(t)
    /\ crashed' = (d.vf = "none")
    /\ Validated(t, [d EXCEPT !.vf = "rw", !.told = TRUE], Open(d.vf))

\* A seek for that fails, and so does the open.
SwitchFails(t) ==
    LET d == node[nod[t]] IN
    /\ Waiting(t) /\ SwitchNeeded(t) /\ d.vf # "none"
    /\ DropCell(nod[t], 1, d, 1)
    /\ Out(t)
    /\ UNCHANGED <<base, cached, lock>>

\* Mutant of Surplus: the vfile that is not needed is forgotten.
SurplusForgotten == 0

\* Mutant of Surplus: it is closed twice.
SurplusTwice == 2

\* How many vfiles are closed if that of the node is good enough.
Surplus == 1

Join(t) ==
    /\ Waiting(t) /\ ~SwitchNeeded(t) /\ (Idle(t) => Unmodified(t))
    /\ Validated(t, node[nod[t]], Surplus)
    /\ UNCHANGED crashed

----------------------------------------------------------------------------
(* Using.                                                                  *)

Using(t) == Alive /\ pc[t] = "open" /\ Free(t)

\* The serial file of d is asked for more, or for all of its source, which may
\* fail.
Fetched(d) == {[d EXCEPT !.sf = s] : s \in {"begin", "read", "fini"}}

\* filt_read, where the serial file is not complete.
Read(t) ==
    LET d == node[nod[t]] IN
    /\ Using(t) /\ d.sf # "fini"
    /\ crashed' = ~d.told
    /\ \E e \in Fetched(d) : node' = [node EXCEPT ![nod[t]] = e]
    /\ UNCHANGED <<base, nopen, refctr, cellref, incell, cached, lock, threads>>

\* filt_getattr also asks the vfile.
GetAttr(t) ==
    LET d == node[nod[t]] IN
    /\ Using(t)
    /\ crashed' = (d.vf = "none" \/ (d.sf # "fini" /\ ~d.told))
    /\ \E e \in {d} \cup (IF d.sf = "fini" THEN {} ELSE Fetched(d)) :
          node' = [node EXCEPT ![nod[t]] = e]
    /\ UNCHANGED <<base, nopen, refctr, cellref, incell, cached, lock, threads>>

\* filt_setattr sets the time of the base file, but not that of the node.
SetAttr(t) ==
    LET d == node[nod[t]] IN
    /\ Using(t)
    /\ crashed' = (d.vf = "none")
    /\ IF d.vf = "none" THEN UNCHANGED <<now, ver>> ELSE Changed(d.id)
    /\ UNCHANGED <<path, nopen, nodes, lock, threads>>

\* An operation fails on the temporary file: sfile_reset forgets all changes.
Lose(t) ==
    LET d == node[nod[t]] IN
    /\ Using(t) /\ d.sf = "fini"
    /\ node' = [node EXCEPT ![nod[t]] = [d EXCEPT !.sf = "begin", !.dirty = FALSE]]
    /\ UNCHANGED <<base, nopen, refctr, cellref, incell, cached, lock, threads, crashed>>

\* filt_write and filt_truncate, which fetch the whole source first.
Write(t) ==
    LET d == node[nod[t]] IN
    /\ Using(t) /\ IsWrite(t)
    /\ crashed' = (d.sf # "fini" /\ ~d.told)
    /\ \E time \in {d.mod, -1} :
          node' = [node EXCEPT ![nod[t]] =
                      [d EXCEPT !.sf = "fini", !.dirty = TRUE, !.mod = time]]
    /\ UNCHANGED <<base, nopen, refctr, cellref, incell, cached, lock, threads>>

----------------------------------------------------------------------------
(* Closing.                                                                *)

\* A reader closes, or one of several writers.
Close(t) ==
    LET d == node[nod[t]] IN
    /\ Using(t) /\ (IsWrite(t) => d.writers > 1)
    /\ DropCell(nod[t], 1, [d EXCEPT !.writers = IF IsWrite(t) THEN @ - 1 ELSE @], 0)
    /\ Out(t)
    /\ UNCHANGED <<base, cached, lock>>

\* Mutant of Flushed: after an error the changes are still there.
FlushedKeeping(d) == {[d EXCEPT !.dirty = FALSE], [d EXCEPT !.sf = "begin"]}

\* av_sfile_flush with changes: they are in the base file, or, with an error, lost.
Flushed(d) == {[d EXCEPT !.dirty = FALSE], [d EXCEPT !.sf = "begin", !.dirty = FALSE]}

\* The last writer closes: the flush, and filt_afterflush closes the vfile.  The
\* base file is as it was if there was nothing to flush, or this failed at once.
LastClose(t) ==
    LET n == nod[t]  d == [node[n] EXCEPT !.writers = 0] IN
    /\ Using(t) /\ IsWrite(t) /\ node[n].writers = 1
    /\ crashed' = (d.vf = "none")
    /\ \E e \in IF d.dirty THEN Flushed(d) ELSE {d} :
          /\ node' = [node EXCEPT ![n] = [e EXCEPT !.vf = "none", !.told = FALSE, !.mod = -1]]
          /\ \/ d.dirty /\ Changed(d.id)
             \/ (d.dirty => e.sf = "begin") /\ UNCHANGED <<now, ver>>
    /\ nopen' = nopen - Open(d.vf)
    /\ \E s \in {ver'[d.id], -1} : size' = [size EXCEPT ![t] = s]
    /\ lock' = [lock EXCEPT ![n] = t]
    /\ Goto(t, "stat")
    /\ UNCHANGED <<path, refctr, cellref, incell, cached, nod, how, ino, buf>>

\* The rest of filt_afterflush: the base file is opened again by its path, and
\* if it is the same, this is what it looks like from now on.
AfterFlush(t) ==
    LET n == nod[t] IN
    /\ Alive /\ pc[t] = "stat"
    /\ \E mod \in {-1} \cup (IF node[n].id = path /\ size[t] = ver[path] THEN {size[t]} ELSE {}) :
          DropCell(n, 1, [node[n] EXCEPT !.mod = mod], 0)
    /\ lock' = [lock EXCEPT ![n] = None]
    /\ Out(t)
    /\ UNCHANGED <<base, cached>>

----------------------------------------------------------------------------
Next ==
    \/ Modify \/ Expire
    \/ \E i \in Inodes : Rename(i)
    \/ \E n \in Nodes : Evict(n)
    \/ \E t \in Threads :
          \/ \E h \in Hows : OpenBase(t, h)
          \/ GetFile(t) \/ GetFileFails(t)
          \/ \E n \in Nodes : NewNode(t, n)
          \/ Renew(t) \/ Switch(t) \/ SwitchFails(t) \/ Join(t)
          \/ Read(t) \/ GetAttr(t) \/ SetAttr(t) \/ Lose(t) \/ Write(t)
          \/ Close(t) \/ LastClose(t) \/ AfterFlush(t)

Spec == Init /\ [][Next]_vars

----------------------------------------------------------------------------
(* What the handler promises.                                              *)

Places == {"out", "base", "new", "wait", "open", "stat"}

\* The types of the state.
TypeOK ==
    /\ now \in 1..MaxVersion /\ path \in Inodes /\ ver \in [Inodes -> 1..MaxVersion]
    /\ nopen \in Nat
    /\ node \in [Nodes -> NodeType]
    /\ refctr \in [Nodes -> Nat] /\ cellref \in [Nodes -> Nat]
    /\ incell \in [Nodes -> BOOLEAN] /\ cached \in Nodes \cup {None}
    /\ lock \in [Nodes -> Threads \cup {None}]
    /\ pc \in [Threads -> Places] /\ nod \in [Threads -> Nodes \cup {None}]
    /\ how \in [Threads -> Hows]
    /\ ino \in [Threads -> Inodes \cup {None}] /\ buf \in [Threads -> -1..MaxVersion]
    /\ size \in [Threads -> -1..MaxVersion] /\ crashed \in BOOLEAN

Users(n) == {t \in Threads : nod[t] = n}

\* A cell is kept by its users and the file cache, a node by its users and its
\* cell: neither is freed while it is used, nor kept for ever.
RefctrExact ==
    \A n \in Nodes :
        /\ cellref[n] = Cardinality(Users(n)) + (IF cached = n THEN 1 ELSE 0)
        /\ refctr[n] = Cardinality(Users(n)) + (IF incell[n] THEN 1 ELSE 0)
        /\ incell[n] => cellref[n] > 0

\* Those who write to a node are counted, and as long as there is one, the serial
\* file can read from its base file and write to it.
WritersCanWrite ==
    \A n \in Nodes :
        /\ node[n].writers = Cardinality({t \in Users(n) : pc[t] = "open" /\ IsWrite(t)})
        /\ node[n].writers > 0 => node[n].vf = "rw" /\ node[n].told

\* Changes have a writer whose close will flush them or answer an error: nothing
\* is left behind in a node that may be freed or renewed at any time.
NothingUnsaved == \A n \in Nodes : node[n].dirty => node[n].writers > 0

\* Every vfile of a base file that was opened is that of a node or of a thread that
\* has not got its node yet; so each is closed, and once.
BaseFilesClosed ==
    nopen = Cardinality({t \in Threads : pc[t] \in {"base", "new", "wait"}})
            + Cardinality({n \in Nodes : node[n].vf # "none"})

\* doc/api-overview:46 "In order to read or write to the corresponding file, one
\* must obtain a vfile": none is used that has been closed, or that is not there.
OpenFilesUsed == ~crashed

=============================================================================
