------------------------------ MODULE FileTable ------------------------------
(***************************************************************************)
(* The file descriptors of AVFS (src/src/fdops.c over src/src/oper.c).     *)
(*                                                                         *)
(* file_table maps a descriptor to a reference counted vfile and is        *)
(* guarded by files_lock.  A call takes a reference while it holds that    *)
(* lock, drops the lock, waits for the lock in the vfile, and only then    *)
(* looks whether the file is still open (vf->mnt # NULL): in between the   *)
(* descriptor may have been closed and even opened again.  A close leaves  *)
(* the slot occupied until it has closed the file, so that the descriptor  *)
(* cannot be reused under the calls that wait.                             *)
(***************************************************************************)
EXTENDS Integers, FiniteSets

CONSTANTS
    Threads,    \* threads that call av_fd_*
    Files,      \* the vfiles, one for each call of av_fd_open
    Fds,        \* descriptors that callers pass
    TableStep,  \* slots the table grows by, 16 in find_unused
    None        \* NULL

ASSUME ThreadsFilesFinite == IsFiniteSet(Threads) /\ IsFiniteSet(Files)
ASSUME NoneIsNothing      == None \notin Threads \cup Files
ASSUME StepPositive       == TableStep \in Nat \ {0}
ASSUME FdsAreInts         == Fds \subseteq Int

VARIABLES
    file_table,       \* a function on 0..file_table_size-1
    file_table_size,
    made,             \* the vfiles allocated so far
    refctr,           \* reference count in the header of a vfile
    mnt,              \* vf->mnt # NULL: the file is open
    lock,             \* the holder of vf->lock, or None
    pc,               \* where a thread is in fdops.c
    call,             \* op or close: what it does with the file
    fd, vf,           \* locals of the av_fd_* functions
    exited            \* av_close_all_files has run

table   == <<file_table, file_table_size>>
heap    == <<made, refctr, mnt>>
thread  == <<pc, call, fd, vf>>
vars    == <<table, heap, lock, thread, exited>>

Places == {"idle", "opened", "locking", "op", "close", "unlock", "unref", "clear", "last"}
Calls  == {"op", "close", "badf"}

Slots == DOMAIN file_table

----------------------------------------------------------------------------
(* Helpers.                                                                *)

\* Mutant of FirstUnused: the slot of a file that is closed already is reused.
FirstUnusedOrClosed ==
    LET free == {i \in Slots : file_table[i] = None \/ ~mnt[file_table[i]]}
    IN  IF free = {} THEN file_table_size
        ELSE CHOOSE i \in free : \A j \in free : i <= j

\* find_unused: the first empty slot; a full table grows.
FirstUnused ==
    LET free == {i \in Slots : file_table[i] = None}
    IN  IF free = {} THEN file_table_size
        ELSE CHOOSE i \in free : \A j \in free : i <= j

\* Mutant of Stored: the new size is not recorded.
StoredSizeKept(i, f) ==
    /\ UNCHANGED file_table_size
    /\ file_table' = [j \in 0..(file_table_size + TableStep - 1) |-> IF j = i THEN f
                         ELSE IF j \in Slots THEN file_table[j] ELSE None]

\* The table with f in slot i.
Stored(i, f) ==
    LET size == IF i = file_table_size THEN i + TableStep ELSE file_table_size
    IN  /\ file_table_size' = size
        /\ file_table' = [j \in 0..(size - 1) |-> IF j = i THEN f
                             ELSE IF j \in Slots THEN file_table[j] ELSE None]

RefForgotten(f) == UNCHANGED refctr  \* mutant: no reference is taken

\* av_ref_obj and av_unref_obj on the counter of f.
Ref(f)   == refctr' = [refctr EXCEPT ![f] = IF @ > 0 THEN @ + 1 ELSE @]
Unref(f) == refctr' = [refctr EXCEPT ![f] = IF @ >= 0 THEN @ - 1 ELSE @]

Goto(t, place) == pc' = [pc EXCEPT ![t] = place]

Idle(t) == pc[t] = "idle" /\ ~exited

----------------------------------------------------------------------------
Init ==
    /\ file_table = [i \in {} |-> None]
    /\ file_table_size = 0
    /\ made = {}
    /\ refctr = [f \in Files |-> 0]
    /\ mnt = [f \in Files |-> FALSE]
    /\ lock = [f \in Files |-> None]
    /\ pc = [t \in Threads |-> "idle"]
    /\ call = [t \in Threads |-> "op"]
    /\ fd = [t \in Threads |-> 0]
    /\ vf = [t \in Threads |-> None]
    /\ exited = FALSE

----------------------------------------------------------------------------
(* av_fd_open_entry.                                                       *)

\* A new vfile, and av_file_open on it.  If the driver fails, the vfile goes.
OpenFile(t, f) ==
    /\ Idle(t) /\ f \notin made
    /\ made' = made \cup {f}
    /\ \/ /\ refctr' = [refctr EXCEPT ![f] = 1]
          /\ mnt' = [mnt EXCEPT ![f] = TRUE]
          /\ vf' = [vf EXCEPT ![t] = f]
          /\ Goto(t, "opened")
       \/ UNCHANGED <<refctr, mnt, vf, pc>>
    /\ UNCHANGED <<table, lock, call, fd, exited>>

\* The vfile goes into the table; its reference goes with it.
InstallFile(t) ==
    /\ pc[t] = "opened"
    /\ Stored(FirstUnused, vf[t])
    /\ vf' = [vf EXCEPT ![t] = None]
    /\ Goto(t, "idle")
    /\ UNCHANGED <<heap, lock, call, fd, exited>>

----------------------------------------------------------------------------
(* get_file and put_file, around every operation and around a close.       *)

\* The part under files_lock.  A descriptor without a file: -EBADF.
LookUp(t, n, what) ==
    /\ Idle(t)
    /\ n \in Slots /\ file_table[n] # None
    /\ Ref(file_table[n])
    /\ vf' = [vf EXCEPT ![t] = file_table[n]]
    /\ fd' = [fd EXCEPT ![t] = n]
    /\ call' = [call EXCEPT ![t] = what]
    /\ Goto(t, "locking")
    /\ UNCHANGED <<table, made, mnt, lock, exited>>

\* Mutants of LockFile: the file is not tested again; the lock is not waited for.
LockUnchecked(t) ==
    /\ pc[t] = "locking" /\ lock[vf[t]] = None
    /\ lock' = [lock EXCEPT ![vf[t]] = t]
    /\ Goto(t, call[t])
    /\ UNCHANGED <<table, heap, call, fd, vf, exited>>

LockUnwaited(t) ==
    /\ pc[t] = "locking" /\ mnt[vf[t]]
    /\ lock' = [lock EXCEPT ![vf[t]] = t]
    /\ Goto(t, call[t])
    /\ UNCHANGED <<table, heap, call, fd, vf, exited>>

\* The lock of the vfile, and the test whether it is still open.
LockFile(t) ==
    /\ pc[t] = "locking" /\ lock[vf[t]] = None
    /\ lock' = [lock EXCEPT ![vf[t]] = t]
    /\ IF mnt[vf[t]]
       THEN Goto(t, call[t]) /\ UNCHANGED call
       ELSE Goto(t, "unlock") /\ call' = [call EXCEPT ![t] = "badf"]
    /\ UNCHANGED <<table, heap, fd, vf, exited>>

\* The driver has served av_file_read, av_file_write, ...
Operate(t) ==
    /\ pc[t] = "op"
    /\ Goto(t, "unlock")
    /\ UNCHANGED <<table, heap, lock, call, fd, vf, exited>>

\* Mutant of CloseFile: vf->mnt is not reset.
CloseKeepsMnt(t) ==
    /\ pc[t] = "close"
    /\ Goto(t, "unlock")
    /\ UNCHANGED <<table, heap, lock, call, fd, vf, exited>>

\* av_file_close: the driver's close, whatever it answers.
CloseFile(t) ==
    /\ pc[t] = "close"
    /\ mnt' = [mnt EXCEPT ![vf[t]] = FALSE]
    /\ Goto(t, "unlock")
    /\ UNCHANGED <<table, made, refctr, lock, call, fd, vf, exited>>

\* Mutant of UnlockFile: the lock is kept when the file turned out to be closed.
UnlockOpenOnly(t) ==
    /\ pc[t] = "unlock"
    /\ lock' = [lock EXCEPT ![vf[t]] = IF call[t] = "badf" THEN @ ELSE None]
    /\ Goto(t, "unref")
    /\ UNCHANGED <<table, heap, call, fd, vf, exited>>

UnlockFile(t) ==
    /\ pc[t] = "unlock"
    /\ lock' = [lock EXCEPT ![vf[t]] = None]
    /\ Goto(t, "unref")
    /\ UNCHANGED <<table, heap, call, fd, vf, exited>>

\* The call's own reference.
PutFile(t) ==
    /\ pc[t] = "unref"
    /\ Unref(vf[t])
    /\ IF call[t] = "close"
       THEN Goto(t, "clear") /\ UNCHANGED vf
       ELSE Goto(t, "idle") /\ vf' = [vf EXCEPT ![t] = None]
    /\ UNCHANGED <<table, made, mnt, lock, call, fd, exited>>

----------------------------------------------------------------------------
(* The rest of av_fd_close.                                                *)

ClearSlot(t) ==
    /\ pc[t] = "clear"
    /\ file_table' = [file_table EXCEPT ![fd[t]] = None]
    /\ Goto(t, "last")
    /\ UNCHANGED <<file_table_size, heap, lock, call, fd, vf, exited>>

\* The reference that was in the table.
LastUnref(t) ==
    /\ pc[t] = "last"
    /\ Unref(vf[t])
    /\ vf' = [vf EXCEPT ![t] = None]
    /\ Goto(t, "idle")
    /\ UNCHANGED <<table, made, mnt, lock, call, fd, exited>>

----------------------------------------------------------------------------
\* av_close_all_files, from the exit handler: no other thread is left in the
\* library.  The table is freed; its size is not reset.
InTable == {file_table[i] : i \in Slots} \ {None}

CloseAll(t) ==
    /\ \A u \in Threads : Idle(u)
    /\ mnt' = [f \in Files |-> mnt[f] /\ f \notin InTable]
    /\ refctr' = [f \in Files |-> refctr[f] - Cardinality({i \in Slots : file_table[i] = f})]
    /\ file_table' = [i \in {} |-> None]
    /\ exited' = TRUE
    /\ UNCHANGED <<file_table_size, made, lock, thread>>

----------------------------------------------------------------------------
Begin(t) ==
    \/ \E f \in Files : OpenFile(t, f)
    \/ \E n \in Fds, what \in {"op", "close"} : LookUp(t, n, what)
    \/ CloseAll(t)

Continue(t) ==
    \/ InstallFile(t)
    \/ LockFile(t) \/ Operate(t) \/ CloseFile(t) \/ UnlockFile(t) \/ PutFile(t)
    \/ ClearSlot(t) \/ LastUnref(t)

Next == \E t \in Threads : Begin(t) \/ Continue(t)

Spec == Init /\ [][Next]_vars

\* Drivers answer, and a thread that waits for the lock of a vfile gets it.
Fairness == \A t \in Threads : SF_vars(Continue(t))

FairSpec == Spec /\ Fairness

----------------------------------------------------------------------------
(* What the table promises.                                                *)

\* Every variable has its type; the array is gone once the exit handler ran.
TypeOK ==
    /\ file_table_size \in Nat
    /\ Slots = IF exited THEN {} ELSE 0..(file_table_size - 1)
    /\ file_table \in [Slots -> Files \cup {None}]
    /\ made \subseteq Files
    /\ refctr \in [Files -> Nat]
    /\ mnt \in [Files -> BOOLEAN]
    /\ lock \in [Files -> Threads \cup {None}]
    /\ pc \in [Threads -> Places]
    /\ call \in [Threads -> Calls]
    /\ fd \in [Threads -> Int]
    /\ vf \in [Threads -> Files \cup {None}]
    /\ exited \in BOOLEAN

\* The threads that have a reference of their own to f.  One that closes f has
\* given its own back when it clears the slot, and then has the table's.
Holding == Places \ {"idle", "clear"}
Holders(f) == {t \in Threads : vf[t] = f /\ pc[t] \in Holding}

\* The count of a vfile is that of its slots and of the calls that use it.  So
\* the lock in a vfile that a call waits for is not freed, whatever closes and
\* opens overtake that call, and a file nobody can name any more is freed.
RefsExact ==
    \A f \in Files :
        refctr[f] = Cardinality({i \in Slots : file_table[i] = f}) + Cardinality(Holders(f))

\* The driver is called on open files only, by one thread at a time, and the
\* file is the one the caller's descriptor still names.
DriverCalls ==
    \A t \in Threads : pc[t] \in {"op", "close"} =>
        /\ mnt[vf[t]] /\ lock[vf[t]] = t
        /\ fd[t] \in Slots /\ file_table[fd[t]] = vf[t]

\* A file is freed after its close only, and one in the table is open unless
\* the thread that closed it is about to clear the slot.
NoLeak ==
    \A f \in Files :
        /\ refctr[f] = 0 => ~mnt[f]
        /\ \A i \in Slots : file_table[i] = f /\ ~mnt[f] =>
              \E t \in Threads : vf[t] = f /\ fd[t] = i /\ call[t] = "close"
                                 /\ pc[t] \in {"unlock", "unref", "clear"}

\* A descriptor that is in use is never given to another file, and it becomes
\* free only once its file has been closed.
SlotKept ==
    [][\A i \in Slots : file_table[i] # None /\ ~exited' =>
          /\ i \in Slots'
          /\ file_table'[i] # file_table[i] => file_table'[i] = None /\ ~mnt[file_table[i]]]_vars

\* Every call ends: nobody waits for ever for the lock of a vfile, also when
\* the file is closed by another thread meanwhile.
CallsEnd == \A t \in Threads : pc[t] # "idle" ~> pc[t] = "idle"

\* The table implements the descriptors of the interface.  A file is dead from
\* the driver's close on, when its slot is still occupied.
Named(n)   == n \in Slots /\ file_table[n] # None /\ mnt[file_table[n]]
NamedFiles == [n \in Fds |-> IF Named(n) THEN file_table[n] ELSE None]
DeadFiles  == {f \in made : ~mnt[f]}
BusyFiles  == {f \in Files : \E t \in Threads : vf[t] = f /\ pc[t] \in {"op", "close"}}

Desc == INSTANCE Descriptors WITH named <- NamedFiles, dead <- DeadFiles, busy <- BusyFiles

ImplementsDescriptors == Desc!Spec

============================================================================
