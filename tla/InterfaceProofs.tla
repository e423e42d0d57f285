--------------------------- MODULE InterfaceProofs ---------------------------
(***************************************************************************)
(* Proofs about the interface.  FileTable, for any number of threads,      *)
(* files, descriptors and any growth of the table: the inductive invariant *)
(* says which thread may be where while a file is open, and who cleans up  *)
(* after its close.  Parse, for paths, links and mounts of any length: the *)
(* inductive invariant says what ventries a call has at every place, and   *)
(* that the two counts are those of the ventries and the open files.       *)
(***************************************************************************)
EXTENDS MCInterface, FunctionTheorems, FiniteSetTheorems, SequenceTheorems,
        WellFoundedInduction, TLAPS

----------------------------------------------------------------------------
(* The inductive invariant.                                                *)

\* TypeOK without the sign of the counts.
Types ==
    /\ file_table_size \in Nat
    /\ Slots = IF exited THEN {} ELSE 0..(file_table_size - 1)
    /\ file_table \in [Slots -> Files \cup {None}]
    /\ made \subseteq Files
    /\ refctr \in [Files -> Int]
    /\ mnt \in [Files -> BOOLEAN]
    /\ lock \in [Files -> Threads \cup {None}]
    /\ pc \in [Threads -> Places]
    /\ call \in [Threads -> Calls]
    /\ fd \in [Threads -> Int]
    /\ vf \in [Threads -> Files \cup {None}]
    /\ exited \in BOOLEAN

\* A thread has a vfile while it is inside, and knows what to do with it.
ThreadInv ==
    \A t \in Threads :
        /\ pc[t] = "idle" <=> vf[t] = None
        /\ vf[t] # None => vf[t] \in made
        /\ pc[t] = "locking" => call[t] \in {"op", "close"}
        /\ pc[t] \in {"op", "close"} => call[t] = pc[t]
        /\ pc[t] \in {"clear", "last"} => call[t] = "close"
        /\ exited => pc[t] = "idle"

\* The lock of a vfile is held between LockFile and UnlockFile.
Locked == {"op", "close", "unlock"}
LockInv ==
    /\ \A t \in Threads : pc[t] \in Locked => lock[vf[t]] = t
    /\ \A f \in Files : lock[f] # None => vf[lock[f]] = f /\ pc[lock[f]] \in Locked

\* A file has one slot.
TableInv ==
    /\ \A i \in Slots : file_table[i] # None => file_table[i] \in made
    /\ \A i, j \in Slots : file_table[i] = file_table[j] /\ file_table[i] # None => i = j

\* t has closed its file and not cleared the slot yet.
Closer(t) == call[t] = "close" /\ pc[t] \in {"unlock", "unref", "clear"}

\* A file that is closed has left the table, or one thread is about to remove
\* it, and that thread has the right slot.
CloseInv ==
    /\ \A t \in Threads : Closer(t) =>
          ~mnt[vf[t]] /\ fd[t] \in Slots /\ file_table[fd[t]] = vf[t]
    /\ \A t, u \in Threads : Closer(t) /\ Closer(u) /\ vf[t] = vf[u] => t = u
    /\ \A i \in Slots : file_table[i] # None /\ ~mnt[file_table[i]] =>
          \E t \in Threads : Closer(t) /\ vf[t] = file_table[i]
    /\ \A t \in Threads : pc[t] \in {"op", "close"} => mnt[vf[t]]

\* A file that is open has not been freed: it is in the table, where those who
\* looked it up found it, or one thread is about to store it there.
OpenInv ==
    /\ \A f \in Files : mnt[f] =>
          /\ f \in made
          /\ \/ \E i \in Slots : file_table[i] = f
             \/ \E t \in Threads : pc[t] = "opened" /\ vf[t] = f
    /\ \A t \in Threads : pc[t] = "opened" =>
          /\ mnt[vf[t]]
          /\ \A i \in Slots : file_table[i] # vf[t]
          /\ \A u \in Threads : vf[u] = vf[t] => u = t
    /\ \A t \in Threads : pc[t] \notin {"idle", "opened"} /\ mnt[vf[t]] =>
          fd[t] \in Slots /\ file_table[fd[t]] = vf[t]

Inv == Types /\ ThreadInv /\ LockInv /\ TableInv /\ CloseInv /\ OpenInv

IInv == Inv /\ RefsExact

\* A set of positions has a first one.
LEMMA FirstPosition ==
    ASSUME NEW T, T \subseteq Nat, T # {}
    PROVE  \E i \in T : \A j \in T : i <= j
<1>1. PICK i \in T : \A j \in T : <<j, i>> \notin OpToRel(<, Nat)
  BY NatLessThanWellFounded, WFMin
<1>2. \A j \in T : ~(j < i)
  BY <1>1 DEF OpToRel
<1> QED BY <1>2

\* find_unused gives an empty slot, or the one after the last.
LEMMA FirstUnusedProperties ==
    ASSUME Types
    PROVE  /\ FirstUnused \in Nat
           /\ FirstUnused \in Slots => file_table[FirstUnused] = None
           /\ FirstUnused \notin Slots => FirstUnused = file_table_size
<1> DEFINE free == {i \in Slots : file_table[i] = None}
<1>0. Slots \subseteq Nat /\ file_table_size \in Nat
  BY DEF Types
<1>1. CASE free = {}
  <2>1. FirstUnused = file_table_size
    BY <1>1 DEF FirstUnused
  <2>2. file_table_size \notin Slots
    BY DEF Types
  <2> QED BY <1>0, <2>1, <2>2
<1>2. CASE free # {}
  <2>1. PICK m \in free : \A j \in free : m <= j
    BY <1>0, <1>2, FirstPosition
  <2>2. FirstUnused = CHOOSE i \in free : \A j \in free : i <= j
    BY <1>2 DEF FirstUnused
  <2>3. FirstUnused \in free
    BY <2>1, <2>2
  <2> QED BY <1>0, <2>3
<1> QED BY <1>1, <1>2

\* The invariant holds at the start.
LEMMA InitInv == Init => Inv
<1> SUFFICES ASSUME Init PROVE Inv
  OBVIOUS
<1>1. Types
  <2>1. Slots = {} /\ 0..(file_table_size - 1) = {}
    BY DEF Init, Slots
  <2>2. file_table \in [Slots -> Files \cup {None}]
    BY <2>1 DEF Init
  <2>3. Slots = IF exited THEN {} ELSE 0..(file_table_size - 1)
    BY <2>1
  <2>4. /\ file_table_size \in Nat /\ made \subseteq Files
        /\ refctr \in [Files -> Int] /\ lock \in [Files -> Threads \cup {None}]
    BY DEF Init
  <2>6. mnt \in [Files -> BOOLEAN] /\ exited \in BOOLEAN
    BY DEF Init
  <2>5. /\ pc \in [Threads -> Places] /\ call \in [Threads -> Calls]
        /\ fd \in [Threads -> Int] /\ vf \in [Threads -> Files \cup {None}]
    BY DEF Init, Places, Calls
  <2> QED BY <2>2, <2>3, <2>4, <2>5, <2>6 DEF Types
<1>2. ThreadInv /\ LockInv /\ TableInv /\ CloseInv /\ OpenInv
  BY NoneIsNothing DEF Init, ThreadInv, LockInv, TableInv, CloseInv, OpenInv, Closer, Locked, Slots
<1> QED BY <1>1, <1>2 DEF Inv

----------------------------------------------------------------------------
(* Every step preserves the invariant.                                     *)

\* Open keeps the invariant.
LEMMA OpenStep ==
    ASSUME Inv, NEW t \in Threads, NEW f \in Files, OpenFile(t, f)
    PROVE  Inv'
<1> USE NoneIsNothing DEF Inv
<1>0. /\ pc[t] = "idle" /\ f \notin made /\ made' = made \cup {f} /\ ~exited
      /\ UNCHANGED <<file_table, file_table_size, lock, call, fd, exited>>
      /\ Slots' = Slots
  BY DEF OpenFile, Idle, table, Slots
<1>2. CASE UNCHANGED <<refctr, mnt, vf, pc>>
  <2>1. Types'
    BY <1>0, <1>2 DEF Types
  <2>2. ThreadInv' /\ LockInv' /\ TableInv'
    BY <1>0, <1>2 DEF Types, ThreadInv, LockInv, TableInv
  <2>3. CloseInv' /\ OpenInv'
    BY <1>0, <1>2 DEF CloseInv, OpenInv, Closer
  <2> QED BY <2>1, <2>2, <2>3
<1>3. CASE /\ refctr' = [refctr EXCEPT ![f] = 1]
           /\ mnt' = [mnt EXCEPT ![f] = TRUE]
           /\ vf' = [vf EXCEPT ![t] = f]
           /\ pc' = [pc EXCEPT ![t] = "opened"]
  <2>1. /\ \A u \in Threads : vf[u] # f
        /\ \A i \in Slots : file_table[i] # f
        /\ f # None
    BY <1>0 DEF ThreadInv, TableInv
  <2>2. /\ pc'[t] = "opened" /\ vf'[t] = f
        /\ \A u \in Threads \ {t} : pc'[u] = pc[u] /\ vf'[u] = vf[u]
        /\ mnt'[f] = TRUE /\ \A g \in Files \ {f} : mnt'[g] = mnt[g]
    BY <1>3 DEF Types
  <2>3. Types'
    BY <1>0, <1>3 DEF Types, Places
  <2>4. ThreadInv'
    BY <1>0, <2>1, <2>2 DEF Types, ThreadInv
  <2>5. LockInv'
    <3>1. \A u \in Threads : pc'[u] \in Locked => u # t /\ lock'[vf'[u]] = u
      BY <1>0, <2>2 DEF LockInv, Locked
    <3>2. \A g \in Files : lock[g] # None => lock[g] # t /\ lock[g] \in Threads
      <4>1. pc[t] \notin Locked
        BY <1>0 DEF Locked
      <4> QED BY <4>1 DEF LockInv, Types
    <3> QED BY <1>0, <2>2, <3>1, <3>2 DEF LockInv
  <2>6. TableInv'
    BY <1>0 DEF TableInv
  <2>7. CloseInv'
    <3>1. \A u \in Threads : Closer(u)' <=> Closer(u) /\ u # t
      BY <1>0, <2>2 DEF Closer
    <3>2. \A u \in Threads : Closer(u) => u # t /\ vf[u] \in Files /\ vf[u] # f
      BY <1>0, <2>1 DEF Closer, ThreadInv, Types
    <3>3. \A i \in Slots : file_table[i] # None => mnt'[file_table[i]] = mnt[file_table[i]]
      BY <2>1, <2>2 DEF Types
    <3>4. \A u \in Threads : pc'[u] \in {"op", "close"} => mnt'[vf'[u]]
      BY <2>1, <2>2 DEF CloseInv, ThreadInv, Types
    <3> QED BY <1>0, <2>2, <3>1, <3>2, <3>3, <3>4 DEF CloseInv
  <2>8. OpenInv'
    <3>1. \A u \in Threads \ {t} : vf[u] # None => mnt'[vf[u]] = mnt[vf[u]]
      BY <2>1, <2>2 DEF Types
    <3>2. \A g \in Files : mnt'[g] =>
            /\ g \in made'
            /\ \/ \E i \in Slots : file_table[i] = g
               \/ \E u \in Threads : pc'[u] = "opened" /\ vf'[u] = g
      BY <1>0, <2>2 DEF OpenInv
    <3>3. \A u \in Threads : pc'[u] = "opened" =>
            /\ mnt'[vf'[u]]
            /\ \A i \in Slots : file_table[i] # vf'[u]
            /\ \A v \in Threads : vf'[v] = vf'[u] => v = u
      BY <1>0, <2>1, <2>2, <3>1 DEF OpenInv, ThreadInv
    <3>4. \A u \in Threads : pc'[u] \notin {"idle", "opened"} /\ mnt'[vf'[u]] =>
            fd[u] \in Slots /\ file_table[fd[u]] = vf'[u]
      BY <2>2, <3>1 DEF OpenInv, ThreadInv
    <3> QED BY <1>0, <3>2, <3>3, <3>4 DEF OpenInv
  <2> QED BY <2>3, <2>4, <2>5, <2>6, <2>7, <2>8
<1> QED BY <1>2, <1>3 DEF OpenFile, Goto

\* The file is put into the first free slot, and no other slot changes.
LEMMA InstallStep ==
    ASSUME Inv, NEW t \in Threads, InstallFile(t)
    PROVE  /\ Inv'
           /\ FirstUnused \in Slots' /\ file_table'[FirstUnused] = vf[t]
           /\ FirstUnused \in Slots => file_table[FirstUnused] = None
           /\ Slots \subseteq Slots'
           /\ \A j \in Slots' \ {FirstUnused} :
                 file_table'[j] = IF j \in Slots THEN file_table[j] ELSE None
<1> DEFINE i == FirstUnused
           f == vf[t]
           size == IF i = file_table_size THEN i + TableStep ELSE file_table_size
<1> USE DEF Inv
<1>0. /\ pc[t] = "opened" /\ ~exited /\ f \in Files /\ f \in made /\ f # None
      /\ Slots = 0..(file_table_size - 1)
  BY NoneIsNothing DEF InstallFile, Types, ThreadInv, Places
<1>1. i \in Nat /\ (i \in Slots => file_table[i] = None) /\ (i \notin Slots => i = file_table_size)
  BY FirstUnusedProperties
<1>2. /\ file_table_size' = size
      /\ file_table' = [j \in 0..(size - 1) |-> IF j = i THEN f
                          ELSE IF j \in Slots THEN file_table[j] ELSE None]
      /\ vf' = [vf EXCEPT ![t] = None]
      /\ pc' = [pc EXCEPT ![t] = "idle"]
      /\ UNCHANGED <<made, refctr, mnt, lock, call, fd, exited>>
  BY DEF InstallFile, Stored, Goto, heap
<1> HIDE DEF i
<1>3. size \in Nat /\ i \in 0..(size - 1) /\ Slots \subseteq 0..(size - 1)
  BY <1>0, <1>1, StepPositive DEF Types
<1> HIDE DEF size, f
<1>4. /\ Slots' = 0..(size - 1) /\ i \in Slots' /\ file_table'[i] = f /\ Slots \subseteq Slots'
      /\ \A j \in Slots' \ {i} : file_table'[j] = IF j \in Slots THEN file_table[j] ELSE None
  BY <1>2, <1>3 DEF Slots
<1>5. Types'
  BY <1>0, <1>2, <1>3, <1>4 DEF Types, Places
<1>6. /\ \A u \in Threads \ {t} : pc'[u] = pc[u] /\ vf'[u] = vf[u] /\ vf[u] # f
      /\ pc'[t] = "idle" /\ vf'[t] = None
      /\ \A j \in Slots : file_table[j] # f
      /\ mnt[f]
  BY <1>0, <1>2 DEF f, Types, OpenInv
<1>7. ThreadInv'
  BY <1>0, <1>2, <1>6 DEF ThreadInv
<1>8. LockInv'
  BY <1>0, <1>2, <1>6, NoneIsNothing DEF LockInv, Locked, Types
<1>9. TableInv'
  BY <1>0, <1>1, <1>2, <1>4, <1>6 DEF TableInv
<1>10. CloseInv'
  <2>1. \A u \in Threads : Closer(u)' => Closer(u) /\ u # t
    BY <1>2, <1>6 DEF Closer
  <2>2. \A u \in Threads : Closer(u) => Closer(u)' /\ u # t /\ vf'[u] = vf[u]
    BY <1>0, <1>2, <1>6 DEF Closer
  <2>3. \A u \in Threads \ {t} : fd[u] \in Slots /\ file_table[fd[u]] = vf[u] /\ vf[u] # None
           => fd[u] \in Slots' /\ file_table'[fd[u]] = vf[u]
    BY <1>1, <1>4
  <2> QED BY <1>0, <1>1, <1>2, <1>4, <1>6, <2>1, <2>2, <2>3 DEF CloseInv, Closer, ThreadInv
<1>11. OpenInv'
  <2>1. \A u \in Threads \ {t} : fd[u] \in Slots /\ file_table[fd[u]] = vf[u] /\ vf[u] # None
           => fd[u] \in Slots' /\ file_table'[fd[u]] = vf[u]
    BY <1>1, <1>4
  <2>2. \A g \in Files, j \in Slots : file_table[j] = g => j \in Slots' /\ file_table'[j] = g
    BY <1>1, <1>4, NoneIsNothing
  <2>3. \A g \in Files : mnt'[g] =>
          /\ g \in made'
          /\ \/ \E j \in Slots' : file_table'[j] = g
             \/ \E u \in Threads : pc'[u] = "opened" /\ vf'[u] = g
    BY <1>0, <1>2, <1>4, <1>6, <2>2 DEF OpenInv, f
  <2>4. \A u \in Threads : pc'[u] = "opened" =>
          /\ mnt'[vf'[u]]
          /\ \A j \in Slots' : file_table'[j] # vf'[u]
          /\ \A v \in Threads : vf'[v] = vf'[u] => v = u
    BY <1>0, <1>2, <1>4, <1>6, NoneIsNothing DEF OpenInv, ThreadInv, Types
  <2>5. \A u \in Threads : pc'[u] \notin {"idle", "opened"} /\ mnt'[vf'[u]] =>
          fd'[u] \in Slots' /\ file_table'[fd'[u]] = vf'[u]
    BY <1>0, <1>2, <1>4, <1>6, <2>1 DEF OpenInv, ThreadInv
  <2> QED BY <2>3, <2>4, <2>5 DEF OpenInv
<1> QED BY <1>1, <1>4, <1>5, <1>7, <1>8, <1>9, <1>10, <1>11 DEF i, f

\* A step of a thread that is inside and changes neither the table nor which
\* files are open: it moves on with its vfile, or leaves.
LEMMA MoveStep ==
    ASSUME Inv, NEW t \in Threads, pc[t] \notin {"idle", "opened"},
           Types', UNCHANGED <<file_table, made, mnt, fd, exited>>,
           \A u \in Threads \ {t} : pc'[u] = pc[u] /\ call'[u] = call[u] /\ vf'[u] = vf[u],
           \/ vf'[t] = vf[t] /\ pc'[t] \notin {"idle", "opened"}
           \/ vf'[t] = None /\ pc'[t] = "idle",
           pc'[t] = "locking" => call'[t] \in {"op", "close"},
           pc'[t] \in {"op", "close"} => call'[t] = pc'[t] /\ mnt[vf[t]],
           pc'[t] \in {"clear", "last"} => call'[t] = "close",
           LockInv',
           Closer(t)' <=> Closer(t)
    PROVE  Inv'
<1> USE NoneIsNothing DEF Inv
<1>1. Slots' = Slots
  BY DEF Slots
<1>2. ThreadInv'
  BY DEF ThreadInv
<1>3. TableInv'
  BY <1>1 DEF TableInv
<1>4. CloseInv'
  <2>1. \A u \in Threads : Closer(u)' <=> Closer(u)
    BY DEF Closer
  <2>2. \A u \in Threads : Closer(u) => vf'[u] = vf[u]
    BY <2>1 DEF Closer
  <2> QED BY <1>1, <2>1, <2>2 DEF CloseInv
<1>5. OpenInv'
  <2>1. \A u \in Threads : pc'[u] = "opened" <=> pc[u] = "opened" /\ u # t
    OBVIOUS
  <2>2. \A u, v \in Threads : vf'[u] # None => vf'[u] = vf[u]
    OBVIOUS
  <2>3. \A u \in Threads : pc[u] = "opened" => vf[u] # None /\ vf'[u] = vf[u]
    BY <2>1 DEF ThreadInv
  <2>4. \A u \in Threads : pc'[u] \notin {"idle", "opened"} =>
            pc[u] \notin {"idle", "opened"} /\ vf'[u] = vf[u]
    OBVIOUS
  <2> QED BY <1>1, <2>1, <2>2, <2>3, <2>4 DEF OpenInv
<1> QED BY <1>2, <1>3, <1>4, <1>5

\* LookUp keeps the invariant.
LEMMA LookUpStep ==
    ASSUME Inv, NEW t \in Threads, NEW n, NEW what \in {"op", "close"}, LookUp(t, n, what)
    PROVE  Inv'
<1> USE NoneIsNothing DEF Inv
<1>0. /\ pc[t] = "idle" /\ ~exited /\ n \in Slots /\ n \in Int
      /\ file_table[n] # None /\ file_table[n] \in Files /\ file_table[n] \in made
      /\ UNCHANGED <<file_table, file_table_size, made, mnt, lock, exited>>
      /\ Slots' = Slots
  BY DEF LookUp, Idle, table, Slots, TableInv, Types
<1>1. /\ refctr' \in [Files -> Int]
      /\ vf' = [vf EXCEPT ![t] = file_table[n]]
      /\ fd' = [fd EXCEPT ![t] = n]
      /\ call' = [call EXCEPT ![t] = what]
      /\ pc' = [pc EXCEPT ![t] = "locking"]
  BY <1>0 DEF LookUp, Ref, Goto, Types
<1>2. Types'
  BY <1>0, <1>1 DEF Types, Places, Calls
<1>3. /\ pc'[t] = "locking" /\ call'[t] = what /\ vf'[t] = file_table[n] /\ fd'[t] = n
      /\ \A u \in Threads \ {t} : pc'[u] = pc[u] /\ call'[u] = call[u] /\ vf'[u] = vf[u]
                                  /\ fd'[u] = fd[u]
  BY <1>1 DEF Types
<1>4. ThreadInv'
  BY <1>0, <1>3 DEF ThreadInv
<1>5. LockInv'
  <2>1. pc[t] \notin Locked /\ pc'[t] \notin Locked
    BY <1>0, <1>3 DEF Locked
  <2>2. UNCHANGED lock /\ LockInv /\ lock \in [Files -> Threads \cup {None}]
    BY <1>0 DEF Types
  <2>3. \A u \in Threads : pc'[u] \in Locked => lock'[vf'[u]] = u
    BY ONLY <1>3, <2>1, <2>2 DEF LockInv
  <2>4. \A f \in Files : lock'[f] # None => vf'[lock'[f]] = f /\ pc'[lock'[f]] \in Locked
    <3> SUFFICES ASSUME NEW f \in Files, lock[f] # None PROVE vf'[lock[f]] = f /\ pc'[lock[f]] \in Locked
      BY <2>2
    <3>1. lock[f] \in Threads /\ vf[lock[f]] = f /\ pc[lock[f]] \in Locked
      BY ONLY <2>2, lock[f] # None, f \in Files DEF LockInv
    <3> QED BY ONLY <1>3, <2>1, <3>1
  <2> QED BY ONLY <2>3, <2>4 DEF LockInv
<1>6. TableInv'
  BY <1>0 DEF TableInv
<1>7. CloseInv'
  <2>1. \A u \in Threads : (Closer(u)' <=> Closer(u)) /\ (Closer(u) => u # t)
    BY <1>0, <1>3 DEF Closer
  <2> QED BY <1>0, <1>3, <2>1 DEF CloseInv
<1>8. OpenInv'
  <2>1. \A u \in Threads : pc'[u] = "opened" <=> pc[u] = "opened" /\ u # t
    BY <1>0, <1>3
  <2>2. \A u \in Threads : pc[u] = "opened" => vf[u] # file_table[n]
    BY <1>0 DEF OpenInv
  <2> QED BY <1>0, <1>3, <2>1, <2>2 DEF OpenInv
<1> QED BY <1>2, <1>4, <1>5, <1>6, <1>7, <1>8

\* The steps between LookUp and the end of a call, but for the close itself and
\* the clearing of the slot.
LEMMA ContinueStep ==
    ASSUME Inv, NEW t \in Threads,
           LockFile(t) \/ Operate(t) \/ UnlockFile(t) \/ PutFile(t) \/ LastUnref(t)
    PROVE  Inv'
<1> USE NoneIsNothing
<1>0. Types /\ ThreadInv /\ LockInv
  BY DEF Inv
<1>1. CASE LockFile(t)
  <2> DEFINE f == vf[t]
  <2>1. /\ pc[t] = "locking" /\ lock[f] = None /\ f \in Files /\ f # None
        /\ call[t] \in {"op", "close"}
        /\ lock' = [lock EXCEPT ![f] = t]
        /\ UNCHANGED <<file_table, file_table_size, made, refctr, mnt, fd, vf, exited>>
    BY <1>0, <1>1 DEF LockFile, table, heap, Types, ThreadInv
  <2> HIDE DEF f
  <2>2. /\ \/ mnt[f] /\ pc'[t] = call[t] /\ call'[t] = call[t]
           \/ ~mnt[f] /\ pc'[t] = "unlock" /\ call'[t] = "badf"
        /\ \A u \in Threads \ {t} : pc'[u] = pc[u] /\ call'[u] = call[u]
        /\ pc' \in [Threads -> Places] /\ call' \in [Threads -> Calls]
    <3>1. pc \in [Threads -> Places] /\ call \in [Threads -> Calls]
      BY <1>0 DEF Types
    <3>2. CASE mnt[f]
      <4>1. pc' = [pc EXCEPT ![t] = call[t]] /\ call' = call
        BY <1>1, <3>2 DEF LockFile, Goto, f
      <4> QED BY <2>1, <3>1, <3>2, <4>1 DEF Places
    <3>3. CASE ~mnt[f]
      <4>1. pc' = [pc EXCEPT ![t] = "unlock"] /\ call' = [call EXCEPT ![t] = "badf"]
        BY <1>1, <3>3 DEF LockFile, Goto, f
      <4> QED BY <3>1, <3>3, <4>1 DEF Places, Calls
    <3> QED BY <3>2, <3>3
  <2>3. Types'
    BY <1>0, <2>1, <2>2 DEF Types, Slots
  <2>4. LockInv'
    <3>1. pc'[t] \in Locked /\ pc[t] \notin Locked
      BY <2>1, <2>2 DEF Locked
    <3>2. \A u \in Threads \ {t} : pc[u] \in Locked => vf[u] # f
      BY <1>0, <2>1 DEF LockInv
    <3>3. \A u \in Threads : pc'[u] \in Locked => lock'[vf'[u]] = u
      <4>1. vf[t] = f /\ \A u \in Threads \ {t} : pc[u] \in Locked => vf[u] \in Files
        BY <1>0 DEF ThreadInv, Locked, Types, f
      <4>2. lock'[f] = t /\ \A g \in Files \ {f} : lock'[g] = lock[g]
        BY <1>0, <2>1 DEF Types
      <4>3. \A u \in Threads \ {t} : pc'[u] \in Locked => lock'[vf[u]] = u
        BY <1>0, <2>2, <3>2, <4>1, <4>2 DEF LockInv
      <4> QED BY <2>1, <4>1, <4>2, <4>3
    <3>4. \A g \in Files : lock[g] # None => lock[g] # t /\ lock[g] \in Threads
      BY <1>0, <3>1 DEF LockInv, Types
    <3>5. vf[t] = f
      BY DEF f
    <3>6. \A g \in Files : lock'[g] # None => vf'[lock'[g]] = g /\ pc'[lock'[g]] \in Locked
      BY <1>0, <2>1, <2>2, <3>1, <3>4, <3>5 DEF LockInv, Types
    <3> QED BY <3>3, <3>6 DEF LockInv, Locked
  <2>5. ~Closer(t) /\ ~Closer(t)'
    BY <2>1, <2>2 DEF Closer
  <2> QED BY <2>1, <2>2, <2>3, <2>4, <2>5, MoveStep DEF f
<1>2. CASE Operate(t)
  <2>1. /\ pc[t] = "op" /\ call[t] = "op" /\ pc' = [pc EXCEPT ![t] = "unlock"]
        /\ UNCHANGED <<file_table, file_table_size, made, refctr, mnt, lock, call, fd, vf, exited>>
    BY <1>0, <1>2 DEF Operate, Goto, table, heap, ThreadInv
  <2>2. pc'[t] = "unlock" /\ \A u \in Threads \ {t} : pc'[u] = pc[u]
    BY <1>0, <2>1 DEF Types
  <2>3. Types'
    BY <1>0, <2>1 DEF Types, Slots, Places
  <2>4. LockInv'
    BY <1>0, <2>1, <2>2 DEF LockInv, Locked
  <2>5. ~Closer(t) /\ ~Closer(t)'
    BY <2>1 DEF Closer
  <2> QED BY <2>1, <2>2, <2>3, <2>4, <2>5, MoveStep
<1>3. CASE UnlockFile(t)
  <2> DEFINE f == vf[t]
  <2>1. /\ pc[t] = "unlock" /\ f \in Files
        /\ pc' = [pc EXCEPT ![t] = "unref"] /\ lock' = [lock EXCEPT ![f] = None]
        /\ UNCHANGED <<file_table, file_table_size, made, refctr, mnt, call, fd, vf, exited>>
    BY <1>0, <1>3 DEF UnlockFile, Goto, table, heap, ThreadInv, Types
  <2> HIDE DEF f
  <2>2. pc'[t] = "unref" /\ \A u \in Threads \ {t} : pc'[u] = pc[u]
    BY <1>0, <2>1 DEF Types
  <2>3. Types'
    BY <1>0, <2>1 DEF Types, Slots, Places
  <2>4. LockInv'
    <3>1. lock[f] = t
      BY <1>0, <2>1 DEF LockInv, Locked, f
    <3>2. pc'[t] \notin Locked /\ \A u \in Threads \ {t} : pc[u] \in Locked => vf[u] # f
      BY <1>0, <2>2, <3>1 DEF LockInv, Locked
    <3>3. \A u \in Threads : pc'[u] \in Locked => lock'[vf'[u]] = u
      BY <1>0, <2>1, <2>2, <3>2 DEF LockInv
    <3>4. \A g \in Files : lock'[g] # None => lock[g] # None /\ lock[g] # t /\ lock'[g] = lock[g]
      BY <1>0, <2>1, <3>1 DEF Types, LockInv, f
    <3>5. \A g \in Files : lock'[g] # None => vf'[lock'[g]] = g /\ pc'[lock'[g]] \in Locked
      BY <1>0, <2>1, <2>2, <3>4 DEF Types, LockInv
    <3> QED BY <2>1, <3>3, <3>4, <3>5 DEF LockInv, Locked
  <2>5. Closer(t)' <=> Closer(t)
    BY <2>1, <2>2 DEF Closer
  <2> QED BY <2>1, <2>2, <2>3, <2>4, <2>5, MoveStep
<1>4. CASE PutFile(t) \/ LastUnref(t)
  <2>1. /\ pc[t] \in {"unref", "last"} /\ vf[t] \in Files
        /\ refctr' \in [Files -> Int]
        /\ UNCHANGED <<file_table, file_table_size, made, mnt, lock, call, fd, exited>>
    BY <1>0, <1>4 DEF PutFile, LastUnref, Unref, table, ThreadInv, Types
  <2>2. \/ pc' = [pc EXCEPT ![t] = "clear"] /\ vf' = vf /\ pc[t] = "unref" /\ call[t] = "close"
        \/ /\ pc' = [pc EXCEPT ![t] = "idle"] /\ vf' = [vf EXCEPT ![t] = None]
           /\ pc[t] = "unref" => call[t] # "close"
    BY <1>0, <1>4 DEF PutFile, LastUnref, Goto
  <2>3. /\ pc'[t] \in {"clear", "idle"}
        /\ pc'[t] = "clear" => vf'[t] = vf[t] /\ pc[t] = "unref" /\ call[t] = "close"
        /\ pc'[t] = "idle" => vf'[t] = None /\ (pc[t] = "unref" => call[t] # "close")
        /\ \A u \in Threads \ {t} : pc'[u] = pc[u] /\ vf'[u] = vf[u]
    BY <1>0, <2>2 DEF Types
  <2>4. Types'
    BY <1>0, <2>1, <2>2 DEF Types, Slots, Places
  <2>5. LockInv'
    <3>1. pc[t] \notin Locked /\ pc'[t] \notin Locked
      BY <2>1, <2>3 DEF Locked
    <3> QED BY <1>0, <2>1, <2>3, <3>1 DEF LockInv, Types
  <2>6. Closer(t)' <=> Closer(t)
    BY <2>1, <2>3 DEF Closer
  <2> QED BY <2>1, <2>3, <2>4, <2>5, <2>6, MoveStep
<1> QED BY <1>1, <1>2, <1>3, <1>4

\* Close keeps the invariant.
LEMMA CloseStep ==
    ASSUME Inv, NEW t \in Threads, CloseFile(t)
    PROVE  Inv'
<1> USE NoneIsNothing
<1> DEFINE f == vf[t]
<1>0. Types /\ ThreadInv /\ LockInv /\ TableInv /\ CloseInv /\ OpenInv
  BY DEF Inv
<1>1. /\ pc[t] = "close" /\ call[t] = "close" /\ f \in Files /\ f # None /\ mnt[f]
      /\ lock[f] = t /\ fd[t] \in Slots /\ file_table[fd[t]] = f
      /\ UNCHANGED <<file_table, file_table_size, made, refctr, lock, call, fd, vf, exited>>
      /\ pc' = [pc EXCEPT ![t] = "unlock"] /\ mnt' = [mnt EXCEPT ![f] = FALSE]
      /\ Slots' = Slots
  BY <1>0 DEF CloseFile, Goto, table, Types, ThreadInv, LockInv, Locked, CloseInv, OpenInv, Slots
<1>2. \A u \in Threads \ {t} : pc[u] \in Locked => vf[u] # f
  BY <1>0, <1>1 DEF LockInv
<1> HIDE DEF f
<1>3. /\ pc'[t] = "unlock" /\ ~mnt'[f]
      /\ \A u \in Threads \ {t} : pc'[u] = pc[u]
      /\ \A g \in Files \ {f} : mnt'[g] = mnt[g]
  BY <1>0, <1>1 DEF Types
<1>4. Types'
  BY <1>0, <1>1 DEF Types, Places
<1>5. ThreadInv'
  BY <1>0, <1>1, <1>3 DEF ThreadInv
<1>6. LockInv'
  BY <1>0, <1>1, <1>3 DEF LockInv, Locked
<1>7. TableInv'
  BY <1>0, <1>1 DEF TableInv
<1>8. CloseInv'
  <2>1. \A u \in Threads \ {t} : Closer(u)' <=> Closer(u)
    BY <1>1, <1>3 DEF Closer
  <2>2. Closer(t)'
    BY <1>1, <1>3 DEF Closer
  <2>3. \A u \in Threads \ {t} : Closer(u) => vf[u] # f /\ vf[u] \in Files
    BY <1>0, <1>1 DEF CloseInv, Closer, ThreadInv, Types
  <2>4. \A u \in Threads : Closer(u)' =>
          ~mnt'[vf[u]] /\ fd[u] \in Slots /\ file_table[fd[u]] = vf[u]
    BY <1>0, <1>1, <1>3, <2>1, <2>3 DEF CloseInv, f
  <2>5. \A u, v \in Threads : Closer(u)' /\ Closer(v)' /\ vf[u] = vf[v] => u = v
    BY <1>0, <2>1, <2>3 DEF CloseInv, f
  <2>6. \A i \in Slots : file_table[i] # None /\ ~mnt'[file_table[i]] =>
          \E u \in Threads : Closer(u)' /\ vf[u] = file_table[i]
    <3> SUFFICES ASSUME NEW i \in Slots, file_table[i] # None, ~mnt'[file_table[i]]
                 PROVE  \E u \in Threads : Closer(u)' /\ vf[u] = file_table[i]
      OBVIOUS
    <3>1. CASE file_table[i] = f
      BY <2>2, <3>1 DEF f
    <3>2. CASE file_table[i] # f
      <4>1. ~mnt[file_table[i]]
        BY <1>0, <1>3, <3>2 DEF Types
      <4>2. PICK u \in Threads : Closer(u) /\ vf[u] = file_table[i]
        BY <1>0, <4>1 DEF CloseInv
      <4> QED BY <2>1, <2>2, <4>2
    <3> QED BY <3>1, <3>2
  <2>7. \A u \in Threads : pc'[u] \in {"op", "close"} => mnt'[vf[u]]
    <3>1. \A u \in Threads : pc'[u] \in {"op", "close"} => u # t /\ pc[u] \in {"op", "close"}
      BY <1>3
    <3>2. \A u \in Threads : pc[u] \in {"op", "close"} => vf[u] \in Files /\ mnt[vf[u]]
      BY <1>0 DEF CloseInv, ThreadInv, Types
    <3> QED BY <1>2, <1>3, <3>1, <3>2 DEF Locked
  <2> QED BY <1>1, <2>4, <2>5, <2>6, <2>7 DEF CloseInv
<1>9. OpenInv'
  <2>1. \A g \in Files : mnt'[g] => mnt[g]
    BY <1>1, <1>3
  <2>2. \A u \in Threads : pc'[u] = "opened" <=> pc[u] = "opened"
    BY <1>1, <1>3
  <2>3. \A u \in Threads : pc[u] = "opened" => vf[u] # f /\ vf[u] \in Files
    BY <1>0, <1>1 DEF OpenInv, ThreadInv, Types
  <2>4. \A g \in Files : mnt'[g] =>
          /\ g \in made
          /\ \/ \E i \in Slots : file_table[i] = g
             \/ \E u \in Threads : pc'[u] = "opened" /\ vf[u] = g
    BY <1>0, <2>1, <2>2 DEF OpenInv
  <2>5. \A u \in Threads : pc'[u] = "opened" =>
          /\ mnt'[vf[u]]
          /\ \A i \in Slots : file_table[i] # vf[u]
          /\ \A v \in Threads : vf[v] = vf[u] => v = u
    BY <1>0, <1>3, <2>2, <2>3 DEF OpenInv
  <2>6. \A u \in Threads : pc'[u] \notin {"idle", "opened"} /\ mnt'[vf[u]] =>
          fd[u] \in Slots /\ file_table[fd[u]] = vf[u]
    <3>1. \A u \in Threads : pc'[u] \notin {"idle", "opened"} =>
            pc[u] \notin {"idle", "opened"} /\ vf[u] \in Files
      BY <1>0, <1>1, <1>3 DEF ThreadInv, Types
    <3> QED BY <1>0, <2>1, <3>1 DEF OpenInv
  <2> QED BY <1>1, <2>4, <2>5, <2>6 DEF OpenInv
<1> QED BY <1>4, <1>5, <1>6, <1>7, <1>8, <1>9 DEF Inv

\* Clear keeps the invariant.
LEMMA ClearStep ==
    ASSUME Inv, NEW t \in Threads, ClearSlot(t)
    PROVE  Inv'
<1> USE NoneIsNothing
<1> DEFINE f == vf[t]
           i == fd[t]
<1>0. Types /\ ThreadInv /\ LockInv /\ TableInv /\ CloseInv /\ OpenInv
  BY DEF Inv
<1>1. /\ pc[t] = "clear" /\ call[t] = "close" /\ Closer(t) /\ ~exited /\ f \in Files /\ f # None
      /\ ~mnt[f] /\ i \in Slots /\ file_table[i] = f
      /\ file_table' = [file_table EXCEPT ![i] = None]
      /\ UNCHANGED <<file_table_size, made, refctr, mnt, lock, call, fd, vf, exited>>
      /\ pc' = [pc EXCEPT ![t] = "last"]
  BY <1>0 DEF ClearSlot, Goto, heap, Types, ThreadInv, CloseInv, Closer
<1>2. /\ Slots' = Slots /\ file_table'[i] = None
      /\ \A j \in Slots \ {i} : file_table'[j] = file_table[j] /\ file_table[j] # f
  BY <1>0, <1>1 DEF Slots, TableInv
<1> HIDE DEF f, i
<1>3. pc'[t] = "last" /\ \A u \in Threads \ {t} : pc'[u] = pc[u]
  BY <1>0, <1>1 DEF Types
<1>4. Types'
  BY <1>0, <1>1, <1>2 DEF Types, Places
<1>5. ThreadInv'
  BY <1>0, <1>1, <1>3 DEF ThreadInv
<1>6. LockInv'
  BY <1>0, <1>1, <1>3 DEF LockInv, Locked
<1>7. TableInv'
  BY <1>0, <1>1, <1>2 DEF TableInv
<1>8. CloseInv'
  <2>1. \A u \in Threads : Closer(u)' <=> Closer(u) /\ u # t
    BY <1>1, <1>3 DEF Closer
  <2>2. \A u \in Threads \ {t} : Closer(u) => vf[u] # f
    BY <1>0, <1>1 DEF CloseInv, f
  <2>3. \A u \in Threads : Closer(u)' =>
          ~mnt[vf[u]] /\ fd[u] \in Slots /\ file_table'[fd[u]] = vf[u]
    <3>1. \A u \in Threads \ {t} : Closer(u) => fd[u] \in Slots /\ file_table[fd[u]] = vf[u] /\ fd[u] # i
      BY <1>0, <1>1, <2>2 DEF CloseInv
    <3> QED BY <1>0, <1>2, <2>1, <3>1 DEF CloseInv
  <2>4. \A j \in Slots : file_table'[j] # None /\ ~mnt[file_table'[j]] =>
          \E u \in Threads : Closer(u)' /\ vf[u] = file_table'[j]
    <3> SUFFICES ASSUME NEW j \in Slots, file_table'[j] # None, ~mnt[file_table'[j]]
                 PROVE  \E u \in Threads : Closer(u)' /\ vf[u] = file_table'[j]
      OBVIOUS
    <3>1. file_table'[j] = file_table[j] /\ file_table[j] # f
      BY <1>2
    <3>2. PICK u \in Threads : Closer(u) /\ vf[u] = file_table[j]
      BY <1>0, <3>1 DEF CloseInv
    <3> QED BY <2>1, <3>1, <3>2 DEF f
  <2>5. \A u \in Threads : pc'[u] \in {"op", "close"} => mnt[vf[u]]
    BY <1>0, <1>3 DEF CloseInv
  <2> QED BY <1>0, <1>1, <1>2, <2>1, <2>3, <2>4, <2>5 DEF CloseInv
<1>9. OpenInv'
  <2>1. \A u \in Threads : pc'[u] = "opened" <=> pc[u] = "opened"
    BY <1>1, <1>3
  <2>2. \A g \in Files : mnt[g] =>
          /\ g \in made
          /\ \/ \E j \in Slots : file_table'[j] = g
             \/ \E u \in Threads : pc'[u] = "opened" /\ vf[u] = g
    BY <1>0, <1>1, <1>2, <2>1 DEF OpenInv
  <2>3. \A u \in Threads : pc'[u] = "opened" =>
          /\ mnt[vf[u]]
          /\ \A j \in Slots : file_table'[j] # vf[u]
          /\ \A v \in Threads : vf[v] = vf[u] => v = u
    BY <1>0, <1>2, <2>1 DEF OpenInv, ThreadInv
  <2>4. \A u \in Threads : pc'[u] \notin {"idle", "opened"} /\ mnt[vf[u]] =>
          fd[u] \in Slots /\ file_table'[fd[u]] = vf[u]
    <3>1. \A u \in Threads : pc'[u] \notin {"idle", "opened"} => pc[u] \notin {"idle", "opened"}
      BY <1>1, <1>3
    <3>2. \A u \in Threads : pc[u] \notin {"idle", "opened"} /\ mnt[vf[u]] =>
             fd[u] \in Slots /\ file_table[fd[u]] = vf[u] /\ vf[u] # f
      BY <1>0, <1>1 DEF OpenInv
    <3> QED BY <1>1, <1>2, <3>1, <3>2
  <2> QED BY <1>1, <1>2, <2>2, <2>3, <2>4 DEF OpenInv
<1> QED BY <1>4, <1>5, <1>6, <1>7, <1>8, <1>9 DEF Inv

\* When all threads have left, a file that is open is in the table.
LEMMA CloseAllStep ==
    ASSUME Inv, NEW t \in Threads, CloseAll(t)
    PROVE  Inv' /\ \A f \in Files : ~mnt'[f]
<1> USE NoneIsNothing
<1>0. Types /\ ThreadInv /\ LockInv /\ TableInv /\ CloseInv /\ OpenInv
  BY DEF Inv
<1>1. /\ \A u \in Threads : pc[u] = "idle"
      /\ exited' = TRUE
      /\ UNCHANGED <<file_table_size, made, lock, pc, call, fd, vf>>
      /\ mnt' = [f \in Files |-> mnt[f] /\ f \notin InTable]
  BY DEF CloseAll, Idle, thread
<1>2. Slots' = {} /\ file_table' \in [Slots' -> Files \cup {None}]
  BY DEF CloseAll, Slots
<1>3. refctr' \in [Files -> Int]
  <2>1. \A f \in Files : Cardinality({i \in Slots : file_table[i] = f}) \in Nat
    <3> SUFFICES ASSUME NEW f \in Files PROVE Cardinality({i \in Slots : file_table[i] = f}) \in Nat
      OBVIOUS
    <3>1. IsFiniteSet(Slots)
      BY <1>0, FS_Interval, FS_EmptySet DEF Types
    <3> QED BY <3>1, FS_Subset, FS_CardinalityType
  <2> QED BY <1>0, <2>1 DEF CloseAll, Types
<1>4. \A f \in Files : mnt[f] => f \in InTable
  BY <1>0, <1>1 DEF OpenInv, InTable
<1>5. \A f \in Files : ~mnt'[f]
  BY <1>1, <1>4
<1>6. Types'
  <2>1. mnt' \in [Files -> BOOLEAN]
    BY <1>1
  <2> QED BY <1>0, <1>1, <1>2, <1>3, <2>1 DEF Types
<1>7. ThreadInv' /\ LockInv'
  BY <1>0, <1>1 DEF ThreadInv, LockInv, Locked
<1>8. TableInv'
  BY <1>2 DEF TableInv
<1>9. CloseInv' /\ OpenInv'
  BY <1>1, <1>2, <1>5 DEF CloseInv, OpenInv, Closer
<1> QED BY <1>5, <1>6, <1>7, <1>8, <1>9 DEF Inv

\* Every step keeps the invariant.
LEMMA InvStep ==
    ASSUME Inv, [Next]_vars
    PROVE  Inv'
<1>1. CASE UNCHANGED vars
  <2> USE <1>1 DEF vars, table, heap, thread
  <2>1. Slots' = Slots
    BY DEF Slots
  <2>2. Types'
    BY <2>1 DEF Inv, Types
  <2>3. ThreadInv' /\ LockInv' /\ TableInv'
    BY <2>1 DEF Inv, ThreadInv, LockInv, TableInv
  <2>4. CloseInv' /\ OpenInv'
    BY <2>1 DEF Inv, CloseInv, OpenInv, Closer
  <2> QED BY <2>2, <2>3, <2>4 DEF Inv
<1>2. ASSUME NEW t \in Threads, Begin(t) PROVE Inv'
  BY <1>2, OpenStep, LookUpStep, CloseAllStep DEF Begin
<1>3. ASSUME NEW t \in Threads, Continue(t) PROVE Inv'
  BY <1>3, InstallStep, ContinueStep, CloseStep, ClearStep DEF Continue
<1> QED BY <1>1, <1>2, <1>3 DEF Next

----------------------------------------------------------------------------
(* Reference counts.                                                       *)

SlotsOf(f) == {i \in Slots : file_table[i] = f}

\* The slots and the holders of a file can be counted.
LEMMA FiniteCounts ==
    ASSUME Types, NEW f
    PROVE  /\ IsFiniteSet(SlotsOf(f)) /\ IsFiniteSet(Holders(f))
           /\ Cardinality(SlotsOf(f)) \in Nat /\ Cardinality(Holders(f)) \in Nat
<1>1. IsFiniteSet(Slots)
  BY FS_Interval, FS_EmptySet DEF Types
<1>2. IsFiniteSet(SlotsOf(f)) /\ IsFiniteSet(Holders(f))
  BY <1>1, ThreadsFilesFinite, FS_Subset DEF SlotsOf, Holders
<1> QED BY <1>2, FS_CardinalityType

\* The count of a vfile that somebody has is positive, and so av_ref_obj and
\* av_unref_obj change it.
LEMMA HeldCount ==
    ASSUME Types, RefsExact, NEW f \in Files, SlotsOf(f) # {} \/ Holders(f) # {}
    PROVE  refctr[f] > 0
<1>1. refctr[f] = Cardinality(SlotsOf(f)) + Cardinality(Holders(f))
  BY DEF RefsExact, SlotsOf
<1>2. \A S : IsFiniteSet(S) /\ S # {} => Cardinality(S) # 0
  BY FS_EmptySet
<1> QED BY <1>1, <1>2, FiniteCounts

\* A step of t after which it has, or no longer has, a reference to f.
LEMMA RefsStep ==
    ASSUME Inv, RefsExact, Types', NEW f \in Files,
           \A g \in Files \ {f} : /\ refctr'[g] = refctr[g]
                                  /\ SlotsOf(g)' = SlotsOf(g) /\ Holders(g)' = Holders(g),
           NEW S \in Int, NEW H \in Int,
           Cardinality(SlotsOf(f)') = Cardinality(SlotsOf(f)) + S,
           Cardinality(Holders(f)') = Cardinality(Holders(f)) + H,
           refctr'[f] = refctr[f] + S + H
    PROVE  RefsExact'
<1>1. Cardinality(SlotsOf(f)) \in Nat /\ Cardinality(Holders(f)) \in Nat
  BY FiniteCounts DEF Inv
<1>2. refctr[f] = Cardinality(SlotsOf(f)) + Cardinality(Holders(f))
  BY DEF RefsExact, SlotsOf
<1>3. refctr'[f] = Cardinality(SlotsOf(f)') + Cardinality(Holders(f)')
  BY <1>1, <1>2
<1>4. \A g \in Files \ {f} : refctr'[g] = Cardinality(SlotsOf(g)') + Cardinality(Holders(g)')
  BY DEF RefsExact, SlotsOf
<1> QED BY <1>3, <1>4 DEF RefsExact, SlotsOf

\* A step that touches neither slots nor holders keeps the counts.
LEMMA RefsSame ==
    ASSUME RefsExact, \A g \in Files : /\ refctr'[g] = refctr[g]
                                       /\ SlotsOf(g)' = SlotsOf(g) /\ Holders(g)' = Holders(g)
    PROVE  RefsExact'
BY DEF RefsExact, SlotsOf

\* The holders of f when only thread t moves.
LEMMA HoldersStep ==
    ASSUME Types, NEW t \in Threads,
           \A u \in Threads \ {t} : pc'[u] = pc[u] /\ vf'[u] = vf[u],
           NEW f
    PROVE  /\ t \in Holders(f) <=> vf[t] = f /\ pc[t] \in Holding
           /\ Holders(f)' = IF vf'[t] = f /\ pc'[t] \in Holding THEN Holders(f) \cup {t}
                                                              ELSE Holders(f) \ {t}
           /\ t \notin Holders(f) => Cardinality(Holders(f) \cup {t}) = Cardinality(Holders(f)) + 1
           /\ t \in Holders(f) => Cardinality(Holders(f) \ {t}) = Cardinality(Holders(f)) - 1
<1>1. t \in Holders(f) <=> vf[t] = f /\ pc[t] \in Holding
  BY DEF Holders
<1>2. Holders(f)' = IF vf'[t] = f /\ pc'[t] \in Holding THEN Holders(f) \cup {t} ELSE Holders(f) \ {t}
  <2>1. \A u \in Threads \ {t} : u \in Holders(f)' <=> u \in Holders(f)
    BY DEF Holders, Holding, Places
  <2>2. t \in Holders(f)' <=> vf'[t] = f /\ pc'[t] \in Holding
    BY DEF Holders, Holding, Places
  <2>3. Holders(f) \subseteq Threads /\ Holders(f)' \subseteq Threads
    BY DEF Holders
  <2> QED BY <2>1, <2>2, <2>3
<1>3. t \notin Holders(f) => Cardinality(Holders(f) \cup {t}) = Cardinality(Holders(f)) + 1
  BY FiniteCounts, FS_AddElement
<1>4. t \in Holders(f) => Cardinality(Holders(f) \ {t}) = Cardinality(Holders(f)) - 1
  BY FiniteCounts, FS_RemoveElement
<1> QED BY <1>1, <1>2, <1>3, <1>4

\* A step that begins a call keeps the counts.
LEMMA RefsBegin ==
    ASSUME Inv, RefsExact, Inv', NEW t \in Threads, Begin(t)
    PROVE  RefsExact'
<1> USE NoneIsNothing
<1>0. Types /\ ThreadInv
  BY DEF Inv
<1>1. CASE \E f \in Files : OpenFile(t, f)
  <2>1. PICK f \in Files : OpenFile(t, f)
    BY <1>1
  <2>2. /\ pc[t] = "idle" /\ vf[t] = None /\ f \notin made
        /\ UNCHANGED file_table /\ Slots' = Slots
    BY <1>0, <2>1 DEF OpenFile, Idle, table, ThreadInv, Slots
  <2>3. \A g : SlotsOf(g)' = SlotsOf(g)
    BY <2>2 DEF SlotsOf
  <2>4. CASE UNCHANGED <<refctr, mnt, vf, pc>>
    BY <2>3, <2>4, RefsSame DEF Holders
  <2>5. CASE /\ refctr' = [refctr EXCEPT ![f] = 1]
             /\ vf' = [vf EXCEPT ![t] = f]
             /\ pc' = [pc EXCEPT ![t] = "opened"]
    <3>1. SlotsOf(f) = {} /\ Holders(f) = {}
      BY <1>0, <2>2 DEF Inv, TableInv, SlotsOf, Holders, ThreadInv
    <3>2. refctr[f] = 0
      BY <3>1, FS_EmptySet DEF RefsExact, SlotsOf
    <3>3. /\ vf'[t] = f /\ pc'[t] \in Holding /\ pc[t] \notin Holding
          /\ \A u \in Threads \ {t} : pc'[u] = pc[u] /\ vf'[u] = vf[u]
      BY <1>0, <2>2, <2>5 DEF Types, Holding, Places
    <3>4. Cardinality(Holders(f)') = Cardinality(Holders(f)) + 1
      BY <1>0, <3>3, HoldersStep
    <3>5. \A g \in Files \ {f} : Holders(g)' = Holders(g) /\ refctr'[g] = refctr[g]
      <4>1. ASSUME NEW g \in Files \ {f} PROVE Holders(g)' = Holders(g)
        <5>1. t \notin Holders(g) /\ Holders(g)' = Holders(g) \ {t}
          BY <1>0, <3>3, HoldersStep
        <5> QED BY <5>1
      <4> QED BY <1>0, <2>5, <4>1 DEF Types
    <3>6. refctr'[f] = refctr[f] + 0 + 1
      BY <1>0, <2>5, <3>2 DEF Types
    <3>7. Cardinality(SlotsOf(f)') = Cardinality(SlotsOf(f)) + 0
      BY <1>0, <2>3, FiniteCounts
    <3> QED BY <1>0, <2>3, <3>4, <3>5, <3>6, <3>7, RefsStep DEF Inv
  <2> QED BY <2>1, <2>4, <2>5 DEF OpenFile, Goto
<1>2. CASE \E n \in Fds, what \in {"op", "close"} : LookUp(t, n, what)
  <2>1. PICK n \in Fds, what \in {"op", "close"} : LookUp(t, n, what)
    BY <1>2
  <2>0. /\ pc[t] = "idle" /\ vf[t] = None /\ n \in Slots
        /\ file_table[n] # None /\ file_table[n] \in Files
        /\ UNCHANGED file_table /\ Slots' = Slots
    BY <1>0, <2>1 DEF LookUp, Idle, table, ThreadInv, Slots, Types
  <2>2. PICK f \in Files : f = file_table[n]
    BY <2>0
  <2>3. \A g : SlotsOf(g)' = SlotsOf(g)
    BY <2>0 DEF SlotsOf
  <2>4. refctr[f] > 0
    <3>1. n \in SlotsOf(f)
      BY <2>0, <2>2 DEF SlotsOf
    <3> QED BY <1>0, <2>2, <3>1, HeldCount
  <2>5. /\ refctr' = [refctr EXCEPT ![f] = refctr[f] + 1]
        /\ vf' = [vf EXCEPT ![t] = f]
        /\ pc' = [pc EXCEPT ![t] = "locking"]
    BY <1>0, <2>1, <2>2, <2>4 DEF LookUp, Ref, Goto, Types
  <2>6. /\ vf'[t] = f /\ pc'[t] \in Holding /\ pc[t] \notin Holding
        /\ \A u \in Threads \ {t} : pc'[u] = pc[u] /\ vf'[u] = vf[u]
    BY <1>0, <2>0, <2>5 DEF Types, Holding, Places
  <2>7. Cardinality(Holders(f)') = Cardinality(Holders(f)) + 1
    BY <1>0, <2>6, HoldersStep
  <2>8. ASSUME NEW g \in Files \ {f} PROVE Holders(g)' = Holders(g) /\ refctr'[g] = refctr[g]
    <3>1. t \notin Holders(g) /\ Holders(g)' = Holders(g) \ {t}
      BY <1>0, <2>6, HoldersStep
    <3> QED BY <1>0, <2>5, <3>1 DEF Types
  <2>9. /\ refctr'[f] = refctr[f] + 0 + 1
        /\ Cardinality(SlotsOf(f)') = Cardinality(SlotsOf(f)) + 0
    BY <1>0, <2>2, <2>3, <2>5, FiniteCounts DEF Types
  <2> QED BY <1>0, <2>2, <2>3, <2>7, <2>8, <2>9, RefsStep DEF Inv
<1>3. CASE CloseAll(t)
  <2>1. ASSUME NEW f \in Files PROVE refctr'[f] = 0 /\ SlotsOf(f)' = {} /\ Holders(f)' = {}
    <3>1. Holders(f) = {} /\ Holders(f)' = {}
      BY <1>3 DEF CloseAll, Idle, Holders, Holding, Places, thread
    <3>2. Slots' = {}
      BY <1>3 DEF CloseAll, Slots
    <3>3. refctr[f] = Cardinality(SlotsOf(f)) + 0
      BY <3>1, FS_EmptySet DEF RefsExact, SlotsOf
    <3>4. refctr'[f] = refctr[f] - Cardinality(SlotsOf(f))
      BY <1>3 DEF CloseAll, SlotsOf
    <3>5. refctr'[f] = 0
      BY <1>0, <3>3, <3>4, FiniteCounts
    <3> QED BY <3>1, <3>2, <3>5 DEF SlotsOf
  <2>2. Cardinality({}) = 0
    BY FS_EmptySet
  <2> QED BY <2>1, <2>2 DEF RefsExact, SlotsOf
<1> QED BY <1>1, <1>2, <1>3 DEF Begin

\* A step of a call that goes on keeps the counts.
LEMMA RefsContinue ==
    ASSUME Inv, RefsExact, Inv', NEW t \in Threads, Continue(t)
    PROVE  RefsExact'
<1> USE NoneIsNothing
<1>0. Types /\ ThreadInv /\ TableInv /\ CloseInv /\ OpenInv
  BY DEF Inv
<1>1. CASE InstallFile(t)
  <2>1. PICK f \in Files : f = vf[t] /\ f # None
    BY <1>0, <1>1 DEF InstallFile, ThreadInv, Types
  <2>2. PICK i \in Nat : i = FirstUnused
    BY <1>0, FirstUnusedProperties
  <2>3. /\ i \in Slots' /\ file_table'[i] = f
        /\ i \in Slots => file_table[i] = None
        /\ Slots \subseteq Slots'
        /\ \A j \in Slots' \ {i} : file_table'[j] = IF j \in Slots THEN file_table[j] ELSE None
    BY <1>1, <2>1, <2>2, InstallStep
  <2>4. SlotsOf(f)' = SlotsOf(f) \cup {i} /\ i \notin SlotsOf(f)
    BY <2>1, <2>3 DEF SlotsOf
  <2>5. /\ pc[t] = "opened" /\ pc' = [pc EXCEPT ![t] = "idle"] /\ vf' = [vf EXCEPT ![t] = None]
        /\ refctr' = refctr
    BY <1>1 DEF InstallFile, Goto, heap
  <2>6. /\ pc'[t] = "idle" /\ vf'[t] = None /\ pc[t] \in Holding
        /\ \A u \in Threads \ {t} : pc'[u] = pc[u] /\ vf'[u] = vf[u]
    BY <1>0, <2>5 DEF Types, Holding, Places
  <2>7. Cardinality(Holders(f)') = Cardinality(Holders(f)) - 1
    BY <1>0, <2>1, <2>6, HoldersStep
  <2>8. ASSUME NEW g \in Files \ {f}
        PROVE  SlotsOf(g)' = SlotsOf(g) /\ Holders(g)' = Holders(g) /\ refctr'[g] = refctr[g]
    <3>1. t \notin Holders(g) /\ Holders(g)' = Holders(g) \ {t}
      BY <1>0, <2>1, <2>6, HoldersStep
    <3>2. SlotsOf(g)' = SlotsOf(g)
      BY <2>3 DEF SlotsOf
    <3> QED BY <2>5, <3>1, <3>2
  <2>9. Cardinality(SlotsOf(f)') = Cardinality(SlotsOf(f)) + 1
    BY <1>0, <2>4, FiniteCounts, FS_AddElement
  <2>10. refctr'[f] = refctr[f] + 1 + (-1)
    BY <1>0, <2>5 DEF Types
  <2>11. Cardinality(Holders(f)') = Cardinality(Holders(f)) + (-1)
    BY <1>0, <2>7, FiniteCounts
  <2> QED BY <1>0, <2>8, <2>9, <2>10, <2>11, RefsStep DEF Inv
<1>2. CASE LockFile(t) \/ Operate(t) \/ CloseFile(t) \/ UnlockFile(t)
  <2>1. /\ UNCHANGED <<file_table, refctr, vf>>
        /\ pc[t] \in {"locking", "op", "close", "unlock"}
        /\ \E p \in {"op", "close", "unlock", "unref"} : pc' = [pc EXCEPT ![t] = p]
    BY <1>0, <1>2 DEF LockFile, Operate, CloseFile, UnlockFile, Goto, table, heap, ThreadInv
  <2>2. /\ \A u \in Threads \ {t} : pc'[u] = pc[u]
        /\ pc[t] \in Holding /\ pc'[t] \in Holding
    BY <1>0, <2>1 DEF Types, Holding, Places
  <2>3. ASSUME NEW f \in Files PROVE SlotsOf(f)' = SlotsOf(f) /\ Holders(f)' = Holders(f)
    BY <2>1, <2>2 DEF SlotsOf, Slots, Holders, Holding, Places
  <2> QED BY <2>1, <2>3, RefsSame
<1>3. CASE PutFile(t) \/ LastUnref(t)
  <2>1. PICK f \in Files : f = vf[t] /\ f # None
    BY <1>0, <1>3 DEF PutFile, LastUnref, ThreadInv, Types
  <2>2. /\ pc[t] \in {"unref", "last"} /\ pc[t] \in Holding
        /\ UNCHANGED file_table /\ Slots' = Slots
    BY <1>3 DEF PutFile, LastUnref, Holding, Places, table, Slots
  <2>3. t \in Holders(f)
    BY <2>1, <2>2 DEF Holders
  <2>4. refctr' = [refctr EXCEPT ![f] = refctr[f] - 1]
    <3>1. refctr[f] > 0
      BY <1>0, <2>3, HeldCount
    <3> QED BY <1>0, <1>3, <2>1, <3>1 DEF PutFile, LastUnref, Unref, Types
  <2>5. /\ \A u \in Threads \ {t} : pc'[u] = pc[u] /\ vf'[u] = vf[u]
        /\ pc'[t] \notin Holding
        /\ vf'[t] \in {f, None}
    BY <1>0, <1>3, <2>1 DEF PutFile, LastUnref, Goto, Types, Holding, Places
  <2>6. Cardinality(Holders(f)') = Cardinality(Holders(f)) - 1
    <3>1. Types /\ t \in Threads
      BY <1>0
    <3>2. Holders(f)' = Holders(f) \ {t}
      BY ONLY <2>5, <3>1, HoldersStep
    <3>3. Cardinality(Holders(f) \ {t}) = Cardinality(Holders(f)) - 1
      BY ONLY <2>3, <2>5, <3>1, HoldersStep
    <3> QED BY <3>2, <3>3
  <2>7. ASSUME NEW g \in Files \ {f}
        PROVE  SlotsOf(g)' = SlotsOf(g) /\ Holders(g)' = Holders(g) /\ refctr'[g] = refctr[g]
    <3>1. t \notin Holders(g) /\ Holders(g)' = Holders(g) \ {t}
      BY <1>0, <2>1, <2>5, HoldersStep
    <3> QED BY <1>0, <2>2, <2>4, <3>1 DEF Types, SlotsOf
  <2>8. /\ refctr'[f] = refctr[f] + 0 + (-1)
        /\ Cardinality(SlotsOf(f)') = Cardinality(SlotsOf(f)) + 0
        /\ Cardinality(Holders(f)') = Cardinality(Holders(f)) + (-1)
    <3>1. SlotsOf(f)' = SlotsOf(f)
      BY <2>2 DEF SlotsOf
    <3> QED BY <1>0, <2>4, <2>6, <3>1, FiniteCounts DEF Types
  <2> QED BY <1>0, <2>7, <2>8, RefsStep DEF Inv
<1>4. CASE ClearSlot(t)
  <2>1. PICK f \in Files : f = vf[t] /\ f # None
    BY <1>0, <1>4 DEF ClearSlot, ThreadInv, Types
  <2>2. PICK i \in Slots : i = fd[t] /\ file_table[i] = f
    BY <1>0, <1>4, <2>1 DEF ClearSlot, ThreadInv, CloseInv, Closer
  <2>3. /\ file_table' = [file_table EXCEPT ![i] = None] /\ Slots' = Slots
        /\ pc[t] = "clear" /\ pc' = [pc EXCEPT ![t] = "last"]
        /\ UNCHANGED <<refctr, vf>>
    BY <1>4, <2>2 DEF ClearSlot, Goto, heap, Slots
  <2>4. SlotsOf(f)' = SlotsOf(f) \ {i} /\ i \in SlotsOf(f)
    BY <1>0, <2>1, <2>2, <2>3 DEF SlotsOf, Types
  <2>5. /\ pc[t] \notin Holding /\ pc'[t] \in Holding
        /\ \A u \in Threads \ {t} : pc'[u] = pc[u] /\ vf'[u] = vf[u]
    BY <1>0, <2>3 DEF Types, Holding, Places
  <2>6. Cardinality(Holders(f)') = Cardinality(Holders(f)) + 1
    BY <1>0, <2>1, <2>3, <2>5, HoldersStep
  <2>7. ASSUME NEW g \in Files \ {f}
        PROVE  SlotsOf(g)' = SlotsOf(g) /\ Holders(g)' = Holders(g) /\ refctr'[g] = refctr[g]
    <3>1. t \notin Holders(g) /\ Holders(g)' = Holders(g) \ {t}
      BY <1>0, <2>1, <2>3, <2>5, HoldersStep
    <3>2. SlotsOf(g)' = SlotsOf(g)
      BY <1>0, <2>2, <2>3 DEF SlotsOf, Types
    <3> QED BY <2>3, <3>1, <3>2
  <2>8. Cardinality(SlotsOf(f)') = Cardinality(SlotsOf(f)) + (-1)
    BY <1>0, <2>4, FiniteCounts, FS_RemoveElement
  <2>9. refctr'[f] = refctr[f] + (-1) + 1
    BY <1>0, <2>3 DEF Types
  <2> QED BY <1>0, <2>6, <2>7, <2>8, <2>9, RefsStep DEF Inv
<1> QED BY <1>1, <1>2, <1>3, <1>4 DEF Continue

\* The inductive invariant holds in every reachable state.
LEMMA InvHolds == Spec => []IInv
<1>1. Init => IInv
  <2>1. ASSUME Init, NEW f \in Files PROVE SlotsOf(f) = {} /\ Holders(f) = {} /\ refctr[f] = 0
    BY <2>1, NoneIsNothing DEF Init, SlotsOf, Slots, Holders
  <2>2. Cardinality({}) = 0
    BY FS_EmptySet
  <2>3. Init => RefsExact
    BY <2>1, <2>2 DEF RefsExact, SlotsOf
  <2> QED BY <2>3, InitInv DEF IInv
<1>2. IInv /\ [Next]_vars => IInv'
  <2> SUFFICES ASSUME IInv, [Next]_vars PROVE IInv'
    OBVIOUS
  <2>1. Inv'
    BY InvStep DEF IInv
  <2>2. ASSUME NEW t \in Threads, Begin(t) PROVE RefsExact'
    BY <2>1, <2>2, RefsBegin DEF IInv
  <2>3. ASSUME NEW t \in Threads, Continue(t) PROVE RefsExact'
    BY <2>1, <2>3, RefsContinue DEF IInv
  <2>4. CASE UNCHANGED vars
    <3>1. RefsExact'
      BY <2>4 DEF IInv, RefsExact, vars, table, heap, thread, Slots, Holders
    <3> QED BY <2>1, <3>1 DEF IInv
  <2> QED BY <2>1, <2>2, <2>3, <2>4 DEF IInv, Next
<1> QED BY <1>1, <1>2, PTL DEF Spec

----------------------------------------------------------------------------
(* The theorems.                                                           *)

\* Every variable keeps its type.  No count of a vfile becomes negative.
THEOREM TypeCorrect == Spec => []TypeOK
<1>1. ASSUME IInv PROVE TypeOK
  <2>1. ASSUME NEW f \in Files PROVE refctr[f] \in Nat
    <3>1. Cardinality(SlotsOf(f)) \in Nat /\ Cardinality(Holders(f)) \in Nat
      BY <1>1, FiniteCounts DEF IInv, Inv
    <3> QED BY <1>1, <3>1 DEF IInv, RefsExact, SlotsOf
  <2>2. refctr \in [Files -> Nat]
    BY <1>1, <2>1 DEF IInv, Inv, Types
  <2> QED BY <1>1, <2>2 DEF IInv, Inv, Types, TypeOK
<1> QED BY <1>1, InvHolds, PTL

\* The count in a vfile is the number of its slots and of the calls that use
\* it: no call ever uses a vfile, or waits for a lock, that has been freed.
THEOREM RefsCorrect == Spec => []RefsExact
<1>1. IInv => RefsExact
  BY DEF IInv
<1> QED BY <1>1, InvHolds, PTL

\* The driver is only called on a file that is open and that the descriptor of
\* the call names, and by one thread at a time.
THEOREM DriverCallsCorrect == Spec => []DriverCalls
<1>1. IInv => DriverCalls
  BY DEF IInv, Inv, DriverCalls, CloseInv, OpenInv, LockInv, Locked
<1> QED BY <1>1, InvHolds, PTL

\* A vfile is freed after its close only, and a closed one leaves the table.
THEOREM NoLeakCorrect == Spec => []NoLeak
<1>1. ASSUME IInv PROVE NoLeak
  <2>1. ASSUME NEW f \in Files, refctr[f] = 0, mnt[f] PROVE FALSE
    <3>1. SlotsOf(f) # {} \/ Holders(f) # {}
      BY <1>1, <2>1 DEF IInv, Inv, OpenInv, SlotsOf, Holders, Holding, Places
    <3> QED BY <1>1, <2>1, <3>1, HeldCount DEF IInv, Inv
  <2>2. ASSUME NEW f \in Files, NEW i \in Slots, file_table[i] = f, ~mnt[f]
        PROVE  \E t \in Threads : vf[t] = f /\ fd[t] = i /\ call[t] = "close"
                                  /\ pc[t] \in {"unlock", "unref", "clear"}
    <3>1. PICK t \in Threads : Closer(t) /\ vf[t] = f
      BY <1>1, <2>2, NoneIsNothing DEF IInv, Inv, CloseInv
    <3>2. fd[t] = i
      BY <1>1, <2>2, <3>1, NoneIsNothing DEF IInv, Inv, CloseInv, TableInv
    <3> QED BY <3>1, <3>2 DEF Closer
  <2> QED BY <1>1, <2>1, <2>2 DEF NoLeak, IInv, Inv, Types
<1> QED BY <1>1, InvHolds, PTL

\* Until the exit handler runs, a slot only goes from empty to a file, and
\* from a file that has been closed to empty.
Kept ==
    \A i \in Slots : file_table[i] # None /\ ~exited' =>
        /\ i \in Slots'
        /\ file_table'[i] # file_table[i] => file_table'[i] = None /\ ~mnt[file_table[i]]

\* No step takes a slot from an open file but the close of its descriptor.
LEMMA SlotStep ==
    ASSUME Inv, Next
    PROVE  Kept
<1>1. ASSUME NEW t \in Threads, Begin(t) PROVE Kept
  <2>1. CASE CloseAll(t)
    BY <2>1 DEF CloseAll, Kept
  <2>2. CASE UNCHANGED file_table
    BY <2>2 DEF Kept, Slots
  <2> QED BY <1>1, <2>1, <2>2 DEF Begin, OpenFile, LookUp, table
<1>2. ASSUME NEW t \in Threads, Continue(t) PROVE Kept
  <2>1. CASE InstallFile(t)
    BY <2>1, InstallStep DEF Kept
  <2>2. CASE ClearSlot(t)
    <3>1. ~mnt[vf[t]] /\ fd[t] \in Slots /\ file_table[fd[t]] = vf[t]
      BY <2>2 DEF ClearSlot, Inv, ThreadInv, CloseInv, Closer
    <3>2. /\ Slots' = Slots /\ file_table'[fd[t]] = None
          /\ \A i \in Slots \ {fd[t]} : file_table'[i] = file_table[i]
      BY <2>2, <3>1 DEF ClearSlot, Slots, Inv, Types
    <3> QED BY <3>1, <3>2 DEF Kept
  <2>3. CASE UNCHANGED file_table
    BY <2>3 DEF Kept, Slots
  <2> QED BY <1>2, <2>1, <2>2, <2>3 DEF Continue, LockFile, Operate, CloseFile, UnlockFile,
                                        PutFile, LastUnref, table
<1> QED BY <1>1, <1>2 DEF Next

\* A descriptor that is in use is never given to another file and becomes free only once its
\* file is closed, through all growth of the table, for any number of threads and files.
THEOREM SlotKeptCorrect == Spec => SlotKept
<1>1. IInv /\ [Next]_vars => [Kept]_vars
  BY SlotStep DEF IInv
<1> QED BY <1>1, InvHolds, PTL DEF Spec, SlotKept, Kept

----------------------------------------------------------------------------
(* The table implements the descriptors of the interface.                  *)

\* What the mapped variables depend on.
LEMMA Stutter ==
    ASSUME Inv, UNCHANGED <<file_table, made, mnt>>, BusyFiles' = BusyFiles
    PROVE  UNCHANGED Desc!vars
BY DEF Desc!vars, NamedFiles, DeadFiles, Named, Slots

\* A step outside of the calls on a file leaves the busy files.
LEMMA BusySame ==
    ASSUME NEW t \in Threads,
           pc[t] \notin {"op", "close"}, pc'[t] \notin {"op", "close"},
           \A u \in Threads \ {t} : pc'[u] = pc[u] /\ vf'[u] = vf[u]
    PROVE  BusyFiles' = BusyFiles
BY DEF BusyFiles

\* A file that a driver works on is busy on behalf of one thread.
LEMMA OneBusy ==
    ASSUME Inv, NEW t \in Threads, pc[t] \in {"op", "close"}
    PROVE  /\ vf[t] \in BusyFiles
           /\ \A u \in Threads \ {t} : pc[u] \in {"op", "close"} => vf[u] # vf[t]
           /\ Named(fd[t]) /\ file_table[fd[t]] = vf[t]
<1>1. vf[t] \in Files /\ vf[t] # None
  BY DEF Inv, Types, ThreadInv
<1>2. \A u \in Threads : pc[u] \in {"op", "close"} => lock[vf[u]] = u
  BY DEF Inv, LockInv, Locked
<1>3. mnt[vf[t]] /\ fd[t] \in Slots /\ file_table[fd[t]] = vf[t]
  BY DEF Inv, CloseInv, OpenInv
<1> QED BY <1>1, <1>2, <1>3 DEF BusyFiles, Named

\* Two descriptors do not name the same file.
LEMMA NamedOnce ==
    ASSUME Inv, NEW n, NEW m, Named(n), Named(m), file_table[n] = file_table[m]
    PROVE  n = m
BY DEF Named, Inv, TableInv

\* A step that begins a call is a step of the abstract descriptors.
LEMMA RefineBegin ==
    ASSUME Inv, Nat \subseteq Fds, NEW t \in Threads, Begin(t)
    PROVE  [Desc!Next]_Desc!vars
<1> USE NoneIsNothing
<1>0. Types /\ ThreadInv /\ TableInv /\ OpenInv
  BY DEF Inv
<1>1. ASSUME NEW f \in Files, OpenFile(t, f) PROVE [Desc!Next]_Desc!vars
  <2>1. /\ pc[t] = "idle" /\ vf[t] = None /\ f \notin made /\ ~mnt[f]
        /\ made' = made \cup {f} /\ UNCHANGED file_table /\ Slots' = Slots
        /\ \A i \in Slots : file_table[i] # f
    BY <1>0, <1>1 DEF OpenFile, Idle, table, ThreadInv, Slots, OpenInv, TableInv
  <2>2. CASE UNCHANGED <<refctr, mnt, vf, pc>>
    <3>1. NamedFiles' = NamedFiles /\ BusyFiles' = BusyFiles
      BY <2>1, <2>2 DEF NamedFiles, Named, BusyFiles
    <3>2. DeadFiles' = DeadFiles \cup {f} /\ f \notin DeadFiles
      BY <2>1, <2>2 DEF DeadFiles
    <3>3. \A n \in Fds : NamedFiles[n] # f
      BY <2>1 DEF NamedFiles, Named
    <3>4. Desc!Fail(f)
      BY <3>1, <3>2, <3>3 DEF Desc!Fail
    <3> QED BY <3>4 DEF Desc!Next
  <2>3. CASE /\ mnt' = [mnt EXCEPT ![f] = TRUE]
             /\ vf' = [vf EXCEPT ![t] = f]
             /\ pc' = [pc EXCEPT ![t] = "opened"]
    <3>1. /\ mnt'[f] = TRUE /\ \A g \in Files \ {f} : mnt'[g] = mnt[g]
          /\ pc'[t] = "opened" /\ \A u \in Threads \ {t} : pc'[u] = pc[u] /\ vf'[u] = vf[u]
      BY <1>0, <2>3 DEF Types
    <3>2. BusyFiles' = BusyFiles
      BY <2>1, <3>1, BusySame
    <3>3. \A n : Named(n)' <=> Named(n)
      BY <1>0, <2>1, <3>1 DEF Named, Types
    <3>4. NamedFiles' = NamedFiles
      BY <2>1, <3>3 DEF NamedFiles
    <3>5. DeadFiles' = DeadFiles
      BY <1>0, <2>1, <3>1 DEF DeadFiles, Types
    <3> QED BY <3>2, <3>4, <3>5 DEF Desc!vars
  <2> QED BY <1>1, <2>2, <2>3 DEF OpenFile, Goto
<1>2. ASSUME NEW n \in Fds, NEW what \in {"op", "close"}, LookUp(t, n, what)
      PROVE  UNCHANGED Desc!vars
  <2>1. /\ pc[t] = "idle" /\ pc' = [pc EXCEPT ![t] = "locking"]
        /\ vf' = [vf EXCEPT ![t] = file_table[n]]
        /\ UNCHANGED <<file_table, made, mnt>>
    BY <1>2 DEF LookUp, Idle, Goto, table
  <2>2. pc'[t] = "locking" /\ \A u \in Threads \ {t} : pc'[u] = pc[u] /\ vf'[u] = vf[u]
    BY <1>0, <2>1 DEF Types
  <2> QED BY <2>1, <2>2, BusySame, Stutter
<1>3. CASE CloseAll(t)
  <2>1. /\ \A u \in Threads : pc[u] = "idle"
        /\ UNCHANGED <<made, pc, vf>>
        /\ Slots' = {} /\ \A f \in Files : ~mnt'[f]
    BY <1>3, CloseAllStep DEF CloseAll, Idle, thread, Slots
  <2>2. BusyFiles = {} /\ BusyFiles' = {}
    BY <2>1 DEF BusyFiles
  <2>3. NamedFiles' = [n \in Fds |-> None]
    BY <2>1 DEF NamedFiles, Named
  <2>4. \A f : f \in DeadFiles' <=> f \in made
    BY <1>0, <2>1 DEF DeadFiles, Types
  <2>5. \A f : f \in made <=> f \in DeadFiles \/ \E n \in Fds : NamedFiles[n] # None /\ NamedFiles[n] = f
    <3>1. \A n \in Fds : NamedFiles[n] # None => NamedFiles[n] \in made
      BY <1>0 DEF NamedFiles, Named, TableInv
    <3>2. ASSUME NEW f \in made, mnt[f] PROVE \E n \in Fds : NamedFiles[n] # None /\ NamedFiles[n] = f
      <4>1. PICK n \in Slots : file_table[n] = f
        BY <1>0, <2>1, <3>2 DEF OpenInv, Types
      <4>2. n \in Fds
        BY <1>0 DEF Types
      <4> QED BY <1>0, <3>2, <4>1, <4>2 DEF NamedFiles, Named, Types
    <3> QED BY <3>1, <3>2 DEF DeadFiles
  <2>6. DeadFiles' = DeadFiles \cup {NamedFiles[n] : n \in {d \in Fds : NamedFiles[d] # None}}
    BY <2>4, <2>5
  <2>7. Desc!CloseAll
    BY <2>2, <2>3, <2>6 DEF Desc!CloseAll
  <2> QED BY <2>7 DEF Desc!Next
<1> QED BY <1>1, <1>2, <1>3 DEF Begin

\* A step of a call that goes on is a step of the abstract descriptors.
LEMMA RefineContinue ==
    ASSUME Inv, Nat \subseteq Fds, NEW t \in Threads, Continue(t)
    PROVE  [Desc!Next]_Desc!vars
<1> USE NoneIsNothing
<1>0. Types /\ ThreadInv /\ TableInv /\ CloseInv /\ OpenInv /\ LockInv
  BY DEF Inv
<1>1. CASE InstallFile(t)
  <2>1. PICK f \in Files : f = vf[t] /\ f # None
    BY <1>0, <1>1 DEF InstallFile, ThreadInv, Types
  <2>2. PICK i \in Nat : i = FirstUnused
    BY <1>0, FirstUnusedProperties
  <2>3. /\ i \in Slots' /\ file_table'[i] = f
        /\ i \in Slots => file_table[i] = None
        /\ Slots \subseteq Slots'
        /\ \A j \in Slots' \ {i} : file_table'[j] = IF j \in Slots THEN file_table[j] ELSE None
    BY <1>1, <2>1, <2>2, InstallStep
  <2>4. /\ pc[t] = "opened" /\ pc' = [pc EXCEPT ![t] = "idle"] /\ vf' = [vf EXCEPT ![t] = None]
        /\ UNCHANGED <<made, mnt>>
    BY <1>1 DEF InstallFile, Goto, heap
  <2>5. pc'[t] = "idle" /\ \A u \in Threads \ {t} : pc'[u] = pc[u] /\ vf'[u] = vf[u]
    BY <1>0, <2>4 DEF Types
  <2>6. mnt[f] /\ \A j \in Slots : file_table[j] # f
    BY <1>0, <2>1, <2>4 DEF OpenInv
  <2>7. BusyFiles' = BusyFiles /\ DeadFiles' = DeadFiles
    BY <2>4, <2>5, BusySame DEF DeadFiles
  <2>8. NamedFiles[i] = None /\ f \notin DeadFiles /\ \A n \in Fds : NamedFiles[n] # f
    BY <2>1, <2>3, <2>6 DEF NamedFiles, Named, DeadFiles
  <2>9. NamedFiles' = [NamedFiles EXCEPT ![i] = f]
    <3>1. \A n : Named(n)' <=> Named(n) \/ n = i
      BY <2>1, <2>3, <2>4, <2>6 DEF Named
    <3>2. \A n : Named(n) => file_table'[n] = file_table[n]
      BY <2>3 DEF Named
    <3> QED BY <2>3, <3>1, <3>2 DEF NamedFiles
  <2>10. Desc!Open(i, f)
    BY <2>7, <2>8, <2>9 DEF Desc!Open
  <2> QED BY <2>10 DEF Desc!Next
<1>2. CASE LockFile(t)
  <2>1. PICK f \in Files : f = vf[t] /\ f # None
    BY <1>0, <1>2 DEF LockFile, ThreadInv, Types
  <2>2. /\ pc[t] = "locking" /\ lock[f] = None /\ call[t] \in {"op", "close"}
        /\ UNCHANGED <<file_table, made, mnt, vf>>
    BY <1>0, <1>2, <2>1 DEF LockFile, table, heap, ThreadInv
  <2>3. /\ pc'[t] = IF mnt[f] THEN call[t] ELSE "unlock"
        /\ \A u \in Threads \ {t} : pc'[u] = pc[u]
    BY <1>0, <1>2, <2>1 DEF LockFile, Goto, Types
  <2>4. CASE mnt[f]
    <3>1. fd[t] \in Slots /\ file_table[fd[t]] = f /\ fd[t] \in Fds
      BY <1>0, <2>1, <2>2, <2>4 DEF OpenInv, Types
    <3>2. NamedFiles[fd[t]] = f
      BY <2>1, <2>4, <3>1 DEF NamedFiles, Named
    <3>3. f \notin BusyFiles
      BY <1>0, <2>2 DEF BusyFiles, LockInv, Locked
    <3>4. BusyFiles' = BusyFiles \cup {f}
      BY <2>1, <2>2, <2>3, <2>4 DEF BusyFiles
    <3>5. NamedFiles' = NamedFiles /\ DeadFiles' = DeadFiles
      BY <2>2 DEF NamedFiles, Named, DeadFiles, Slots
    <3>6. Desc!Begin(fd[t])
      BY <2>1, <3>2, <3>3, <3>4, <3>5 DEF Desc!Begin
    <3> QED BY <3>1, <3>6 DEF Desc!Next
  <2>5. CASE ~mnt[f]
    BY <2>2, <2>3, <2>5, BusySame, Stutter
  <2> QED BY <2>4, <2>5
<1>3. CASE Operate(t) \/ CloseFile(t)
  <2>1. PICK f \in Files : f = vf[t] /\ f # None
    BY <1>0, <1>3 DEF Operate, CloseFile, ThreadInv, Types
  <2>2. PICK n \in Fds : n = fd[t]
    <3>1. fd[t] \in Slots
      BY <1>3, OneBusy DEF Operate, CloseFile, Named
    <3> QED BY <1>0, <3>1 DEF Types
  <2>3. /\ pc[t] \in {"op", "close"} /\ pc' = [pc EXCEPT ![t] = "unlock"]
        /\ UNCHANGED <<file_table, made, vf>>
    BY <1>3 DEF Operate, CloseFile, Goto, table, heap
  <2>4. pc'[t] = "unlock" /\ \A u \in Threads \ {t} : pc'[u] = pc[u]
    BY <1>0, <2>3 DEF Types
  <2>5. /\ f \in BusyFiles /\ Named(n) /\ file_table[n] = f /\ NamedFiles[n] = f
        /\ \A u \in Threads \ {t} : pc[u] \in {"op", "close"} => vf[u] # f
    BY <2>1, <2>2, <2>3, OneBusy DEF NamedFiles
  <2>6. BusyFiles' = BusyFiles \ {f}
    BY <2>1, <2>3, <2>4, <2>5 DEF BusyFiles
  <2>7. CASE Operate(t)
    <3>1. NamedFiles' = NamedFiles /\ DeadFiles' = DeadFiles
      BY <2>3, <2>7 DEF Operate, heap, NamedFiles, Named, DeadFiles, Slots
    <3>2. Desc!End(n)
      BY <2>5, <2>6, <3>1 DEF Desc!End
    <3> QED BY <3>2 DEF Desc!Next
  <2>8. CASE CloseFile(t)
    <3>1. /\ ~mnt'[f] /\ \A g \in Files \ {f} : mnt'[g] = mnt[g]
      BY <1>0, <2>1, <2>8 DEF CloseFile, Types
    <3>2. DeadFiles' = DeadFiles \cup {f}
      <4>1. f \in made /\ made \subseteq Files
        BY <1>0, <2>1 DEF ThreadInv, Types
      <4> QED BY <2>3, <3>1, <4>1 DEF DeadFiles
    <3>3. \A m \in Fds : Named(m)' <=> Named(m) /\ m # n
      <4>1. \A m : Named(m)' <=> Named(m) /\ file_table[m] # f
        BY <1>0, <2>3, <3>1 DEF Named, Slots, Types
      <4>2. \A m : Named(m) /\ file_table[m] = f => m = n
        BY <2>5, NamedOnce
      <4> QED BY <2>5, <4>1, <4>2
    <3>4. NamedFiles' = [NamedFiles EXCEPT ![n] = None]
      BY <2>3, <3>3 DEF NamedFiles
    <3>5. Desc!Close(n)
      BY <2>5, <2>6, <3>2, <3>4 DEF Desc!Close
    <3> QED BY <3>5 DEF Desc!Next
  <2> QED BY <1>3, <2>7, <2>8
<1>4. CASE UnlockFile(t) \/ PutFile(t) \/ LastUnref(t)
  <2>1. /\ pc[t] \in {"unlock", "unref", "last"} /\ UNCHANGED <<file_table, made, mnt>>
        /\ pc'[t] \in {"unref", "clear", "idle"}
        /\ \A u \in Threads \ {t} : pc'[u] = pc[u] /\ vf'[u] = vf[u]
    BY <1>0, <1>4 DEF UnlockFile, PutFile, LastUnref, Goto, table, heap, Types
  <2> QED BY <2>1, BusySame, Stutter
<1>5. CASE ClearSlot(t)
  <2>1. /\ ~mnt[vf[t]] /\ fd[t] \in Slots /\ file_table[fd[t]] = vf[t]
        /\ pc[t] = "clear" /\ pc' = [pc EXCEPT ![t] = "last"]
        /\ UNCHANGED <<made, mnt, vf>>
    BY <1>0, <1>5 DEF ClearSlot, Goto, heap, ThreadInv, CloseInv, Closer
  <2>2. /\ Slots' = Slots /\ file_table'[fd[t]] = None
        /\ \A i \in Slots \ {fd[t]} : file_table'[i] = file_table[i]
    BY <1>0, <1>5, <2>1 DEF ClearSlot, Slots, Types
  <2>3. pc'[t] = "last" /\ \A u \in Threads \ {t} : pc'[u] = pc[u]
    BY <1>0, <2>1 DEF Types
  <2>4. BusyFiles' = BusyFiles /\ DeadFiles' = DeadFiles
    BY <2>1, <2>3, BusySame DEF DeadFiles
  <2>5. \A n : Named(n)' <=> Named(n)
    BY <2>1, <2>2 DEF Named
  <2>6. \A n : Named(n) => file_table'[n] = file_table[n]
    BY <2>1, <2>2 DEF Named
  <2>7. NamedFiles' = NamedFiles
    BY <2>5, <2>6 DEF NamedFiles
  <2> QED BY <2>4, <2>7 DEF Desc!vars
<1> QED BY <1>1, <1>2, <1>3, <1>4, <1>5 DEF Continue

\* The table of vfiles, with its reference counts and the two locks taken one
\* after the other, implements the descriptors of the interface.
THEOREM ImplementsCorrect ==
    ASSUME Nat \subseteq Fds
    PROVE  Spec => ImplementsDescriptors
<1>1. Init => Desc!Init
  <2>1. ASSUME Init PROVE NamedFiles = [n \in Fds |-> None] /\ DeadFiles = {} /\ BusyFiles = {}
    BY <2>1 DEF Init, NamedFiles, DeadFiles, BusyFiles, Named, Slots
  <2> QED BY <2>1 DEF Desc!Init
<1>2. IInv /\ [Next]_vars => [Desc!Next]_Desc!vars
  <2> SUFFICES ASSUME IInv, [Next]_vars PROVE [Desc!Next]_Desc!vars
    OBVIOUS
  <2>1. CASE UNCHANGED vars
    BY <2>1, Stutter DEF IInv, vars, table, heap, thread, BusyFiles
  <2>2. CASE Next
    BY <2>2, RefineBegin, RefineContinue DEF IInv, Next
  <2> QED BY <2>1, <2>2
<1> QED BY <1>1, <1>2, InvHolds, PTL DEF Spec, ImplementsDescriptors, Desc!Spec

----------------------------------------------------------------------------
(* Ventries, and the data and mounts of several of them.                   *)

Vents == Seq(BOOLEAN)

\* A ventry that is not being looked up has data of its last mount.
Full == {v \in Vents : v # <<>> /\ Last(v) = TRUE}

\* The mounts of ventries that have data.
DataOf(s) == {p \in MountsOf(s) : s[p[1]][p[2]]}

\* What one ventry adds at place k.
At(k, A) == {k} \X A
Data(v) == {i \in DOMAIN v : v[i]}

\* The places of one ventry are as many as the ventry's own.
LEMMA AtCount ==
    ASSUME NEW k, NEW A, IsFiniteSet(A)
    PROVE  IsFiniteSet(At(k, A)) /\ Cardinality(At(k, A)) = Cardinality(A) /\ Cardinality(A) \in Nat
<1>1. IsFiniteSet({k}) /\ Cardinality({k}) = 1
  BY FS_Singleton
<1>2. IsFiniteSet(At(k, A)) /\ Cardinality(At(k, A)) = 1 * Cardinality(A)
  BY <1>1, FS_Product DEF At
<1> QED BY <1>2, FS_CardinalityType

\* A ventry has finitely many mounts, and data in some of them.
LEMMA VentCount ==
    ASSUME NEW v \in Vents
    PROVE  /\ IsFiniteSet(DOMAIN v) /\ IsFiniteSet(Data(v))
           /\ Cardinality(DOMAIN v) = Len(v)
           /\ Cardinality(Data(v)) = HasData(v)
           /\ Len(v) \in Nat /\ HasData(v) \in Nat /\ HasData(v) <= Len(v)
<1>1. Len(v) \in Nat /\ DOMAIN v = 1..Len(v)
  BY LenProperties DEF Vents
<1>2. IsFiniteSet(1..Len(v)) /\ Cardinality(1..Len(v)) = Len(v)
  <2>1. /\ IsFiniteSet(1..Len(v))
        /\ Cardinality(1..Len(v)) = IF 1 > Len(v) THEN 0 ELSE Len(v) - 1 + 1
    BY <1>1, FS_Interval
  <2> QED BY <1>1, <2>1
<1>3. IsFiniteSet(Data(v)) /\ Cardinality(Data(v)) <= Len(v)
  <2>1. Data(v) \in SUBSET (1..Len(v))
    BY <1>1 DEF Data
  <2> QED BY <1>2, <2>1, FS_Subset
<1>4. Cardinality(Data(v)) = HasData(v)
  BY DEF Data, HasData
<1> QED BY <1>1, <1>2, <1>3, <1>4, FS_CardinalityType

\* One more ventry at the end brings its mounts and its data.
LEMMA AppendCount ==
    ASSUME NEW s \in Seq(Vents), NEW v \in Vents,
           IsFiniteSet(MountsOf(s))
    PROVE  /\ IsFiniteSet(MountsOf(Append(s, v)))
           /\ Cardinality(MountsOf(Append(s, v))) = Cardinality(MountsOf(s)) + Len(v)
           /\ Cardinality(DataOf(Append(s, v))) = Cardinality(DataOf(s)) + HasData(v)
           /\ Cardinality(MountsOf(s)) \in Nat /\ Cardinality(DataOf(s)) \in Nat
<1> DEFINE n == Len(s) + 1
           t == Append(s, v)
<1>1. /\ Len(s) \in Nat /\ DOMAIN s = 1..Len(s) /\ DOMAIN t = 1..n
      /\ t[n] = v /\ \A i \in 1..Len(s) : t[i] = s[i]
  <2>1. t \in Seq(Vents) /\ Len(t) = n
    BY AppendProperties
  <2> QED BY <2>1, AppendProperties, LenProperties
<1> HIDE DEF t
<1>2. MountsOf(t) = MountsOf(s) \cup At(n, DOMAIN v)
  <2>1. \A k : k \in 1..n <=> (k \in 1..Len(s) \/ k = n)
    BY <1>1
  <2>2. \A p : p \in MountsOf(t) <=> \E k \in 1..n : p \in {k} \X DOMAIN t[k]
    BY <1>1 DEF MountsOf
  <2>3. \A p : p \in MountsOf(s) <=> \E k \in 1..Len(s) : p \in {k} \X DOMAIN s[k]
    BY <1>1 DEF MountsOf
  <2> HIDE DEF n
  <2>4. \A p : p \in MountsOf(t) <=> (p \in MountsOf(s) \/ p \in {n} \X DOMAIN v)
    BY <1>1, <2>1, <2>2, <2>3
  <2> QED BY <2>4 DEF At
<1>3. \A p \in MountsOf(s) : p[1] \in 1..Len(s)
  BY <1>1 DEF MountsOf
<1>4. \A p \in At(n, DOMAIN v) : p[1] = n /\ p[2] \in DOMAIN v
  BY DEF At
<1>5. DataOf(t) = DataOf(s) \cup At(n, Data(v))
  <2>1. \A p \in MountsOf(s) : t[p[1]][p[2]] = s[p[1]][p[2]]
    BY <1>1, <1>3
  <2>2. \A p \in At(n, DOMAIN v) : t[p[1]][p[2]] = v[p[2]] /\ (p \in At(n, Data(v)) <=> v[p[2]])
    BY <1>1, <1>4 DEF At, Data
  <2>3. At(n, Data(v)) \subseteq At(n, DOMAIN v)
    BY DEF At, Data
  <2> HIDE DEF n
  <2> QED BY <1>2, <2>1, <2>2, <2>3 DEF DataOf
<1>6. n \notin 1..Len(s)
  BY <1>1
<1> HIDE DEF n
<1>7. MountsOf(s) \cap At(n, DOMAIN v) = {}
  BY <1>3, <1>4, <1>6
<1>8. DataOf(s) \cap At(n, Data(v)) = {} /\ IsFiniteSet(DataOf(s))
  <2>1. DataOf(s) \in SUBSET MountsOf(s) /\ At(n, Data(v)) \subseteq At(n, DOMAIN v)
    BY DEF DataOf, At, Data
  <2> QED BY <1>7, <2>1, FS_Subset
<1>9. Cardinality({}) = 0
  BY FS_EmptySet
<1>10. /\ IsFiniteSet(At(n, DOMAIN v)) /\ Cardinality(At(n, DOMAIN v)) = Len(v)
       /\ IsFiniteSet(At(n, Data(v))) /\ Cardinality(At(n, Data(v))) = HasData(v)
       /\ Len(v) \in Nat /\ HasData(v) \in Nat
  BY VentCount, AtCount
<1>11. /\ IsFiniteSet(MountsOf(t))
       /\ Cardinality(MountsOf(t)) = Cardinality(MountsOf(s)) + Len(v) - 0
  <2>1. PICK p, q : p = MountsOf(s) /\ q = At(n, DOMAIN v)
    OBVIOUS
  <2>2. IsFiniteSet(p) /\ IsFiniteSet(q) /\ p \cap q = {} /\ MountsOf(t) = p \cup q
    BY <1>2, <1>7, <1>10, <2>1
  <2>3. /\ IsFiniteSet(p \cup q)
        /\ Cardinality(p \cup q) = Cardinality(p) + Cardinality(q) - Cardinality(p \cap q)
    BY ONLY <2>2, FS_Union
  <2> QED BY <1>9, <1>10, <2>1, <2>2, <2>3
<1>12. Cardinality(DataOf(t)) = Cardinality(DataOf(s)) + HasData(v) - 0
  BY <1>5, <1>8, <1>9, <1>10, FS_Union
<1>13. Cardinality(MountsOf(s)) \in Nat /\ Cardinality(DataOf(s)) \in Nat
  BY <1>8, FS_CardinalityType
<1> QED BY <1>10, <1>11, <1>12, <1>13 DEF t

\* No ventries have no mounts.
LEMMA EmptyCount ==
    /\ IsFiniteSet(MountsOf(<<>>)) /\ MountsOf(<<>>) = {} /\ DataOf(<<>>) = {}
    /\ Cardinality(MountsOf(<<>>)) = 0 /\ Cardinality(DataOf(<<>>)) = 0
<1>1. DOMAIN <<>> = {}
  OBVIOUS
<1>2. MountsOf(<<>>) = {}
  BY <1>1 DEF MountsOf
<1> QED BY <1>2, FS_EmptySet DEF DataOf

\* The empty ventry counts nothing, and the root is one mount with data.
LEMMA SmallVents ==
    /\ <<>> \in Vents /\ Len(<<>>) = 0 /\ HasData(<<>>) = 0
    /\ Root \in Full /\ Len(Root) = 1 /\ HasData(Root) = 1
<1>1. <<>> \in Vents /\ Len(<<>>) = 0
  BY EmptySeq DEF Vents
<1>2. HasData(<<>>) = 0
  <2>1. {i \in DOMAIN <<>> : <<>>[i]} = {}
    OBVIOUS
  <2> QED BY <2>1, FS_EmptySet DEF HasData
<1>3. Root \in Vents /\ Len(Root) = 1 /\ Root # <<>> /\ Root[1] = TRUE /\ DOMAIN Root = {1}
  BY DEF Root, Vents
<1>4. HasData(Root) = 1
  <2>1. {i \in DOMAIN Root : Root[i]} = {1}
    BY <1>3
  <2> QED BY <2>1, FS_Singleton DEF HasData
<1> QED BY <1>1, <1>2, <1>3, <1>4 DEF Full, Last

\* Five elements are appended one by one.
LEMMA FiveAppended ==
    ASSUME NEW S, NEW s \in Seq(S), NEW a \in S, NEW b \in S, NEW c \in S, NEW d \in S, NEW e \in S
    PROVE  s \o <<a, b, c, d, e>> = Append(Append(Append(Append(Append(s, a), b), c), d), e)
<1> DEFINE q == <<a, b, c, d, e>>
           t1 == Append(s, a)
           t2 == Append(t1, b)
           t3 == Append(t2, c)
           t4 == Append(t3, d)
           t5 == Append(t4, e)
<1>1. q \in Seq(S) /\ Len(q) = 5 /\ q[1] = a /\ q[2] = b /\ q[3] = c /\ q[4] = d /\ q[5] = e
  OBVIOUS
<1> HIDE DEF q
<1>2. PICK n \in Nat : n = Len(s)
  BY LenProperties
<1>3. t1 \in Seq(S) /\ Len(t1) = n + 1 /\ t1[n + 1] = a /\ \A i \in 1..n : t1[i] = s[i]
  BY <1>2, AppendProperties
<1> HIDE DEF t1
<1>4. t2 \in Seq(S) /\ Len(t2) = n + 2 /\ t2[n + 2] = b /\ \A i \in 1..(n + 1) : t2[i] = t1[i]
  BY <1>2, <1>3, AppendProperties
<1> HIDE DEF t2
<1>5. t3 \in Seq(S) /\ Len(t3) = n + 3 /\ t3[n + 3] = c /\ \A i \in 1..(n + 2) : t3[i] = t2[i]
  BY <1>2, <1>4, AppendProperties
<1> HIDE DEF t3
<1>6. t4 \in Seq(S) /\ Len(t4) = n + 4 /\ t4[n + 4] = d /\ \A i \in 1..(n + 3) : t4[i] = t3[i]
  BY <1>2, <1>5, AppendProperties
<1> HIDE DEF t4
<1>7. t5 \in Seq(S) /\ Len(t5) = n + 5 /\ t5[n + 5] = e /\ \A i \in 1..(n + 4) : t5[i] = t4[i]
  BY <1>2, <1>6, AppendProperties
<1> HIDE DEF t5
<1> DEFINE u == s \o q
<1>8. u \in Seq(S) /\ Len(u) = n + 5
  <2>1. u \in Seq(S) /\ Len(u) = Len(s) + Len(q)
    BY <1>1, ConcatProperties
  <2> QED BY <2>1, <1>1, <1>2
<1>9. \A i \in 1..(n + 5) : u[i] = IF i <= n THEN s[i] ELSE q[i - n]
  <2>1. \A i \in 1..(Len(s) + Len(q)) : u[i] = IF i <= Len(s) THEN s[i] ELSE q[i - Len(s)]
    BY <1>1, ConcatProperties
  <2> HIDE DEF u
  <2> QED BY <2>1, <1>1, <1>2
<1> HIDE DEF u
<1>91. \A i \in 1..n : u[i] = t5[i]
  BY <1>9, <1>3, <1>4, <1>5, <1>6, <1>7
<1>92. u[n + 1] = a /\ u[n + 2] = b /\ u[n + 3] = c /\ u[n + 4] = d /\ u[n + 5] = e
  BY <1>9, <1>1
<1>93. t5[n + 1] = a /\ t5[n + 2] = b /\ t5[n + 3] = c /\ t5[n + 4] = d /\ t5[n + 5] = e
  BY <1>3, <1>4, <1>5, <1>6, <1>7
<1>94. \A i \in 1..(n + 5) : i \in 1..n \/ i \in {n + 1, n + 2, n + 3, n + 4, n + 5}
  OBVIOUS
<1>95. \A i \in 1..(n + 5) : u[i] = t5[i]
  BY <1>91, <1>92, <1>93, <1>94
<1>10. u = t5
  BY <1>7, <1>8, <1>95, SeqEqual
<1> QED BY <1>10 DEF q, u, t1, t2, t3, t4, t5

\* Five more ventries.
LEMMA FiveCount ==
    ASSUME NEW s \in Seq(Vents), IsFiniteSet(MountsOf(s)),
           NEW a \in Vents, NEW b \in Vents, NEW c \in Vents, NEW d \in Vents, NEW e \in Vents
    PROVE  LET t == s \o <<a, b, c, d, e>>
           IN /\ Cardinality(MountsOf(t)) =
                   Cardinality(MountsOf(s)) + Len(a) + Len(b) + Len(c) + Len(d) + Len(e)
              /\ Cardinality(DataOf(t)) =
                   Cardinality(DataOf(s)) + HasData(a) + HasData(b) + HasData(c) + HasData(d) + HasData(e)
<1> DEFINE t1 == Append(s, a)
           t2 == Append(t1, b)
           t3 == Append(t2, c)
           t4 == Append(t3, d)
           t5 == Append(t4, e)
<1>1. s \o <<a, b, c, d, e>> = t5
  BY FiveAppended
<1>2. t1 \in Seq(Vents) /\ t2 \in Seq(Vents) /\ t3 \in Seq(Vents) /\ t4 \in Seq(Vents)
  BY AppendProperties
<1> HIDE DEF t1, t2, t3, t4, t5
<1>3. /\ IsFiniteSet(MountsOf(t1))
      /\ Cardinality(MountsOf(t1)) = Cardinality(MountsOf(s)) + Len(a)
      /\ Cardinality(DataOf(t1)) = Cardinality(DataOf(s)) + HasData(a)
  BY AppendCount DEF t1
<1>4. /\ IsFiniteSet(MountsOf(t2))
      /\ Cardinality(MountsOf(t2)) = Cardinality(MountsOf(t1)) + Len(b)
      /\ Cardinality(DataOf(t2)) = Cardinality(DataOf(t1)) + HasData(b)
  BY <1>2, <1>3, AppendCount DEF t2
<1>5. /\ IsFiniteSet(MountsOf(t3))
      /\ Cardinality(MountsOf(t3)) = Cardinality(MountsOf(t2)) + Len(c)
      /\ Cardinality(DataOf(t3)) = Cardinality(DataOf(t2)) + HasData(c)
  BY <1>2, <1>4, AppendCount DEF t3
<1>6. /\ IsFiniteSet(MountsOf(t4))
      /\ Cardinality(MountsOf(t4)) = Cardinality(MountsOf(t3)) + Len(d)
      /\ Cardinality(DataOf(t4)) = Cardinality(DataOf(t3)) + HasData(d)
  BY <1>2, <1>5, AppendCount DEF t4
<1>7. /\ IsFiniteSet(MountsOf(t5))
      /\ Cardinality(MountsOf(t5)) = Cardinality(MountsOf(t4)) + Len(e)
      /\ Cardinality(DataOf(t5)) = Cardinality(DataOf(t4)) + HasData(e)
  BY <1>2, <1>6, AppendCount DEF t5
<1> QED BY <1>1, <1>3, <1>4, <1>5, <1>6, <1>7
\* A sequence without its element i.
LEMMA RemoveAtShape ==
    ASSUME NEW S, NEW s \in Seq(S), NEW i \in 1..Len(s)
    PROVE  /\ RemoveAt(s, i) \in Seq(S)
           /\ Len(RemoveAt(s, i)) = Len(s) - 1
           /\ \A k \in 1..(Len(s) - 1) : RemoveAt(s, i)[k] = s[IF k < i THEN k ELSE k + 1]
<1> DEFINE a == SubSeq(s, 1, i - 1)
           b == SubSeq(s, i + 1, Len(s))
<1>1. PICK n \in Nat : n = Len(s)
  BY LenProperties
<1>2. \A k \in 1..n : s[k] \in S
  BY <1>1, ElementOfSeq
<1>3. a \in Seq(S) /\ Len(a) = i - 1 /\ \A k \in 1..(i - 1) : a[k] = s[k]
  BY <1>1, <1>2, SubSeqProperties
<1>4. b \in Seq(S) /\ Len(b) = n - i /\ \A k \in 1..(n - i) : b[k] = s[i + k]
  BY <1>1, <1>2, SubSeqProperties
<1> HIDE DEF a, b
<1>5. a \o b \in Seq(S) /\ Len(a \o b) = Len(a) + Len(b)
      /\ \A k \in 1..(Len(a) + Len(b)) : (a \o b)[k] = IF k <= Len(a) THEN a[k] ELSE b[k - Len(a)]
  BY <1>3, <1>4, ConcatProperties
<1> DEFINE u == a \o b
<1> HIDE DEF u
<1>6. u \in Seq(S) /\ Len(u) = n - 1
  BY <1>1, <1>3, <1>4, <1>5 DEF u
<1>7. \A k \in 1..(n - 1) : u[k] = IF k < i THEN a[k] ELSE b[k - (i - 1)]
  BY <1>1, <1>3, <1>4, <1>5 DEF u
<1>8. \A k \in 1..(n - 1) : u[k] = s[IF k < i THEN k ELSE k + 1]
  BY <1>1, <1>3, <1>4, <1>7
<1> QED BY <1>1, <1>6, <1>8 DEF u, a, b, RemoveAt

\* A ventry that goes takes its mounts and its data with it.
LEMMA RemoveCount ==
    ASSUME NEW s \in Seq(Vents), NEW i \in 1..Len(s), IsFiniteSet(MountsOf(s))
    PROVE  /\ IsFiniteSet(MountsOf(RemoveAt(s, i)))
           /\ Cardinality(MountsOf(RemoveAt(s, i))) = Cardinality(MountsOf(s)) - Len(s[i])
           /\ Cardinality(DataOf(RemoveAt(s, i))) = Cardinality(DataOf(s)) - HasData(s[i])
<1> DEFINE t == RemoveAt(s, i)
           Up(k) == IF k < i THEN k ELSE k + 1
           M == MountsOf(s) \ At(i, DOMAIN s[i])
           D == DataOf(s) \ At(i, Data(s[i]))
           f == [p \in MountsOf(t) |-> <<Up(p[1]), p[2]>>]
           g == [p \in DataOf(t) |-> f[p]]
<1>1. PICK n \in Nat : n = Len(s) /\ DOMAIN s = 1..n
  BY LenProperties
<1>2. /\ t \in Seq(Vents) /\ DOMAIN t = 1..(n - 1)
      /\ \A k \in 1..(n - 1) : t[k] = s[Up(k)] /\ Up(k) \in (1..n) \ {i}
  <2>1. /\ t \in Seq(Vents) /\ Len(t) = Len(s) - 1
        /\ \A k \in 1..(Len(s) - 1) : t[k] = s[IF k < i THEN k ELSE k + 1]
    BY RemoveAtShape
  <2>2. DOMAIN t = 1..Len(t)
    BY <2>1, LenProperties
  <2> HIDE DEF t
  <2> QED BY <1>1, <2>1, <2>2
<1>3. \A k \in (1..n) \ {i} : \E m \in 1..(n - 1) : Up(m) = k
  <2> TAKE k \in (1..n) \ {i}
  <2>1. CASE k < i
    BY <2>1, <1>1
  <2>2. CASE k > i
    <3>1. k - 1 \in 1..(n - 1) /\ Up(k - 1) = k
      BY <2>2, <1>1
    <3> QED BY <3>1
  <2> QED BY <2>1, <2>2, <1>1
<1>4. \A k, m \in 1..(n - 1) : Up(k) = Up(m) => k = m
  BY <1>1
<1> HIDE DEF t, Up
<1>5. \A p : p \in MountsOf(t) <=> \E k \in 1..(n - 1) : p \in {k} \X DOMAIN s[Up(k)]
  BY <1>2 DEF MountsOf
<1>6. \A p : p \in M <=> \E k \in (1..n) \ {i} : p \in {k} \X DOMAIN s[k]
  <2>1. \A p : p \in MountsOf(s) <=> \E k \in 1..n : p \in {k} \X DOMAIN s[k]
    BY <1>1 DEF MountsOf
  <2>2. \A p, k : p \in {k} \X DOMAIN s[k] => p[1] = k
    OBVIOUS
  <2>3. \A p, k : p \in {k} \X DOMAIN s[k] => (p \in At(i, DOMAIN s[i]) <=> k = i)
    BY <2>2 DEF At
  <2> QED BY <2>1, <2>3 DEF At
<1>7. \A p \in MountsOf(t) : /\ p = <<p[1], p[2]>> /\ p[1] \in 1..(n - 1) /\ p[2] \in DOMAIN s[Up(p[1])]
  BY <1>5
<1>8. \A p \in M : p = <<p[1], p[2]>> /\ p[1] \in (1..n) \ {i} /\ p[2] \in DOMAIN s[p[1]]
  BY <1>6
<1> HIDE DEF M
<1>9. f \in [MountsOf(t) -> M]
  <2> SUFFICES ASSUME NEW p \in MountsOf(t) PROVE <<Up(p[1]), p[2]>> \in M
    OBVIOUS
  <2>1. Up(p[1]) \in (1..n) \ {i} /\ p[2] \in DOMAIN s[Up(p[1])]
    BY <1>2, <1>7
  <2> QED BY <1>6, <2>1
<1>10. \A p, q \in MountsOf(t) : f[p] = f[q] => p = q
  <2> SUFFICES ASSUME NEW p \in MountsOf(t), NEW q \in MountsOf(t), f[p] = f[q] PROVE p = q
    OBVIOUS
  <2>1. Up(p[1]) = Up(q[1]) /\ p[2] = q[2]
    OBVIOUS
  <2> QED BY <2>1, <1>4, <1>7
<1>11. \A q \in M : \E p \in MountsOf(t) : f[p] = q
  <2> SUFFICES ASSUME NEW q \in M PROVE \E p \in MountsOf(t) : f[p] = q
    OBVIOUS
  <2>1. PICK m \in 1..(n - 1) : Up(m) = q[1]
    BY <1>3, <1>8
  <2>2. <<m, q[2]>> \in MountsOf(t)
    BY <1>5, <1>8, <2>1
  <2>3. f[<<m, q[2]>>] = q
    BY <1>8, <2>1, <2>2
  <2> QED BY <2>2, <2>3
<1>12. f \in Bijection(MountsOf(t), M)
  BY <1>9, <1>10, <1>11, Fun_IsBij
<1>13. \A p \in MountsOf(t) : t[p[1]][p[2]] = s[f[p][1]][f[p][2]]
  BY <1>2, <1>7
<1> HIDE DEF f
<1>14. D = {q \in M : s[q[1]][q[2]]}
  <2>1. \A q \in At(i, DOMAIN s[i]) : q \in At(i, Data(s[i])) <=> s[q[1]][q[2]]
    BY DEF At, Data
  <2>2. \A q : q \in At(i, Data(s[i])) => q \in At(i, DOMAIN s[i])
    BY DEF At, Data
  <2> QED BY <2>1, <2>2 DEF M, DataOf
<1>15. g \in Bijection(DataOf(t), D)
  <2>1. \A p \in DataOf(t) : p \in MountsOf(t) /\ t[p[1]][p[2]]
    BY DEF DataOf
  <2>2. g \in [DataOf(t) -> D]
    BY <2>1, <1>9, <1>13, <1>14
  <2>3. \A p, q \in DataOf(t) : g[p] = g[q] => p = q
    BY <2>1, <1>10
  <2>4. \A q \in D : \E p \in DataOf(t) : g[p] = q
    <3> SUFFICES ASSUME NEW q \in D PROVE \E p \in DataOf(t) : g[p] = q
      OBVIOUS
    <3>1. q \in M /\ s[q[1]][q[2]]
      BY <1>14
    <3>2. PICK p \in MountsOf(t) : f[p] = q
      BY <1>11, <3>1
    <3>3. p \in DataOf(t)
      BY <1>13, <3>1, <3>2 DEF DataOf
    <3> QED BY <3>2, <3>3
  <2> HIDE DEF g, D
  <2> QED BY <2>2, <2>3, <2>4, Fun_IsBij
<1> HIDE DEF g
<1>16. s[i] \in Vents /\ i \in 1..n
  BY <1>1, ElementOfSeq
<1>17. /\ At(i, DOMAIN s[i]) \subseteq MountsOf(s)
       /\ At(i, Data(s[i])) \subseteq DataOf(s)
  <2>1. At(i, DOMAIN s[i]) \subseteq MountsOf(s)
    BY <1>1, <1>16 DEF At, MountsOf
  <2> QED BY <2>1 DEF At, Data, DataOf
<1>18. IsFiniteSet(DataOf(s))
  BY FS_Subset DEF DataOf
<1>19. /\ Cardinality(At(i, DOMAIN s[i])) = Len(s[i]) /\ Cardinality(At(i, Data(s[i]))) = HasData(s[i])
  BY <1>16, VentCount, AtCount
<1>20. IsFiniteSet(M) /\ Cardinality(M) = Cardinality(MountsOf(s)) - Len(s[i])
  <2>1. MountsOf(s) \cap At(i, DOMAIN s[i]) = At(i, DOMAIN s[i])
    BY <1>17
  <2>2. /\ IsFiniteSet(MountsOf(s) \ At(i, DOMAIN s[i]))
        /\ Cardinality(MountsOf(s) \ At(i, DOMAIN s[i])) = Cardinality(MountsOf(s)) - Cardinality(MountsOf(s) \cap At(i, DOMAIN s[i]))
    BY FS_Difference
  <2> QED BY <2>1, <2>2, <1>19 DEF M
<1>21. IsFiniteSet(D) /\ Cardinality(D) = Cardinality(DataOf(s)) - HasData(s[i])
  <2>1. DataOf(s) \cap At(i, Data(s[i])) = At(i, Data(s[i]))
    BY <1>17
  <2>2. /\ IsFiniteSet(DataOf(s) \ At(i, Data(s[i])))
        /\ Cardinality(DataOf(s) \ At(i, Data(s[i]))) = Cardinality(DataOf(s)) - Cardinality(DataOf(s) \cap At(i, Data(s[i])))
    BY <1>18, FS_Difference
  <2> QED BY <2>1, <2>2, <1>19
<1> HIDE DEF D
<1>22. ExistsBijection(M, MountsOf(t)) /\ ExistsBijection(D, DataOf(t))
  <2>1. ExistsBijection(MountsOf(t), M) /\ ExistsBijection(DataOf(t), D)
    BY <1>12, <1>15 DEF ExistsBijection
  <2> QED BY <2>1, Fun_ExistsBijSymmetric
<1> QED BY <1>20, <1>21, <1>22, FS_Bijection DEF t

----------------------------------------------------------------------------
(* The steps that look up and free.                                        *)

\* A ventry in two parts.
LEMMA SplitCount ==
    ASSUME NEW v \in Vents, NEW r \in 0..Len(v)
    PROVE  LET a == SubSeq(v, 1, r)
               b == SubSeq(v, r + 1, Len(v))
           IN /\ a \in Vents /\ b \in Vents
              /\ Len(a) = r /\ Len(b) = Len(v) - r
              /\ HasData(v) = HasData(a) + HasData(b)
<1> DEFINE a == SubSeq(v, 1, r)
           b == SubSeq(v, r + 1, Len(v))
           A == Data(a)
           B == Data(v) \ A
           f == [k \in Data(b) |-> r + k]
<1>1. PICK n \in Nat : n = Len(v) /\ DOMAIN v = 1..n
  BY LenProperties DEF Vents
<1>2. \A k \in 1..n : v[k] \in BOOLEAN
  BY <1>1, ElementOfSeq DEF Vents
<1>3. a \in Vents /\ Len(a) = r /\ \A k \in 1..r : a[k] = v[k]
  BY <1>1, <1>2, SubSeqProperties DEF Vents
<1>4. b \in Vents /\ Len(b) = n - r /\ \A k \in 1..(n - r) : b[k] = v[r + k]
  BY <1>1, <1>2, SubSeqProperties DEF Vents
<1> HIDE DEF a, b
<1>5. DOMAIN a = 1..r /\ DOMAIN b = 1..(n - r)
  BY <1>3, <1>4, LenProperties DEF Vents
<1>6. \A k : k \in A <=> k \in 1..r /\ v[k]
  BY <1>3, <1>5 DEF Data
<1>7. \A k : k \in B <=> k \in (r + 1)..n /\ v[k]
  BY <1>1, <1>6 DEF Data
<1>8. \A k : k \in Data(b) <=> k \in 1..(n - r) /\ v[r + k]
  BY <1>4, <1>5 DEF Data
<1>9. f \in Bijection(Data(b), B)
  <2>1. f \in [Data(b) -> B]
    <3> SUFFICES ASSUME NEW k \in Data(b) PROVE r + k \in B
      OBVIOUS
    <3>1. k \in 1..(n - r) /\ v[r + k]
      BY <1>8
    <3>2. r + k \in (r + 1)..n
      BY <3>1, <1>1
    <3> QED BY <1>7, <3>1, <3>2
  <2>2. \A k, m \in Data(b) : f[k] = f[m] => k = m
    BY <1>1, <1>8
  <2>3. \A q \in B : \E k \in Data(b) : f[k] = q
    <3> SUFFICES ASSUME NEW q \in B PROVE \E k \in Data(b) : f[k] = q
      OBVIOUS
    <3>1. q \in (r + 1)..n /\ v[q]
      BY <1>7
    <3>2. q - r \in 1..(n - r) /\ r + (q - r) = q
      BY <3>1, <1>1
    <3>3. q - r \in Data(b)
      BY <1>8, <3>1, <3>2
    <3> QED BY <3>2, <3>3
  <2> HIDE DEF f, B
  <2> QED BY <2>1, <2>2, <2>3, Fun_IsBij
<1>10. /\ IsFiniteSet(Data(v)) /\ Cardinality(Data(v)) = HasData(v)
       /\ Cardinality(A) = HasData(a) /\ IsFiniteSet(A)
       /\ Cardinality(Data(b)) = HasData(b) /\ IsFiniteSet(Data(b))
       /\ HasData(v) \in Nat /\ HasData(a) \in Nat /\ HasData(b) \in Nat
  BY <1>3, <1>4, VentCount
<1>11. Cardinality(B) = HasData(v) - HasData(a)
  <2>1. A \subseteq Data(v)
    BY <1>1, <1>6 DEF Data
  <2>2. Data(v) \cap A = A
    BY <2>1
  <2>3. Cardinality(Data(v) \ A) = Cardinality(Data(v)) - Cardinality(Data(v) \cap A)
    BY <1>10, FS_Difference
  <2> QED BY <2>2, <2>3, <1>10
<1>12. Cardinality(B) = HasData(b)
  <2>1. ExistsBijection(Data(b), B)
    BY <1>9 DEF ExistsBijection
  <2> QED BY <2>1, <1>10, FS_Bijection
<1> QED BY <1>1, <1>3, <1>4, <1>10, <1>11, <1>12 DEF a, b

\* What the last mount adds to those below.
LEMMA FrontCount ==
    ASSUME NEW v \in Vents, v # <<>>
    PROVE  /\ Front(v) \in Vents /\ Len(Front(v)) = Len(v) - 1
           /\ Last(v) \in BOOLEAN
           /\ HasData(v) = HasData(Front(v)) + (IF Last(v) THEN 1 ELSE 0)
<1>1. PICK n \in Nat : n = Len(v) /\ n > 0 /\ v[n] \in BOOLEAN
  BY EmptySeq, ElementOfSeq DEF Vents
<1> DEFINE b == SubSeq(v, n, n)
<1>2. /\ Front(v) \in Vents /\ Len(Front(v)) = n - 1
      /\ HasData(v) = HasData(Front(v)) + HasData(b)
  <2>1. n - 1 \in 0..Len(v) /\ (n - 1) + 1 = n
    BY <1>1
  <2> QED BY <1>1, <2>1, SplitCount DEF Front
<1>3. b \in Vents /\ Len(b) = 1 /\ b[1] = v[n]
  <2>1. \A i \in n..n : v[i] \in BOOLEAN
    BY <1>1
  <2>2. b \in Seq(BOOLEAN) /\ Len(b) = (IF n <= n THEN n - n + 1 ELSE 0) /\ \A i \in 1..(n - n + 1) : b[i] = v[n + i - 1]
    BY <1>1, <2>1, SubSeqProperties
  <2> QED BY <1>1, <2>2 DEF Vents
<1> HIDE DEF b
<1>4. DOMAIN b = {1}
  BY <1>3, LenProperties DEF Vents
<1>5. HasData(b) = IF v[n] THEN 1 ELSE 0
  <2>1. {i \in DOMAIN b : b[i]} = IF v[n] THEN {1} ELSE {}
    BY <1>1, <1>3, <1>4
  <2> QED BY <1>1, <2>1, FS_Singleton, FS_EmptySet DEF HasData
<1> QED BY <1>1, <1>2, <1>5 DEF Last

\* A mount on top of a ventry.
LEMMA PushCount ==
    ASSUME NEW v \in Vents, NEW x \in BOOLEAN
    PROVE  /\ Append(v, x) \in Vents /\ Append(v, x) # <<>>
           /\ Len(Append(v, x)) = Len(v) + 1
           /\ HasData(Append(v, x)) = HasData(v) + (IF x THEN 1 ELSE 0)
           /\ x => Append(v, x) \in Full
<1> DEFINE u == Append(v, x)
<1>1. PICK n \in Nat : n = Len(v)
  BY LenProperties DEF Vents
<1>2. u \in Vents /\ u # <<>> /\ Len(u) = n + 1 /\ u[n + 1] = x /\ \A i \in 1..n : u[i] = v[i]
  BY <1>1, AppendProperties DEF Vents
<1> HIDE DEF u
<1>3. Last(u) = x
  BY <1>1, <1>2 DEF Last
<1>4. Front(u) = v
  <2>1. \A i \in 1..n : u[i] \in BOOLEAN
    BY <1>1, <1>2, ElementOfSeq DEF Vents
  <2>2. /\ SubSeq(u, 1, n) \in Seq(BOOLEAN) /\ Len(SubSeq(u, 1, n)) = n
        /\ \A i \in 1..n : SubSeq(u, 1, n)[i] = u[i]
    BY <1>1, <2>1, SubSeqProperties
  <2>3. SubSeq(u, 1, n) = v
    BY <1>1, <1>2, <2>2, SeqEqual DEF Vents
  <2> QED BY <1>1, <1>2, <2>3 DEF Front
<1>5. HasData(u) = HasData(v) + (IF x THEN 1 ELSE 0)
  BY <1>2, <1>3, <1>4, FrontCount
<1>6. x => u \in Full
  BY <1>2, <1>3 DEF Full
<1> QED BY <1>1, <1>2, <1>5, <1>6 DEF u

Works == [ve : Vents, given : Int, fsrefs : Int, ok : BOOLEAN, link : BOOLEAN]

\* p has the same beside its ventry as w has.
SameRest(w, p) ==
    /\ p.given - HasData(p.ve) = w.given - HasData(w.ve)
    /\ p.fsrefs - Len(p.ve) = w.fsrefs - Len(w.ve)

\* p may come out of the lookup of a segment in w.
Outcome(w, p) == p \in Works /\ p.ve # <<>> /\ (p.ok => p.ve \in Full) /\ SameRest(w, p)

\* To leave mounts frees what they have.
LEMMA LeaveMountsCount ==
    ASSUME NEW w \in Works, NEW n \in 0..(Len(w.ve) - 1)
    PROVE  LET p == LeaveMounts(w, n)
           IN p \in Works /\ p.ve # <<>> /\ SameRest(w, p)
<1>1. w.ve \in Vents /\ w.given \in Int /\ w.fsrefs \in Int
  BY DEF Works
<1>2. PICK m \in Nat : m = Len(w.ve) - n /\ m > 0 /\ m \in 0..Len(w.ve)
  <2>1. Len(w.ve) \in Nat
    BY <1>1, VentCount
  <2>2. PICK k \in Nat : k = Len(w.ve)
    BY <2>1
  <2>3. n \in 0..(k - 1)
    BY <2>2
  <2>4. k - n \in Nat /\ k - n > 0 /\ k - n \in 0..k
    BY ONLY <2>2, <2>3
  <2> QED BY ONLY <2>2, <2>4
<1> DEFINE a == SubSeq(w.ve, 1, m)
           b == SubSeq(w.ve, m + 1, Len(w.ve))
<1>3. /\ a \in Vents /\ b \in Vents /\ Len(a) = m /\ Len(b) = Len(w.ve) - m
      /\ HasData(w.ve) = HasData(a) + HasData(b)
  BY <1>1, <1>2, SplitCount
<1>4. LeaveMounts(w, n) = [w EXCEPT !.given = @ - HasData(b), !.fsrefs = @ - Len(b), !.ve = a]
  BY <1>2 DEF LeaveMounts, av_free_ventry, Works
<1> HIDE DEF a, b
<1>5. HasData(a) \in Nat /\ HasData(b) \in Nat /\ Len(w.ve) \in Nat /\ Len(b) \in Nat
  BY <1>1, <1>3, VentCount
<1>6. PICK p : p = LeaveMounts(w, n)
  OBVIOUS
<1>61. PICK g \in Int, r \in Int : g = w.given - HasData(b) /\ r = w.fsrefs - Len(b)
  BY <1>1, <1>5
<1>62. p = [w EXCEPT !.given = g, !.fsrefs = r, !.ve = a]
  BY <1>4, <1>6, <1>61
<1>63. p \in Works /\ p.ve = a /\ p.given = g /\ p.fsrefs = r
  BY <1>3, <1>62 DEF Works
<1>7. p \in Works /\ p.ve = a /\ p.given = w.given - HasData(b) /\ p.fsrefs = w.fsrefs - Len(b)
  BY <1>61, <1>63
<1>8. p.ve # <<>>
  BY <1>2, <1>3, <1>7, SmallVents
<1>9. SameRest(w, p)
  <2>1. p.given - HasData(p.ve) = w.given - HasData(w.ve)
    BY ONLY <1>1, <1>3, <1>5, <1>7
  <2>2. p.fsrefs - Len(p.ve) = w.fsrefs - Len(w.ve)
    BY ONLY <1>1, <1>2, <1>3, <1>5, <1>7
  <2> QED BY <2>1, <2>2 DEF SameRest
<1> QED BY <1>6, <1>7, <1>8, <1>9

\* lookup_virtual replaces the data of the last mount.
LEMMA LookupCount ==
    ASSUME NEW w \in Works, NEW p \in lookup_virtual(w)
    PROVE  Outcome(w, p)
<1>1. PICK q \in Parents(w) : p = Refused(q) \/ \E l \in BOOLEAN : p = Renewed(q, l)
  BY DEF lookup_virtual
<1>2. PICK n \in 0..(Len(w.ve) - 1) : q = LeaveMounts(w, n)
  BY DEF Parents
<1>3. q \in Works /\ q.ve # <<>> /\ SameRest(w, q)
  BY <1>2, LeaveMountsCount
<1>4. q.ve \in Vents /\ q.given \in Int /\ q.fsrefs \in Int
  BY <1>3 DEF Works
<1>5. CASE p = Refused(q)
  <2>1. p \in Works /\ p.ve = q.ve /\ p.given = q.given /\ p.fsrefs = q.fsrefs /\ ~p.ok
    BY <1>3, <1>5 DEF Works, Refused
  <2> QED BY <1>3, <2>1 DEF Outcome, SameRest
<1>6. ASSUME NEW l \in BOOLEAN, p = Renewed(q, l)
      PROVE  Outcome(w, p)
  <2> DEFINE v == Append(Front(q.ve), TRUE)
  <2>1. /\ Front(q.ve) \in Vents /\ Len(Front(q.ve)) = Len(q.ve) - 1 /\ Last(q.ve) \in BOOLEAN
        /\ HasData(q.ve) = HasData(Front(q.ve)) + (IF Last(q.ve) THEN 1 ELSE 0)
    BY <1>3, <1>4, FrontCount
  <2>2. /\ v \in Full /\ v \in Vents /\ v # <<>> /\ Len(v) = Len(Front(q.ve)) + 1
        /\ HasData(v) = HasData(Front(q.ve)) + 1
    BY <2>1, PushCount
  <2>3. HasData(Front(q.ve)) \in Nat /\ Len(Front(q.ve)) \in Nat /\ Len(q.ve) \in Nat
    BY <1>4, <2>1, VentCount
  <2> HIDE DEF v
  <2> DEFINE g == IF Last(q.ve) THEN q.given ELSE q.given + 1
  <2>40. g \in Int
    BY <1>4, <2>1
  <2>41. p = [q EXCEPT !.ve = v, !.link = l, !.given = g]
    BY <1>3, <1>6 DEF Renewed, v, Works
  <2> HIDE DEF g
  <2>42. p \in Works /\ p.ve = v /\ p.fsrefs = q.fsrefs /\ p.given = g
    BY <1>3, <2>2, <2>40, <2>41 DEF Works
  <2>4. /\ p \in Works /\ p.ve = v /\ p.fsrefs = q.fsrefs
        /\ p.given = IF Last(q.ve) THEN q.given ELSE q.given + 1
    BY <2>42 DEF g
  <2>5. HasData(v) = HasData(q.ve) + (IF Last(q.ve) THEN 0 ELSE 1) /\ Len(v) = Len(q.ve)
    BY <2>1, <2>2, <2>3
  <2>6. HasData(q.ve) \in Nat
    BY <1>4, VentCount
  <2>7. SameRest(q, p)
    BY <1>4, <2>1, <2>3, <2>4, <2>5, <2>6 DEF SameRest
  <2> QED BY <1>3, <2>2, <2>4, <2>7 DEF Outcome, SameRest
<1> QED BY <1>1, <1>5, <1>6

\* enter_mount has the reference of the new mount.
LEMMA EnterCount ==
    ASSUME NEW w \in Works, NEW p \in enter_mount(w)
    PROVE  Outcome(w, p)
<1>1. PICK m : m = Mounted(w)
  OBVIOUS
<1>2. w.ve \in Vents /\ w.given \in Int /\ w.fsrefs \in Int
  BY DEF Works
<1> DEFINE v == Append(w.ve, FALSE)
<1>3. /\ v \in Vents /\ v # <<>> /\ Len(v) = Len(w.ve) + 1 /\ HasData(v) = HasData(w.ve) + 0
      /\ HasData(w.ve) \in Nat /\ Len(w.ve) \in Nat
  BY <1>2, PushCount, VentCount
<1>30. PICK r \in Int : r = w.fsrefs + 1
  BY <1>2
<1>31. m = [w EXCEPT !.ve = v, !.fsrefs = r]
  BY <1>1, <1>30 DEF Mounted, Works
<1> HIDE DEF v
<1>32. m \in Works /\ m.ve = v /\ m.given = w.given /\ m.fsrefs = r
  BY <1>3, <1>31 DEF Works
<1>4. m \in Works /\ m.ve = v /\ m.given = w.given /\ m.fsrefs = w.fsrefs + 1
  BY <1>30, <1>32
<1>5. SameRest(w, m) /\ m.ve # <<>>
  BY <1>2, <1>3, <1>4 DEF SameRest
<1>6. p = Refused(m) \/ p \in lookup_virtual(m)
  BY <1>1 DEF enter_mount
<1>7. CASE p = Refused(m)
  <2>1. p \in Works /\ p.ve = m.ve /\ p.given = m.given /\ p.fsrefs = m.fsrefs /\ ~p.ok
    BY <1>4, <1>7 DEF Works, Refused
  <2> QED BY <1>5, <2>1 DEF Outcome, SameRest
<1>8. CASE p \in lookup_virtual(m)
  <2>1. Outcome(m, p)
    BY <1>4, <1>8, LookupCount
  <2> QED BY <1>5, <2>1 DEF Outcome, SameRest
<1> QED BY <1>6, <1>7, <1>8

----------------------------------------------------------------------------
(* The inductive invariant of the calls.                                   *)

PathPcs == {"idle", "parse", "next", "link", "error", "tmpopen", "tmpfree", "again", "act", "file"}
FrameSet == [segs : Int, links : Int, resolve : BOOLEAN, first : BOOLEAN, exts : Int]

\* The values of links that readlink may have made.
OpSet == {"none"} \cup EntryOps \cup ChangeOps \cup TwoOps \cup AttrOps \cup OpenOps
AnswerSet == {"none", "ok", "error"}
Rewrites ==
    {<<>>} \cup {<<p, d, transform_symlink(p, d)>> : p \in LinkPaths \ {<<>>}, d \in LinkPaths}

VCalls ==
    [pc : PathPcs, op : OpSet, need : 0..2, got : Seq(Full), ve : Vents, frames : Seq(FrameSet),
     forced : BOOLEAN, tmp : Vents, vf : Full \cup {<<>>}, ans : AnswerSet, rewritten : Rewrites]

\* While a path is parsed the call has the ventry it is at, which has data of its last
\* mount unless the lookup has failed, and no more than two in all; it has a file only when
\* it has no ventry.
Parsing == {"parse", "next", "link", "error", "tmpopen", "tmpfree"}
CallInv(c) ==
    /\ c \in VCalls
    /\ c.pc \in Parsing => /\ c.ve # <<>> /\ c.vf = <<>> /\ c.frames # <<>>
                           /\ c.pc # "error" => c.ve \in Full
                           /\ c.need >= 1 /\ Len(c.got) + c.need <= 2
    /\ c.pc \notin Parsing => c.ve = <<>>
    /\ c.pc \in {"idle", "file"} => c.got = <<>>
    /\ c.pc = "again" => c.need = 1 /\ Len(c.got) = 1
    /\ c.pc = "act" => Len(c.got) \in 1..2
    /\ c.pc = "file" => c.vf \in Full
    /\ c.pc # "file" => c.vf = <<>>

\* What a call has: its ventries' data and mounts.
TriedIn(c) == IF c.pc \in {"tmpopen", "tmpfree"} THEN c.tmp ELSE <<>>
GotIn(g, i) == IF i \in DOMAIN g THEN g[i] ELSE <<>>
GotData(g) == HasData(GotIn(g, 1)) + HasData(GotIn(g, 2))
GotMounts(g) == Len(GotIn(g, 1)) + Len(GotIn(g, 2))
CallData(c) == HasData(c.ve) + HasData(c.vf) + HasData(TriedIn(c)) + GotData(c.got)
CallMounts(c) == Len(c.ve) + Len(c.vf) + Len(TriedIn(c)) + GotMounts(c.got)

\* What the open files have.
OpenData == Cardinality(DataOf(vopen))
OpenMounts == Cardinality(MountsOf(vopen))

OpensInv == vopen \in Seq(Full) /\ IsFiniteSet(MountsOf(vopen))
ParseInv ==
    /\ CallInv(vcall) /\ OpensInv
    /\ given = OpenData + CallData(vcall)
    /\ fsrefs = OpenMounts + CallMounts(vcall)

\* The ventries that a call has got are counted by numbers.
LEMMA GotCount ==
    ASSUME NEW g \in Seq(Full)
    PROVE  /\ \A i : GotIn(g, i) \in Vents
           /\ GotData(g) \in Nat /\ GotMounts(g) \in Nat
           /\ GotData(<<>>) = 0 /\ GotMounts(<<>>) = 0
<1>1. \A i \in DOMAIN g : g[i] \in Full
  BY ElementOfSeq, LenProperties
<1>2. \A i : GotIn(g, i) \in Vents
  BY <1>1, SmallVents DEF GotIn, Full
<1>3. /\ HasData(GotIn(g, 1)) \in Nat /\ HasData(GotIn(g, 2)) \in Nat
      /\ Len(GotIn(g, 1)) \in Nat /\ Len(GotIn(g, 2)) \in Nat
  BY <1>2, VentCount
<1>4. GotIn(<<>>, 1) = <<>> /\ GotIn(<<>>, 2) = <<>>
  BY DEF GotIn
<1> QED BY <1>2, <1>3, <1>4, SmallVents DEF GotData, GotMounts

\* One more has been got.
LEMMA GotMore ==
    ASSUME NEW g \in Seq(Full), Len(g) <= 1, NEW v \in Full
    PROVE  /\ Append(g, v) \in Seq(Full) /\ Len(Append(g, v)) = Len(g) + 1
           /\ GotData(Append(g, v)) = GotData(g) + HasData(v)
           /\ GotMounts(Append(g, v)) = GotMounts(g) + Len(v)
<1>1. PICK h : h = Append(g, v)
  OBVIOUS
<1>2. /\ h \in Seq(Full) /\ Len(h) = Len(g) + 1 /\ Len(g) \in Nat
      /\ DOMAIN g = 1..Len(g) /\ DOMAIN h = 1..Len(h)
      /\ h[Len(g) + 1] = v /\ \A i \in 1..Len(g) : h[i] = g[i]
  BY <1>1, AppendProperties, LenProperties
<1>3. HasData(v) \in Nat /\ Len(v) \in Nat /\ HasData(<<>>) = 0 /\ Len(<<>>) = 0
  BY VentCount, SmallVents DEF Full
<1>4. CASE Len(g) = 0
  <2>1. GotIn(g, 1) = <<>> /\ GotIn(g, 2) = <<>> /\ GotIn(h, 1) = v /\ GotIn(h, 2) = <<>>
    BY <1>2, <1>4 DEF GotIn
  <2> QED BY <1>1, <1>2, <1>3, <2>1 DEF GotData, GotMounts
<1>5. CASE Len(g) = 1
  <2>1. GotIn(g, 2) = <<>> /\ GotIn(h, 1) = GotIn(g, 1) /\ GotIn(h, 2) = v
    BY <1>2, <1>5 DEF GotIn
  <2>2. HasData(GotIn(g, 1)) \in Nat /\ Len(GotIn(g, 1)) \in Nat
    BY GotCount, VentCount
  <2> QED BY <1>1, <1>2, <1>3, <2>1, <2>2 DEF GotData, GotMounts
<1> QED BY <1>2, <1>4, <1>5

\* What a call has is counted by numbers.
LEMMA CallCount ==
    ASSUME NEW c, CallInv(c)
    PROVE  /\ c.ve \in Vents /\ c.vf \in Vents /\ TriedIn(c) \in Vents /\ c.got \in Seq(Full)
           /\ HasData(c.ve) \in Nat /\ HasData(c.vf) \in Nat /\ HasData(TriedIn(c)) \in Nat
           /\ Len(c.ve) \in Nat /\ Len(c.vf) \in Nat /\ Len(TriedIn(c)) \in Nat
           /\ GotData(c.got) \in Nat /\ GotMounts(c.got) \in Nat
           /\ CallData(c) \in Nat /\ CallMounts(c) \in Nat
<1>1. c.ve \in Vents /\ c.vf \in Vents /\ c.tmp \in Vents /\ c.got \in Seq(Full)
  BY SmallVents DEF CallInv, VCalls, Full
<1>2. TriedIn(c) \in Vents
  BY <1>1, SmallVents DEF TriedIn
<1>3. /\ HasData(c.ve) \in Nat /\ HasData(c.vf) \in Nat /\ HasData(TriedIn(c)) \in Nat
      /\ Len(c.ve) \in Nat /\ Len(c.vf) \in Nat /\ Len(TriedIn(c)) \in Nat
  BY <1>1, <1>2, VentCount
<1>4. GotData(c.got) \in Nat /\ GotMounts(c.got) \in Nat
  BY <1>1, GotCount
<1>5. CallData(c) \in Nat
  BY <1>3, <1>4 DEF CallData
<1>6. CallMounts(c) \in Nat
  <2>1. \A k, l, m, n \in Nat : k + l + m + n \in Nat
    OBVIOUS
  <2> QED BY <1>3, <1>4, <2>1, Zenon DEF CallMounts
<1> QED BY <1>1, <1>2, <1>3, <1>4, <1>5, <1>6

\* What the open files have is counted by numbers.
LEMMA OpenCount ==
    ASSUME OpensInv
    PROVE  vopen \in Seq(Vents) /\ OpenData \in Nat /\ OpenMounts \in Nat
<1>1. vopen \in Seq(Vents)
  BY SeqMonotonic DEF OpensInv, Full
<1>2. IsFiniteSet(DataOf(vopen))
  BY FS_Subset DEF OpensInv, DataOf
<1> QED BY <1>1, <1>2, FS_CardinalityType DEF OpensInv, OpenData, OpenMounts

\* The invariant gives the property.
LEMMA InvBalanced == ParseInv => VentriesBalanced
<1> SUFFICES ASSUME ParseInv PROVE VentriesBalanced
  OBVIOUS
<1>1. PICK a, b, t, g, h :
         a = vcall.ve /\ b = vcall.vf /\ t = Tried /\ g = Got(1) /\ h = Got(2)
  OBVIOUS
<1>2. /\ t = TriedIn(vcall) /\ g = GotIn(vcall.got, 1) /\ h = GotIn(vcall.got, 2)
  BY <1>1 DEF Tried, TriedIn, Got, GotIn
<1>3. /\ a \in Vents /\ b \in Vents /\ t \in Vents /\ g \in Vents /\ h \in Vents
  BY <1>1, <1>2, CallCount, GotCount DEF ParseInv
<1>4. /\ HasData(a) \in Nat /\ HasData(b) \in Nat /\ HasData(t) \in Nat /\ HasData(g) \in Nat /\ HasData(h) \in Nat
      /\ Len(a) \in Nat /\ Len(b) \in Nat /\ Len(t) \in Nat /\ Len(g) \in Nat /\ Len(h) \in Nat
  BY <1>3, VentCount
<1>5. vopen \in Seq(Vents) /\ IsFiniteSet(MountsOf(vopen)) /\ OpenData \in Nat /\ OpenMounts \in Nat
  BY OpenCount DEF ParseInv, OpensInv
<1>6. PICK live : live = vopen \o <<a, b, t, g, h>>
  OBVIOUS
<1>7. /\ Cardinality(MountsOf(live)) = OpenMounts + Len(a) + Len(b) + Len(t) + Len(g) + Len(h)
      /\ Cardinality(DataOf(live)) =
           OpenData + HasData(a) + HasData(b) + HasData(t) + HasData(g) + HasData(h)
  BY <1>3, <1>5, <1>6, FiveCount DEF OpenData, OpenMounts
<1>8. given = OpenData + CallData(vcall) /\ fsrefs = OpenMounts + CallMounts(vcall)
  BY DEF ParseInv
<1>9. /\ CallData(vcall) = HasData(a) + HasData(b) + HasData(t) + (HasData(g) + HasData(h))
      /\ CallMounts(vcall) = Len(a) + Len(b) + Len(t) + (Len(g) + Len(h))
  BY <1>1, <1>2 DEF CallData, CallMounts, GotData, GotMounts
<1>10. given = Cardinality(DataOf(live))
  <2>1. \A k, l, m, n, o, p \in Nat : k + (l + m + n + (o + p)) = k + l + m + n + o + p
    OBVIOUS
  <2>2. given = OpenData + (HasData(a) + HasData(b) + HasData(t) + (HasData(g) + HasData(h)))
    BY <1>8, <1>9, Zenon
  <2>3. PICK k \in Nat, l \in Nat, m \in Nat, n \in Nat, o \in Nat, p \in Nat :
           k = OpenData /\ l = HasData(a) /\ m = HasData(b) /\ n = HasData(t) /\ o = HasData(g) /\ p = HasData(h)
    BY <1>4, <1>5
  <2>4. given = k + (l + m + n + (o + p))
    BY <2>2, <2>3, Zenon
  <2>5. given = k + l + m + n + o + p
    BY <2>1, <2>4
  <2> QED BY <1>7, <2>3, <2>5, Zenon
<1>11. fsrefs = Cardinality(MountsOf(live))
  <2>1. \A k, l, m, n, o, p \in Nat : k + (l + m + n + (o + p)) = k + l + m + n + o + p
    OBVIOUS
  <2> QED BY <1>4, <1>5, <1>7, <1>8, <1>9, <2>1
<1> QED BY <1>1, <1>6, <1>10, <1>11 DEF VentriesBalanced, DataOf

\* A step that leaves the open files alone keeps the invariant if its counts are those of
\* the new call.
LEMMA KeptCall ==
    ASSUME ParseInv, NEW c, NEW w, CallInv(c), Leave(w, c), vopen' = vopen,
           w.given = OpenData + CallData(c), w.fsrefs = OpenMounts + CallMounts(c)
    PROVE  ParseInv'
<1>1. vcall' = c /\ given' = w.given /\ fsrefs' = w.fsrefs
  BY DEF Leave
<1>2. CallInv(vcall') /\ given' = OpenData + CallData(vcall') /\ fsrefs' = OpenMounts + CallMounts(vcall')
  BY <1>1
<1>3. OpensInv' /\ OpenData' = OpenData /\ OpenMounts' = OpenMounts
  BY DEF ParseInv, OpensInv, OpenData, OpenMounts
<1> QED BY <1>2, <1>3 DEF ParseInv

\* The empty call, with an answer.
Empty(ans, r) ==
    [pc |-> "idle", op |-> "none", need |-> 0, got |-> <<>>, ve |-> <<>>, frames |-> <<>>,
     forced |-> FALSE, tmp |-> <<>>, vf |-> <<>>, ans |-> ans, rewritten |-> r]

\* It has nothing.
LEMMA EmptyCall ==
    ASSUME NEW ans \in AnswerSet, NEW r \in Rewrites
    PROVE  CallInv(Empty(ans, r)) /\ CallData(Empty(ans, r)) = 0 /\ CallMounts(Empty(ans, r)) = 0
<1>1. PICK c : c = Empty(ans, r)
  OBVIOUS
<1>2. /\ <<>> \in Seq(Full) /\ <<>> \in Vents /\ <<>> \in Seq(FrameSet)
  BY EmptySeq DEF Vents
<1>3. /\ c = [pc |-> "idle", op |-> "none", need |-> 0, got |-> <<>>, ve |-> <<>>, frames |-> <<>>,
              forced |-> FALSE, tmp |-> <<>>, vf |-> <<>>, ans |-> ans, rewritten |-> r]
  BY <1>1 DEF Empty
<1>31. "idle" \in PathPcs /\ "none" \in OpSet /\ 0 \in 0..2 /\ FALSE \in BOOLEAN /\ <<>> \in Full \cup {<<>>}
  BY DEF PathPcs, OpSet
<1>4. c \in VCalls
  BY <1>2, <1>3, <1>31 DEF VCalls
<1>5. CallInv(c)
  BY <1>3, <1>4 DEF CallInv, Parsing
<1>6. c.ve = <<>> /\ c.vf = <<>> /\ TriedIn(c) = <<>> /\ c.got = <<>>
  BY <1>3 DEF TriedIn
<1>7. GotData(<<>>) = 0 /\ GotMounts(<<>>) = 0 /\ HasData(<<>>) = 0 /\ Len(<<>>) = 0
  BY <1>2, SmallVents, GotCount
<1>8. CallData(c) = 0
  BY <1>6, <1>7 DEF CallData
<1>9. CallMounts(c) = 0
  BY <1>6, <1>7 DEF CallMounts
<1> QED BY <1>1, <1>5, <1>8, <1>9

\* At first there is nothing to count.
LEMMA InitHolds == ParseInit => ParseInv
<1> SUFFICES ASSUME ParseInit PROVE ParseInv
  OBVIOUS
<1>1. <<>> \in Rewrites
  BY DEF Rewrites
<1>2. NoPath = Empty("none", <<>>)
  BY DEF NoPath, Empty
<1>3. CallInv(NoPath) /\ CallData(NoPath) = 0 /\ CallMounts(NoPath) = 0
  <2>1. "none" \in AnswerSet
    BY DEF AnswerSet
  <2> HIDE DEF NoPath
  <2> QED BY <1>1, <1>2, <2>1, EmptyCall
<1>4. OpensInv /\ OpenData = 0 /\ OpenMounts = 0
  BY EmptySeq, EmptyCount DEF ParseInit, OpensInv, OpenData, OpenMounts
<1> QED BY <1>3, <1>4 DEF ParseInit, ParseInv

----------------------------------------------------------------------------
(* The steps of the parser.                                                *)

\* What is worked on at first.
LEMMA WorkFacts ==
    ASSUME ParseInv, NEW v \in Vents
    PROVE  /\ given \in Int /\ fsrefs \in Int
           /\ Work(v) \in Works /\ Work(v).ve = v /\ Work(v).given = given /\ Work(v).fsrefs = fsrefs
<1>1. given \in Int /\ fsrefs \in Int
  <2>1. OpenData \in Nat /\ OpenMounts \in Nat /\ CallData(vcall) \in Nat /\ CallMounts(vcall) \in Nat
    BY OpenCount, CallCount DEF ParseInv
  <2> QED BY <2>1 DEF ParseInv
<1>2. Work(v) = [ve |-> v, given |-> given, fsrefs |-> fsrefs, ok |-> TRUE, link |-> FALSE]
  BY DEF Work
<1> QED BY <1>1, <1>2 DEF Works

\* What is left when the ventry that is being looked up, and a copy, are taken away.
LEMMA ParsingRest ==
    ASSUME ParseInv, vcall.pc \in Parsing
    PROVE  /\ given - HasData(vcall.ve) - HasData(TriedIn(vcall)) = OpenData + GotData(vcall.got)
           /\ fsrefs - Len(vcall.ve) - Len(TriedIn(vcall)) = OpenMounts + GotMounts(vcall.got)
<1>1. vcall.vf = <<>> /\ HasData(<<>>) = 0 /\ Len(<<>>) = 0
  BY SmallVents DEF ParseInv, CallInv
<1>2. PICK a, t, g, o : a = HasData(vcall.ve) /\ t = HasData(TriedIn(vcall)) /\ g = GotData(vcall.got) /\ o = OpenData
  OBVIOUS
<1>3. PICK b, u, h, p : b = Len(vcall.ve) /\ u = Len(TriedIn(vcall)) /\ h = GotMounts(vcall.got) /\ p = OpenMounts
  OBVIOUS
<1>4. a \in Nat /\ t \in Nat /\ g \in Nat /\ o \in Nat /\ b \in Nat /\ u \in Nat /\ h \in Nat /\ p \in Nat
  BY <1>2, <1>3, CallCount, OpenCount DEF ParseInv
<1>5. given = o + (a + 0 + t + g) /\ fsrefs = p + (b + 0 + u + h)
  BY <1>1, <1>2, <1>3 DEF ParseInv, CallData, CallMounts
<1>6. given - a - t = o + g
  BY <1>4, <1>5
<1>7. fsrefs - b - u = p + h
  BY <1>4, <1>5
<1> QED BY <1>2, <1>3, <1>6, <1>7, Zenon

\* A call that goes on parsing with what it has got.
LEMMA GoesOn ==
    ASSUME NEW c, CallInv(c), c.pc \in Parsing,
           NEW d, d \in VCalls, d.pc \in Parsing, d.ve # <<>>, d.pc # "error" => d.ve \in Full,
           d.frames # <<>>, d.vf = c.vf, d.need = c.need, d.got = c.got
    PROVE  /\ CallInv(d)
           /\ CallData(d) = HasData(d.ve) + HasData(TriedIn(d)) + GotData(c.got)
           /\ CallMounts(d) = Len(d.ve) + Len(TriedIn(d)) + GotMounts(c.got)
<1>1. CallInv(d)
  BY DEF CallInv, Parsing
<1>2. d.vf = <<>> /\ HasData(<<>>) = 0 /\ Len(<<>>) = 0
  BY SmallVents DEF CallInv
<1>3. /\ HasData(d.ve) \in Nat /\ HasData(TriedIn(d)) \in Nat /\ GotData(c.got) \in Nat
      /\ Len(d.ve) \in Nat /\ Len(TriedIn(d)) \in Nat /\ GotMounts(c.got) \in Nat
  BY <1>1, CallCount
<1>4. \A k, l, m \in Nat : k + 0 + l + m = k + l + m
  OBVIOUS
<1>5. CallData(d) = HasData(d.ve) + 0 + HasData(TriedIn(d)) + GotData(c.got)
  BY <1>2 DEF CallData
<1>6. CallMounts(d) = Len(d.ve) + 0 + Len(TriedIn(d)) + GotMounts(c.got)
  BY <1>2 DEF CallMounts
<1> QED BY <1>1, <1>3, <1>4, <1>5, <1>6

\* The path or the link that is being followed.
LEMMA TopFacts ==
    ASSUME ParseInv, vcall.pc \in Parsing
    PROVE  Top \in FrameSet /\ Front(vcall.frames) \in Seq(FrameSet)
<1>1. vcall.frames \in Seq(FrameSet) /\ vcall.frames # <<>>
  BY DEF ParseInv, CallInv, VCalls
<1>2. PICK n \in Nat : n = Len(vcall.frames) /\ n > 0
  BY <1>1, EmptySeq
<1>3. \A i \in 1..n : vcall.frames[i] \in FrameSet
  BY <1>1, <1>2, ElementOfSeq
<1>4. SubSeq(vcall.frames, 1, n - 1) \in Seq(FrameSet)
  BY <1>2, <1>3, SubSeqProperties
<1> QED BY <1>2, <1>3, <1>4 DEF Top, Last, Front

\* The outcome of a lookup goes into the call.
LEMMA WentOn ==
    ASSUME ParseInv, vcall.pc \in Parsing, NEW d \in VCalls, NEW w \in Works,
           d.vf = vcall.vf, d.need = vcall.need, d.got = vcall.got, d.frames # <<>>, d.ve = w.ve,
           d.pc \in {"parse", "next", "link", "error"}, w.ve # <<>>, d.pc # "error" => w.ve \in Full,
           w.given - HasData(w.ve) = OpenData + GotData(vcall.got),
           w.fsrefs - Len(w.ve) = OpenMounts + GotMounts(vcall.got),
           Leave(w, d), vopen' = vopen
    PROVE  ParseInv'
<1>1. CallInv(vcall) /\ d.pc \in Parsing /\ TriedIn(d) = <<>>
  BY DEF ParseInv, Parsing, TriedIn
<1>2. /\ CallInv(d)
      /\ CallData(d) = HasData(d.ve) + HasData(TriedIn(d)) + GotData(vcall.got)
      /\ CallMounts(d) = Len(d.ve) + Len(TriedIn(d)) + GotMounts(vcall.got)
  BY <1>1, GoesOn
<1>3. HasData(<<>>) = 0 /\ Len(<<>>) = 0 /\ HasData(w.ve) \in Nat /\ Len(w.ve) \in Nat
      /\ GotData(vcall.got) \in Nat /\ GotMounts(vcall.got) \in Nat /\ OpenData \in Nat /\ OpenMounts \in Nat
      /\ w.given \in Int /\ w.fsrefs \in Int
  BY <1>1, CallCount, OpenCount, VentCount, SmallVents DEF Works, ParseInv
<1>4. CallData(d) = HasData(w.ve) + 0 + GotData(vcall.got) /\ CallMounts(d) = Len(w.ve) + 0 + GotMounts(vcall.got)
  BY <1>1, <1>2, <1>3
<1>5. \A g \in Int, h, o, k \in Nat : g - h = o + k => g = o + (h + 0 + k)
  OBVIOUS
<1>6. w.given = OpenData + CallData(d)
  BY <1>3, <1>4, <1>5
<1>7. w.fsrefs = OpenMounts + CallMounts(d)
  <2>1. PICK h \in Nat, o \in Nat, k \in Nat, g \in Int :
           h = Len(w.ve) /\ o = OpenMounts /\ k = GotMounts(vcall.got) /\ g = w.fsrefs
    BY <1>3
  <2>2. g - h = o + k
    BY <2>1
  <2>3. CallMounts(d) = h + 0 + k
    BY <1>4, <2>1
  <2>4. g = o + CallMounts(d)
    BY <2>2, <2>3
  <2> QED BY <2>1, <2>4
<1> QED BY <1>2, <1>6, <1>7, KeptCall

\* The call with what has been looked up.
LEMMA LookedStep ==
    ASSUME ParseInv, vcall.pc \in Parsing, NEW w \in Works, w.ve # <<>>, w.ok => w.ve \in Full,
           w.given - HasData(w.ve) = OpenData + GotData(vcall.got),
           w.fsrefs - Len(w.ve) = OpenMounts + GotMounts(vcall.got),
           Looked(w, Top), vopen' = vopen
    PROVE  ParseInv'
<1>1. PICK p, g, fr : /\ p = (IF ~w.ok THEN "error" ELSE IF w.link /\ (Top.resolve \/ Top.segs > 1) THEN "link" ELSE "next")
                      /\ g = [Top EXCEPT !.first = FALSE]
                      /\ fr = Append(Front(vcall.frames), g)
  OBVIOUS
<1>2. g \in FrameSet /\ Front(vcall.frames) \in Seq(FrameSet)
  BY <1>1, TopFacts DEF FrameSet
<1>3. fr \in Seq(FrameSet) /\ fr # <<>>
  BY <1>1, <1>2, AppendProperties
<1>4. p \in {"parse", "next", "link", "error"} /\ (p # "error" => w.ok)
  BY <1>1
<1>5. PICK d : d = [[vcall EXCEPT !.frames = fr] EXCEPT !.ve = w.ve, !.pc = p]
  OBVIOUS
<1>6. Leave(w, d)
  BY <1>1, <1>5 DEF Looked, WithTop
<1>7. vcall \in VCalls /\ w.ve \in Vents /\ p \in PathPcs
  BY <1>4 DEF ParseInv, CallInv, Works, PathPcs
<1>8. /\ d \in VCalls /\ d.frames = fr /\ d.ve = w.ve /\ d.pc = p
      /\ d.vf = vcall.vf /\ d.need = vcall.need /\ d.got = vcall.got
  BY <1>3, <1>5, <1>7 DEF VCalls
<1> QED BY <1>3, <1>4, <1>6, <1>8, WentOn

\* A lookup on the ventry itself.
LEMMA OutcomeRest ==
    ASSUME ParseInv, vcall.pc \in Parsing, TriedIn(vcall) = <<>>, NEW w, Outcome(Work(vcall.ve), w)
    PROVE  /\ w \in Works /\ w.ve # <<>> /\ (w.ok => w.ve \in Full)
           /\ w.given - HasData(w.ve) = OpenData + GotData(vcall.got)
           /\ w.fsrefs - Len(w.ve) = OpenMounts + GotMounts(vcall.got)
<1>1. vcall.ve \in Vents
  BY CallCount DEF ParseInv
<1>2. /\ given \in Int /\ fsrefs \in Int /\ Work(vcall.ve).ve = vcall.ve
      /\ Work(vcall.ve).given = given /\ Work(vcall.ve).fsrefs = fsrefs
  BY <1>1, WorkFacts
<1>3. /\ w \in Works /\ w.ve # <<>> /\ (w.ok => w.ve \in Full)
      /\ w.given - HasData(w.ve) = given - HasData(vcall.ve)
      /\ w.fsrefs - Len(w.ve) = fsrefs - Len(vcall.ve)
  BY <1>2 DEF Outcome, SameRest
<1>4. HasData(<<>>) = 0 /\ Len(<<>>) = 0 /\ HasData(vcall.ve) \in Nat /\ Len(vcall.ve) \in Nat
  BY <1>1, VentCount, SmallVents
<1>5. /\ given - HasData(vcall.ve) - 0 = OpenData + GotData(vcall.got)
      /\ fsrefs - Len(vcall.ve) - 0 = OpenMounts + GotMounts(vcall.got)
  BY <1>4, ParsingRest
<1>6. \A k \in Int, l \in Nat : k - l - 0 = k - l
  OBVIOUS
<1> QED BY <1>2, <1>3, <1>4, <1>5, <1>6

\* A segment is looked up as a name or as the name of a handler, or a filter is entered.
LEMMA SegmentStep == ParseInv /\ Segment => ParseInv'
<1> SUFFICES ASSUME ParseInv, Segment PROVE ParseInv'
  OBVIOUS
<1>1. vcall.pc = "parse" /\ vcall.pc \in Parsing /\ TriedIn(vcall) = <<>> /\ vopen' = vopen
  BY DEF Segment, Here, Parsing, TriedIn
<1>2. vcall.ve \in Vents /\ Work(vcall.ve) \in Works
  BY CallCount, WorkFacts DEF ParseInv
<1>3. ASSUME NEW w, Outcome(Work(vcall.ve), w), Looked(w, Top) PROVE ParseInv'
  BY <1>1, <1>3, OutcomeRest, LookedStep
<1>4. CASE lookup_segment(Top)
  BY <1>2, <1>3, <1>4, LookupCount DEF lookup_segment
<1>5. CASE lookup_avfs(Top)
  <2>1. CASE Looked([Work(vcall.ve) EXCEPT !.ok = FALSE], Top)
    <3>1. PICK w : w = [Work(vcall.ve) EXCEPT !.ok = FALSE]
      OBVIOUS
    <3>2. w \in Works /\ w.ve = Work(vcall.ve).ve /\ w.given = Work(vcall.ve).given /\ w.fsrefs = Work(vcall.ve).fsrefs /\ ~w.ok
      BY <1>2, <3>1 DEF Works
    <3>3. w.ve # <<>>
      BY <1>1, <1>2, <3>2, WorkFacts DEF ParseInv, CallInv
    <3>4. Outcome(Work(vcall.ve), w)
      BY <3>2, <3>3 DEF Outcome, SameRest
    <3> QED BY <1>3, <2>1, <3>1, <3>4
  <2>2. CASE \E w \in enter_mount(Work(vcall.ve)) : Looked(w, Top)
    BY <1>2, <1>3, <2>2, EnterCount
  <2> QED BY <1>5, <2>1, <2>2 DEF lookup_avfs
<1>6. CASE lookup_auto_avfs(Top)
  <2>1. PICK w \in enter_mount(Work(vcall.ve)) :
           Leave(w, [WithTop(vcall, [Top EXCEPT !.exts = @ + 1]) EXCEPT
                       !.ve = w.ve, !.pc = IF w.ok THEN "parse" ELSE "error"])
    BY <1>6 DEF lookup_auto_avfs
  <2>2. Outcome(Work(vcall.ve), w)
    BY <1>2, EnterCount
  <2>3. /\ w \in Works /\ w.ve # <<>> /\ (w.ok => w.ve \in Full)
        /\ w.given - HasData(w.ve) = OpenData + GotData(vcall.got)
        /\ w.fsrefs - Len(w.ve) = OpenMounts + GotMounts(vcall.got)
    BY <1>1, <2>2, OutcomeRest
  <2>4. PICK p, g, fr : /\ p = (IF w.ok THEN "parse" ELSE "error")
                        /\ g = [Top EXCEPT !.exts = @ + 1]
                        /\ fr = Append(Front(vcall.frames), g)
    OBVIOUS
  <2>5. g \in FrameSet /\ Front(vcall.frames) \in Seq(FrameSet)
    <3>1. Top \in FrameSet /\ Top.exts \in Int
      BY <1>1, TopFacts DEF FrameSet
    <3>2. PICK e \in Int : e = Top.exts + 1
      BY <3>1
    <3>3. g = [Top EXCEPT !.exts = e]
      BY <2>4, <3>1, <3>2 DEF FrameSet
    <3> QED BY <1>1, <3>1, <3>3, TopFacts DEF FrameSet
  <2>6. fr \in Seq(FrameSet) /\ fr # <<>>
    BY <2>4, <2>5, AppendProperties
  <2>7. PICK d : d = [[vcall EXCEPT !.frames = fr] EXCEPT !.ve = w.ve, !.pc = p]
    OBVIOUS
  <2>8. Leave(w, d)
    BY <2>1, <2>4, <2>7 DEF WithTop
  <2>9. vcall \in VCalls /\ w.ve \in Vents /\ p \in PathPcs /\ p \in {"parse", "next", "link", "error"} /\ (p # "error" => w.ok)
    BY <2>3, <2>4 DEF ParseInv, CallInv, Works, PathPcs
  <2>10. /\ d \in VCalls /\ d.frames = fr /\ d.ve = w.ve /\ d.pc = p
         /\ d.vf = vcall.vf /\ d.need = vcall.need /\ d.got = vcall.got
    BY <2>6, <2>7, <2>9 DEF VCalls
  <2> QED BY <1>1, <2>3, <2>6, <2>8, <2>9, <2>10, WentOn
<1> QED BY <1>4, <1>5, <1>6 DEF Segment

----------------------------------------------------------------------------
(* What freeing and copying count.                                         *)

\* x is w with g more data and r more mounts counted.
Adds(w, x, g, r) == x \in Works /\ x.ve = w.ve /\ x.ok = w.ok /\ x.given = w.given + g /\ x.fsrefs = w.fsrefs + r

\* Freeing and copying a ventry or the mounts of a file.
LEMMA FreeCounts ==
    ASSUME NEW w \in Works, NEW v \in Vents
    PROVE  /\ Adds(w, av_free_ventry(w, v), -HasData(v), -Len(v))
           /\ Adds(w, av_copy_ventry(w, v), HasData(v), Len(v))
           /\ Adds(w, av_free_vmount(w, v), -HasData(Front(v)), -Len(v))
           /\ Adds(w, av_copy_vmount(w, v), HasData(Front(v)), Len(v))
<1>1. w.given \in Int /\ w.fsrefs \in Int /\ w.ve \in Vents
  BY DEF Works
<1>2. Front(v) \in Vents
  <2>1. CASE v = <<>>
    <3>1. Len(v) - 1 \in Int /\ Len(v) - 1 < 1
      BY <2>1, SmallVents
    <3>2. SubSeq(v, 1, Len(v) - 1) = <<>>
      BY <3>1, SubSeqEmpty
    <3> QED BY <3>2, SmallVents DEF Front
  <2> QED BY <2>1, FrontCount
<1>3. PICK h \in Nat, f \in Nat, l \in Nat : h = HasData(v) /\ f = HasData(Front(v)) /\ l = Len(v)
  BY <1>2, VentCount
<1>4. ASSUME NEW g \in Int, NEW r \in Int, NEW x, x = [w EXCEPT !.given = w.given + g, !.fsrefs = w.fsrefs + r]
      PROVE  Adds(w, x, g, r)
  <2>1. PICK a \in Int, b \in Int : a = w.given + g /\ b = w.fsrefs + r
    BY <1>1
  <2>2. x = [w EXCEPT !.given = a, !.fsrefs = b]
    BY <1>4, <2>1
  <2>3. x \in Works /\ x.ve = w.ve /\ x.ok = w.ok /\ x.given = a /\ x.fsrefs = b
    BY <2>2 DEF Works
  <2> QED BY <2>1, <2>3 DEF Adds
<1>5. w.given - h = w.given + (-h) /\ w.fsrefs - l = w.fsrefs + (-l) /\ w.given - f = w.given + (-f)
  BY <1>1, <1>3
<1>6. -h \in Int /\ -l \in Int /\ -f \in Int /\ h \in Int /\ l \in Int /\ f \in Int
  BY <1>3
<1>7. Adds(w, av_free_ventry(w, v), -h, -l)
  <2>1. av_free_ventry(w, v) = [w EXCEPT !.given = w.given - h, !.fsrefs = w.fsrefs - l]
    BY <1>3 DEF av_free_ventry, Works
  <2> QED BY <2>1, <1>4, <1>5, <1>6
<1>8. Adds(w, av_free_vmount(w, v), -f, -l)
  <2>1. av_free_vmount(w, v) = [w EXCEPT !.given = w.given - f, !.fsrefs = w.fsrefs - l]
    BY <1>3 DEF av_free_vmount, Works
  <2> QED BY <2>1, <1>4, <1>5, <1>6
<1>9. Adds(w, av_copy_ventry(w, v), h, l)
  <2>1. av_copy_ventry(w, v) = [w EXCEPT !.given = w.given + h, !.fsrefs = w.fsrefs + l]
    BY <1>3 DEF av_copy_ventry, Works
  <2> QED BY <2>1, <1>4, <1>6
<1>10. Adds(w, av_copy_vmount(w, v), f, l)
  <2>1. av_copy_vmount(w, v) = [w EXCEPT !.given = w.given + f, !.fsrefs = w.fsrefs + l]
    BY <1>3 DEF av_copy_vmount, Works
  <2> QED BY <2>1, <1>4, <1>6
<1> QED BY <1>3, <1>7, <1>8, <1>9, <1>10

\* The data of an open file, or of the one that is being closed.
LEMMA GivenCounts ==
    ASSUME NEW w \in Works
    PROVE  Adds(w, [w EXCEPT !.given = @ + 1], 1, 0) /\ Adds(w, [w EXCEPT !.given = @ - 1], -1, 0)
<1>1. w.given \in Int /\ w.fsrefs \in Int /\ w.fsrefs + 0 = w.fsrefs /\ w.given - 1 = w.given + (-1)
  BY DEF Works
<1>2. PICK a \in Int, b \in Int : a = w.given + 1 /\ b = w.given - 1
  BY <1>1
<1>3. PICK x, y : x = [w EXCEPT !.given = a] /\ y = [w EXCEPT !.given = b]
  OBVIOUS
<1>4. /\ x \in Works /\ x.ve = w.ve /\ x.ok = w.ok /\ x.given = a /\ x.fsrefs = w.fsrefs
      /\ y \in Works /\ y.ve = w.ve /\ y.ok = w.ok /\ y.given = b /\ y.fsrefs = w.fsrefs
  BY <1>3 DEF Works
<1>5. Adds(w, x, 1, 0) /\ Adds(w, y, -1, 0)
  BY <1>1, <1>2, <1>4 DEF Adds
<1>6. x = [w EXCEPT !.given = @ + 1] /\ y = [w EXCEPT !.given = @ - 1]
  BY <1>2, <1>3 DEF Works
<1> QED BY <1>5, <1>6

\* A path begins with the root.
LEMMA FirstCounts ==
    ASSUME NEW w \in Works
    PROVE  LET x == FirstVentry(w)
           IN /\ x \in Works /\ x.ve = Root /\ x.ok = w.ok
              /\ x.given = w.given + 1 /\ x.fsrefs = w.fsrefs + 1
<1>1. PICK a \in Int, b \in Int : a = w.given + 1 /\ b = w.fsrefs + 1
  BY DEF Works
<1>2. PICK x : x = FirstVentry(w)
  OBVIOUS
<1>3. Root \in Vents
  BY SmallVents DEF Full
<1>4. x = [w EXCEPT !.ve = Root, !.given = a, !.fsrefs = b]
  BY <1>1, <1>2 DEF FirstVentry, Works
<1>5. x \in Works /\ x.ve = Root /\ x.ok = w.ok /\ x.given = a /\ x.fsrefs = b
  BY <1>3, <1>4 DEF Works
<1> QED BY <1>1, <1>2, <1>5

\* The ventries that the call has got are freed.
LEMMA FreeGotCounts ==
    ASSUME ParseInv, NEW w \in Works
    PROVE  LET x == FreeGot(w)
           IN /\ x \in Works
              /\ x.given = w.given - GotData(vcall.got)
              /\ x.fsrefs = w.fsrefs - GotMounts(vcall.got)
<1>1. PICK a, b : a = Got(1) /\ b = Got(2)
  OBVIOUS
<1>2. a = GotIn(vcall.got, 1) /\ b = GotIn(vcall.got, 2)
  BY <1>1 DEF Got, GotIn
<1>3. a \in Vents /\ b \in Vents
  BY <1>2, CallCount, GotCount DEF ParseInv
<1>4. PICK y : y = av_free_ventry(w, a)
  OBVIOUS
<1>5. PICK x : x = av_free_ventry(y, b)
  OBVIOUS
<1>6. PICK h \in Nat, i \in Nat, k \in Nat, l \in Nat :
         h = HasData(a) /\ i = HasData(b) /\ k = Len(a) /\ l = Len(b)
  BY <1>3, VentCount
<1>7. Adds(w, y, -h, -k) /\ y \in Works
  BY <1>3, <1>4, <1>6, FreeCounts DEF Adds
<1>8. Adds(y, x, -i, -l)
  BY <1>3, <1>5, <1>6, <1>7, FreeCounts
<1>9. w.given \in Int /\ w.fsrefs \in Int
  BY DEF Works
<1>10. x \in Works /\ x.given = w.given - (h + i) /\ x.fsrefs = w.fsrefs - (k + l)
  <2>1. x \in Works /\ x.given = (w.given + (-h)) + (-i) /\ x.fsrefs = (w.fsrefs + (-k)) + (-l)
    BY <1>7, <1>8 DEF Adds
  <2> QED BY <2>1, <1>9
<1>11. FreeGot(w) = x
  BY <1>1, <1>4, <1>5 DEF FreeGot
<1>12. GotData(vcall.got) = h + i /\ GotMounts(vcall.got) = k + l
  BY <1>2, <1>6 DEF GotData, GotMounts
<1> QED BY <1>10, <1>11, <1>12

\* When no path is parsed the call has what it has got, and a file.
LEMMA DoingRest ==
    ASSUME ParseInv, vcall.pc \notin Parsing
    PROVE  /\ given = OpenData + (HasData(vcall.vf) + GotData(vcall.got))
           /\ fsrefs = OpenMounts + (Len(vcall.vf) + GotMounts(vcall.got))
<1>1. vcall.ve = <<>> /\ TriedIn(vcall) = <<>> /\ HasData(<<>>) = 0 /\ Len(<<>>) = 0
  BY SmallVents DEF ParseInv, CallInv, Parsing, TriedIn
<1>2. PICK b \in Nat, g \in Nat : b = HasData(vcall.vf) /\ g = GotData(vcall.got)
  BY CallCount DEF ParseInv
<1>3. PICK c \in Nat, h \in Nat : c = Len(vcall.vf) /\ h = GotMounts(vcall.got)
  BY CallCount DEF ParseInv
<1>4. CallData(vcall) = 0 + b + 0 + g /\ CallMounts(vcall) = 0 + c + 0 + h
  BY <1>1, <1>2, <1>3 DEF CallData, CallMounts
<1>5. CallData(vcall) = b + g /\ CallMounts(vcall) = c + h
  BY <1>4
<1> QED BY <1>2, <1>3, <1>5 DEF ParseInv

\* An answer that has freed all but what the call has got.
LEMMA AnswerStep ==
    ASSUME ParseInv, NEW w \in Works, NEW ans \in AnswerSet, NEW r \in Rewrites,
           w.given = OpenData + GotData(vcall.got), w.fsrefs = OpenMounts + GotMounts(vcall.got),
           Leave(FreeGot(w), Empty(ans, r)), vopen' = vopen
    PROVE  ParseInv'
<1>1. PICK x : x = FreeGot(w)
  OBVIOUS
<1>2. /\ x.given = w.given - GotData(vcall.got) /\ x.fsrefs = w.fsrefs - GotMounts(vcall.got)
  BY <1>1, FreeGotCounts
<1>3. GotData(vcall.got) \in Nat /\ GotMounts(vcall.got) \in Nat /\ OpenData \in Nat /\ OpenMounts \in Nat
  BY CallCount, OpenCount DEF ParseInv
<1>4. x.given = OpenData + 0 /\ x.fsrefs = OpenMounts + 0
  BY <1>2, <1>3
<1>5. PICK c : c = Empty(ans, r)
  OBVIOUS
<1>6. CallInv(c) /\ CallData(c) = 0 /\ CallMounts(c) = 0
  BY <1>5, EmptyCall
<1> QED BY <1>1, <1>4, <1>5, <1>6, KeptCall

\* Answers are empty calls.
LEMMA AnswerIsEmpty ==
    /\ \A w, ans : Answer(w, ans) => Leave(FreeGot(w), Empty(ans, <<>>))
    /\ \A ans, r : [NoPath EXCEPT !.ans = ans, !.rewritten = r] = Empty(ans, r)
    /\ \A ans : [NoPath EXCEPT !.ans = ans] = Empty(ans, <<>>)
    /\ <<>> \in Rewrites /\ {"ok", "error"} \subseteq AnswerSet
<1>1. ASSUME NEW ans PROVE [NoPath EXCEPT !.ans = ans] = Empty(ans, <<>>)
  <2>1. PICK c : c = [NoPath EXCEPT !.ans = ans]
    OBVIOUS
  <2>2. c = Empty(ans, <<>>)
    BY <2>1 DEF NoPath, Empty
  <2> QED BY <2>1, <2>2
<1>2. ASSUME NEW ans, NEW r PROVE [NoPath EXCEPT !.ans = ans, !.rewritten = r] = Empty(ans, r)
  <2>1. PICK c : c = [NoPath EXCEPT !.ans = ans, !.rewritten = r]
    OBVIOUS
  <2>2. c = Empty(ans, r)
    BY <2>1 DEF NoPath, Empty
  <2> QED BY <2>1, <2>2
<1>3. <<>> \in Rewrites /\ {"ok", "error"} \subseteq AnswerSet
  BY DEF Rewrites, AnswerSet
<1> QED BY <1>1, <1>2, <1>3 DEF Answer

\* A call that begins a path.
LEMMA Starts ==
    ASSUME ParseInv, NEW w, NEW d \in VCalls, d.pc = "parse", d.ve = Root, d.vf = <<>>, d.frames # <<>>,
           d.need >= 1, Len(d.got) + d.need <= 2,
           w.given = OpenData + GotData(d.got) + 1, w.fsrefs = OpenMounts + GotMounts(d.got) + 1,
           Leave(w, d), vopen' = vopen
    PROVE  ParseInv'
<1>1. CallInv(d) /\ TriedIn(d) = <<>>
  BY SmallVents DEF CallInv, Parsing, TriedIn, Full
<1>2. PICK g \in Nat, h \in Nat, o \in Nat, p \in Nat :
        g = GotData(d.got) /\ h = GotMounts(d.got) /\ o = OpenData /\ p = OpenMounts
  BY <1>1, CallCount, OpenCount DEF ParseInv
<1>3. CallData(d) = 1 + 0 + 0 + g /\ CallMounts(d) = 1 + 0 + 0 + h
  BY <1>1, <1>2, SmallVents DEF CallData, CallMounts
<1>4. w.given = o + CallData(d) /\ w.fsrefs = p + CallMounts(d)
  <2>1. w.given = o + g + 1 /\ w.fsrefs = p + h + 1
    BY <1>2
  <2> QED BY ONLY <1>2, <1>3, <2>1
<1> QED BY <1>1, <1>2, <1>4, KeptCall

\* The frames of a path that begins.
LEMMA FrameFacts ==
    ASSUME NEW n \in 0..MaxSegs, NEW l \in Int, NEW r \in BOOLEAN
    PROVE  Frame(n, l, r) \in FrameSet /\ <<Frame(n, l, r)>> \in Seq(FrameSet) /\ <<Frame(n, l, r)>> # <<>>
<1>1. n \in Int
  BY ParseAssumption
<1>2. Frame(n, l, r) \in FrameSet
  BY <1>1 DEF Frame, FrameSet
<1> QED BY <1>2

----------------------------------------------------------------------------
(* Every step keeps the invariant.                                         *)

\* The first path of a call.
LEMMA BeginCallStep ==
    ASSUME ParseInv, NEW op \in OpSet \ {"none"}, NEW n \in 0..MaxSegs, BeginCall(op, n)
    PROVE  ParseInv'
<1>1. vcall.pc = "idle" /\ vopen' = vopen
  BY DEF BeginCall, Here
<1>2. vcall.pc \notin Parsing /\ vcall.vf = <<>> /\ vcall.got = <<>>
  BY <1>1 DEF ParseInv, CallInv, Parsing
<1>3. given = OpenData + (HasData(<<>>) + GotData(<<>>)) /\ fsrefs = OpenMounts + (Len(<<>>) + GotMounts(<<>>))
  BY <1>2, DoingRest
<1>4. <<>> \in Seq(Full) /\ <<>> \in Vents /\ HasData(<<>>) = 0 /\ Len(<<>>) = 0 /\ GotData(<<>>) = 0 /\ GotMounts(<<>>) = 0
  BY SmallVents, GotCount, EmptySeq
<1>5. PICK w : w = FirstVentry(Work(<<>>))
  OBVIOUS
<1>6. w.given = given + 1 /\ w.fsrefs = fsrefs + 1
  BY <1>4, <1>5, WorkFacts, FirstCounts
<1>7. PICK fr, m, r : fr = <<Frame(n, MaxLinks, Resolves(op))>> /\ m = (IF op \in TwoOps THEN 2 ELSE 1) /\ r = <<>>
  OBVIOUS
<1>8. fr \in Seq(FrameSet) /\ fr # <<>>
  <2>1. Resolves(op) \in BOOLEAN /\ MaxLinks \in Int
    BY ParseAssumption DEF Resolves
  <2> QED BY <1>7, <2>1, FrameFacts
<1>9. PICK d : d = [NoPath EXCEPT !.pc = "parse", !.op = op, !.ve = Root, !.need = m, !.frames = fr]
  OBVIOUS
<1>10. d = [pc |-> "parse", op |-> op, need |-> m, got |-> <<>>, ve |-> Root, frames |-> fr,
            forced |-> FALSE, tmp |-> <<>>, vf |-> <<>>, ans |-> "none", rewritten |-> <<>>]
  BY <1>9 DEF NoPath
<1>11. d \in VCalls
  <2>1. /\ "parse" \in PathPcs /\ op \in OpSet /\ m \in 0..2 /\ Root \in Vents /\ <<>> \in Full \cup {<<>>}
        /\ "none" \in AnswerSet /\ <<>> \in Rewrites /\ FALSE \in BOOLEAN
    BY <1>7, SmallVents DEF PathPcs, AnswerSet, Rewrites, Full
  <2> QED BY <1>4, <1>8, <1>10, <2>1 DEF VCalls
<1>12. Leave(w, d)
  BY <1>5, <1>7, <1>9 DEF BeginCall
<1>13. OpenData \in Nat /\ OpenMounts \in Nat
  BY OpenCount DEF ParseInv
<1>14. d.pc = "parse" /\ d.ve = Root /\ d.vf = <<>> /\ d.frames = fr /\ d.got = <<>> /\ d.need = m
  BY <1>10
<1>15. w.given = OpenData + GotData(d.got) + 1 /\ w.fsrefs = OpenMounts + GotMounts(d.got) + 1
  BY <1>3, <1>4, <1>6, <1>13, <1>14
<1>16. m >= 1 /\ Len(d.got) + d.need <= 2
  BY <1>4, <1>7, <1>14
<1> QED BY <1>1, <1>8, <1>11, <1>12, <1>14, <1>15, <1>16, Starts

\* A name with the magic character is tried on a copy.
LEMMA TryStep == ParseInv /\ segment_islocal => ParseInv'
<1> SUFFICES ASSUME ParseInv, segment_islocal PROVE ParseInv'
  OBVIOUS
<1>1. PICK w \in lookup_virtual(av_copy_ventry(Work(vcall.ve), vcall.ve)), opens \in BOOLEAN :
         Leave(w, [vcall EXCEPT !.tmp = w.ve, !.pc = IF opens THEN "tmpopen" ELSE "tmpfree"])
  BY DEF segment_islocal
<1>2. vcall.pc = "parse" /\ vcall.pc \in Parsing /\ TriedIn(vcall) = <<>> /\ vopen' = vopen /\ CallInv(vcall)
  BY DEF segment_islocal, Here, Parsing, TriedIn, ParseInv
<1>3. PICK a, x : a = Work(vcall.ve) /\ x = av_copy_ventry(a, vcall.ve)
  OBVIOUS
<1>4. vcall.ve \in Vents /\ vcall \in VCalls
  BY <1>2, CallCount DEF CallInv
<1>5. PICK v \in Nat, l \in Nat : v = HasData(vcall.ve) /\ l = Len(vcall.ve)
  BY <1>4, VentCount
<1>6. a \in Works /\ a.ve = vcall.ve /\ a.given = given /\ a.fsrefs = fsrefs /\ given \in Int /\ fsrefs \in Int
  BY <1>3, <1>4, WorkFacts
<1>7. x \in Works /\ x.ve = vcall.ve /\ x.given = given + v /\ x.fsrefs = fsrefs + l
  BY <1>3, <1>4, <1>5, <1>6, FreeCounts DEF Adds
<1>8. Outcome(x, w)
  BY <1>1, <1>3, <1>7, LookupCount
<1>9. PICK h \in Nat, k \in Nat : h = HasData(w.ve) /\ k = Len(w.ve)
  BY <1>8, VentCount DEF Outcome, Works
<1>10. w.given \in Int /\ w.fsrefs \in Int /\ w.ve \in Vents /\ w.given - h = (given + v) - v /\ w.fsrefs - k = (fsrefs + l) - l
  BY <1>5, <1>7, <1>8, <1>9 DEF Outcome, SameRest, Works
<1>11. w.given = given + h /\ w.fsrefs = fsrefs + k
  <2>1. PICK i \in Int, j \in Int, m \in Int, n \in Int : i = w.given /\ j = w.fsrefs /\ m = given /\ n = fsrefs
    BY <1>6, <1>10
  <2>2. i - h = (m + v) - v /\ j - k = (n + l) - l
    BY <1>10, <2>1
  <2>3. i = m + h
    BY <2>2
  <2>4. j = n + k
    BY <2>2
  <2> QED BY <2>1, <2>3, <2>4
<1>12. PICK p : p = IF opens THEN "tmpopen" ELSE "tmpfree"
  OBVIOUS
<1>13. p \in {"tmpopen", "tmpfree"} /\ p \in PathPcs /\ p \in Parsing /\ p # "error"
  BY <1>12 DEF PathPcs, Parsing
<1>14. PICK d : d = [vcall EXCEPT !.tmp = w.ve, !.pc = p]
  OBVIOUS
<1>15. /\ d \in VCalls /\ d.tmp = w.ve /\ d.pc = p /\ d.ve = vcall.ve /\ d.frames = vcall.frames
       /\ d.vf = vcall.vf /\ d.need = vcall.need /\ d.got = vcall.got
  BY <1>4, <1>10, <1>13, <1>14 DEF VCalls
<1>16. TriedIn(d) = w.ve
  BY <1>13, <1>15 DEF TriedIn
<1>17. vcall.ve \in Full /\ vcall.ve # <<>> /\ vcall.frames # <<>>
  BY <1>2 DEF CallInv
<1>18. /\ CallInv(d)
       /\ CallData(d) = HasData(d.ve) + HasData(TriedIn(d)) + GotData(vcall.got)
       /\ CallMounts(d) = Len(d.ve) + Len(TriedIn(d)) + GotMounts(vcall.got)
  BY <1>2, <1>13, <1>15, <1>17, GoesOn
<1>19. PICK g \in Nat, i \in Nat, o \in Nat, q \in Nat :
          g = GotData(vcall.got) /\ i = GotMounts(vcall.got) /\ o = OpenData /\ q = OpenMounts
  BY <1>2, CallCount, OpenCount DEF ParseInv
<1>20. CallData(d) = v + h + g /\ CallMounts(d) = l + k + i
  BY <1>5, <1>9, <1>15, <1>16, <1>18, <1>19
<1>21. given - v - 0 = o + g /\ fsrefs - l - 0 = q + i
  BY <1>2, <1>5, <1>19, SmallVents, ParsingRest
<1>22. w.given = o + CallData(d) /\ w.fsrefs = q + CallMounts(d)
  BY <1>6, <1>11, <1>20, <1>21
<1>23. Leave(w, d)
  BY <1>1, <1>12, <1>14
<1> QED BY <1>2, <1>18, <1>19, <1>22, <1>23, KeptCall

\* The copy is freed, whether or not it has been opened and closed.
LEMMA TriedStep == ParseInv /\ segment_local_end => ParseInv'
<1> SUFFICES ASSUME ParseInv, segment_local_end PROVE ParseInv'
  OBVIOUS
<1>1. PICK t, a : t = vcall.tmp /\ a = Work(t)
  OBVIOUS
<1>2. PICK k, m, n : k = av_copy_vmount(a, t) /\ m = [k EXCEPT !.given = @ + 1] /\ n = av_free_vmount(m, t)
  OBVIOUS
<1>3. PICK b : b = IF Here("tmpopen") THEN [n EXCEPT !.given = @ - 1] ELSE a
  OBVIOUS
<1>4. PICK c, e : c = av_free_ventry(b, t) /\ e = [c EXCEPT !.ve = vcall.ve]
  OBVIOUS
<1>5. PICK w \in lookup_virtual(e) : Looked(w, Top)
  BY <1>1, <1>2, <1>3, <1>4 DEF segment_local_end
<1>6. vcall.pc \in {"tmpopen", "tmpfree"} /\ vcall.pc \in Parsing /\ TriedIn(vcall) = t /\ vopen' = vopen
      /\ vcall.ve \in Vents /\ t \in Vents
  BY <1>1, CallCount DEF segment_local_end, Parsing, TriedIn, ParseInv
<1>7. a \in Works /\ a.given = given /\ a.fsrefs = fsrefs /\ given \in Int /\ fsrefs \in Int
  BY <1>1, <1>6, WorkFacts
<1>8. Front(t) \in Vents
  <2>1. CASE t = <<>>
    <3>1. Len(t) - 1 \in Int /\ Len(t) - 1 < 1
      BY <2>1, SmallVents
    <3>2. SubSeq(t, 1, Len(t) - 1) = <<>>
      BY <3>1, SubSeqEmpty
    <3> QED BY <3>2, SmallVents DEF Front
  <2> QED BY <2>1, <1>6, FrontCount
<1>9. PICK f \in Nat, h \in Nat, l \in Nat : f = HasData(Front(t)) /\ h = HasData(t) /\ l = Len(t)
  BY <1>6, <1>8, VentCount
<1>10. k \in Works /\ k.given = given + f /\ k.fsrefs = fsrefs + l
  BY <1>2, <1>6, <1>7, <1>9, FreeCounts DEF Adds
<1>11. m \in Works /\ m.given = (given + f) + 1 /\ m.fsrefs = (fsrefs + l) + 0
  BY <1>2, <1>10, GivenCounts DEF Adds
<1>12. n \in Works /\ n.given = ((given + f) + 1) + (-f) /\ n.fsrefs = ((fsrefs + l) + 0) + (-l)
  <2>1. Adds(m, n, -f, -l)
    BY <1>2, <1>6, <1>9, <1>11, FreeCounts
  <2> QED BY <1>11, <2>1 DEF Adds
<1>13. n.given = given + 1 /\ n.fsrefs = fsrefs
  BY <1>7, <1>9, <1>12
<1>14. b \in Works /\ b.given = given /\ b.fsrefs = fsrefs
  <2>1. [n EXCEPT !.given = @ - 1] \in Works /\ [n EXCEPT !.given = @ - 1].given = (given + 1) + (-1)
        /\ [n EXCEPT !.given = @ - 1].fsrefs = fsrefs + 0
    BY <1>12, <1>13, GivenCounts DEF Adds
  <2>2. (given + 1) + (-1) = given /\ fsrefs + 0 = fsrefs
    BY <1>7
  <2> QED BY <1>3, <1>7, <2>1, <2>2
<1>15. c \in Works /\ c.given = given + (-h) /\ c.fsrefs = fsrefs + (-l)
  BY <1>4, <1>6, <1>9, <1>14, FreeCounts DEF Adds
<1>16. e \in Works /\ e.ve = vcall.ve /\ e.given = c.given /\ e.fsrefs = c.fsrefs
  BY <1>4, <1>6, <1>15 DEF Works
<1>17. Outcome(e, w)
  BY <1>5, <1>16, LookupCount
<1>18. PICK v \in Nat, i \in Nat : v = HasData(vcall.ve) /\ i = Len(vcall.ve)
  BY <1>6, VentCount
<1>19. given - v - h = OpenData + GotData(vcall.got) /\ fsrefs - i - l = OpenMounts + GotMounts(vcall.got)
  BY <1>6, <1>9, <1>18, ParsingRest
<1>20. (given + (-h)) - v = given - v - h /\ (fsrefs + (-l)) - i = fsrefs - i - l
  BY <1>7, <1>9, <1>18
<1>21. /\ w \in Works /\ w.ve # <<>> /\ (w.ok => w.ve \in Full)
       /\ w.given - HasData(w.ve) = OpenData + GotData(vcall.got)
       /\ w.fsrefs - Len(w.ve) = OpenMounts + GotMounts(vcall.got)
  BY <1>15, <1>16, <1>17, <1>18, <1>19, <1>20 DEF Outcome, SameRest
<1> QED BY <1>5, <1>6, <1>21, LookedStep

\* A link is followed from where it is, or from the root.
LEMMA LinkStep == ParseInv /\ follow_link => ParseInv'
<1> SUFFICES ASSUME ParseInv, follow_link PROVE ParseInv'
  OBVIOUS
<1>1. vcall.pc = "link" /\ vcall.pc \in Parsing /\ TriedIn(vcall) = <<>> /\ vopen' = vopen /\ CallInv(vcall)
  BY DEF follow_link, Here, Parsing, TriedIn, ParseInv
<1>2. vcall.ve \in Full /\ vcall.ve \in Vents /\ vcall.ve # <<>> /\ vcall.frames # <<>> /\ vcall \in VCalls /\ vcall.frames \in Seq(FrameSet)
  BY <1>1, CallCount DEF CallInv, VCalls
<1>3. Work(vcall.ve) \in Works /\ Work(vcall.ve).ve = vcall.ve /\ Outcome(Work(vcall.ve), Work(vcall.ve))
  BY <1>2, WorkFacts DEF Outcome, SameRest
<1>4. CASE Leave(Work(vcall.ve), [vcall EXCEPT !.pc = "error"])
  <2>1. PICK d : d = [vcall EXCEPT !.pc = "error"]
    OBVIOUS
  <2>2. "error" \in PathPcs
    BY DEF PathPcs
  <2>3. /\ d \in VCalls /\ d.pc = "error" /\ d.ve = vcall.ve /\ d.frames = vcall.frames
        /\ d.vf = vcall.vf /\ d.need = vcall.need /\ d.got = vcall.got
    BY <1>2, <2>1, <2>2 DEF VCalls
  <2> QED BY <1>1, <1>2, <1>3, <1>4, <2>1, <2>3, OutcomeRest, WentOn
<1>5. ASSUME NEW n \in 0..MaxSegs, NEW w, Outcome(Work(vcall.ve), w),
             Leave(w, [vcall EXCEPT !.ve = w.ve, !.pc = IF w.ok THEN "parse" ELSE "error",
                                    !.frames = Append(@, Frame(n, Deeper(Top), TRUE))])
      PROVE  ParseInv'
  <2>1. PICK p, fr : p = (IF w.ok THEN "parse" ELSE "error") /\ fr = Append(vcall.frames, Frame(n, Deeper(Top), TRUE))
    OBVIOUS
  <2>2. Deeper(Top) \in Int
    BY <1>1, TopFacts DEF Deeper, FrameSet
  <2>3. fr \in Seq(FrameSet) /\ fr # <<>>
    BY <1>2, <2>1, <2>2, FrameFacts, AppendProperties
  <2>4. PICK d : d = [vcall EXCEPT !.ve = w.ve, !.pc = p, !.frames = fr]
    OBVIOUS
  <2>5. Leave(w, d)
    BY <1>5, <1>2, <2>1, <2>4 DEF VCalls
  <2>6. p \in PathPcs /\ p \in {"parse", "next", "link", "error"} /\ (p # "error" => w.ok)
    BY <2>1 DEF PathPcs
  <2>7. /\ w \in Works /\ w.ve # <<>> /\ (w.ok => w.ve \in Full)
        /\ w.given - HasData(w.ve) = OpenData + GotData(vcall.got)
        /\ w.fsrefs - Len(w.ve) = OpenMounts + GotMounts(vcall.got)
    BY <1>1, <1>5, OutcomeRest
  <2>8. /\ d \in VCalls /\ d.frames = fr /\ d.ve = w.ve /\ d.pc = p
        /\ d.vf = vcall.vf /\ d.need = vcall.need /\ d.got = vcall.got
    BY <1>2, <2>3, <2>4, <2>6, <2>7 DEF VCalls, Works
  <2> QED BY <1>1, <2>3, <2>5, <2>6, <2>7, <2>8, WentOn
<1>6. ASSUME NEW w, w = FirstVentry(av_free_ventry(Work(<<>>), vcall.ve)) PROVE Outcome(Work(vcall.ve), w)
  <2>1. PICK x : x = av_free_ventry(Work(<<>>), vcall.ve)
    OBVIOUS
  <2>2. PICK v \in Nat, l \in Nat : v = HasData(vcall.ve) /\ l = Len(vcall.ve)
    BY <1>2, VentCount
  <2>3. given \in Int /\ fsrefs \in Int /\ Work(<<>>) \in Works /\ Work(<<>>).given = given /\ Work(<<>>).fsrefs = fsrefs
    BY SmallVents, WorkFacts
  <2>4. x \in Works /\ x.given = given + (-v) /\ x.fsrefs = fsrefs + (-l)
    BY <1>2, <2>1, <2>2, <2>3, FreeCounts DEF Adds
  <2>5. w \in Works /\ w.ve = Root /\ w.given = (given + (-v)) + 1 /\ w.fsrefs = (fsrefs + (-l)) + 1
    BY <1>6, <2>1, <2>4, FirstCounts
  <2>6. w.given - 1 = given - v /\ w.fsrefs - 1 = fsrefs - l
    BY <2>2, <2>3, <2>5
  <2>7. Work(vcall.ve).given = given /\ Work(vcall.ve).fsrefs = fsrefs
    BY <1>2, WorkFacts
  <2> QED BY <1>3, <2>2, <2>5, <2>6, <2>7, SmallVents DEF Outcome, SameRest, Full
<1>7. CASE \E n \in 0 .. MaxSegs, absolute \in BOOLEAN :
             \E w \in (IF absolute THEN {FirstVentry(av_free_ventry(Work(<<>>), vcall.ve))}
                       ELSE lookup_virtual(Work(vcall.ve))) :
               Leave(w, [vcall EXCEPT !.ve = w.ve, !.pc = IF w.ok THEN "parse" ELSE "error",
                                      !.frames = Append(@, Frame(n, Deeper(Top), TRUE))])
  <2>1. PICK n \in 0 .. MaxSegs, absolute \in BOOLEAN :
             \E w \in (IF absolute THEN {FirstVentry(av_free_ventry(Work(<<>>), vcall.ve))}
                       ELSE lookup_virtual(Work(vcall.ve))) :
               Leave(w, [vcall EXCEPT !.ve = w.ve, !.pc = IF w.ok THEN "parse" ELSE "error",
                                      !.frames = Append(@, Frame(n, Deeper(Top), TRUE))])
    BY <1>7
  <2>2. PICK w \in (IF absolute THEN {FirstVentry(av_free_ventry(Work(<<>>), vcall.ve))}
                    ELSE lookup_virtual(Work(vcall.ve))) :
               Leave(w, [vcall EXCEPT !.ve = w.ve, !.pc = IF w.ok THEN "parse" ELSE "error",
                                      !.frames = Append(@, Frame(n, Deeper(Top), TRUE))])
    BY <2>1
  <2>3. w = FirstVentry(av_free_ventry(Work(<<>>), vcall.ve)) \/ w \in lookup_virtual(Work(vcall.ve))
    BY <2>2
  <2>4. Outcome(Work(vcall.ve), w)
    BY <1>3, <1>6, <2>3, LookupCount
  <2> QED BY <1>5, <2>2, <2>4
<1> QED BY <1>4, <1>7 DEF follow_link

\* On to the next segment.
LEMMA NextSegmentStep == ParseInv /\ NextSegment => ParseInv'
<1> SUFFICES ASSUME ParseInv, NextSegment PROVE ParseInv'
  OBVIOUS
<1>1. vcall.pc = "next" /\ vcall.pc \in Parsing /\ TriedIn(vcall) = <<>> /\ vopen' = vopen /\ CallInv(vcall)
  BY DEF NextSegment, Here, Parsing, TriedIn, ParseInv
<1>2. vcall.ve \in Full /\ vcall.ve \in Vents /\ vcall.ve # <<>> /\ vcall \in VCalls
  BY <1>1, CallCount DEF CallInv, VCalls
<1>3. Work(vcall.ve) \in Works /\ Work(vcall.ve).ve = vcall.ve /\ Outcome(Work(vcall.ve), Work(vcall.ve))
  BY <1>2, WorkFacts DEF Outcome, SameRest
<1>4. PICK fr : fr = Append(Front(vcall.frames), Next1)
  OBVIOUS
<1>5. fr \in Seq(FrameSet) /\ fr # <<>>
  <2>0. PICK t : t = Top
    OBVIOUS
  <2>1. t \in FrameSet /\ Front(vcall.frames) \in Seq(FrameSet)
    BY <1>1, <2>0, TopFacts
  <2>2. PICK s \in Int : s = t.segs - 1
    BY <2>1 DEF FrameSet
  <2>3. Next1 = [t EXCEPT !.segs = s, !.exts = 0]
    BY <2>0, <2>1, <2>2 DEF Next1, FrameSet
  <2>4. PICK f : f = Next1
    OBVIOUS
  <2>41. PICK z \in Int : z = 0
    OBVIOUS
  <2>42. f = [t EXCEPT !.segs = s, !.exts = z]
    BY <2>3, <2>4, <2>41
  <2>5. f \in FrameSet
    BY <2>1, <2>42 DEF FrameSet
  <2> QED BY <1>4, <2>1, <2>4, <2>5, AppendProperties
<1>6. PICK d : d = [[vcall EXCEPT !.frames = fr] EXCEPT !.pc = "parse", !.tmp = <<>>]
  OBVIOUS
<1>7. Leave(Work(vcall.ve), d)
  BY <1>4, <1>6 DEF NextSegment, WithTop
<1>8. "parse" \in PathPcs /\ <<>> \in Vents
  BY SmallVents DEF PathPcs
<1>9. /\ d \in VCalls /\ d.pc = "parse" /\ d.ve = vcall.ve /\ d.frames = fr
      /\ d.vf = vcall.vf /\ d.need = vcall.need /\ d.got = vcall.got
  BY <1>2, <1>5, <1>6, <1>8 DEF VCalls
<1> QED BY <1>1, <1>2, <1>3, <1>5, <1>7, <1>9, OutcomeRest, WentOn

\* At the end of a path the call has one more ventry.
LEMMA EndOfPathStep == ParseInv /\ EndOfPath => ParseInv'
<1> SUFFICES ASSUME ParseInv, EndOfPath PROVE ParseInv'
  OBVIOUS
<1>1. vcall.pc = "parse" /\ vcall.pc \in Parsing /\ TriedIn(vcall) = <<>> /\ vopen' = vopen /\ CallInv(vcall)
  BY DEF EndOfPath, Here, Parsing, TriedIn, ParseInv
<1>2. /\ vcall.ve \in Full /\ vcall.ve \in Vents /\ vcall.ve # <<>> /\ vcall \in VCalls /\ vcall.vf = <<>>
      /\ vcall.got \in Seq(Full) /\ vcall.need \in 1..2 /\ Len(vcall.got) + vcall.need <= 2
      /\ vcall.frames \in Seq(FrameSet) /\ vcall.frames # <<>>
  BY <1>1, CallCount DEF CallInv, VCalls
<1>3. /\ Work(vcall.ve) \in Works /\ Work(vcall.ve).ve = vcall.ve /\ Outcome(Work(vcall.ve), Work(vcall.ve))
      /\ Work(vcall.ve).given = given /\ Work(vcall.ve).fsrefs = fsrefs
  BY <1>2, WorkFacts DEF Outcome, SameRest
<1>4. CASE Len(vcall.frames) > 1
  <2>1. PICK fr : fr = Front(vcall.frames)
    OBVIOUS
  <2>2. fr \in Seq(FrameSet) /\ fr # <<>>
    <3>1. PICK n \in Nat : n = Len(vcall.frames) /\ n > 1
      BY <1>2, <1>4, LenProperties
    <3>2. \A i \in 1..(n - 1) : vcall.frames[i] \in FrameSet
      BY <1>2, <3>1, ElementOfSeq
    <3>3. SubSeq(vcall.frames, 1, n - 1) \in Seq(FrameSet) /\ Len(SubSeq(vcall.frames, 1, n - 1)) = n - 1
      BY <3>1, <3>2, SubSeqProperties
    <3>4. Len(<<>>) = 0
      BY SmallVents
    <3>5. n - 1 # 0
      <4>1. \A j \in Nat : j > 1 => j - 1 # 0
        OBVIOUS
      <4> QED BY <3>1, <4>1, Zenon
    <3>6. fr = SubSeq(vcall.frames, 1, n - 1)
      BY <2>1, <3>1 DEF Front
    <3> QED BY <3>3, <3>4, <3>5, <3>6
  <2>3. PICK d : d = [vcall EXCEPT !.frames = fr, !.pc = "next"]
    OBVIOUS
  <2>4. Leave(Work(vcall.ve), d)
    BY <1>2, <1>4, <2>1, <2>3 DEF EndOfPath, VCalls
  <2>5. "next" \in PathPcs
    BY DEF PathPcs
  <2>6. /\ d \in VCalls /\ d.pc = "next" /\ d.ve = vcall.ve /\ d.frames = fr
        /\ d.vf = vcall.vf /\ d.need = vcall.need /\ d.got = vcall.got
    BY <1>2, <2>2, <2>3, <2>5 DEF VCalls
  <2> QED BY <1>1, <1>2, <1>3, <2>2, <2>4, <2>6, OutcomeRest, WentOn
<1>5. CASE ~(Len(vcall.frames) > 1)
  <2>1. PICK g, m, p : /\ g = Append(vcall.got, vcall.ve) /\ m = vcall.need - 1
                       /\ p = IF vcall.need > 1 THEN "again" ELSE "act"
    OBVIOUS
  <2>2. PICK d : d = [vcall EXCEPT !.got = g, !.ve = <<>>, !.frames = <<>>, !.tmp = <<>>, !.need = m, !.pc = p]
    OBVIOUS
  <2>3. Leave(Work(vcall.ve), d)
    BY <1>2, <1>5, <2>1, <2>2 DEF EndOfPath, VCalls
  <2>4. PICK l \in Nat : l = Len(vcall.got) /\ l <= 1
    BY <1>2, LenProperties
  <2>5. /\ g \in Seq(Full) /\ Len(g) = l + 1
        /\ GotData(g) = GotData(vcall.got) + HasData(vcall.ve)
        /\ GotMounts(g) = GotMounts(vcall.got) + Len(vcall.ve)
    BY <1>2, <2>1, <2>4, GotMore
  <2>6. p \in PathPcs /\ m \in 0..2 /\ <<>> \in Vents /\ <<>> \in Seq(FrameSet)
    BY <1>2, <2>1, SmallVents, EmptySeq DEF PathPcs
  <2>7. /\ d \in VCalls /\ d.got = g /\ d.ve = <<>> /\ d.tmp = <<>> /\ d.need = m /\ d.pc = p /\ d.vf = <<>>
    BY <1>2, <2>2, <2>5, <2>6 DEF VCalls
  <2>8. CallInv(d)
    <3>1. CASE vcall.need > 1
      <4>1. p = "again" /\ m = 1 /\ l = 0
        BY <1>2, <2>1, <2>4, <3>1
      <4> QED BY <2>5, <2>7, <4>1 DEF CallInv, Parsing
    <3>2. CASE ~(vcall.need > 1)
      <4>1. p = "act" /\ l + 1 \in 1..2
        BY <2>1, <2>4, <3>2
      <4> QED BY <2>5, <2>7, <4>1 DEF CallInv, Parsing
    <3> QED BY <3>1, <3>2
  <2>9. TriedIn(d) = <<>>
    BY <2>7 DEF TriedIn
  <2>10. PICK a \in Nat, b \in Nat, x \in Nat, y \in Nat, o \in Nat, q \in Nat :
            /\ a = HasData(vcall.ve) /\ b = Len(vcall.ve) /\ x = GotData(vcall.got) /\ y = GotMounts(vcall.got)
            /\ o = OpenData /\ q = OpenMounts
    BY <1>1, CallCount, OpenCount DEF ParseInv
  <2>11. CallData(d) = 0 + 0 + 0 + (x + a) /\ CallMounts(d) = 0 + 0 + 0 + (y + b)
    BY <2>5, <2>7, <2>9, <2>10, SmallVents DEF CallData, CallMounts
  <2>12. given - a - 0 = o + x /\ fsrefs - b - 0 = q + y /\ given \in Int /\ fsrefs \in Int
    BY <1>1, <1>2, <2>10, ParsingRest, SmallVents, WorkFacts
  <2>13. given = o + CallData(d) /\ fsrefs = q + CallMounts(d)
    BY <2>11, <2>12
  <2> QED BY <1>1, <1>3, <2>3, <2>8, <2>10, <2>13, KeptCall
<1> QED BY <1>4, <1>5

\* The second path begins when the first is there.
LEMMA SecondPathStep == ParseInv /\ SecondPath => ParseInv'
<1> SUFFICES ASSUME ParseInv, SecondPath PROVE ParseInv'
  OBVIOUS
<1>1. vcall.pc = "again" /\ vcall.pc \notin Parsing /\ vopen' = vopen
  BY DEF SecondPath, Here, Parsing
<1>2. vcall.vf = <<>> /\ vcall.need = 1 /\ Len(vcall.got) = 1 /\ vcall \in VCalls
  BY <1>1 DEF ParseInv, CallInv
<1>3. PICK n \in 0..MaxSegs :
         Leave(FirstVentry(Work(<<>>)),
               [vcall EXCEPT !.pc = "parse", !.ve = Root, !.forced = FALSE,
                             !.frames = <<Frame(n, MaxLinks, FALSE)>>])
  BY DEF SecondPath
<1>4. PICK w, fr : w = FirstVentry(Work(<<>>)) /\ fr = <<Frame(n, MaxLinks, FALSE)>>
  OBVIOUS
<1>5. fr \in Seq(FrameSet) /\ fr # <<>>
  <2>1. MaxLinks \in Int
    BY ParseAssumption
  <2> QED BY <1>4, <2>1, FrameFacts
<1>6. PICK d : d = [vcall EXCEPT !.pc = "parse", !.ve = Root, !.forced = FALSE, !.frames = fr]
  OBVIOUS
<1>7. Root \in Vents /\ "parse" \in PathPcs
  BY SmallVents DEF Full, PathPcs
<1>8. d \in VCalls /\ d.pc = "parse" /\ d.ve = Root /\ d.frames = fr /\ d.vf = <<>> /\ d.need = 1 /\ d.got = vcall.got
  BY <1>2, <1>5, <1>6, <1>7 DEF VCalls
<1>9. PICK g \in Nat, h \in Nat, o \in Nat, p \in Nat :
         g = GotData(vcall.got) /\ h = GotMounts(vcall.got) /\ o = OpenData /\ p = OpenMounts
  BY CallCount, OpenCount DEF ParseInv
<1>10. given = o + (0 + g) /\ fsrefs = p + (0 + h)
  BY <1>1, <1>2, <1>9, DoingRest, SmallVents
<1>11. w.given = given + 1 /\ w.fsrefs = fsrefs + 1
  BY <1>4, SmallVents, WorkFacts, FirstCounts
<1>12. w.given = o + g + 1 /\ w.fsrefs = p + h + 1
  BY <1>10, <1>11
<1>13. d.need >= 1 /\ Len(d.got) + d.need <= 2
  <2>1. 1 >= 1 /\ 1 + 1 <= 2
    OBVIOUS
  <2> QED BY <1>2, <1>8, <2>1, Zenon
<1>14. Leave(w, d)
  BY <1>3, <1>4, <1>6
<1> QED BY <1>1, <1>5, <1>8, <1>9, <1>12, <1>13, <1>14, Starts

\* A path that cannot be parsed is freed, and tried again or answered.
LEMMA ParseErrorStep == ParseInv /\ ParseError => ParseInv'
<1> SUFFICES ASSUME ParseInv, ParseError PROVE ParseInv'
  OBVIOUS
<1>1. vcall.pc = "error" /\ vcall.pc \in Parsing /\ TriedIn(vcall) = <<>> /\ vopen' = vopen /\ CallInv(vcall)
  BY DEF ParseError, Here, Parsing, TriedIn, ParseInv
<1>2. /\ vcall.ve \in Vents /\ vcall \in VCalls /\ vcall.vf = <<>> /\ vcall.need >= 1
      /\ Len(vcall.got) + vcall.need <= 2 /\ vcall.frames \in Seq(FrameSet) /\ vcall.frames # <<>>
  BY <1>1, CallCount DEF CallInv, VCalls
<1>3. PICK a, x : a = Work(<<>>) /\ x = av_free_ventry(a, vcall.ve)
  OBVIOUS
<1>4. PICK v \in Nat, l \in Nat : v = HasData(vcall.ve) /\ l = Len(vcall.ve)
  BY <1>2, VentCount
<1>5. given \in Int /\ fsrefs \in Int /\ a \in Works /\ a.given = given /\ a.fsrefs = fsrefs
  BY <1>3, SmallVents, WorkFacts
<1>6. x \in Works /\ x.given = given + (-v) /\ x.fsrefs = fsrefs + (-l)
  BY <1>2, <1>3, <1>4, <1>5, FreeCounts DEF Adds
<1>7. PICK g \in Nat, h \in Nat, o \in Nat, p \in Nat :
         g = GotData(vcall.got) /\ h = GotMounts(vcall.got) /\ o = OpenData /\ p = OpenMounts
  BY CallCount, OpenCount DEF ParseInv
<1>8. given - v - 0 = o + g /\ fsrefs - l - 0 = p + h
  BY <1>1, <1>4, <1>7, ParsingRest, SmallVents
<1>9. x.given = o + g /\ x.fsrefs = p + h
  BY <1>5, <1>6, <1>8
<1>10. CASE vcall.forced
  <2>1. Answer(x, "error")
    BY <1>3, <1>10 DEF ParseError
  <2>2. Leave(FreeGot(x), Empty("error", <<>>)) /\ "error" \in AnswerSet /\ <<>> \in Rewrites
    BY <2>1, AnswerIsEmpty
  <2> QED BY <1>1, <1>6, <1>7, <1>9, <2>2, AnswerStep
<1>11. CASE ~vcall.forced
  <2>1. PICK n \in 0..MaxSegs :
           Leave(Retried(Work(<<>>), vcall.ve),
                 [ForcedLocal(vcall) EXCEPT !.pc = "parse", !.ve = Root, !.tmp = <<>>,
                               !.frames = <<Frame(n, MaxLinks, Head(vcall.frames).resolve)>>])
    BY <1>11 DEF ParseError
  <2>2. PICK w, fr : w = FirstVentry(x) /\ fr = <<Frame(n, MaxLinks, Head(vcall.frames).resolve)>>
    OBVIOUS
  <2>3. fr \in Seq(FrameSet) /\ fr # <<>>
    <3>1. MaxLinks \in Int
      BY ParseAssumption
    <3>2. Head(vcall.frames) \in FrameSet
      BY <1>2, HeadTailProperties
    <3>3. Head(vcall.frames).resolve \in BOOLEAN
      BY <3>2 DEF FrameSet
    <3> QED BY <2>2, <3>1, <3>3, FrameFacts
  <2>4. PICK d : d = [[vcall EXCEPT !.forced = TRUE] EXCEPT !.pc = "parse", !.ve = Root, !.tmp = <<>>, !.frames = fr]
    OBVIOUS
  <2>5. Leave(w, d)
    BY <1>3, <2>1, <2>2, <2>4 DEF Retried, ForcedLocal
  <2>6. Root \in Vents /\ <<>> \in Vents /\ "parse" \in PathPcs
    BY SmallVents DEF Full, PathPcs
  <2>7. /\ d \in VCalls /\ d.pc = "parse" /\ d.ve = Root /\ d.frames = fr
        /\ d.vf = vcall.vf /\ d.need = vcall.need /\ d.got = vcall.got
    BY <1>2, <2>3, <2>4, <2>6 DEF VCalls
  <2>8. w.given = x.given + 1 /\ w.fsrefs = x.fsrefs + 1
    BY <1>6, <2>2, FirstCounts
  <2>9. w.given = OpenData + GotData(d.got) + 1 /\ w.fsrefs = OpenMounts + GotMounts(d.got) + 1
    BY <1>7, <1>9, <2>7, <2>8
  <2> QED BY <1>1, <1>2, <2>3, <2>5, <2>7, <2>9, Starts
<1> QED BY <1>10, <1>11

\* The calls that only answer.
LEMMA AnswersStep ==
    ASSUME ParseInv, virt_access \/ virt_change \/ virt_two \/ virt_readlink
    PROVE  ParseInv'
<1>1. vcall.pc = "act" /\ vcall.pc \notin Parsing /\ vopen' = vopen /\ vcall.vf = <<>>
  <2>1. vcall.pc = "act" /\ vopen' = vopen
    BY DEF virt_access, virt_change, virt_two, virt_readlink, Here
  <2> QED BY <2>1 DEF ParseInv, CallInv, Parsing
<1>2. PICK a : a = Work(<<>>)
  OBVIOUS
<1>3. PICK g \in Nat, h \in Nat, o \in Nat, p \in Nat :
         g = GotData(vcall.got) /\ h = GotMounts(vcall.got) /\ o = OpenData /\ p = OpenMounts
  BY CallCount, OpenCount DEF ParseInv
<1>4. given = o + (0 + g) /\ fsrefs = p + (0 + h)
  BY <1>1, <1>3, DoingRest, SmallVents
<1>5. a \in Works /\ a.given = o + g /\ a.fsrefs = p + h
  BY <1>2, <1>4, SmallVents, WorkFacts
<1>6. ASSUME NEW ans \in AnswerSet, NEW r \in Rewrites, Leave(FreeGot(a), Empty(ans, r)) PROVE ParseInv'
  BY <1>1, <1>3, <1>5, <1>6, AnswerStep
<1>7. ASSUME NEW ans \in {"ok", "error"}, Answer(a, ans) PROVE ParseInv'
  BY <1>6, <1>7, AnswerIsEmpty
<1>8. CASE virt_access
  BY <1>2, <1>7, <1>8 DEF virt_access
<1>9. CASE virt_change
  BY <1>2, <1>7, <1>9 DEF virt_change
<1>10. CASE virt_two
  BY <1>2, <1>7, <1>10 DEF virt_two
<1>11. CASE virt_readlink
  <2>1. CASE Answer(a, "error")
    BY <1>7, <2>1
  <2>2. ASSUME NEW path \in LinkPaths \ {<<>>}, NEW dest \in LinkPaths,
               Leave(FreeGot(a), [NoPath EXCEPT !.ans = "ok", !.rewritten = <<path, dest, transform_symlink(path, dest)>>])
        PROVE  ParseInv'
    <3>1. PICK r : r = <<path, dest, transform_symlink(path, dest)>>
      OBVIOUS
    <3>2. r \in Rewrites
      BY <3>1 DEF Rewrites
    <3>3. Leave(FreeGot(a), Empty("ok", r)) /\ "ok" \in AnswerSet
      BY <2>2, <3>1, AnswerIsEmpty
    <3> QED BY <1>6, <3>2, <3>3
  <2> QED BY <1>2, <1>11, <2>1, <2>2 DEF virt_readlink
<1> QED BY <1>8, <1>9, <1>10, <1>11

\* A file is opened: the ventry's mounts and the file's data are the file's then.
LEMMA FileOpenStep == ParseInv /\ av_file_open => ParseInv'
<1> SUFFICES ASSUME ParseInv, av_file_open PROVE ParseInv'
  OBVIOUS
<1>1. vcall.pc = "act" /\ vcall.pc \notin Parsing /\ vcall.vf = <<>> /\ vcall.ve = <<>> /\ vcall \in VCalls /\ CallInv(vcall)
  <2>1. vcall.pc = "act"
    BY DEF av_file_open, Here
  <2> QED BY <2>1 DEF ParseInv, CallInv, Parsing
<1>2. PICK v, a, w, m, o : /\ v = vcall.got[1] /\ a = Work(<<>>) /\ w = av_copy_vmount(a, v)
                           /\ m = [w EXCEPT !.given = @ + 1] /\ o = FreeGot(m)
  OBVIOUS
<1>3. vcall.got \in Seq(Full) /\ v \in Full /\ v \in Vents /\ v # <<>> /\ Last(v) = TRUE
  <2>1. vcall.got \in Seq(Full) /\ Len(vcall.got) \in 1..2
    BY <1>1, CallCount DEF CallInv
  <2>2. v \in Full
    BY <1>2, <2>1, ElementOfSeq
  <2> QED BY <2>1, <2>2 DEF Full
<1>4. PICK h \in Nat, f \in Nat, l \in Nat : h = HasData(v) /\ f = HasData(Front(v)) /\ l = Len(v) /\ h = f + 1
  BY <1>3, FrontCount, VentCount
<1>5. PICK g \in Nat, k \in Nat, p \in Nat, q \in Nat :
         g = GotData(vcall.got) /\ k = GotMounts(vcall.got) /\ p = OpenData /\ q = OpenMounts
  BY CallCount, OpenCount DEF ParseInv
<1>6. given = p + (0 + g) /\ fsrefs = q + (0 + k)
  BY <1>1, <1>5, DoingRest, SmallVents
<1>7. a \in Works /\ a.given = p + g /\ a.fsrefs = q + k
  BY <1>2, <1>6, SmallVents, WorkFacts
<1>8. w \in Works /\ w.given = (p + g) + f /\ w.fsrefs = (q + k) + l
  <2>1. Adds(a, w, f, l)
    BY <1>2, <1>3, <1>4, <1>7, FreeCounts
  <2> QED BY <1>7, <2>1 DEF Adds
<1>9. CASE Answer(av_free_vmount(w, v), "error") /\ UNCHANGED vopen
  <2>1. PICK x : x = av_free_vmount(w, v)
    OBVIOUS
  <2>2. Adds(w, x, -f, -l)
    BY <1>3, <1>4, <1>8, <2>1, FreeCounts
  <2>3. x \in Works /\ x.given = ((p + g) + f) + (-f) /\ x.fsrefs = ((q + k) + l) + (-l)
    BY <1>8, <2>2 DEF Adds
  <2>4. x.given = p + g /\ x.fsrefs = q + k
    BY <2>3
  <2>5. Leave(FreeGot(x), Empty("error", <<>>)) /\ "error" \in AnswerSet /\ <<>> \in Rewrites
    BY <1>9, <2>1, AnswerIsEmpty
  <2> QED BY <1>5, <1>9, <2>3, <2>4, <2>5, AnswerStep
<1>10. o \in Works /\ o.given = p + h /\ o.fsrefs = q + l
  <2>1. Adds(w, m, 1, 0)
    BY <1>2, <1>8, GivenCounts
  <2>2. m \in Works /\ m.given = ((p + g) + f) + 1 /\ m.fsrefs = ((q + k) + l) + 0
    BY <1>8, <2>1 DEF Adds
  <2>3. o \in Works /\ o.given = m.given - g /\ o.fsrefs = m.fsrefs - k
    BY <1>2, <1>5, <2>2, FreeGotCounts
  <2>4. o.given = p + h
    BY <1>4, <2>2, <2>3
  <2>5. o.fsrefs = q + l
    BY <2>2, <2>3
  <2> QED BY <2>3, <2>4, <2>5
<1>11. CASE /\ vcall.op \in AttrOps /\ UNCHANGED vopen
            /\ Leave(o, [vcall EXCEPT !.pc = "file", !.vf = v, !.got = <<>>])
  <2>1. PICK d : d = [vcall EXCEPT !.pc = "file", !.vf = v, !.got = <<>>]
    OBVIOUS
  <2>2. "file" \in PathPcs /\ <<>> \in Seq(Full)
    BY EmptySeq DEF PathPcs
  <2>3. d \in VCalls /\ d.pc = "file" /\ d.vf = v /\ d.got = <<>> /\ d.ve = <<>>
    BY <1>1, <1>3, <2>1, <2>2 DEF VCalls
  <2>4. CallInv(d) /\ TriedIn(d) = <<>>
    BY <1>3, <2>3 DEF CallInv, Parsing, TriedIn
  <2>5. CallData(d) = 0 + h + 0 + 0 /\ CallMounts(d) = 0 + l + 0 + 0
    <3>1. GotData(<<>>) = 0 /\ GotMounts(<<>>) = 0
      BY <2>2, GotCount
    <3> QED BY <1>4, <2>3, <2>4, <3>1, SmallVents DEF CallData, CallMounts
  <2>6. o.given = OpenData + CallData(d) /\ o.fsrefs = OpenMounts + CallMounts(d)
    BY <1>4, <1>5, <1>10, <2>5
  <2> QED BY <1>11, <2>1, <2>4, <2>6, KeptCall
<1>12. CASE Leave(o, [NoPath EXCEPT !.ans = "ok"]) /\ vopen' = Append(vopen, v)
  <2>1. PICK c : c = Empty("ok", <<>>)
    OBVIOUS
  <2>2. CallInv(c) /\ CallData(c) = 0 /\ CallMounts(c) = 0
    BY <2>1, EmptyCall, AnswerIsEmpty
  <2>3. vcall' = c /\ given' = o.given /\ fsrefs' = o.fsrefs
    BY <1>12, <2>1, AnswerIsEmpty DEF Leave
  <2>4. OpensInv' /\ OpenData' = p + h /\ OpenMounts' = q + l
    <3>1. vopen \in Seq(Full) /\ vopen \in Seq(Vents) /\ IsFiniteSet(MountsOf(vopen))
      BY OpenCount DEF ParseInv, OpensInv
    <3>2. PICK u : u = Append(vopen, v)
      OBVIOUS
    <3>3. u \in Seq(Full)
      BY <1>3, <3>1, <3>2, AppendProperties
    <3>4. /\ IsFiniteSet(MountsOf(u)) /\ Cardinality(MountsOf(u)) = OpenMounts + Len(v)
          /\ Cardinality(DataOf(u)) = OpenData + HasData(v)
      BY <1>3, <3>1, <3>2, AppendCount DEF OpenMounts, OpenData
    <3>5. vopen' = u
      BY <1>12, <3>2
    <3> QED BY <1>4, <1>5, <3>3, <3>4, <3>5 DEF OpensInv, OpenData, OpenMounts
  <2>5. CallInv(vcall') /\ CallData(vcall') = 0 /\ CallMounts(vcall') = 0
    BY <2>2, <2>3
  <2>6. p + h = p + h + 0 /\ q + l = q + l + 0
    BY <1>4, <1>5
  <2> QED BY <1>10, <2>3, <2>4, <2>5, <2>6 DEF ParseInv
<1>13. vcall.op \in AttrOps \/ ~(vcall.op \in AttrOps)
  OBVIOUS
<1> QED BY <1>2, <1>9, <1>11, <1>12 DEF av_file_open

\* What is left when the file has been closed.
LEMMA ClosedCounts ==
    ASSUME ParseInv, vcall.pc = "file"
    PROVE  /\ ClosedFile \in Works
           /\ ClosedFile.given = OpenData + GotData(vcall.got)
           /\ ClosedFile.fsrefs = OpenMounts + GotMounts(vcall.got)
           /\ vcall.got = <<>> /\ GotData(vcall.got) = 0 /\ GotMounts(vcall.got) = 0
           /\ OpenData \in Nat /\ OpenMounts \in Nat
<1>1. vcall.pc \notin Parsing /\ vcall.vf \in Full /\ vcall.got = <<>> /\ <<>> \in Seq(Full)
  BY EmptySeq DEF ParseInv, CallInv, Parsing
<1>2. PICK v, a, m, x : /\ v = vcall.vf /\ a = Work(<<>>) /\ m = [a EXCEPT !.given = @ - 1]
                        /\ x = av_free_vmount(m, v)
  OBVIOUS
<1>3. v \in Vents /\ v # <<>> /\ Last(v) = TRUE
  BY <1>1, <1>2 DEF Full
<1>4. PICK h \in Nat, f \in Nat, l \in Nat : h = HasData(v) /\ f = HasData(Front(v)) /\ l = Len(v) /\ h = f + 1
  BY <1>3, FrontCount, VentCount
<1>5. GotData(vcall.got) = 0 /\ GotMounts(vcall.got) = 0
  BY <1>1, GotCount
<1>6. PICK o \in Nat, p \in Nat : o = OpenData /\ p = OpenMounts
  BY OpenCount DEF ParseInv
<1>7. given = o + (h + 0) /\ fsrefs = p + (l + 0)
  BY <1>1, <1>2, <1>4, <1>5, <1>6, DoingRest
<1>8. a \in Works /\ a.given = o + h /\ a.fsrefs = p + l
  BY <1>2, <1>7, SmallVents, WorkFacts
<1>9. m \in Works /\ m.given = (o + h) + (-1) /\ m.fsrefs = (p + l) + 0
  <2>1. Adds(a, m, -1, 0)
    BY <1>2, <1>8, GivenCounts
  <2> QED BY <1>8, <2>1 DEF Adds
<1>10. Adds(m, x, -f, -l)
  BY <1>2, <1>3, <1>4, <1>9, FreeCounts
<1>11. x \in Works /\ x.given = ((o + h) + (-1)) + (-f) /\ x.fsrefs = ((p + l) + 0) + (-l)
  BY <1>9, <1>10 DEF Adds
<1>12. x.given = o + 0
  BY <1>4, <1>11
<1>13. x.fsrefs = p + 0
  BY <1>11
<1>14. ClosedFile = x
  BY <1>2 DEF ClosedFile
<1> QED BY <1>1, <1>5, <1>6, <1>11, <1>12, <1>13, <1>14

\* The file of a call that is about its attributes is closed.
LEMMA FileCloseStep == ParseInv /\ av_file_close => ParseInv'
<1> SUFFICES ASSUME ParseInv, av_file_close PROVE ParseInv'
  OBVIOUS
<1>1. vcall.pc = "file" /\ vopen' = vopen
  BY DEF av_file_close, Here
<1>2. PICK ans \in {"ok", "error"} : Answer(ClosedFile, ans)
  BY DEF av_file_close
<1>3. Leave(FreeGot(ClosedFile), Empty(ans, <<>>)) /\ ans \in AnswerSet /\ <<>> \in Rewrites
  BY <1>2, AnswerIsEmpty
<1> QED BY <1>1, <1>3, ClosedCounts, AnswerStep

\* remove goes on with the call that is for what the path names.
LEMMA RemoveStep == ParseInv /\ virt_remove => ParseInv'
<1> SUFFICES ASSUME ParseInv, virt_remove PROVE ParseInv'
  OBVIOUS
<1>1. vcall.pc = "file" /\ vopen' = vopen
  BY DEF virt_remove, Here
<1>2. CASE Answer(ClosedFile, "error")
  <2>1. Leave(FreeGot(ClosedFile), Empty("error", <<>>)) /\ "error" \in AnswerSet /\ <<>> \in Rewrites
    BY <1>2, AnswerIsEmpty
  <2> QED BY <1>1, <2>1, ClosedCounts, AnswerStep
<1>3. ASSUME NEW op \in {"rmdir", "unlink"}, NEW n \in 0..MaxSegs,
             Leave(FirstVentry(ClosedFile),
                   [NoPath EXCEPT !.pc = "parse", !.op = op, !.ve = Root, !.need = 1,
                                  !.frames = <<Frame(n, MaxLinks, FALSE)>>])
      PROVE  ParseInv'
  <2>1. PICK w, fr : w = FirstVentry(ClosedFile) /\ fr = <<Frame(n, MaxLinks, FALSE)>>
    OBVIOUS
  <2>2. fr \in Seq(FrameSet) /\ fr # <<>>
    <3>1. MaxLinks \in Int
      BY ParseAssumption
    <3> QED BY <2>1, <3>1, FrameFacts
  <2>3. PICK d : d = [NoPath EXCEPT !.pc = "parse", !.op = op, !.ve = Root, !.need = 1, !.frames = fr]
    OBVIOUS
  <2>4. d = [pc |-> "parse", op |-> op, need |-> 1, got |-> <<>>, ve |-> Root, frames |-> fr,
             forced |-> FALSE, tmp |-> <<>>, vf |-> <<>>, ans |-> "none", rewritten |-> <<>>]
    BY <2>3 DEF NoPath
  <2>5. d \in VCalls
    <3>1. /\ "parse" \in PathPcs /\ op \in OpSet /\ 1 \in 0..2 /\ Root \in Vents /\ <<>> \in Full \cup {<<>>}
          /\ "none" \in AnswerSet /\ <<>> \in Rewrites /\ FALSE \in BOOLEAN /\ <<>> \in Seq(Full) /\ <<>> \in Vents
      BY SmallVents, EmptySeq DEF PathPcs, AnswerSet, Rewrites, Full, OpSet, ChangeOps
    <3> QED BY <2>2, <2>4, <3>1 DEF VCalls
  <2>6. Leave(w, d)
    BY <1>3, <2>1, <2>3
  <2>7. d.pc = "parse" /\ d.ve = Root /\ d.vf = <<>> /\ d.frames = fr /\ d.got = <<>> /\ d.need = 1
    BY <2>4
  <2>8. PICK o \in Nat, p \in Nat : o = OpenData /\ p = OpenMounts
    BY <1>1, ClosedCounts
  <2>9. ClosedFile \in Works /\ ClosedFile.given = o + 0 /\ ClosedFile.fsrefs = p + 0 /\ GotData(<<>>) = 0 /\ GotMounts(<<>>) = 0
    BY <1>1, <2>8, ClosedCounts
  <2>10. w.given = o + 0 + 1 /\ w.fsrefs = p + 0 + 1
    BY <2>1, <2>9, FirstCounts
  <2>11. d.need >= 1 /\ Len(d.got) + d.need <= 2
    BY <2>7, SmallVents
  <2> QED BY <1>1, <2>2, <2>5, <2>6, <2>7, <2>8, <2>9, <2>10, <2>11, Starts
<1> QED BY <1>2, <1>3 DEF virt_remove

\* A file that was left open is closed.
LEMMA CloseOpenStep ==
    ASSUME ParseInv, NEW i \in 1..Len(vopen), CloseOpen(i)
    PROVE  ParseInv'
<1>1. vcall.pc = "idle" /\ vopen' = RemoveAt(vopen, i)
  BY DEF CloseOpen, Here
<1>2. PICK v, a, m, x : /\ v = vopen[i] /\ a = Work(<<>>) /\ m = [a EXCEPT !.given = @ - 1]
                        /\ x = av_free_vmount(m, v)
  OBVIOUS
<1>3. vcall' = vcall /\ given' = x.given /\ fsrefs' = x.fsrefs
  BY <1>2 DEF CloseOpen, Leave
<1>4. vopen \in Seq(Full) /\ vopen \in Seq(Vents) /\ IsFiniteSet(MountsOf(vopen))
  BY OpenCount DEF ParseInv, OpensInv
<1>5. v \in Full /\ v \in Vents /\ v # <<>> /\ Last(v) = TRUE
  <2>1. v \in Full
    BY <1>2, <1>4, ElementOfSeq
  <2> QED BY <2>1 DEF Full
<1>6. PICK h \in Nat, f \in Nat, l \in Nat : h = HasData(v) /\ f = HasData(Front(v)) /\ l = Len(v) /\ h = f + 1
  BY <1>5, FrontCount, VentCount
<1>7. PICK o \in Nat, p \in Nat, c \in Nat, k \in Nat :
         o = OpenData /\ p = OpenMounts /\ c = CallData(vcall) /\ k = CallMounts(vcall)
  BY OpenCount, CallCount DEF ParseInv
<1>8. given = o + c /\ fsrefs = p + k
  BY <1>7 DEF ParseInv
<1>9. a \in Works /\ a.given = o + c /\ a.fsrefs = p + k
  BY <1>2, <1>8, SmallVents, WorkFacts
<1>10. m \in Works /\ m.given = (o + c) + (-1) /\ m.fsrefs = (p + k) + 0
  <2>1. Adds(a, m, -1, 0)
    BY <1>2, <1>9, GivenCounts
  <2> QED BY <1>9, <2>1 DEF Adds
<1>11. Adds(m, x, -f, -l)
  BY <1>2, <1>5, <1>6, <1>10, FreeCounts
<1>12. x.given = ((o + c) + (-1)) + (-f) /\ x.fsrefs = ((p + k) + 0) + (-l)
  BY <1>10, <1>11 DEF Adds
<1>13. PICK u : u = RemoveAt(vopen, i)
  OBVIOUS
<1>14. /\ u \in Seq(Full) /\ IsFiniteSet(MountsOf(u))
       /\ Cardinality(MountsOf(u)) = p - l /\ Cardinality(DataOf(u)) = o - h
  <2>1. u \in Seq(Full)
    BY <1>4, <1>13, RemoveAtShape
  <2>2. /\ IsFiniteSet(MountsOf(u))
        /\ Cardinality(MountsOf(u)) = OpenMounts - Len(v) /\ Cardinality(DataOf(u)) = OpenData - HasData(v)
    BY <1>2, <1>4, <1>13, RemoveCount DEF OpenMounts, OpenData
  <2> QED BY <1>6, <1>7, <2>1, <2>2
<1>15. OpensInv' /\ OpenData' = o - h /\ OpenMounts' = p - l
  <2>1. vopen' = u
    BY <1>1, <1>13
  <2> QED BY <1>14, <2>1 DEF OpensInv, OpenData, OpenMounts
<1>16. CallInv(vcall') /\ CallData(vcall') = c /\ CallMounts(vcall') = k
  BY <1>3, <1>7 DEF ParseInv
<1>17. x.given = (o - h) + c
  BY <1>6, <1>12
<1>18. x.fsrefs = (p - l) + k
  BY <1>12
<1> QED BY <1>3, <1>15, <1>16, <1>17, <1>18 DEF ParseInv

\* Every step of the parser and of the calls keeps the invariant.
LEMMA ParseInvStep == ParseInv /\ [ParseNext]_parse_vars => ParseInv'
<1> SUFFICES ASSUME ParseInv, [ParseNext]_parse_vars PROVE ParseInv'
  OBVIOUS
<1>1. CASE UNCHANGED parse_vars
  BY <1>1 DEF parse_vars, ParseInv, OpensInv, OpenData, OpenMounts
<1>2. ASSUME NEW op \in EntryOps \cup ChangeOps \cup TwoOps \cup AttrOps \cup OpenOps,
             NEW n \in 0..MaxSegs, BeginCall(op, n)
      PROVE  ParseInv'
  <2>1. op \in OpSet \ {"none"}
    BY DEF OpSet, EntryOps, ChangeOps, TwoOps, AttrOps, OpenOps
  <2> QED BY <1>2, <2>1, BeginCallStep
<1>3. CASE ParseStep
  BY <1>3, SegmentStep, TryStep, TriedStep, LinkStep, NextSegmentStep, EndOfPathStep, SecondPathStep,
     ParseErrorStep, AnswersStep, FileOpenStep, FileCloseStep, RemoveStep DEF ParseStep
<1>4. ASSUME NEW i \in 1..Len(vopen), CloseOpen(i) PROVE ParseInv'
  BY <1>4, CloseOpenStep
<1> QED BY <1>1, <1>2, <1>3, <1>4 DEF ParseNext

----------------------------------------------------------------------------
(* Links made relative.                                                    *)

\* Of some numbers one is the largest, if they have a bound.
LEMMA LargestNumber ==
    ASSUME NEW X, X \subseteq Nat, NEW x \in X, NEW b \in Nat, \A y \in X : y <= b
    PROVE  \E m \in X : \A y \in X : y <= m
<1> DEFINE D == {b - y : y \in X}
<1>1. D \subseteq Nat /\ b - x \in D
  OBVIOUS
<1>2. PICK d \in D : \A e \in D : d <= e
  BY <1>1, FirstPosition
<1>3. PICK m \in X : d = b - m
  OBVIOUS
<1>4. \A y \in X : b - m <= b - y
  BY <1>2, <1>3
<1> QED BY <1>4

\* What two paths begin with is in both.
LEMMA CommonIsPrefix ==
    ASSUME NEW S, NEW l \in Seq(S), NEW p \in Seq(S)
    PROVE  LET n == Len(LongestCommonPrefix({l, p}))
           IN n \in Nat /\ n <= Len(l) /\ n <= Len(p) /\ \A i \in 1..n : l[i] = p[i]
<1> DEFINE C == CommonPrefixes({l, p})
           Longest(x) == \A y \in C : Len(y) <= Len(x)
<1>1. Len(l) \in Nat /\ Len(p) \in Nat
  BY LenProperties
<1>2. \A x \in C : x \in Seq(S) /\ IsPrefix(x, l) /\ IsPrefix(x, p)
  <2> SUFFICES ASSUME NEW x \in C PROVE x \in Seq(S) /\ IsPrefix(x, l) /\ IsPrefix(x, p)
    OBVIOUS
  <2>1. IsPrefix(x, l) /\ IsPrefix(x, p) /\ (x \in Prefixes(l) \/ x \in Prefixes(p))
    BY DEF CommonPrefixes
  <2>2. ASSUME NEW s \in Seq(S), x \in Prefixes(s) PROVE x \in Seq(S)
    <3>1. PICK k \in 0..Len(s) : x = SubSeq(s, 1, k)
      BY <2>2 DEF Prefixes
    <3>2. Len(s) \in Nat
      BY LenProperties
    <3>3. \A i \in 1..k : s[i] \in S
      BY <3>2, ElementOfSeq
    <3> QED BY <3>1, <3>2, <3>3, SubSeqProperties
  <2> QED BY <2>1, <2>2
<1>3. <<>> \in C
  <2>1. SubSeq(l, 1, 0) = <<>> /\ SubSeq(p, 1, 0) = <<>> /\ SubSeq(<<>>, 1, 0) = <<>> /\ Len(<<>>) = 0
    BY SubSeqEmpty, EmptySeq
  <2>2. <<>> \in Prefixes(l)
    BY <1>1, <2>1 DEF Prefixes
  <2>3. IsPrefix(<<>>, l) /\ IsPrefix(<<>>, p)
    BY <1>1, <2>1 DEF IsPrefix
  <2> QED BY <2>2, <2>3 DEF CommonPrefixes
<1> HIDE DEF C
<1>4. \E x \in C : Longest(x)
  <2> DEFINE X == {Len(x) : x \in C}
  <2>1. X \subseteq Nat /\ Len(<<>>) \in X
    BY <1>2, <1>3, LenProperties
  <2>2. \A y \in X : y <= Len(l)
    BY <1>2 DEF IsPrefix
  <2>3. \E m \in X : \A y \in X : y <= m
    BY <1>1, <2>1, <2>2, LargestNumber
  <2> QED BY <2>3
<1>5. PICK x : x = LongestCommonPrefix({l, p})
  OBVIOUS
<1>6. x \in C
  <2>1. x = CHOOSE z \in C : Longest(z)
    BY <1>5 DEF LongestCommonPrefix, C
  <2> HIDE DEF Longest
  <2> QED BY <1>4, <2>1
<1>7. x \in Seq(S) /\ IsPrefix(x, l) /\ IsPrefix(x, p)
  BY <1>2, <1>6
<1>8. PICK n \in Nat : n = Len(x) /\ n <= Len(l) /\ n <= Len(p)
  BY <1>7, LenProperties DEF IsPrefix
<1>9. \A i \in 1..n : l[i] = p[i]
  <2>1. SubSeq(l, 1, n) = SubSeq(p, 1, n)
    BY <1>7, <1>8 DEF IsPrefix
  <2>2. \A i \in 1..n : SubSeq(l, 1, n)[i] = l[i] /\ SubSeq(p, 1, n)[i] = p[i]
    <3>1. \A i \in 1..n : l[i] \in S /\ p[i] \in S
      BY <1>1, <1>8, ElementOfSeq
    <3>2. /\ \A i \in 1..(n - 1 + 1) : SubSeq(l, 1, n)[i] = l[1 + i - 1]
          /\ \A i \in 1..(n - 1 + 1) : SubSeq(p, 1, n)[i] = p[1 + i - 1]
      BY <3>1, SubSeqProperties
    <3> QED BY <3>2
  <2> QED BY <2>1, <2>2
<1> QED BY <1>5, <1>8, <1>9

\* What strip_common strips is the same in both paths, and is not all of equal ones.
LEMMA StripFacts ==
    ASSUME NEW S, NEW l \in Seq(S), NEW p \in Seq(S), p # <<>>
    PROVE  LET n == strip_common(l, p)
           IN n \in Nat /\ n <= Len(l) /\ n <= Len(p) /\ \A i \in 1..n : l[i] = p[i]
<1>1. CASE l = p
  <2>1. Len(p) \in Nat \ {0}
    BY EmptySeq
  <2>2. strip_common(l, p) = Len(p) - 1
    BY <1>1 DEF strip_common
  <2> QED BY <1>1, <2>1, <2>2
<1>2. CASE l # p
  BY <1>2, CommonIsPrefix DEF strip_common
<1> QED BY <1>1, <1>2

\* The directory of a path, as far up as the relative link goes, and what the link adds.
LEMMA RelativeSame ==
    ASSUME NEW S, NEW l \in Seq(S), NEW p \in Seq(S), p # <<>>, NEW r, r = transform_symlink(p, l),
           r # NotRewritten
    PROVE  SubSeq(Front(p), 1, Len(Front(p)) - r.up) \o r.rest = l
<1>1. PICK n \in Nat : n = strip_common(l, p) /\ n <= Len(l) /\ n <= Len(p) /\ \A i \in 1..n : l[i] = p[i]
  BY StripFacts
<1>2. PICK a \in Nat, b \in Nat : a = Len(l) /\ b = Len(p) /\ b # 0
  BY EmptySeq, LenProperties
<1>3. n # b /\ r.up = (b - n) - 1 /\ r.rest = SubSeq(l, n + 1, a)
  BY <1>1, <1>2 DEF transform_symlink, count_components
<1>4. PICK f : f = Front(p)
  OBVIOUS
<1>5. \A i \in 1..b : p[i] \in S
  BY <1>2, ElementOfSeq
<1>6. f \in Seq(S) /\ Len(f) = b - 1 /\ \A i \in 1..(b - 1) : f[i] = p[i]
  <2>1. f = SubSeq(p, 1, b - 1)
    BY <1>2, <1>4 DEF Front
  <2>2. \A i \in 1..(b - 1) : p[i] \in S
    BY <1>2, <1>5
  <2>3. /\ SubSeq(p, 1, b - 1) \in Seq(S)
        /\ Len(SubSeq(p, 1, b - 1)) = IF 1 <= b - 1 THEN b - 1 - 1 + 1 ELSE 0
        /\ \A i \in 1..(b - 1 - 1 + 1) : SubSeq(p, 1, b - 1)[i] = p[1 + i - 1]
    BY <1>2, <2>2, SubSeqProperties
  <2>4. \A i \in 1..(b - 1) : SubSeq(p, 1, b - 1)[i] = p[i]
    BY <1>2, <2>3
  <2> QED BY <1>2, <2>1, <2>3, <2>4
<1>7. Len(f) - r.up = n
  BY <1>2, <1>3, <1>6
<1>8. SubSeq(f, 1, n) = SubSeq(l, 1, n)
  <2>1. \A i \in 1..n : f[i] = l[i] /\ f[i] \in S /\ l[i] \in S
    <3>1. \A i \in 1..n : i \in 1..(b - 1) /\ i \in 1..b
      BY ONLY <1>1, <1>2, <1>3
    <3>2. \A i \in 1..n : f[i] = p[i] /\ l[i] = p[i] /\ p[i] \in S
      BY ONLY <1>1, <1>5, <1>6, <3>1
    <3> QED BY ONLY <3>2
  <2>2. /\ SubSeq(f, 1, n) \in Seq(S) /\ Len(SubSeq(f, 1, n)) = IF 1 <= n THEN n - 1 + 1 ELSE 0
        /\ \A i \in 1..(n - 1 + 1) : SubSeq(f, 1, n)[i] = f[1 + i - 1]
    BY <2>1, SubSeqProperties
  <2>3. /\ SubSeq(l, 1, n) \in Seq(S) /\ Len(SubSeq(l, 1, n)) = IF 1 <= n THEN n - 1 + 1 ELSE 0
        /\ \A i \in 1..(n - 1 + 1) : SubSeq(l, 1, n)[i] = l[1 + i - 1]
    BY <2>1, SubSeqProperties
  <2>4. Len(SubSeq(f, 1, n)) = n /\ Len(SubSeq(l, 1, n)) = n
    BY <2>2, <2>3
  <2>5. \A i \in 1..n : SubSeq(f, 1, n)[i] = SubSeq(l, 1, n)[i]
    BY <2>1, <2>2, <2>3
  <2> QED BY <2>2, <2>3, <2>4, <2>5, SeqEqual
<1>9. SubSeq(l, 1, n) \o SubSeq(l, n + 1, a) = SubSeq(l, 1, a)
  <2>1. 1 \in 1..(Len(l) + 1) /\ n \in (1 - 1)..Len(l) /\ a \in n..Len(l)
    BY <1>1, <1>2
  <2> QED BY <2>1, ConcatAdjacentSubSeq
<1>10. SubSeq(l, 1, a) = l
  BY <1>2, SubSeqFull
<1> QED BY <1>3, <1>4, <1>7, <1>8, <1>9, <1>10

\* What readlink has made of an absolute link leads where the link does.
LEMMA InvSame == ParseInv => LinkSame
<1> SUFFICES ASSUME ParseInv, NEW k, k = vcall.rewritten, k # <<>>, k[3] # NotRewritten
             PROVE  SubSeq(Front(k[1]), 1, Len(Front(k[1])) - k[3].up) \o k[3].rest = k[2]
  BY DEF LinkSame
<1>1. k \in Rewrites
  BY DEF ParseInv, CallInv, VCalls
<1>2. PICK p \in LinkPaths \ {<<>>}, d \in LinkPaths : k = <<p, d, transform_symlink(p, d)>>
  BY <1>1 DEF Rewrites
<1>3. p \in Seq({"a", "b"}) /\ d \in Seq({"a", "b"}) /\ p # <<>>
  BY SeqDef, ParseAssumption DEF LinkPaths
<1>4. k[1] = p /\ k[2] = d /\ k[3] = transform_symlink(p, d)
  BY <1>2
<1>5. PICK r : r = transform_symlink(p, d) /\ r # NotRewritten
  BY <1>4
<1>6. SubSeq(Front(p), 1, Len(Front(p)) - r.up) \o r.rest = d
  BY ONLY <1>3, <1>5, RelativeSame
<1> QED BY <1>4, <1>5, <1>6

----------------------------------------------------------------------------
(* The theorems.                                                           *)

\* What the parser and the calls have got they give back, once.
THEOREM VentriesCorrect == InterfaceSpec => []VentriesBalanced
<1>1. InterfaceInit => ParseInv
  BY InitHolds DEF InterfaceInit
<1>2. ParseInv /\ [InterfaceNext]_<<part, vars, parse_vars>> => ParseInv'
  BY ParseInvStep DEF InterfaceNext, TablePart, PathPart
<1>3. ParseInv => VentriesBalanced
  BY InvBalanced
<1> QED BY <1>1, <1>2, <1>3, PTL DEF InterfaceSpec

\* A link made relative leads where it led.
THEOREM LinksCorrect == InterfaceSpec => []LinkSame
<1>1. InterfaceInit => ParseInv
  BY InitHolds DEF InterfaceInit
<1>2. ParseInv /\ [InterfaceNext]_<<part, vars, parse_vars>> => ParseInv'
  BY ParseInvStep DEF InterfaceNext, TablePart, PathPart
<1>3. ParseInv => LinkSame
  BY InvSame
<1> QED BY <1>1, <1>2, <1>3, PTL DEF InterfaceSpec

============================================================================
