----------------------------- MODULE RemoteProofs -----------------------------
(***************************************************************************)
(* Proofs about Remote: that local copies are counted, that an entry which *)
(* is always there is never said to be missing, and that the users of the  *)
(* locks of a node, its parent and its siblings never wait for each other  *)
(* in a circle.  Ftp: that a connection is busy while one call has it, a   *)
(* transfer is of what was asked for, and a file is taken as read only     *)
(* when it is whole.  Http: that the sizes given are those of the          *)
(* response.  Dav: that no slot is lost.  Ucftp: that a connection is busy *)
(* only while a file has it, the references of entries are counted and a   *)
(* directory has a name once.  And all of them together, as they are run:  *)
(* for any number of users, entries, copies, connections and calls.        *)
(***************************************************************************)
EXTENDS MCRemote, FiniteSetTheorems, SequenceTheorems, WellFoundedInduction, TLAPS

----------------------------------------------------------------------------
(* Counting: references are compared with the number of their holders.     *)

\* A condition as a number.
One(b) == IF b THEN 1 ELSE 0

\* A finite set has a number of elements, and none if it is empty.
LEMMA CountIsNat ==
    ASSUME NEW A, IsFiniteSet(A)
    PROVE  /\ Cardinality(A) \in Nat
           /\ Cardinality(A) = 0 <=> A = {}
BY FS_CardinalityType, FS_EmptySet

\* A and B differ at most in x.
LEMMA OneChanges ==
    ASSUME NEW A, NEW B, NEW x, IsFiniteSet(A), A \ {x} = B \ {x}
    PROVE  /\ IsFiniteSet(B)
           /\ Cardinality(A) \in Nat /\ Cardinality(B) \in Nat
           /\ Cardinality(B) = Cardinality(A) + One(x \in B) - One(x \in A)
           /\ x \in A => Cardinality(A) > 0
           /\ x \in B => Cardinality(B) > 0
<1> DEFINE R == A \ {x}
<1>1. IsFiniteSet(R) /\ Cardinality(R) \in Nat /\ x \notin R
  BY FS_RemoveElement, FS_CardinalityType
<1>2. IsFiniteSet(R \cup {x}) /\ Cardinality(R \cup {x}) = Cardinality(R) + 1
  BY <1>1, FS_AddElement
<1>3. A = IF x \in A THEN R \cup {x} ELSE R
  OBVIOUS
<1>4. B = IF x \in B THEN R \cup {x} ELSE R
  OBVIOUS
<1> HIDE DEF R
<1>5. Cardinality(A) = Cardinality(R) + One(x \in A)
  <2>1. CASE x \in A
    <3>1. A = R \cup {x} /\ One(x \in A) = 1
      BY <1>3, <2>1 DEF One
    <3> QED BY <1>2, <3>1
  <2>2. CASE x \notin A
    <3>1. A = R /\ One(x \in A) = 0
      BY <1>3, <2>2 DEF One
    <3> QED BY <1>1, <3>1
  <2> QED BY <2>1, <2>2
<1>6. IsFiniteSet(B) /\ Cardinality(B) = Cardinality(R) + One(x \in B)
  <2>1. CASE x \in B
    <3>1. B = R \cup {x} /\ One(x \in B) = 1
      BY <1>4, <2>1 DEF One
    <3> QED BY <1>2, <3>1
  <2>2. CASE x \notin B
    <3>1. B = R /\ One(x \in B) = 0
      BY <1>4, <2>2 DEF One
    <3> QED BY <1>1, <3>1
  <2> QED BY <2>1, <2>2
<1> QED BY <1>1, <1>5, <1>6 DEF One

\* A part of a finite set is one.
LEMMA PartIsFinite ==
    ASSUME NEW A, NEW B, IsFiniteSet(A), B \subseteq A
    PROVE  IsFiniteSet(B) /\ Cardinality(B) \in Nat /\ Cardinality(B) <= Cardinality(A)
BY FS_Subset, FS_CardinalityType

----------------------------------------------------------------------------
(* The inductive invariant.                                                *)

\* As TypeOK, but that the references to copies are natural numbers follows from
\* what they count.
Types ==
    /\ ver \in [Files -> 0..MaxVersion]
    /\ dironly \in BOOLEAN
    /\ attr \in [Nodes -> AttrType]
    /\ file \in [Nodes -> Copies \cup {None}]
    /\ copy \in [Copies -> [data : BOOLEAN, sig : 0..MaxVersion]]
    /\ copyref \in [Copies -> Int] /\ cellref \in [Copies -> Nat]
    /\ incell \in [Copies -> BOOLEAN]
    /\ lock \in [Nodes -> Threads \cup {None}] /\ filelock \in [Nodes -> Threads \cup {None}]
    /\ pc \in [Threads -> Places] /\ call \in [Threads -> Calls]
    /\ at \in [Threads -> Nodes] /\ fil \in [Threads -> Copies \cup {None}]
    /\ got \in [Threads -> [Files -> 0..MaxVersion]] /\ todo \in [Threads -> SUBSET Kids]
    /\ crashed \in BOOLEAN

\* The calls that ask for attributes or for a listing.
Asking == {"attr", "open", "check", "readdir", "sign"}

\* Which call can be where, and that what needs a file is about one.
CallOk(t) ==
    /\ pc[t] = "idle" <=> call[t] = "none"
    /\ pc[t] = "parent" => at[t] # Root /\ call[t] \in Asking \ {"readdir"}
    /\ pc[t] \in {"node", "list", "fill"} => call[t] \in Asking
    /\ pc[t] = "compare" => call[t] = "check"
    /\ pc[t] \in {"drop", "clear"} => call[t] \in {"check", "read", "sign"}
    /\ pc[t] \in {"replace", "store", "size"} => call[t] = "sign"
    /\ pc[t] = "wait" => call[t] \in {"read", "sign"}
    /\ call[t] \in {"open", "check", "read", "sign"} => at[t] \in Files

\* A listing is only made if there is no other way, and what is left to be filled in
\* is of the directory.
ListOk(t) ==
    /\ pc[t] = "fill" => call[t] = "readdir" \/ dironly
    /\ todo[t] # {} => pc[t] = "fill" /\ Listed(t) = Root

\* t compares a copy, and keeps the locks while it does.
HasCheck(t) == call[t] = "check" /\ pc[t] \in {"compare", "drop", "clear"}

\* t has the lock of the node n: as that of the parent, or as its own.
HasParent(t) ==
    at[t] # Root /\ (HasCheck(t) \/ (pc[t] \in {"node", "list", "fill"} /\ call[t] # "readdir"))
HasNode(t) == HasCheck(t) \/ pc[t] \in {"list", "fill"}
Holds(t, n) == (n = Root /\ HasParent(t)) \/ (n = at[t] /\ HasNode(t))

LockOk(t) == \A n \in Nodes : lock[n] = t <=> Holds(t, n)

FileLockOk(t) ==
    \A n \in Nodes : filelock[n] = t <=> call[t] \in {"read", "sign"} /\ at[t] = n

\* t has a reference to a copy.
HasFile(t) ==
    \/ call[t] \in {"read", "sign"}
    \/ call[t] = "check" /\ pc[t] \in {"compare", "drop", "clear", "list", "fill"}

FilOk(t) == fil[t] # None <=> HasFile(t)

Own(t) == CallOk(t) /\ ListOk(t) /\ LockOk(t) /\ FileLockOk(t) /\ FilOk(t)

\* A copy that is new is known to nobody but its reader.
Signing(t) ==
    call[t] = "sign" /\ pc[t] \in {"parent", "node", "list", "fill", "replace", "store"}

FreshInv ==
    \A t \in Threads : Signing(t) =>
        /\ ~incell[fil[t]]
        /\ \A u \in Threads \ {t} : fil[u] # fil[t]
        /\ \A n \in Nodes : file[n] # fil[t]

IInv ==
    /\ Types
    /\ \A t \in Threads : Own(t)
    /\ FreshInv /\ CopiesExact /\ MissingTrue

----------------------------------------------------------------------------
(* Counting references.                                                    *)

Users(c) == {u \in Threads : fil[u] = c}

\* The references of the thread t to c, and that of the cell.
Refs(t, c) == One(t \in Users(c)) + One(incell[c])

\* Nobody but t does anything.
Alone(t) ==
    /\ dironly' = dironly
    /\ \A u \in Threads \ {t} :
          /\ pc'[u] = pc[u] /\ call'[u] = call[u] /\ at'[u] = at[u]
          /\ fil'[u] = fil[u] /\ todo'[u] = todo[u]

\* The locks of the others are left alone.
LocksKept(t) ==
    \A u \in Threads \ {t}, n \in Nodes :
        (lock'[n] = u <=> lock[n] = u) /\ (filelock'[n] = u <=> filelock[n] = u)

\* The users of a copy when one thread goes on.
LEMMA UsersChange ==
    ASSUME NEW t, Alone(t), NEW c \in Copies
    PROVE  /\ Cardinality(Users(c)) \in Nat /\ Cardinality(Users(c)') \in Nat
           /\ Cardinality(Users(c)') = Cardinality(Users(c))
                                       + One(t \in Users(c)') - One(t \in Users(c))
<1>1. Users(c) \subseteq Threads /\ Users(c)' \subseteq Threads
  BY DEF Users
<1>2. \A u \in Threads \ {t} : u \in Users(c) <=> u \in Users(c)'
  BY DEF Users, Alone
<1>3. IsFiniteSet(Users(c)) /\ Users(c) \ {t} = Users(c)' \ {t}
  BY <1>1, <1>2, PartIsFinite, ThreadsCopiesFinite
<1> QED BY <1>3, OneChanges

\* A copy without references has no users and no cell.
LEMMA Deserted ==
    ASSUME IInv, NEW c \in Copies, copyref[c] = 0
    PROVE  ~incell[c] /\ \A t \in Threads : fil[t] # c
<1>1. Users(c) \subseteq Threads
  BY DEF Users
<1>2. IsFiniteSet(Users(c)) /\ Cardinality(Users(c)) \in Nat
  BY <1>1, PartIsFinite, ThreadsCopiesFinite
<1>3. copyref[c] = Cardinality(Users(c)) + One(incell[c])
  BY DEF IInv, CopiesExact, Users, One
<1>4. ~incell[c] /\ Cardinality(Users(c)) = 0
  BY <1>2, <1>3 DEF One
<1>5. Users(c) = {}
  BY <1>2, <1>4, CountIsNat
<1> QED BY <1>4, <1>5 DEF Users

\* The state of a thread that does nothing.
LEMMA OthersKept ==
    ASSUME IInv, NEW t, Alone(t), LocksKept(t), NEW u \in Threads \ {t}
    PROVE  Own(u)' /\ (Signing(u)' <=> Signing(u))
<1>1. /\ pc'[u] = pc[u] /\ call'[u] = call[u] /\ at'[u] = at[u] /\ dironly' = dironly
      /\ fil'[u] = fil[u] /\ todo'[u] = todo[u]
  BY DEF Alone
<1>2. CallOk(u) /\ ListOk(u) /\ LockOk(u) /\ FileLockOk(u) /\ FilOk(u)
  BY DEF IInv, Own
<1>3. CallOk(u)'
  BY <1>1, <1>2 DEF CallOk
<1>4. ListOk(u)'
  BY <1>1, <1>2 DEF ListOk, Listed
<1>5. LockOk(u)'
  BY <1>1, <1>2 DEF LockOk, LocksKept, Holds, HasParent, HasNode, HasCheck
<1>6. FileLockOk(u)'
  BY <1>1, <1>2 DEF FileLockOk, LocksKept
<1>7. FilOk(u)'
  BY <1>1, <1>2 DEF FilOk, HasFile
<1>8. Signing(u)' <=> Signing(u)
  BY <1>1 DEF Signing
<1> QED BY <1>3, <1>4, <1>5, <1>6, <1>7, <1>8 DEF Own

\* A step that makes no copy and stores none leaves those of the others unknown.
LEMMA FreshKept ==
    ASSUME IInv, NEW t, Alone(t), LocksKept(t),
           \A c \in Copies : incell'[c] => incell[c],
           \A n \in Nodes : file'[n] = file[n] \/ file'[n] = None,
           t \in Threads => /\ Signing(t)' => Signing(t) /\ fil'[t] = fil[t]
                            /\ \/ fil'[t] = fil[t] \/ fil'[t] = None
                               \/ \E n \in Nodes : fil'[t] = file[n]
    PROVE  FreshInv'
<1> SUFFICES ASSUME NEW u \in Threads, Signing(u)'
             PROVE  /\ ~incell'[fil'[u]]
                    /\ \A v \in Threads \ {u} : fil'[v] # fil'[u]
                    /\ \A n \in Nodes : file'[n] # fil'[u]
  BY DEF FreshInv
<1>1. Signing(u) /\ fil'[u] = fil[u]
  BY OthersKept DEF Alone
<1>2. /\ ~incell[fil[u]]
      /\ \A v \in Threads \ {u} : fil[v] # fil[u]
      /\ \A n \in Nodes : file[n] # fil[u]
  BY <1>1 DEF IInv, FreshInv
<1>3. fil[u] # None /\ fil[u] \in Copies
  BY <1>1 DEF IInv, Own, FilOk, HasFile, Signing, Types
<1>4. ~incell'[fil'[u]]
  BY <1>1, <1>2, <1>3
<1>5. \A n \in Nodes : file'[n] # fil'[u]
  BY <1>1, <1>2, <1>3
<1>6. \A v \in Threads \ {u} : fil'[v] # fil'[u]
  <2> SUFFICES ASSUME NEW v \in Threads \ {u} PROVE fil'[v] # fil[u]
    BY <1>1
  <2>1. CASE v # t
    BY <1>2, <2>1 DEF Alone
  <2>2. CASE v = t
    BY <1>2, <1>3, <2>2
  <2> QED BY <2>1, <2>2
<1> QED BY <1>4, <1>5, <1>6

\* What has to be shown of a step of the thread t.
LEMMA Balance ==
    ASSUME IInv, Types', NEW t, Alone(t), LocksKept(t), t \in Threads => Own(t)',
           FreshInv', MissingTrue',
           \A c \in Copies : copyref'[c] - Refs(t, c)' = copyref[c] - Refs(t, c)
    PROVE  IInv'
<1>1. \A u \in Threads : Own(u)'
  BY OthersKept
<1>2. CopiesExact'
  <2> SUFFICES ASSUME NEW c \in Copies
               PROVE  copyref'[c] = Cardinality(Users(c)') + One(incell'[c])
    BY DEF CopiesExact, Users, One
  <2>1. copyref[c] = Cardinality(Users(c)) + One(incell[c])
    BY DEF IInv, CopiesExact, Users, One
  <2>2. copyref'[c] - (One(t \in Users(c)') + One(incell'[c]))
        = copyref[c] - (One(t \in Users(c)) + One(incell[c]))
    BY DEF Refs
  <2>3. copyref[c] \in Int /\ copyref'[c] \in Int
    BY DEF IInv, Types
  <2> QED BY <2>1, <2>2, <2>3, UsersChange DEF One
<1> QED BY <1>1, <1>2 DEF IInv

----------------------------------------------------------------------------
(* The parts that the steps have in common.                                *)

\* The values of attributes.
LEMMA AttrValues ==
    /\ NoAttr \in AttrType /\ Missing \in AttrType /\ Invented \in AttrType
    /\ NoAttr # Missing /\ Invented # Missing
    /\ \A v \in 0..MaxVersion : There(v) \in AttrType /\ There(v) # Missing
<1>1. 0 \in 0..MaxVersion
  BY VersionsAreNumbers
<1> QED BY <1>1 DEF AttrType, NoAttr, Missing, Invented, There

\* The entries of a listing have attributes.
LEMMA EntryAttr ==
    ASSUME NEW l \in [Files -> 0..MaxVersion], NEW k \in Kids
    PROVE  Attr(l, k) \in AttrType /\ Attr(l, k) # Missing
<1>1. 0 \in 0..MaxVersion
  BY VersionsAreNumbers
<1>2. (IF k \in Files THEN l[k] ELSE 0) \in 0..MaxVersion
  BY <1>1
<1> QED BY <1>2, AttrValues DEF Attr

\* The end of a call gives back what the call has.
LEMMA LeftOver ==
    ASSUME IInv, NEW t \in Threads, Leave(t), Alone(t), todo'[t] = {}, fil'[t] = None
    PROVE  /\ Own(t)' /\ ~Signing(t)' /\ LocksKept(t)
           /\ lock' \in [Nodes -> Threads \cup {None}]
           /\ filelock' \in [Nodes -> Threads \cup {None}]
           /\ pc' \in [Threads -> Places] /\ call' \in [Threads -> Calls]
           /\ at' \in [Threads -> Nodes]
<1>1. /\ pc \in [Threads -> Places] /\ call \in [Threads -> Calls] /\ at \in [Threads -> Nodes]
      /\ lock \in [Nodes -> Threads \cup {None}] /\ filelock \in [Nodes -> Threads \cup {None}]
      /\ Root \in Nodes /\ None \notin Threads
  BY NoneIsNothing DEF IInv, Types, Nodes
<1>2. /\ pc' = [pc EXCEPT ![t] = "idle"] /\ call' = [call EXCEPT ![t] = "none"]
      /\ at' = [at EXCEPT ![t] = Root]
      /\ lock' = [n \in Nodes |-> IF lock[n] = t THEN None ELSE lock[n]]
      /\ filelock' = [n \in Nodes |-> IF filelock[n] = t THEN None ELSE filelock[n]]
  BY DEF Leave, Goto, Unlocked
<1>3. pc'[t] = "idle" /\ call'[t] = "none" /\ at'[t] = Root
  BY <1>1, <1>2
<1>4. /\ lock' \in [Nodes -> Threads \cup {None}]
      /\ filelock' \in [Nodes -> Threads \cup {None}]
      /\ \A n \in Nodes : lock'[n] # t /\ filelock'[n] # t
      /\ LocksKept(t)
  BY <1>1, <1>2 DEF LocksKept
<1>5. pc' \in [Threads -> Places] /\ call' \in [Threads -> Calls] /\ at' \in [Threads -> Nodes]
  BY <1>1, <1>2 DEF Places, Calls
<1>6. CallOk(t)'
  BY <1>3 DEF CallOk
<1>7. ListOk(t)'
  BY <1>3 DEF ListOk
<1>8. LockOk(t)'
  BY <1>3, <1>4 DEF LockOk, Holds, HasParent, HasNode, HasCheck
<1>9. FileLockOk(t)'
  BY <1>3, <1>4 DEF FileLockOk
<1>10. FilOk(t)'
  BY <1>3 DEF FilOk, HasFile
<1>11. ~Signing(t)'
  BY <1>3 DEF Signing
<1> QED BY <1>4, <1>5, <1>6, <1>7, <1>8, <1>9, <1>10, <1>11 DEF Own

\* A copy that nobody has any longer is not there.
LEMMA Kept ==
    ASSUME NEW cp \in [Copies -> [data : BOOLEAN, sig : 0..MaxVersion]], KeepReferred(cp)
    PROVE  copy' \in [Copies -> [data : BOOLEAN, sig : 0..MaxVersion]]
<1>1. NoCopy \in [data : BOOLEAN, sig : 0..MaxVersion]
  BY VersionsAreNumbers DEF NoCopy
<1> QED BY <1>1 DEF KeepReferred

\* The end of a call that has a copy.
LEMMA LeftCopy ==
    ASSUME IInv, NEW t \in Threads, Alone(t), todo'[t] = {},
           NEW cp \in [Copies -> [data : BOOLEAN, sig : 0..MaxVersion]], LeaveCopy(t, cp),
           HasFile(t), incell' = incell
    PROVE  /\ Own(t)' /\ ~Signing(t)' /\ LocksKept(t) /\ fil'[t] = None
           /\ lock' \in [Nodes -> Threads \cup {None}]
           /\ filelock' \in [Nodes -> Threads \cup {None}]
           /\ pc' \in [Threads -> Places] /\ call' \in [Threads -> Calls]
           /\ at' \in [Threads -> Nodes] /\ fil' \in [Threads -> Copies \cup {None}]
           /\ copyref' \in [Copies -> Int]
           /\ copy' \in [Copies -> [data : BOOLEAN, sig : 0..MaxVersion]]
           /\ \A c \in Copies : copyref'[c] - Refs(t, c)' = copyref[c] - Refs(t, c)
<1>1. fil[t] \in Copies /\ fil \in [Threads -> Copies \cup {None}] /\ copyref \in [Copies -> Int]
      /\ None \notin Copies
  BY NoneIsNothing DEF IInv, Types, Own, FilOk
<1>2. /\ copyref' = [copyref EXCEPT ![fil[t]] = @ - 1] /\ KeepReferred(cp)
      /\ fil' = [fil EXCEPT ![t] = None] /\ Leave(t)
  BY DEF LeaveCopy
<1>3. /\ fil'[t] = None /\ fil' \in [Threads -> Copies \cup {None}]
      /\ copyref' \in [Copies -> Int]
  BY <1>1, <1>2
<1>4. \A c \in Copies : copyref'[c] - Refs(t, c)' = copyref[c] - Refs(t, c)
  <2> SUFFICES ASSUME NEW c \in Copies PROVE copyref'[c] - Refs(t, c)' = copyref[c] - Refs(t, c)
    OBVIOUS
  <2>1. t \notin Users(c)' /\ (t \in Users(c) <=> fil[t] = c)
    BY <1>1, <1>3 DEF Users
  <2>2. copyref[c] \in Int /\ copyref'[c] = IF fil[t] = c THEN copyref[c] - 1 ELSE copyref[c]
    BY <1>1, <1>2
  <2> QED BY <2>1, <2>2 DEF Refs, One
<1>5. copy' \in [Copies -> [data : BOOLEAN, sig : 0..MaxVersion]]
  BY <1>2, Kept
<1> QED BY <1>2, <1>3, <1>4, <1>5, LeftOver

\* The cell of a node loses a reference, and with the last one its copy.
LEMMA Unreffed ==
    ASSUME IInv, NEW n \in Nodes, UnrefCell(n)
    PROVE  /\ crashed' \in BOOLEAN
           /\ copyref' \in [Copies -> Int] /\ cellref' \in [Copies -> Nat]
           /\ incell' \in [Copies -> BOOLEAN]
           /\ copy' \in [Copies -> [data : BOOLEAN, sig : 0..MaxVersion]]
           /\ \A c \in Copies : incell'[c] => incell[c]
           /\ \A c \in Copies :
                 copyref'[c] - One(incell'[c]) = copyref[c] - One(incell[c])
<1>1. /\ copy \in [Copies -> [data : BOOLEAN, sig : 0..MaxVersion]]
      /\ copyref \in [Copies -> Int] /\ cellref \in [Copies -> Nat]
      /\ incell \in [Copies -> BOOLEAN] /\ file[n] \in Copies \cup {None}
  BY DEF IInv, Types
<1>2. crashed' \in BOOLEAN /\ KeepReferred(copy)
  BY DEF UnrefCell, Gone
<1>3. copy' \in [Copies -> [data : BOOLEAN, sig : 0..MaxVersion]]
  BY <1>1, <1>2, Kept
<1>4. CASE file[n] = None \/ Gone(n)
  BY <1>1, <1>2, <1>3, <1>4 DEF UnrefCell, One
<1>5. CASE file[n] # None /\ ~Gone(n)
  <2> DEFINE d == file[n]
  <2>1. d \in Copies /\ cellref[d] \in Nat /\ cellref[d] # 0
    BY <1>1, <1>5 DEF Gone
  <2>2. /\ cellref' = [cellref EXCEPT ![d] = @ - 1]
        /\ incell' = [incell EXCEPT ![d] = @ /\ cellref[d] > 1]
        /\ copyref' = [copyref EXCEPT ![d] = IF incell[d] /\ cellref[d] = 1 THEN @ - 1 ELSE @]
    BY <1>5 DEF UnrefCell
  <2> HIDE DEF d
  <2>3. cellref' \in [Copies -> Nat] /\ copyref' \in [Copies -> Int]
    <3>1. cellref \in [Copies -> Nat] /\ copyref \in [Copies -> Int]
      BY <1>1
    <3>2. cellref' = [cellref EXCEPT ![d] = @ - 1]
      BY <2>2
    <3>3. copyref' = [copyref EXCEPT ![d] = IF incell[d] /\ cellref[d] = 1 THEN @ - 1 ELSE @]
      BY <2>2
    <3>4. cellref' \in [Copies -> Nat]
      BY ONLY <2>1, <3>1, <3>2
    <3>5. copyref' \in [Copies -> Int]
      BY ONLY <2>1, <3>1, <3>3
    <3> QED BY <3>4, <3>5
  <2>4. incell' \in [Copies -> BOOLEAN] /\ \A c \in Copies : incell'[c] => incell[c]
    BY <1>1, <2>1, <2>2
  <2>5. \A c \in Copies : copyref'[c] - One(incell'[c]) = copyref[c] - One(incell[c])
    <3> SUFFICES ASSUME NEW c \in Copies
                 PROVE  copyref'[c] - One(incell'[c]) = copyref[c] - One(incell[c])
      OBVIOUS
    <3>1. CASE c # d
      <4>1. copyref'[c] = copyref[c] /\ incell'[c] = incell[c]
        BY <1>1, <2>2, <3>1
      <4> QED BY <4>1
    <3>2. CASE c = d /\ cellref[d] > 1
      BY <1>1, <2>1, <2>2, <3>2 DEF One
    <3>3. CASE c = d /\ cellref[d] = 1
      <4>1. ~(cellref[c] > 1) /\ copyref[c] \in Int /\ incell[c] \in BOOLEAN
        BY <1>1, <3>3
      <4>2. incell'[c] = FALSE
        BY <1>1, <2>2, <3>3, <4>1
      <4>3. copyref'[c] = IF incell[c] THEN copyref[c] - 1 ELSE copyref[c]
        BY <1>1, <2>2, <3>3
      <4> QED BY <4>1, <4>2, <4>3 DEF One
    <3> QED BY <2>1, <3>1, <3>2, <3>3
  <2> QED BY <1>2, <1>3, <2>3, <2>4, <2>5
<1> QED BY <1>4, <1>5

\* The remote host is asked: the lock of the node is taken, and nothing is known of it.
LEMMA Asked ==
    ASSUME IInv, NEW t \in Threads, pc[t] = "node", lock[at[t]] = None, AskHost(t),
           Alone(t), todo'[t] = todo[t],
           fil'[t] # None <=> call[t] \in {"check", "sign"}
    PROVE  /\ Own(t)' /\ (Signing(t)' => Signing(t)) /\ LocksKept(t) /\ MissingTrue'
           /\ attr' \in [Nodes -> AttrType] /\ UNCHANGED <<copy, filelock, call, at>>
           /\ lock' \in [Nodes -> Threads \cup {None}] /\ pc' \in [Threads -> Places]
<1>1. /\ pc \in [Threads -> Places] /\ at[t] \in Nodes /\ attr \in [Nodes -> AttrType]
      /\ lock \in [Nodes -> Threads \cup {None}] /\ None \notin Threads
      /\ CallOk(t) /\ ListOk(t) /\ LockOk(t) /\ FileLockOk(t) /\ MissingTrue
  BY NoneIsNothing DEF IInv, Types, Own
<1>2. /\ pc' = [pc EXCEPT ![t] = "list"] /\ lock' = [lock EXCEPT ![at[t]] = t]
      /\ UNCHANGED <<copy, filelock, call, at>>
      /\ attr' = attr \/ attr' = [attr EXCEPT ![at[t]] = NoAttr]
  BY DEF AskHost, Goto
<1>3. /\ pc'[t] = "list" /\ pc' \in [Threads -> Places]
      /\ call'[t] = call[t] /\ at'[t] = at[t] /\ dironly' = dironly
      /\ call[t] \in Asking /\ todo'[t] = {}
  BY <1>1, <1>2 DEF Places, Alone, CallOk, ListOk
<1>4. /\ lock' \in [Nodes -> Threads \cup {None}] /\ LocksKept(t)
      /\ lock'[at[t]] = t /\ \A n \in Nodes \ {at[t]} : lock'[n] = lock[n]
  BY <1>1, <1>2 DEF LocksKept
<1>5. attr' \in [Nodes -> AttrType] /\ MissingTrue'
  BY <1>1, <1>2, AttrValues DEF MissingTrue, Nodes, Kids
<1>6. CallOk(t)'
  BY <1>1, <1>3 DEF CallOk
<1>7. ListOk(t)'
  BY <1>3 DEF ListOk
<1>8. LockOk(t)'
  <2>1. ~HasCheck(t) /\ ~HasNode(t) /\ ~HasCheck(t)' /\ HasNode(t)'
    BY <1>3 DEF HasCheck, HasNode
  <2>2. HasParent(t)' <=> HasParent(t)
    BY <1>3, <2>1 DEF HasParent
  <2> QED BY <1>1, <1>3, <1>4, <2>1, <2>2 DEF LockOk, Holds
<1>9. FileLockOk(t)'
  BY <1>1, <1>2, <1>3 DEF FileLockOk
<1>10. FilOk(t)'
  BY <1>3 DEF FilOk, HasFile, Asking
<1>11. Signing(t)' => Signing(t)
  BY <1>3 DEF Signing
<1> QED BY <1>2, <1>3, <1>4, <1>5, <1>6, <1>7, <1>8, <1>9, <1>10, <1>11 DEF Own

\* The answer is there: the call ends, or goes on with what it has asked for.
LEMMA Answered ==
    ASSUME IInv, NEW t \in Threads, NEW a \in AttrType, Answer(t, a), Alone(t),
           pc[t] \in {"list", "fill"} \/ (pc[t] = "node" /\ call[t] # "check"),
           todo'[t] = {}, fil'[t] = fil[t]
    PROVE  /\ Own(t)' /\ (Signing(t)' => Signing(t)) /\ LocksKept(t)
           /\ lock' \in [Nodes -> Threads \cup {None}]
           /\ filelock' \in [Nodes -> Threads \cup {None}]
           /\ pc' \in [Threads -> Places] /\ call' \in [Threads -> Calls]
           /\ at' \in [Threads -> Nodes]
           /\ copy' \in [Copies -> [data : BOOLEAN, sig : 0..MaxVersion]]
<1>1. /\ pc \in [Threads -> Places] /\ call \in [Threads -> Calls] /\ at \in [Threads -> Nodes]
      /\ lock \in [Nodes -> Threads \cup {None}] /\ None \notin Threads
      /\ filelock \in [Nodes -> Threads \cup {None}]
  BY NoneIsNothing DEF IInv, Types
<1>2. CallOk(t) /\ LockOk(t) /\ FileLockOk(t) /\ FilOk(t)
  BY DEF IInv, Own
<1>3. copy \in [Copies -> [data : BOOLEAN, sig : 0..MaxVersion]]
  BY DEF IInv, Types
<1>4. CASE call[t] \in {"attr", "readdir", "open"} /\ Leave(t) /\ UNCHANGED copy
  <2>1. fil'[t] = None
    BY <1>2, <1>4 DEF FilOk, HasFile
  <2> QED BY <1>3, <1>4, <2>1, LeftOver
<1>5. CASE /\ call[t] = "open" /\ lock' = Unlocked(t) /\ Ask(t, "check", at[t])
           /\ UNCHANGED <<copy, filelock>>
  <2>1. at[t] \in Files /\ at[t] # Root /\ fil[t] = None
    BY <1>2, <1>5, NodesDiffer DEF CallOk, FilOk, HasFile, Kids
  <2>2. /\ call' = [call EXCEPT ![t] = "check"] /\ at' = [at EXCEPT ![t] = at[t]]
        /\ pc' = [pc EXCEPT ![t] = "parent"]
    BY <1>5, <2>1 DEF Ask, Goto
  <2>3. /\ pc'[t] = "parent" /\ call'[t] = "check" /\ at'[t] = at[t]
        /\ pc' \in [Threads -> Places] /\ call' \in [Threads -> Calls]
        /\ at' \in [Threads -> Nodes]
    BY <1>1, <2>2 DEF Places, Calls
  <2>4. /\ lock' \in [Nodes -> Threads \cup {None}] /\ \A n \in Nodes : lock'[n] # t
        /\ LocksKept(t)
    BY <1>1, <1>5 DEF Unlocked, LocksKept
  <2>5. CallOk(t)'
    BY <2>1, <2>3 DEF CallOk, Asking
  <2>6. ListOk(t)'
    BY <2>3 DEF ListOk
  <2>7. LockOk(t)'
    BY <2>3, <2>4 DEF LockOk, Holds, HasParent, HasNode, HasCheck
  <2>8. FileLockOk(t)'
    BY <1>2, <1>5, <2>3 DEF FileLockOk
  <2>9. FilOk(t)' /\ ~Signing(t)'
    BY <2>1, <2>3 DEF FilOk, HasFile, Signing
  <2> QED BY <1>1, <1>3, <1>5, <2>3, <2>4, <2>5, <2>6, <2>7, <2>8, <2>9 DEF Own
<1>6. CASE call[t] = "check" /\ Goto(t, "compare") /\ UNCHANGED <<copy, locks, call, at>>
  <2>1. pc[t] \in {"list", "fill"}
    BY <1>6
  <2>2. /\ pc' = [pc EXCEPT ![t] = "compare"] /\ UNCHANGED <<copy, lock, filelock, call, at>>
    BY <1>6 DEF Goto, locks
  <2>3. /\ pc'[t] = "compare" /\ pc' \in [Threads -> Places]
        /\ call'[t] = "check" /\ at'[t] = at[t]
    BY <1>1, <1>6, <2>2 DEF Places
  <2>4. CallOk(t)'
    BY <1>2, <1>6, <2>3 DEF CallOk
  <2>5. ListOk(t)'
    BY <2>3 DEF ListOk
  <2>6. LockOk(t)'
    <3>1. HasNode(t) /\ HasNode(t)' /\ (HasParent(t)' <=> HasParent(t))
      BY <1>6, <2>1, <2>3 DEF HasNode, HasParent, HasCheck
    <3> QED BY <1>2, <2>2, <2>3, <3>1 DEF LockOk, Holds
  <2>7. FileLockOk(t)'
    BY <1>2, <1>6, <2>2, <2>3 DEF FileLockOk
  <2>8. FilOk(t)' /\ ~Signing(t)'
    BY <1>2, <1>6, <2>1, <2>3 DEF FilOk, HasFile, Signing
  <2>9. LocksKept(t)
    BY <2>2 DEF LocksKept
  <2> QED BY <1>1, <1>3, <2>2, <2>3, <2>4, <2>5, <2>6, <2>7, <2>8, <2>9 DEF Own
<1>7. CASE /\ call[t] = "sign" /\ lock' = Unlocked(t) /\ Goto(t, "replace")
           /\ copy' = [copy EXCEPT ![fil[t]].sig = IF Known(a) THEN a.ver ELSE 0]
           /\ UNCHANGED <<filelock, call, at>>
  <2>1. /\ pc' = [pc EXCEPT ![t] = "replace"]
        /\ pc'[t] = "replace" /\ pc' \in [Threads -> Places]
        /\ call'[t] = "sign" /\ at'[t] = at[t]
    BY <1>1, <1>7 DEF Goto, Places
  <2>2. /\ lock' \in [Nodes -> Threads \cup {None}] /\ \A n \in Nodes : lock'[n] # t
        /\ LocksKept(t)
    BY <1>1, <1>7 DEF Unlocked, LocksKept
  <2>3. copy' \in [Copies -> [data : BOOLEAN, sig : 0..MaxVersion]]
    <3>1. (IF Known(a) THEN a.ver ELSE 0) \in 0..MaxVersion
      BY VersionsAreNumbers DEF AttrType
    <3> QED BY <1>3, <1>7, <3>1
  <2>4. CallOk(t)'
    BY <1>2, <1>7, <2>1 DEF CallOk
  <2>5. ListOk(t)'
    BY <2>1 DEF ListOk
  <2>6. LockOk(t)'
    BY <2>1, <2>2 DEF LockOk, Holds, HasParent, HasNode, HasCheck
  <2>7. FileLockOk(t)'
    BY <1>2, <1>7, <2>1 DEF FileLockOk
  <2>8. FilOk(t)' /\ (Signing(t)' => Signing(t))
    BY <1>2, <1>7, <2>1 DEF FilOk, HasFile, Signing
  <2> QED BY <1>1, <1>7, <2>1, <2>2, <2>3, <2>4, <2>5, <2>6, <2>7, <2>8 DEF Own
<1> QED BY <1>4, <1>5, <1>6, <1>7 DEF Answer

----------------------------------------------------------------------------
(* Every step keeps the invariant.                                         *)

\* The invariant holds at the start.
LEMMA InitIInv ==
    ASSUME Init
    PROVE  IInv
<1>1. 0 \in 0..MaxVersion /\ 0 \in Nat /\ {0, 1} \subseteq 0..MaxVersion
  BY VersionsAreNumbers
<1>2. /\ dironly \in BOOLEAN /\ ver \in [Files -> {0, 1}]
      /\ attr = [n \in Nodes |-> NoAttr] /\ file = [n \in Nodes |-> None]
      /\ copy = [c \in Copies |-> NoCopy]
      /\ copyref = [c \in Copies |-> 0] /\ cellref = [c \in Copies |-> 0]
      /\ incell = [c \in Copies |-> FALSE]
      /\ lock = [n \in Nodes |-> None] /\ filelock = [n \in Nodes |-> None]
      /\ pc = [t \in Threads |-> "idle"] /\ call = [t \in Threads |-> "none"]
      /\ at = [t \in Threads |-> Root] /\ fil = [t \in Threads |-> None]
      /\ got = [t \in Threads |-> NoList] /\ todo = [t \in Threads |-> {}]
      /\ crashed = FALSE
  BY DEF Init
<1>3. Types
  <2>1. /\ ver \in [Files -> 0..MaxVersion] /\ dironly \in BOOLEAN /\ crashed \in BOOLEAN
        /\ attr \in [Nodes -> AttrType] /\ file \in [Nodes -> Copies \cup {None}]
    BY <1>1, <1>2, AttrValues
  <2>2. copy \in [Copies -> [data : BOOLEAN, sig : 0..MaxVersion]]
    BY <1>1, <1>2 DEF NoCopy
  <2>3. /\ copyref \in [Copies -> Int] /\ cellref \in [Copies -> Nat]
        /\ incell \in [Copies -> BOOLEAN]
    BY <1>2
  <2>4. /\ lock \in [Nodes -> Threads \cup {None}] /\ filelock \in [Nodes -> Threads \cup {None}]
        /\ pc \in [Threads -> Places] /\ call \in [Threads -> Calls]
        /\ at \in [Threads -> Nodes] /\ fil \in [Threads -> Copies \cup {None}]
    BY <1>2 DEF Places, Calls, Nodes
  <2>5. NoList \in [Files -> 0..MaxVersion]
    BY <1>1 DEF NoList
  <2>6. got \in [Threads -> [Files -> 0..MaxVersion]] /\ todo \in [Threads -> SUBSET Kids]
    BY <1>2, <2>5
  <2> QED BY <2>1, <2>2, <2>3, <2>4, <2>6 DEF Types
<1>4. ASSUME NEW t \in Threads PROVE Own(t) /\ ~Signing(t) /\ fil[t] = None
  <2>1. pc[t] = "idle" /\ call[t] = "none" /\ at[t] = Root /\ fil[t] = None /\ todo[t] = {}
    BY <1>2
  <2>2. \A n \in Nodes : lock[n] # t /\ filelock[n] # t
    BY <1>2, NoneIsNothing
  <2>3. CallOk(t) /\ ListOk(t)
    BY <2>1 DEF CallOk, ListOk
  <2>4. LockOk(t) /\ FileLockOk(t)
    BY <2>1, <2>2 DEF LockOk, FileLockOk, Holds, HasParent, HasNode, HasCheck
  <2>5. FilOk(t) /\ ~Signing(t)
    BY <2>1 DEF FilOk, HasFile, Signing
  <2> QED BY <2>1, <2>3, <2>4, <2>5 DEF Own
<1>5. FreshInv
  BY <1>4 DEF FreshInv
<1>6. CopiesExact
  <2> SUFFICES ASSUME NEW c \in Copies
               PROVE  copyref[c] = Cardinality({t \in Threads : fil[t] = c})
                                   + (IF incell[c] THEN 1 ELSE 0)
    BY DEF CopiesExact
  <2>1. {t \in Threads : fil[t] = c} = {}
    BY <1>4, NoneIsNothing
  <2>2. Cardinality({t \in Threads : fil[t] = c}) = 0
    BY <2>1, FS_EmptySet
  <2> QED BY <1>2, <2>2
<1>7. MissingTrue
  BY <1>2, AttrValues DEF MissingTrue, Nodes, Kids
<1> QED BY <1>3, <1>4, <1>5, <1>6, <1>7 DEF IInv

\* Nothing that matters changes.
LEMMA StutterKeeps ==
    ASSUME IInv, UNCHANGED vars
    PROVE  IInv'
<1>1. /\ UNCHANGED <<ver, dironly, attr, file, copy, copyref, cellref, incell, lock, filelock>>
      /\ UNCHANGED <<pc, call, at, fil, got, todo, crashed>>
  BY DEF vars, remote, copies, locks, threads, lists
<1>2. Types'
  BY <1>1 DEF IInv, Types
<1>3. Alone(None) /\ LocksKept(None)
  BY <1>1 DEF Alone, LocksKept
<1>4. FreshInv'
  BY <1>1, <1>3, FreshKept, NoneIsNothing
<1>5. MissingTrue'
  BY <1>1 DEF IInv, MissingTrue
<1>6. \A c \in Copies : copyref'[c] - Refs(None, c)' = copyref[c] - Refs(None, c)
  BY <1>1 DEF Refs, Users
<1> QED BY <1>2, <1>3, <1>4, <1>5, <1>6, Balance, NoneIsNothing

\* The remote host changes.
LEMMA HostKeeps ==
    ASSUME IInv, NEW k \in Files, Modify(k) \/ Delete(k)
    PROVE  IInv'
<1>1. /\ UNCHANGED <<dironly, attr, file, copy, copyref, cellref, incell, lock, filelock>>
      /\ UNCHANGED <<pc, call, at, fil, got, todo, crashed>>
  BY DEF Modify, Delete, copies, locks, threads, lists
<1>2. ver' \in [Files -> 0..MaxVersion]
  <2>1. ver \in [Files -> 0..MaxVersion]
    BY DEF IInv, Types
  <2>2. CASE Delete(k)
    BY <2>1, <2>2, VersionsAreNumbers DEF Delete
  <2>3. CASE Modify(k)
    <3>1. PICK v \in 1..MaxVersion : ver' = [ver EXCEPT ![k] = v]
      BY <2>3 DEF Modify
    <3>2. v \in 0..MaxVersion
      BY VersionsAreNumbers
    <3> QED BY <2>1, <3>1, <3>2
  <2> QED BY <2>2, <2>3
<1>3. Types'
  BY <1>1, <1>2 DEF IInv, Types
<1>4. Alone(None) /\ LocksKept(None)
  BY <1>1 DEF Alone, LocksKept
<1>5. FreshInv'
  BY <1>1, <1>4, FreshKept, NoneIsNothing
<1>6. MissingTrue'
  BY <1>1 DEF IInv, MissingTrue
<1>7. \A c \in Copies : copyref'[c] - Refs(None, c)' = copyref[c] - Refs(None, c)
  BY <1>1 DEF Refs, Users
<1> QED BY <1>3, <1>4, <1>5, <1>6, <1>7, Balance, NoneIsNothing

\* Evict keeps the invariant.
LEMMA EvictKeeps ==
    ASSUME IInv, NEW c \in Copies, Evict(c)
    PROVE  IInv'
<1>1. /\ UNCHANGED <<ver, dironly, attr, file, cellref, lock, filelock>>
      /\ UNCHANGED <<pc, call, at, fil, got, todo, crashed>>
      /\ incell[c] /\ incell' = [incell EXCEPT ![c] = FALSE]
      /\ copyref' = [copyref EXCEPT ![c] = @ - 1] /\ KeepReferred(copy)
  BY DEF Evict, remote, locks, threads, lists
<1>2. /\ incell \in [Copies -> BOOLEAN] /\ copyref \in [Copies -> Int]
      /\ copy \in [Copies -> [data : BOOLEAN, sig : 0..MaxVersion]]
  BY DEF IInv, Types
<1>3. /\ incell' \in [Copies -> BOOLEAN] /\ copyref' \in [Copies -> Int]
      /\ copy' \in [Copies -> [data : BOOLEAN, sig : 0..MaxVersion]]
      /\ \A d \in Copies : incell'[d] => incell[d]
  BY <1>1, <1>2, Kept
<1>4. Types'
  BY <1>1, <1>3 DEF IInv, Types
<1>5. Alone(None) /\ LocksKept(None)
  BY <1>1 DEF Alone, LocksKept
<1>6. FreshInv'
  BY <1>1, <1>3, <1>5, FreshKept, NoneIsNothing
<1>7. MissingTrue'
  BY <1>1 DEF IInv, MissingTrue
<1>8. \A d \in Copies : copyref'[d] - Refs(None, d)' = copyref[d] - Refs(None, d)
  <2> SUFFICES ASSUME NEW d \in Copies
               PROVE  copyref'[d] - Refs(None, d)' = copyref[d] - Refs(None, d)
    OBVIOUS
  <2>1. None \notin Users(d) /\ None \notin Users(d)'
    BY NoneIsNothing DEF Users
  <2>2. copyref[d] \in Int /\ copyref'[d] = IF d = c THEN copyref[d] - 1 ELSE copyref[d]
    BY <1>1, <1>2
  <2>3. One(incell[d]) - One(incell'[d]) = IF d = c THEN 1 ELSE 0
    <3>1. CASE d = c
      <4>1. incell[d] = TRUE /\ incell'[d] = FALSE
        BY <1>1, <1>2, <3>1
      <4> QED BY <3>1, <4>1 DEF One
    <3>2. CASE d # c
      <4>1. incell'[d] = incell[d]
        BY <1>1, <1>2, <3>2
      <4> QED BY <3>2, <4>1 DEF One
    <3> QED BY <3>1, <3>2
  <2>4. Refs(None, d) = One(incell[d]) /\ Refs(None, d)' = One(incell'[d])
    BY <2>1 DEF Refs, One
  <2>5. One(incell[d]) \in Int /\ One(incell'[d]) \in Int
    BY DEF One
  <2> HIDE DEF One
  <2> QED BY <2>2, <2>3, <2>4, <2>5
<1> QED BY <1>4, <1>5, <1>6, <1>7, <1>8, Balance, NoneIsNothing

\* A step of a thread that only moves on, with what it has.
LEMMA Quiet ==
    ASSUME IInv, Types', NEW t \in Threads, Alone(t), LocksKept(t), Own(t)',
           Signing(t)' => Signing(t), MissingTrue', UNCHANGED <<fil, file, copyref, incell>>
    PROVE  IInv'
<1>1. FreshInv'
  BY FreshKept
<1>2. \A c \in Copies : copyref'[c] - Refs(t, c)' = copyref[c] - Refs(t, c)
  BY DEF Refs, Users
<1> QED BY <1>1, <1>2, Balance

\* An answer is to one thread.
LEMMA AnswerAlone ==
    ASSUME IInv, NEW t \in Threads, NEW a, Answer(t, a), dironly' = dironly,
           \A u \in Threads \ {t} : fil'[u] = fil[u] /\ todo'[u] = todo[u]
    PROVE  Alone(t)
<1>1. /\ pc \in [Threads -> Places] /\ call \in [Threads -> Calls] /\ at \in [Threads -> Nodes]
  BY DEF IInv, Types
<1>2. CASE Leave(t)
  BY <1>1, <1>2 DEF Leave, Goto, Alone
<1>3. CASE Ask(t, "check", at[t])
  BY <1>1, <1>3 DEF Ask, Goto, Alone
<1>4. CASE \/ Goto(t, "compare") /\ UNCHANGED <<call, at>>
           \/ Goto(t, "replace") /\ UNCHANGED <<call, at>>
  BY <1>1, <1>4 DEF Goto, Alone
<1> QED BY <1>2, <1>3, <1>4 DEF Answer

\* Call keeps the invariant.
LEMMA CallKeeps ==
    ASSUME IInv, NEW t \in Threads, NEW c \in {"attr", "open"}, NEW n \in Nodes,
           c = "open" => n \in Files, Call(t, c, n)
    PROVE  IInv'
<1>1. /\ UNCHANGED <<ver, dironly, attr, file, copy, copyref, cellref, incell, lock, filelock>>
      /\ UNCHANGED <<fil, got, todo, crashed>> /\ pc[t] = "idle"
      /\ call' = [call EXCEPT ![t] = c] /\ at' = [at EXCEPT ![t] = n]
      /\ pc' = [pc EXCEPT ![t] = IF n = Root THEN "node" ELSE "parent"]
  BY DEF Call, Ask, Goto, remote, copies, locks, lists
<1>2. /\ pc \in [Threads -> Places] /\ call \in [Threads -> Calls] /\ at \in [Threads -> Nodes]
      /\ Own(t)
  BY DEF IInv, Types
<1>3. /\ pc' \in [Threads -> Places] /\ call' \in [Threads -> Calls] /\ at' \in [Threads -> Nodes]
      /\ pc'[t] = (IF n = Root THEN "node" ELSE "parent") /\ call'[t] = c /\ at'[t] = n
  BY <1>1, <1>2 DEF Places, Calls
<1>4. Types'
  BY <1>1, <1>3 DEF IInv, Types
<1>5. Alone(t) /\ LocksKept(t)
  BY <1>1, <1>2 DEF Alone, LocksKept
<1>6. call[t] = "none" /\ todo[t] = {} /\ \A m \in Nodes : lock[m] # t /\ filelock[m] # t
  BY <1>1, <1>2 DEF Own, CallOk, ListOk, LockOk, FileLockOk, Holds, HasParent, HasNode, HasCheck
<1>7. CallOk(t)' /\ ListOk(t)'
  BY <1>1, <1>3, <1>6 DEF CallOk, ListOk, Asking
<1>8. LockOk(t)'
  <2>1. ~HasNode(t)' /\ ~HasCheck(t)'
    BY <1>3 DEF HasNode, HasCheck
  <2>2. ~HasParent(t)'
    BY <1>3, <2>1 DEF HasParent
  <2> QED BY <1>1, <1>6, <2>1, <2>2 DEF LockOk, Holds
<1>9. FileLockOk(t)'
  BY <1>1, <1>3, <1>6 DEF FileLockOk
<1>10. FilOk(t)' /\ ~Signing(t)'
  BY <1>1, <1>2, <1>3, <1>6 DEF Own, FilOk, HasFile, Signing
<1>11. MissingTrue'
  BY <1>1 DEF IInv, MissingTrue
<1> QED BY <1>1, <1>4, <1>5, <1>7, <1>8, <1>9, <1>10, <1>11, Quiet DEF Own

\* ReadDir keeps the invariant.
LEMMA ReadDirKeeps ==
    ASSUME IInv, NEW t \in Threads, NEW n \in Nodes, ReadDir(t, n)
    PROVE  IInv'
<1>1. /\ UNCHANGED <<ver, dironly, attr, file, copy, copyref, cellref, incell, lock, filelock>>
      /\ UNCHANGED <<fil, got, todo, crashed>> /\ pc[t] = "idle"
      /\ call' = [call EXCEPT ![t] = "readdir"] /\ at' = [at EXCEPT ![t] = n]
      /\ pc' = [pc EXCEPT ![t] = "node"]
  BY DEF ReadDir, Goto, remote, copies, locks, lists
<1>2. /\ pc \in [Threads -> Places] /\ call \in [Threads -> Calls] /\ at \in [Threads -> Nodes]
      /\ Own(t)
  BY DEF IInv, Types
<1>3. /\ pc' \in [Threads -> Places] /\ call' \in [Threads -> Calls] /\ at' \in [Threads -> Nodes]
      /\ pc'[t] = "node" /\ call'[t] = "readdir" /\ at'[t] = n
  BY <1>1, <1>2 DEF Places, Calls
<1>4. Types'
  BY <1>1, <1>3 DEF IInv, Types
<1>5. Alone(t) /\ LocksKept(t)
  BY <1>1, <1>2 DEF Alone, LocksKept
<1>6. call[t] = "none" /\ todo[t] = {} /\ \A m \in Nodes : lock[m] # t /\ filelock[m] # t
  BY <1>1, <1>2 DEF Own, CallOk, ListOk, LockOk, FileLockOk, Holds, HasParent, HasNode, HasCheck
<1>7. CallOk(t)' /\ ListOk(t)'
  BY <1>1, <1>3, <1>6 DEF CallOk, ListOk, Asking
<1>8. LockOk(t)'
  BY <1>1, <1>3, <1>6 DEF LockOk, Holds, HasNode, HasParent, HasCheck
<1>9. FileLockOk(t)'
  BY <1>1, <1>3, <1>6 DEF FileLockOk
<1>10. FilOk(t)' /\ ~Signing(t)'
  BY <1>1, <1>2, <1>3, <1>6 DEF Own, FilOk, HasFile, Signing
<1>11. MissingTrue'
  BY <1>1 DEF IInv, MissingTrue
<1> QED BY <1>1, <1>4, <1>5, <1>7, <1>8, <1>9, <1>10, <1>11, Quiet DEF Own

\* LockParent keeps the invariant.
LEMMA LockParentKeeps ==
    ASSUME IInv, NEW t \in Threads, LockParent(t)
    PROVE  IInv'
<1>1. /\ UNCHANGED <<ver, dironly, attr, file, copy, copyref, cellref, incell, filelock>>
      /\ UNCHANGED <<call, at, fil, got, todo, crashed>> /\ pc[t] = "parent" /\ lock[Root] = None
      /\ lock' = [lock EXCEPT ![Root] = t] /\ pc' = [pc EXCEPT ![t] = "node"]
  BY DEF LockParent, Goto, remote, copies, lists
<1>2. /\ pc \in [Threads -> Places] /\ lock \in [Nodes -> Threads \cup {None}]
      /\ Own(t) /\ Root \in Nodes /\ None \notin Threads
  BY NoneIsNothing DEF IInv, Types, Nodes
<1>3. /\ pc' \in [Threads -> Places] /\ lock' \in [Nodes -> Threads \cup {None}]
      /\ pc'[t] = "node" /\ lock'[Root] = t /\ \A n \in Nodes \ {Root} : lock'[n] = lock[n]
  BY <1>1, <1>2 DEF Places
<1>4. Types'
  BY <1>1, <1>3 DEF IInv, Types
<1>5. Alone(t) /\ LocksKept(t)
  BY <1>1, <1>2, <1>3 DEF Alone, LocksKept
<1>6. at[t] # Root /\ call[t] \in Asking \ {"readdir"} /\ todo[t] = {}
  BY <1>1, <1>2 DEF Own, CallOk, ListOk
<1>7. CallOk(t)'
  BY <1>1, <1>2, <1>3, <1>6 DEF Own, CallOk, Asking
<1>8. ListOk(t)'
  BY <1>1, <1>3, <1>6 DEF ListOk
<1>9. LockOk(t)'
  <2>1. ~HasNode(t) /\ ~HasParent(t)
    BY <1>1 DEF HasNode, HasParent, HasCheck
  <2>2. ~HasNode(t)' /\ HasParent(t)'
    BY <1>1, <1>3, <1>6 DEF HasNode, HasParent, HasCheck
  <2> QED BY <1>2, <1>3, <2>1, <2>2 DEF Own, LockOk, Holds
<1>10. FileLockOk(t)'
  BY <1>1, <1>2 DEF Own, FileLockOk
<1>11. FilOk(t)' /\ (Signing(t)' => Signing(t))
  BY <1>1, <1>2, <1>3 DEF Own, FilOk, HasFile, Signing
<1>12. MissingTrue'
  BY <1>1 DEF IInv, MissingTrue
<1> QED BY <1>1, <1>4, <1>5, <1>7, <1>8, <1>9, <1>10, <1>11, <1>12, Quiet DEF Own

\* A step that ends with an answer, and may have changed attributes.
LEMMA AnswerKeeps ==
    ASSUME IInv, NEW t \in Threads, NEW a \in AttrType, Answer(t, a),
           pc[t] \in {"list", "fill"} \/ (pc[t] = "node" /\ call[t] # "check"),
           todo[t] = {}, attr' \in [Nodes -> AttrType], MissingTrue',
           got' \in [Threads -> [Files -> 0..MaxVersion]],
           UNCHANGED <<ver, dironly, file, copyref, cellref, incell, fil, todo, crashed>>
    PROVE  IInv'
<1>1. Alone(t)
  BY AnswerAlone
<1>2. /\ Own(t)' /\ (Signing(t)' => Signing(t)) /\ LocksKept(t)
      /\ lock' \in [Nodes -> Threads \cup {None}]
      /\ filelock' \in [Nodes -> Threads \cup {None}]
      /\ pc' \in [Threads -> Places] /\ call' \in [Threads -> Calls]
      /\ at' \in [Threads -> Nodes]
      /\ copy' \in [Copies -> [data : BOOLEAN, sig : 0..MaxVersion]]
  BY <1>1, Answered
<1>3. Types'
  BY <1>2 DEF IInv, Types
<1> QED BY <1>1, <1>2, <1>3, Quiet

\* LockNode keeps the invariant.
LEMMA LockNodeKeeps ==
    ASSUME IInv, NEW t \in Threads, LockNode(t)
    PROVE  IInv'
<1>1. /\ UNCHANGED <<ver, dironly, file, copyref, cellref, incell, fil, got, todo, crashed>>
      /\ pc[t] = "node" /\ lock[at[t]] = None /\ call[t] # "check"
      /\ (Answer(t, attr[at[t]]) /\ UNCHANGED attr) \/ AskHost(t)
  BY DEF LockNode, remote, lists
<1>2. /\ attr \in [Nodes -> AttrType] /\ at[t] \in Nodes /\ Own(t) /\ MissingTrue
      /\ got \in [Threads -> [Files -> 0..MaxVersion]]
      /\ pc \in [Threads -> Places]
  BY DEF IInv, Types
<1>3. todo[t] = {}
  BY <1>1, <1>2 DEF Own, ListOk
<1>4. CASE Answer(t, attr[at[t]]) /\ UNCHANGED attr
  <2>1. attr[at[t]] \in AttrType /\ MissingTrue'
    BY <1>2, <1>4 DEF MissingTrue
  <2> QED BY <1>1, <1>2, <1>3, <1>4, <2>1, AnswerKeeps
<1>5. CASE AskHost(t)
  <2>1. Alone(t)
    BY <1>1, <1>2, <1>5 DEF AskHost, Goto, Alone
  <2>2. fil'[t] # None <=> call[t] \in {"check", "sign"}
    BY <1>1, <1>2 DEF Own, FilOk, HasFile, CallOk, Asking
  <2>3. /\ Own(t)' /\ (Signing(t)' => Signing(t)) /\ LocksKept(t) /\ MissingTrue'
        /\ attr' \in [Nodes -> AttrType] /\ UNCHANGED <<copy, filelock, call, at>>
        /\ lock' \in [Nodes -> Threads \cup {None}] /\ pc' \in [Threads -> Places]
    BY <1>1, <1>5, <2>1, <2>2, Asked
  <2>4. Types'
    BY <1>1, <2>3 DEF IInv, Types
  <2> QED BY <1>1, <2>1, <2>3, <2>4, Quiet
<1> QED BY <1>1, <1>4, <1>5

\* ListFails keeps the invariant.
LEMMA ListFailsKeeps ==
    ASSUME IInv, NEW t \in Threads, ListFails(t)
    PROVE  IInv'
<1>1. /\ UNCHANGED <<ver, dironly, attr, file, copyref, cellref, incell, fil, got, todo, crashed>>
      /\ pc[t] = "list" /\ Answer(t, attr[at[t]])
  BY DEF ListFails, remote, lists
<1>2. /\ attr \in [Nodes -> AttrType] /\ at[t] \in Nodes /\ Own(t) /\ MissingTrue
      /\ got \in [Threads -> [Files -> 0..MaxVersion]]
  BY DEF IInv, Types
<1>3. todo[t] = {} /\ attr[at[t]] \in AttrType /\ MissingTrue'
  BY <1>1, <1>2 DEF Own, ListOk, MissingTrue
<1> QED BY <1>1, <1>2, <1>3, AnswerKeeps

\* ListSingle keeps the invariant.
LEMMA ListSingleKeeps ==
    ASSUME IInv, NEW t \in Threads, ListSingle(t)
    PROVE  IInv'
<1> DEFINE n == at[t]
<1>1. /\ UNCHANGED <<ver, dironly, file, copyref, cellref, incell, fil, got, todo, crashed>>
      /\ pc[t] = "list"
  BY DEF ListSingle, remote, lists
<1>2. PICK a \in IF n = Root THEN {There(0), Invented}
                 ELSE {IF n \in Entries(ver) THEN Attr(ver, n) ELSE Missing} :
         attr' = [attr EXCEPT ![n] = a] /\ Answer(t, a)
  BY DEF ListSingle
<1>3. /\ attr \in [Nodes -> AttrType] /\ n \in Nodes /\ Own(t) /\ MissingTrue
      /\ got \in [Threads -> [Files -> 0..MaxVersion]] /\ ver \in [Files -> 0..MaxVersion]
  BY DEF IInv, Types
<1>4. a \in AttrType /\ (n \in Dirs => a # Missing)
  <2>1. There(0) \in AttrType /\ There(0) # Missing
    BY AttrValues, VersionsAreNumbers
  <2>2. CASE n = Root
    BY <1>2, <2>1, <2>2, AttrValues
  <2>3. CASE n # Root
    <3>1. n \in Kids /\ (n \in Dirs => n \in Entries(ver))
      BY <1>3, <2>3 DEF Nodes, Entries
    <3>2. Attr(ver, n) \in AttrType /\ Attr(ver, n) # Missing
      BY <1>3, <3>1, EntryAttr
    <3> QED BY <1>2, <2>3, <3>1, <3>2, AttrValues
  <2> QED BY <2>2, <2>3
<1>5. attr' \in [Nodes -> AttrType] /\ MissingTrue'
  BY <1>2, <1>3, <1>4 DEF MissingTrue, Nodes, Kids
<1>6. todo[t] = {}
  BY <1>1, <1>3 DEF Own, ListOk
<1> QED BY <1>1, <1>2, <1>3, <1>4, <1>5, <1>6, AnswerKeeps

\* List keeps the invariant.
LEMMA ListKeeps ==
    ASSUME IInv, NEW t \in Threads, List(t)
    PROVE  IInv'
<1>1. /\ UNCHANGED <<ver, dironly, attr, file, copy, copyref, cellref, incell, lock, filelock>>
      /\ UNCHANGED <<call, at, fil, crashed>> /\ pc[t] = "list" /\ ~Single(t)
      /\ pc' = [pc EXCEPT ![t] = "fill"]
      /\ \/ /\ Listed(t) = Root /\ got' = [got EXCEPT ![t] = ver]
            /\ todo' = [todo EXCEPT ![t] = Entries(ver)]
         \/ UNCHANGED <<got, todo>>
  BY DEF List, Goto, remote, copies, locks, lists
<1>2. /\ pc \in [Threads -> Places] /\ todo \in [Threads -> SUBSET Kids]
      /\ got \in [Threads -> [Files -> 0..MaxVersion]] /\ ver \in [Files -> 0..MaxVersion]
      /\ Own(t)
  BY DEF IInv, Types
<1>3. pc'[t] = "fill" /\ pc' \in [Threads -> Places] /\ todo[t] = {}
  BY <1>1, <1>2 DEF Places, Own, ListOk
<1>4. Entries(ver) \subseteq Kids
  BY DEF Entries, Kids
<1>5. /\ todo' \in [Threads -> SUBSET Kids] /\ got' \in [Threads -> [Files -> 0..MaxVersion]]
      /\ todo'[t] # {} => Listed(t) = Root
  BY <1>1, <1>2, <1>3, <1>4
<1>6. Types'
  BY <1>1, <1>3, <1>5 DEF IInv, Types
<1>7. Alone(t) /\ LocksKept(t)
  BY <1>1, <1>2 DEF Alone, LocksKept
<1>8. CallOk(t)'
  BY <1>1, <1>2, <1>3 DEF Own, CallOk
<1>9. ListOk(t)'
  BY <1>1, <1>3, <1>5 DEF ListOk, Listed, Single
<1>10. LockOk(t)' /\ FileLockOk(t)'
  BY <1>1, <1>2, <1>3 DEF Own, LockOk, FileLockOk, Holds, HasNode, HasParent, HasCheck
<1>11. FilOk(t)' /\ (Signing(t)' => Signing(t))
  BY <1>1, <1>2, <1>3 DEF Own, FilOk, HasFile, Signing
<1>12. MissingTrue'
  BY <1>1 DEF IInv, MissingTrue
<1> QED BY <1>1, <1>6, <1>7, <1>8, <1>9, <1>10, <1>11, <1>12, Quiet DEF Own

\* Fill keeps the invariant.
LEMMA FillKeeps ==
    ASSUME IInv, NEW t \in Threads, NEW k \in Kids, Fill(t, k)
    PROVE  IInv'
<1>1. /\ UNCHANGED <<ver, dironly, file, copy, copyref, cellref, incell, lock, filelock>>
      /\ UNCHANGED <<pc, call, at, fil, got, crashed>> /\ pc[t] = "fill" /\ k \in todo[t]
      /\ attr' = [attr EXCEPT ![k] = Attr(got[t], k)]
      /\ todo' = [todo EXCEPT ![t] = @ \ {k}]
  BY DEF Fill, remote, copies, locks
<1>2. /\ attr \in [Nodes -> AttrType] /\ todo \in [Threads -> SUBSET Kids]
      /\ got[t] \in [Files -> 0..MaxVersion] /\ Own(t) /\ MissingTrue
  BY DEF IInv, Types
<1>3. Attr(got[t], k) \in AttrType /\ Attr(got[t], k) # Missing
  BY <1>2, EntryAttr
<1>4. /\ attr' \in [Nodes -> AttrType] /\ MissingTrue'
      /\ todo' \in [Threads -> SUBSET Kids] /\ todo'[t] \subseteq todo[t]
  BY <1>1, <1>2, <1>3 DEF MissingTrue, Nodes, Kids
<1>5. Types'
  BY <1>1, <1>4 DEF IInv, Types
<1>6. Alone(t) /\ LocksKept(t)
  BY <1>1, <1>2 DEF Alone, LocksKept
<1>7. CallOk(t)'
  BY <1>1, <1>2 DEF Own, CallOk
<1>8. ListOk(t)'
  BY <1>1, <1>2, <1>4 DEF Own, ListOk, Listed
<1>9. LockOk(t)' /\ FileLockOk(t)'
  BY <1>1, <1>2 DEF Own, LockOk, FileLockOk, Holds, HasNode, HasParent, HasCheck
<1>10. FilOk(t)' /\ (Signing(t)' => Signing(t))
  BY <1>1, <1>2 DEF Own, FilOk, HasFile, Signing
<1> QED BY <1>1, <1>4, <1>5, <1>6, <1>7, <1>8, <1>9, <1>10, Quiet DEF Own

\* At the end of a listing that is complete no directory is missing: who asks for an
\* entry because of a listing of its parent finds all directories there.
LEMMA FillEndKeeps ==
    ASSUME IInv, NEW t \in Threads, FillEnd(t)
    PROVE  IInv'
<1> DEFINE d == Listed(t)  n == at[t]
<1>1. /\ UNCHANGED <<ver, dironly, file, copyref, cellref, incell, fil, todo, crashed>>
      /\ pc[t] = "fill" /\ todo[t] = {} /\ got' = [got EXCEPT ![t] = NoList]
  BY DEF FillEnd, remote
<1>2. PICK dots \in BOOLEAN :
         LET withdot == IF dots THEN [attr EXCEPT ![d] = There(0)] ELSE attr
             new     == IF call[t] = "readdir" \/ Found(t, dots) THEN withdot
                        ELSE [withdot EXCEPT ![n] = NotListed(n)]
         IN  attr' = new /\ Answer(t, new[n])
  BY DEF FillEnd
<1>3. /\ attr \in [Nodes -> AttrType] /\ n \in Nodes /\ Own(t) /\ MissingTrue
      /\ got \in [Threads -> [Files -> 0..MaxVersion]]
  BY DEF IInv, Types
<1>4. d \in Nodes
  BY <1>3 DEF Listed, Nodes
<1>5. There(0) \in AttrType /\ There(0) # Missing /\ NotListed(n) \in AttrType
  BY AttrValues, VersionsAreNumbers DEF NotListed
<1>6. ASSUME call[t] # "readdir", ~Found(t, dots) PROVE n \in Dirs => NotListed(n) # Missing
  <2>1. dironly
    BY <1>1, <1>3, <1>6 DEF Own, ListOk
  <2>2. CASE n = Root
    BY <2>2, AttrValues DEF NotListed
  <2>3. CASE n # Root
    <3>1. n # d
      BY <1>6, <2>1, <2>3 DEF Listed
    <3>2. n \notin Entries(got[t])
      BY <1>6, <3>1 DEF Found
    <3> QED BY <3>2 DEF Entries
  <2> QED BY <2>2, <2>3
<1> DEFINE w == IF dots THEN [attr EXCEPT ![d] = There(0)] ELSE attr
<1>7. w \in [Nodes -> AttrType] /\ \A k \in Dirs : w[k] # Missing
  BY <1>3, <1>4, <1>5 DEF MissingTrue, Nodes, Kids
<1>8. /\ \/ attr' = w
         \/ call[t] # "readdir" /\ ~Found(t, dots) /\ attr' = [w EXCEPT ![n] = NotListed(n)]
      /\ Answer(t, attr'[n])
  BY <1>2
<1> HIDE DEF w, d, n
<1>9. attr' \in [Nodes -> AttrType] /\ MissingTrue'
  <2>1. CASE attr' = w
    BY <1>7, <2>1 DEF MissingTrue
  <2>2. CASE /\ call[t] # "readdir" /\ ~Found(t, dots)
             /\ attr' = [w EXCEPT ![n] = NotListed(n)]
    BY <1>3, <1>5, <1>6, <1>7, <2>2 DEF MissingTrue, Nodes, Kids
  <2> QED BY <1>8, <2>1, <2>2
<1>10. got' \in [Threads -> [Files -> 0..MaxVersion]]
  <2>1. NoList \in [Files -> 0..MaxVersion]
    BY VersionsAreNumbers DEF NoList
  <2> QED BY <1>1, <1>3, <2>1
<1>11. attr'[n] \in AttrType
  BY <1>3, <1>9
<1> QED BY <1>1, <1>8, <1>9, <1>10, <1>11, AnswerKeeps

\* One more reference, of a thread that had none.
LEMMA Held ==
    ASSUME IInv, NEW t \in Threads, NEW d \in Copies, fil[t] = None,
           fil' = [fil EXCEPT ![t] = d], copyref' = [copyref EXCEPT ![d] = @ + 1],
           incell' = incell
    PROVE  /\ fil'[t] = d /\ fil' \in [Threads -> Copies \cup {None}]
           /\ copyref' \in [Copies -> Int]
           /\ \A c \in Copies : copyref'[c] - Refs(t, c)' = copyref[c] - Refs(t, c)
<1>1. /\ fil \in [Threads -> Copies \cup {None}] /\ copyref \in [Copies -> Int]
      /\ None \notin Copies
  BY NoneIsNothing DEF IInv, Types
<1>2. ASSUME NEW c \in Copies PROVE copyref'[c] - Refs(t, c)' = copyref[c] - Refs(t, c)
  <2>1. t \notin Users(c) /\ (t \in Users(c)' <=> d = c)
    BY <1>1 DEF Users
  <2>2. copyref[c] \in Int /\ copyref'[c] = IF d = c THEN copyref[c] + 1 ELSE copyref[c]
    BY <1>1
  <2> QED BY <2>1, <2>2 DEF Refs, One
<1> QED BY <1>1, <1>2

\* CheckCopy keeps the invariant.
LEMMA CheckCopyKeeps ==
    ASSUME IInv, NEW t \in Threads, CheckCopy(t)
    PROVE  IInv'
<1> DEFINE n == at[t]
<1>1. /\ UNCHANGED <<ver, dironly, file, cellref, incell, got, todo>>
      /\ pc[t] = "node" /\ lock[n] = None /\ call[t] = "check" /\ crashed' = Gone(n)
  BY DEF CheckCopy, remote, lists
<1>2. /\ pc \in [Threads -> Places] /\ call \in [Threads -> Calls] /\ at \in [Threads -> Nodes]
      /\ lock \in [Nodes -> Threads \cup {None}] /\ filelock \in [Nodes -> Threads \cup {None}]
      /\ fil \in [Threads -> Copies \cup {None}]
      /\ CallOk(t) /\ ListOk(t) /\ LockOk(t) /\ FileLockOk(t) /\ FilOk(t) /\ MissingTrue
      /\ None \notin Threads \cup Copies
  BY NoneIsNothing DEF IInv, Types, Own
<1>3. fil[t] = None /\ todo[t] = {} /\ n \in Files /\ n \in Nodes /\ n # Root
  BY <1>1, <1>2, NodesDiffer DEF FilOk, HasFile, ListOk, CallOk, Nodes, Kids
<1>4. crashed' \in BOOLEAN
  BY <1>1 DEF Gone
<1>5. CASE HasCopy(n) /\ Hold(t)
  <2>1. file[n] \in Copies
    BY <1>3, <1>5 DEF HasCopy, IInv, Types
  <2>2. /\ fil' = [fil EXCEPT ![t] = file[n]]
        /\ copyref' = [copyref EXCEPT ![file[n]] = @ + 1]
    BY <1>5 DEF Hold
  <2>3. /\ fil'[t] = file[n] /\ fil' \in [Threads -> Copies \cup {None}]
        /\ copyref' \in [Copies -> Int]
        /\ \A c \in Copies : copyref'[c] - Refs(t, c)' = copyref[c] - Refs(t, c)
    BY <1>1, <1>3, <2>1, <2>2, Held
  <2>4. CASE /\ Goto(t, "compare") /\ lock' = [lock EXCEPT ![n] = t]
             /\ UNCHANGED <<attr, copy, filelock, call, at>>
    <3>1. /\ pc' = [pc EXCEPT ![t] = "compare"] /\ lock' = [lock EXCEPT ![n] = t]
          /\ UNCHANGED <<attr, copy, filelock, call, at>>
      BY <2>4 DEF Goto
    <3>2. /\ pc'[t] = "compare" /\ pc' \in [Threads -> Places] /\ call'[t] = "check"
          /\ at'[t] = n /\ todo'[t] = {}
      BY <1>1, <1>2, <1>3, <3>1 DEF Places
    <3>3. /\ lock' \in [Nodes -> Threads \cup {None}] /\ lock'[n] = t
          /\ \A m \in Nodes \ {n} : lock'[m] = lock[m]
      BY <1>2, <1>3, <3>1
    <3>4. Types'
      BY <1>1, <1>4, <2>3, <3>1, <3>2, <3>3 DEF IInv, Types
    <3>5. Alone(t)
      BY <1>1, <1>2, <2>2, <3>1 DEF Alone
    <3>6. LocksKept(t)
      BY <1>1, <1>2, <3>1, <3>3 DEF LocksKept
    <3>7. CallOk(t)' /\ ListOk(t)'
      BY <1>3, <3>2 DEF CallOk, ListOk
    <3>8. LockOk(t)'
      <4>1. HasParent(t) /\ ~HasNode(t)
        BY <1>1, <1>3 DEF HasParent, HasNode, HasCheck
      <4>2. HasParent(t)' /\ HasNode(t)'
        BY <1>3, <3>2 DEF HasParent, HasNode, HasCheck
      <4> QED BY <1>2, <3>2, <3>3, <4>1, <4>2 DEF LockOk, Holds
    <3>9. FileLockOk(t)'
      BY <1>1, <1>2, <3>1, <3>2 DEF FileLockOk
    <3>10. FilOk(t)' /\ ~Signing(t)'
      BY <1>2, <2>1, <2>3, <3>2 DEF FilOk, HasFile, Signing
    <3>11. MissingTrue'
      BY <1>2, <3>1 DEF MissingTrue
    <3>12. FreshInv'
      BY <1>1, <1>3, <2>3, <3>5, <3>6, <3>10, FreshKept
    <3> QED BY <2>3, <3>4, <3>5, <3>6, <3>7, <3>8, <3>9, <3>10, <3>11, <3>12, Balance DEF Own
  <2>5. CASE AskHost(t)
    <3>1. Alone(t)
      BY <1>1, <1>2, <2>2, <2>5 DEF AskHost, Goto, Alone
    <3>2. fil'[t] # None <=> call[t] \in {"check", "sign"}
      BY <1>1, <1>2, <2>1, <2>3
    <3>3. /\ Own(t)' /\ LocksKept(t) /\ MissingTrue'
          /\ attr' \in [Nodes -> AttrType] /\ UNCHANGED <<copy, filelock, call, at>>
          /\ lock' \in [Nodes -> Threads \cup {None}] /\ pc' \in [Threads -> Places]
      BY <1>1, <2>5, <3>1, <3>2, Asked
    <3>4. Types'
      BY <1>1, <1>4, <2>3, <3>3 DEF IInv, Types
    <3>5. ~Signing(t)'
      BY <1>1, <3>3 DEF Signing
    <3>6. FreshInv'
      BY <1>1, <1>3, <2>3, <3>1, <3>3, <3>5, FreshKept
    <3> QED BY <2>3, <3>1, <3>3, <3>4, <3>6, Balance
  <2> QED BY <1>5, <2>4, <2>5 DEF CheckCopy, HasCopy
<1>6. CASE Leave(t) /\ UNCHANGED <<fil, copy, copyref, attr>>
  <2>1. Alone(t)
    BY <1>1, <1>2, <1>6 DEF Leave, Goto, Alone
  <2>2. /\ Own(t)' /\ ~Signing(t)' /\ LocksKept(t)
        /\ lock' \in [Nodes -> Threads \cup {None}]
        /\ filelock' \in [Nodes -> Threads \cup {None}]
        /\ pc' \in [Threads -> Places] /\ call' \in [Threads -> Calls]
        /\ at' \in [Threads -> Nodes]
    BY <1>1, <1>3, <1>6, <2>1, LeftOver
  <2>3. Types'
    BY <1>1, <1>4, <1>6, <2>2 DEF IInv, Types
  <2>4. MissingTrue'
    BY <1>2, <1>6 DEF MissingTrue
  <2> QED BY <1>1, <1>6, <2>1, <2>2, <2>3, <2>4, Quiet
<1> QED BY <1>5, <1>6 DEF CheckCopy

\* A step to the next place of a call that has a copy.
LEMMA Moved ==
    ASSUME IInv, NEW t \in Threads, NEW from, NEW place, pc[t] = from,
           <<from, place>> \in {<<"compare", "drop">>, <<"drop", "clear">>,
                                <<"replace", "store">>, <<"store", "size">>,
                                <<"store", "wait">>, <<"size", "wait">>, <<"wait", "drop">>},
           Goto(t, place), UNCHANGED <<dironly, lock, filelock, call, at, fil, todo>>
    PROVE  /\ Own(t)' /\ (Signing(t)' => Signing(t)) /\ Alone(t) /\ LocksKept(t)
           /\ pc' \in [Threads -> Places] /\ pc'[t] = place
<1>1. /\ pc \in [Threads -> Places] /\ CallOk(t) /\ ListOk(t) /\ LockOk(t) /\ FileLockOk(t)
      /\ FilOk(t)
  BY DEF IInv, Types, Own
<1>2. pc' = [pc EXCEPT ![t] = place]
  BY DEF Goto
<1>3. place \in Places
  BY DEF Places
<1>4. pc' \in [Threads -> Places] /\ pc'[t] = place
  BY <1>1, <1>2, <1>3
<1>5. Alone(t) /\ LocksKept(t)
  BY <1>1, <1>2 DEF Alone, LocksKept
<1>6. CallOk(t)'
  BY <1>1, <1>4 DEF CallOk
<1>7. ListOk(t)'
  BY <1>1, <1>4 DEF ListOk
<1>8. LockOk(t)'
  <2>1. (HasNode(t)' <=> HasNode(t)) /\ (HasParent(t)' <=> HasParent(t))
    BY <1>1, <1>4 DEF HasNode, HasParent, HasCheck, CallOk
  <2> QED BY <1>1, <2>1 DEF LockOk, Holds
<1>9. FileLockOk(t)'
  BY <1>1 DEF FileLockOk
<1>10. FilOk(t)'
  BY <1>1, <1>4 DEF FilOk, HasFile, CallOk
<1>11. Signing(t)' => Signing(t)
  BY <1>4 DEF Signing
<1> QED BY <1>4, <1>5, <1>6, <1>7, <1>8, <1>9, <1>10, <1>11 DEF Own

\* The end of a call that has a copy keeps the invariant.
LEMMA LeaveCopyKeeps ==
    ASSUME IInv, NEW t \in Threads, todo[t] = {}, HasFile(t),
           NEW cp \in [Copies -> [data : BOOLEAN, sig : 0..MaxVersion]], LeaveCopy(t, cp),
           file' \in [Nodes -> Copies \cup {None}], crashed' \in BOOLEAN,
           \A n \in Nodes : file'[n] = file[n] \/ file'[n] = None,
           UNCHANGED <<ver, dironly, attr, cellref, incell, got, todo>>
    PROVE  IInv'
<1>1. /\ pc \in [Threads -> Places] /\ call \in [Threads -> Calls] /\ at \in [Threads -> Nodes]
      /\ fil \in [Threads -> Copies \cup {None}]
  BY DEF IInv, Types
<1>2. Alone(t)
  BY <1>1 DEF LeaveCopy, Leave, Goto, Alone
<1>3. /\ Own(t)' /\ ~Signing(t)' /\ LocksKept(t) /\ fil'[t] = None
      /\ lock' \in [Nodes -> Threads \cup {None}]
      /\ filelock' \in [Nodes -> Threads \cup {None}]
      /\ pc' \in [Threads -> Places] /\ call' \in [Threads -> Calls]
      /\ at' \in [Threads -> Nodes] /\ fil' \in [Threads -> Copies \cup {None}]
      /\ copyref' \in [Copies -> Int]
      /\ copy' \in [Copies -> [data : BOOLEAN, sig : 0..MaxVersion]]
      /\ \A c \in Copies : copyref'[c] - Refs(t, c)' = copyref[c] - Refs(t, c)
  BY <1>2, LeftCopy
<1>4. Types'
  BY <1>3 DEF IInv, Types
<1>5. FreshInv'
  BY <1>2, <1>3, FreshKept
<1>6. MissingTrue'
  BY DEF IInv, MissingTrue
<1> QED BY <1>2, <1>3, <1>4, <1>5, <1>6, Balance

\* Compare keeps the invariant.
LEMMA CompareKeeps ==
    ASSUME IInv, NEW t \in Threads, Compare(t)
    PROVE  IInv'
<1>1. /\ UNCHANGED <<ver, dironly, attr, file, cellref, incell, got, todo, crashed>>
      /\ pc[t] = "compare"
  BY DEF Compare, remote, lists
<1>2. Types /\ CallOk(t) /\ ListOk(t) /\ MissingTrue
  BY DEF IInv, Own
<1>3. CASE LeaveCopy(t, copy)
  <2>1. HasFile(t) /\ todo[t] = {}
    BY <1>1, <1>2 DEF HasFile, CallOk, ListOk
  <2>2. /\ copy \in [Copies -> [data : BOOLEAN, sig : 0..MaxVersion]]
        /\ file' \in [Nodes -> Copies \cup {None}] /\ crashed' \in BOOLEAN
    BY <1>1, <1>2 DEF Types
  <2> QED BY <1>1, <1>3, <2>1, <2>2, LeaveCopyKeeps
<1>4. CASE Goto(t, "drop") /\ UNCHANGED <<copy, copyref, locks, call, at, fil>>
  <2>1. /\ Own(t)' /\ (Signing(t)' => Signing(t)) /\ Alone(t) /\ LocksKept(t)
        /\ pc' \in [Threads -> Places]
    BY <1>1, <1>4, Moved DEF locks
  <2>2. Types'
    BY <1>1, <1>2, <1>4, <2>1 DEF Types, locks
  <2>3. MissingTrue'
    BY <1>1, <1>2 DEF MissingTrue
  <2> QED BY <1>1, <1>4, <2>1, <2>2, <2>3, Quiet
<1> QED BY <1>3, <1>4 DEF Compare

\* A step that takes a reference from the cell of the node.
LEMMA UnrefKeeps ==
    ASSUME IInv, NEW t \in Threads, NEW from, NEW place, pc[t] = from,
           <<from, place>> \in {<<"drop", "clear">>, <<"replace", "store">>},
           Goto(t, place), UnrefCell(at[t]),
           UNCHANGED <<ver, dironly, attr, file, lock, filelock, call, at, fil, got, todo>>
    PROVE  IInv'
<1>1. at[t] \in Nodes
  BY DEF IInv, Types
<1>2. /\ crashed' \in BOOLEAN
      /\ copyref' \in [Copies -> Int] /\ cellref' \in [Copies -> Nat]
      /\ incell' \in [Copies -> BOOLEAN]
      /\ copy' \in [Copies -> [data : BOOLEAN, sig : 0..MaxVersion]]
      /\ \A c \in Copies : incell'[c] => incell[c]
      /\ \A c \in Copies : copyref'[c] - One(incell'[c]) = copyref[c] - One(incell[c])
  BY <1>1, Unreffed
<1>3. /\ Own(t)' /\ (Signing(t)' => Signing(t)) /\ Alone(t) /\ LocksKept(t)
      /\ pc' \in [Threads -> Places]
  BY Moved
<1>4. Types'
  BY <1>2, <1>3 DEF IInv, Types
<1>5. FreshInv'
  BY <1>2, <1>3, FreshKept
<1>6. MissingTrue'
  BY DEF IInv, MissingTrue
<1>7. ASSUME NEW c \in Copies PROVE copyref'[c] - Refs(t, c)' = copyref[c] - Refs(t, c)
  <2>1. Refs(t, c)' = One(t \in Users(c)) + One(incell'[c])
    BY DEF Refs, Users
  <2>2. Refs(t, c) = One(t \in Users(c)) + One(incell[c])
    BY DEF Refs
  <2>3. copyref'[c] - One(incell'[c]) = copyref[c] - One(incell[c])
    BY <1>2
  <2>4. /\ One(t \in Users(c)) \in Int /\ One(incell[c]) \in Int /\ One(incell'[c]) \in Int
        /\ copyref[c] \in Int /\ copyref'[c] \in Int
    BY <1>2 DEF One, IInv, Types
  <2> QED BY <2>1, <2>2, <2>3, <2>4
<1> QED BY <1>3, <1>4, <1>5, <1>6, <1>7, Balance

\* Drop keeps the invariant.
LEMMA DropKeeps ==
    ASSUME IInv, NEW t \in Threads, Drop(t) \/ Replace(t)
    PROVE  IInv'
BY UnrefKeeps DEF Drop, Replace, remote, locks, lists

\* Clear keeps the invariant.
LEMMA ClearKeeps ==
    ASSUME IInv, NEW t \in Threads, Clear(t)
    PROVE  IInv'
<1>1. /\ UNCHANGED <<ver, dironly, attr, cellref, incell, got, todo, crashed>>
      /\ pc[t] = "clear" /\ file' = [file EXCEPT ![at[t]] = None] /\ LeaveCopy(t, copy)
  BY DEF Clear, remote, lists
<1>2. Types /\ CallOk(t) /\ ListOk(t)
  BY DEF IInv, Own
<1>3. HasFile(t) /\ todo[t] = {}
  BY <1>1, <1>2 DEF HasFile, CallOk, ListOk
<1>4. /\ copy \in [Copies -> [data : BOOLEAN, sig : 0..MaxVersion]]
      /\ file' \in [Nodes -> Copies \cup {None}] /\ crashed' \in BOOLEAN
      /\ \A n \in Nodes : file'[n] = file[n] \/ file'[n] = None
  BY <1>1, <1>2 DEF Types
<1> QED BY <1>1, <1>3, <1>4, LeaveCopyKeeps

\* Wait keeps the invariant.
LEMMA WaitKeeps ==
    ASSUME IInv, NEW t \in Threads, Wait(t)
    PROVE  IInv'
<1>1. /\ UNCHANGED <<ver, dironly, attr, file, cellref, incell, got, todo>>
      /\ pc[t] = "wait"
  BY DEF Wait, remote, lists
<1>2. PICK more \in {copy[fil[t]].data, FALSE} :
         /\ LeaveCopy(t, [copy EXCEPT ![fil[t]].data = more])
         /\ crashed' = (more # copy[fil[t]].data /\ NoCell(at[t]))
  BY DEF Wait
<1>3. Types /\ CallOk(t) /\ ListOk(t) /\ FilOk(t)
  BY DEF IInv, Own
<1>4. HasFile(t) /\ todo[t] = {}
  BY <1>1, <1>3 DEF HasFile, CallOk, ListOk
<1>5. fil[t] \in Copies
  BY <1>3, <1>4 DEF FilOk, Types
<1>6. copy \in [Copies -> [data : BOOLEAN, sig : 0..MaxVersion]]
  BY <1>3 DEF Types
<1>7. more \in BOOLEAN
  BY <1>5, <1>6
<1>8. [copy EXCEPT ![fil[t]].data = more] \in [Copies -> [data : BOOLEAN, sig : 0..MaxVersion]]
  BY <1>5, <1>6, <1>7
<1>9. crashed' \in BOOLEAN
  BY <1>2
<1>10. /\ file' \in [Nodes -> Copies \cup {None}]
       /\ \A n \in Nodes : file'[n] = file[n] \/ file'[n] = None
  BY <1>1, <1>3 DEF Types
<1> QED BY <1>1, <1>2, <1>4, <1>8, <1>9, <1>10, LeaveCopyKeeps

\* Steps in which only the place changes.
LEMMA MoveKeeps ==
    ASSUME IInv, NEW t \in Threads, SetSize(t) \/ WaitFails(t)
    PROVE  IInv'
<1>1. /\ UNCHANGED <<ver, dironly, attr, file, copy, copyref, cellref, incell>>
      /\ UNCHANGED <<lock, filelock, call, at, fil, got, todo>>
      /\ \/ pc[t] = "size" /\ Goto(t, "wait") /\ crashed' = NoCell(at[t])
         \/ pc[t] = "wait" /\ Goto(t, "drop") /\ crashed' = crashed
  BY DEF SetSize, WaitFails, remote, copies, locks, lists
<1>2. /\ Own(t)' /\ (Signing(t)' => Signing(t)) /\ Alone(t) /\ LocksKept(t)
      /\ pc' \in [Threads -> Places]
  BY <1>1, Moved
<1>3. crashed' \in BOOLEAN
  BY <1>1 DEF NoCell, Gone, IInv, Types
<1>4. Types'
  BY <1>1, <1>2, <1>3 DEF IInv, Types
<1>5. MissingTrue'
  BY <1>1 DEF IInv, MissingTrue
<1> QED BY <1>1, <1>2, <1>4, <1>5, Quiet

\* A reader takes the filelock, and a reference to a copy.
LEMMA CallBegun ==
    ASSUME IInv, NEW t \in Threads, NEW n \in Files, pc[t] = "idle", filelock[n] = None,
           NEW c \in Copies, Begin(t, n, c), copyref' = [copyref EXCEPT ![c] = @ + 1],
           NEW k, NEW place, (k = "read" /\ place = "wait") \/ (k = "sign" /\ place = "parent"),
           call' = [call EXCEPT ![t] = k], at' = [at EXCEPT ![t] = n], Goto(t, place),
           UNCHANGED <<dironly, incell, lock, todo>>
    PROVE  /\ Own(t)' /\ Alone(t) /\ LocksKept(t) /\ ~Signing(t)
           /\ fil'[t] = c /\ (Signing(t)' => k = "sign")
           /\ pc' \in [Threads -> Places] /\ call' \in [Threads -> Calls]
           /\ at' \in [Threads -> Nodes] /\ fil' \in [Threads -> Copies \cup {None}]
           /\ filelock' \in [Nodes -> Threads \cup {None}] /\ copyref' \in [Copies -> Int]
           /\ \A d \in Copies : copyref'[d] - Refs(t, d)' = copyref[d] - Refs(t, d)
<1>1. /\ pc \in [Threads -> Places] /\ call \in [Threads -> Calls] /\ at \in [Threads -> Nodes]
      /\ fil \in [Threads -> Copies \cup {None}]
      /\ lock \in [Nodes -> Threads \cup {None}] /\ filelock \in [Nodes -> Threads \cup {None}]
      /\ CallOk(t) /\ ListOk(t) /\ LockOk(t) /\ FileLockOk(t) /\ FilOk(t)
      /\ None \notin Threads \cup Copies /\ n \in Nodes /\ n # Root
  BY NoneIsNothing, NodesDiffer DEF IInv, Types, Own, Nodes, Kids
<1>2. /\ pc' = [pc EXCEPT ![t] = place] /\ filelock' = [filelock EXCEPT ![n] = t]
      /\ fil' = [fil EXCEPT ![t] = c] /\ k \in {"read", "sign"} /\ place \in {"wait", "parent"}
  BY DEF Goto, Begin
<1>3. call[t] = "none" /\ todo[t] = {} /\ \A m \in Nodes : lock[m] # t /\ filelock[m] # t
  BY <1>1 DEF CallOk, ListOk, LockOk, FileLockOk, Holds, HasParent, HasNode, HasCheck
<1>4. fil[t] = None /\ ~Signing(t)
  BY <1>1, <1>3 DEF FilOk, HasFile, Signing
<1>5. /\ fil'[t] = c /\ fil' \in [Threads -> Copies \cup {None}]
      /\ copyref' \in [Copies -> Int]
      /\ \A d \in Copies : copyref'[d] - Refs(t, d)' = copyref[d] - Refs(t, d)
  BY <1>2, <1>4, Held
<1>6. /\ pc' \in [Threads -> Places] /\ call' \in [Threads -> Calls] /\ at' \in [Threads -> Nodes]
      /\ pc'[t] = place /\ call'[t] = k /\ at'[t] = n
  BY <1>1, <1>2 DEF Places, Calls
<1>7. /\ filelock' \in [Nodes -> Threads \cup {None}] /\ filelock'[n] = t
      /\ \A m \in Nodes \ {n} : filelock'[m] = filelock[m]
  BY <1>1, <1>2
<1>8. Alone(t)
  BY <1>1, <1>2 DEF Alone
<1>9. LocksKept(t)
  BY <1>1, <1>7 DEF LocksKept
<1>10. CallOk(t)'
  BY <1>1, <1>6 DEF CallOk, Asking
<1>11. ListOk(t)'
  BY <1>2, <1>3, <1>6 DEF ListOk
<1>12. LockOk(t)'
  BY <1>2, <1>3, <1>6 DEF LockOk, Holds, HasParent, HasNode, HasCheck
<1>13. FileLockOk(t)'
  BY <1>2, <1>3, <1>6, <1>7 DEF FileLockOk
<1>14. FilOk(t)'
  BY <1>1, <1>2, <1>5, <1>6 DEF FilOk, HasFile
<1>15. Signing(t)' => k = "sign"
  BY <1>6 DEF Signing
<1> QED BY <1>4, <1>5, <1>6, <1>7, <1>8, <1>9, <1>10, <1>11, <1>12, <1>13, <1>14, <1>15 DEF Own

\* Read keeps the invariant.
LEMMA ReadKeeps ==
    ASSUME IInv, NEW t \in Threads, NEW n \in Files, Read(t, n)
    PROVE  IInv'
<1>1. /\ UNCHANGED <<ver, dironly, attr, file, cellref, incell, lock, got, todo>>
      /\ pc[t] = "idle" /\ filelock[n] = None /\ crashed' = Gone(n)
  BY DEF Read, remote, lists
<1>2. crashed' \in BOOLEAN /\ MissingTrue' /\ n \in Nodes /\ n # Root
  BY <1>1, NodesDiffer DEF Gone, IInv, MissingTrue, Nodes, Kids
<1>3. CASE /\ HasCopy(n) /\ Begin(t, n, file[n])
           /\ copyref' = [copyref EXCEPT ![file[n]] = @ + 1]
           /\ call' = [call EXCEPT ![t] = "read"] /\ at' = [at EXCEPT ![t] = n]
           /\ Goto(t, "wait") /\ UNCHANGED copy
  <2>1. file[n] \in Copies
    BY <1>2, <1>3 DEF HasCopy, IInv, Types
  <2>2. PICK c \in Copies : c = file[n]
    BY <2>1
  <2>3. PICK k, place : k = "read" /\ place = "wait"
    OBVIOUS
  <2>4. /\ Begin(t, n, c) /\ copyref' = [copyref EXCEPT ![c] = @ + 1]
        /\ call' = [call EXCEPT ![t] = k] /\ Goto(t, place)
        /\ (k = "read" /\ place = "wait") \/ (k = "sign" /\ place = "parent")
        /\ at' = [at EXCEPT ![t] = n] /\ pc[t] = "idle" /\ filelock[n] = None
        /\ UNCHANGED <<dironly, incell, lock, todo>>
    BY <1>1, <1>3, <2>2, <2>3
  <2>5. /\ Own(t)' /\ Alone(t) /\ LocksKept(t)
        /\ fil'[t] = c /\ (Signing(t)' => k = "sign")
        /\ pc' \in [Threads -> Places] /\ call' \in [Threads -> Calls]
        /\ at' \in [Threads -> Nodes] /\ fil' \in [Threads -> Copies \cup {None}]
        /\ filelock' \in [Nodes -> Threads \cup {None}] /\ copyref' \in [Copies -> Int]
        /\ \A d \in Copies : copyref'[d] - Refs(t, d)' = copyref[d] - Refs(t, d)
    BY <2>4, CallBegun
  <2>6. Types'
    BY <1>1, <1>2, <1>3, <2>5 DEF IInv, Types
  <2>7. FreshInv'
    BY <1>1, <1>2, <2>2, <2>3, <2>5, FreshKept
  <2> QED BY <1>2, <2>5, <2>6, <2>7, Balance
<1>4. CASE UNCHANGED <<copy, copyref, filelock, threads>>
  <2>1. UNCHANGED <<copy, copyref, filelock, pc, call, at, fil>>
    BY <1>4 DEF threads
  <2>2. Types'
    BY <1>1, <1>2, <2>1 DEF IInv, Types
  <2>3. Alone(t) /\ LocksKept(t)
    BY <1>1, <2>1 DEF Alone, LocksKept
  <2>4. Own(t)' /\ (Signing(t)' => Signing(t))
    <3>1. Alone(None) /\ LocksKept(None) /\ t \in Threads \ {None}
      BY <1>1, <2>1, NoneIsNothing DEF Alone, LocksKept
    <3> QED BY <3>1, OthersKept
  <2> QED BY <1>1, <1>2, <2>1, <2>2, <2>3, <2>4, Quiet
<1>5. ASSUME NEW c \in Copies, NEW more \in BOOLEAN, Unused(c), Begin(t, n, c),
             copy' = [copy EXCEPT ![c] = [data |-> more, sig |-> 0]],
             copyref' = [copyref EXCEPT ![c] = 1], Ask(t, "sign", n)
      PROVE  IInv'
  <2>1. copyref[c] = 0 /\ copyref \in [Copies -> Int] /\ \A m \in Nodes : file[m] # c
    BY <1>5 DEF Unused, IInv, Types
  <2>2. ~incell[c] /\ \A u \in Threads : fil[u] # c
    BY <2>1, Deserted
  <2>3. copyref' = [copyref EXCEPT ![c] = @ + 1]
    BY <1>5, <2>1
  <2>4. PICK k, place : k = "sign" /\ place = "parent"
    OBVIOUS
  <2>5. /\ call' = [call EXCEPT ![t] = k] /\ at' = [at EXCEPT ![t] = n] /\ Goto(t, place)
        /\ (k = "read" /\ place = "wait") \/ (k = "sign" /\ place = "parent")
        /\ Begin(t, n, c) /\ pc[t] = "idle" /\ filelock[n] = None
        /\ UNCHANGED <<dironly, incell, lock, todo>>
    BY <1>1, <1>2, <1>5, <2>4 DEF Ask
  <2>6. /\ Own(t)' /\ Alone(t) /\ LocksKept(t) /\ ~Signing(t)
        /\ fil'[t] = c
        /\ pc' \in [Threads -> Places] /\ call' \in [Threads -> Calls]
        /\ at' \in [Threads -> Nodes] /\ fil' \in [Threads -> Copies \cup {None}]
        /\ filelock' \in [Nodes -> Threads \cup {None}] /\ copyref' \in [Copies -> Int]
        /\ \A d \in Copies : copyref'[d] - Refs(t, d)' = copyref[d] - Refs(t, d)
    BY <2>3, <2>5, CallBegun
  <2>7. copy' \in [Copies -> [data : BOOLEAN, sig : 0..MaxVersion]]
    <3>1. [data |-> more, sig |-> 0] \in [data : BOOLEAN, sig : 0..MaxVersion]
      BY VersionsAreNumbers
    <3> QED BY <1>5, <3>1 DEF IInv, Types
  <2>8. Types'
    BY <1>1, <1>2, <2>6, <2>7 DEF IInv, Types
  <2>9. FreshInv'
    <3> SUFFICES ASSUME NEW u \in Threads, Signing(u)'
                 PROVE  /\ ~incell'[fil'[u]]
                        /\ \A v \in Threads \ {u} : fil'[v] # fil'[u]
                        /\ \A m \in Nodes : file'[m] # fil'[u]
      BY DEF FreshInv
    <3>1. CASE u = t
      <4>1. \A v \in Threads \ {t} : fil'[v] # c
        BY <2>2, <2>6 DEF Alone
      <4> QED BY <1>1, <2>1, <2>2, <2>6, <3>1, <4>1
    <3>2. CASE u # t
      <4>1. Signing(u) /\ fil'[u] = fil[u]
        BY <2>6, <3>2, OthersKept DEF Alone
      <4>2. /\ ~incell[fil[u]] /\ \A v \in Threads \ {u} : fil[v] # fil[u]
            /\ \A m \in Nodes : file[m] # fil[u]
        BY <4>1 DEF IInv, FreshInv
      <4>3. \A v \in Threads \ {u} : fil'[v] # fil[u]
        BY <2>2, <2>6, <3>2, <4>2 DEF Alone
      <4> QED BY <1>1, <4>1, <4>2, <4>3
    <3> QED BY <3>1, <3>2
  <2> QED BY <1>2, <2>6, <2>8, <2>9, Balance
<1> QED BY <1>3, <1>4, <1>5 DEF Read

\* Store keeps the invariant.
LEMMA StoreKeeps ==
    ASSUME IInv, NEW t \in Threads, Store(t)
    PROVE  IInv'
<1> DEFINE d == fil[t]
<1>1. /\ UNCHANGED <<ver, dironly, attr, copy, lock, filelock, call, at, fil, got, todo, crashed>>
      /\ pc[t] = "store" /\ file' = [file EXCEPT ![at[t]] = d]
      /\ cellref' = [cellref EXCEPT ![d] = 1] /\ incell' = [incell EXCEPT ![d] = TRUE]
      /\ copyref' = [copyref EXCEPT ![d] = @ + 1]
      /\ Goto(t, "size") \/ Goto(t, "wait")
  BY DEF Store, remote, locks, lists
<1>2. Types /\ CallOk(t) /\ FilOk(t)
  BY DEF IInv, Own
<1>3. Signing(t) /\ d \in Copies
  BY <1>1, <1>2 DEF CallOk, FilOk, HasFile, Signing, Types
<1>4. /\ ~incell[d] /\ \A u \in Threads \ {t} : fil[u] # d
      /\ \A n \in Nodes : file[n] # d
  BY <1>3 DEF IInv, FreshInv
<1> HIDE DEF d
<1>5. /\ Own(t)' /\ Alone(t) /\ LocksKept(t) /\ pc' \in [Threads -> Places]
      /\ pc'[t] \in {"size", "wait"}
  BY <1>1, Moved
<1>6. /\ file' \in [Nodes -> Copies \cup {None}] /\ cellref' \in [Copies -> Nat]
      /\ incell' \in [Copies -> BOOLEAN] /\ copyref' \in [Copies -> Int]
  BY <1>1, <1>2, <1>3 DEF Types
<1>7. Types'
  BY <1>1, <1>2, <1>5, <1>6 DEF Types
<1>8. MissingTrue'
  BY <1>1 DEF IInv, MissingTrue
<1>9. FreshInv'
  <2> SUFFICES ASSUME NEW u \in Threads, Signing(u)'
               PROVE  /\ ~incell'[fil[u]]
                      /\ \A v \in Threads \ {u} : fil[v] # fil[u]
                      /\ \A n \in Nodes : file'[n] # fil[u]
    BY <1>1 DEF FreshInv
  <2>1. u # t
    BY <1>5 DEF Signing
  <2>2. Signing(u)
    BY <1>5, <2>1, OthersKept
  <2>3. /\ ~incell[fil[u]] /\ \A v \in Threads \ {u} : fil[v] # fil[u]
        /\ \A n \in Nodes : file[n] # fil[u]
    BY <2>2 DEF IInv, FreshInv
  <2>4. fil[u] # d
    BY <1>4, <2>1
  <2>5. fil[u] \in Copies
    BY <1>2, <2>2 DEF IInv, Own, FilOk, HasFile, Signing, Types
  <2>6. incell'[fil[u]] = incell[fil[u]]
    BY <1>1, <1>2, <2>4, <2>5 DEF Types
  <2>7. \A n \in Nodes : file'[n] = file[n] \/ file'[n] = d
    BY <1>1, <1>2 DEF Types
  <2> QED BY <2>3, <2>4, <2>6, <2>7
<1>10. ASSUME NEW c \in Copies PROVE copyref'[c] - Refs(t, c)' = copyref[c] - Refs(t, c)
  <2>1. Users(c)' = Users(c)
    BY <1>1 DEF Users
  <2>2. CASE c # d
    <3>1. copyref'[c] = copyref[c] /\ incell'[c] = incell[c]
      BY <1>1, <1>2, <2>2 DEF Types
    <3> QED BY <2>1, <3>1 DEF Refs
  <2>3. CASE c = d
    <3>1. copyref[c] \in Int /\ copyref'[c] = copyref[c] + 1
      BY <1>1, <1>2, <2>3 DEF Types
    <3>2. incell[c] = FALSE /\ incell'[c] = TRUE
      BY <1>1, <1>2, <1>4, <2>3 DEF Types
    <3>3. Refs(t, c)' = One(t \in Users(c)) + 1 /\ Refs(t, c) = One(t \in Users(c)) + 0
      BY <2>1, <3>2 DEF Refs, One
    <3>4. One(t \in Users(c)) \in Int
      BY DEF One
    <3> HIDE DEF One
    <3> QED BY <3>1, <3>3, <3>4
  <2> QED BY <2>2, <2>3
<1> QED BY <1>5, <1>7, <1>8, <1>9, <1>10, Balance

\* Next keeps the invariant.
LEMMA NextKeeps ==
    ASSUME IInv, [Next]_vars
    PROVE  IInv'
<1>1. CASE UNCHANGED vars
  BY <1>1, StutterKeeps
<1>2. ASSUME NEW k \in Files, Modify(k) \/ Delete(k) PROVE IInv'
  BY <1>2, HostKeeps
<1>3. ASSUME NEW c \in Copies, Evict(c) PROVE IInv'
  BY <1>3, EvictKeeps
<1>4. ASSUME NEW t \in Threads, NEW n \in Nodes, Call(t, "attr", n) PROVE IInv'
  BY <1>4, CallKeeps
<1>5. ASSUME NEW t \in Threads, NEW n \in Files, Call(t, "open", n) PROVE IInv'
  BY <1>5, CallKeeps DEF Nodes, Kids
<1>6. ASSUME NEW t \in Threads, NEW n \in Dirs \cup {Root}, ReadDir(t, n) PROVE IInv'
  BY <1>6, ReadDirKeeps DEF Nodes, Kids
<1>7. ASSUME NEW t \in Threads, NEW n \in Files, Read(t, n) PROVE IInv'
  BY <1>7, ReadKeeps
<1>8. ASSUME NEW t \in Threads, Continue(t) PROVE IInv'
  BY <1>8, LockParentKeeps, LockNodeKeeps, ListFailsKeeps, ListSingleKeeps, ListKeeps,
     FillKeeps, FillEndKeeps, CheckCopyKeeps, CompareKeeps, DropKeeps, ClearKeeps,
     StoreKeeps, MoveKeeps, WaitKeeps DEF Continue
<1> QED BY <1>1, <1>2, <1>3, <1>4, <1>5, <1>6, <1>7, <1>8 DEF Next

\* The inductive invariant holds in every reachable state.
LEMMA Inductive == Spec => []IInv
<1>1. Init => IInv
  BY InitIInv
<1>2. IInv /\ [Next]_vars => IInv'
  BY NextKeeps
<1> QED BY <1>1, <1>2, PTL DEF Spec

----------------------------------------------------------------------------
(* Who waits for whom.                                                     *)

\* Only a call that has asked for an entry has its lock.
LEMMA KidHolder ==
    ASSUME IInv, NEW k \in Kids, NEW w \in Threads, lock[k] = w
    PROVE  at[w] = k /\ pc[w] \notin {"parent", "node"}
<1>1. k \in Nodes /\ k # Root
  BY NodesDiffer DEF Nodes
<1>2. Holds(w, k)
  BY <1>1 DEF IInv, Own, LockOk
<1> QED BY <1>1, <1>2 DEF Holds, HasNode, HasCheck

\* Who has the lock of the directory and waits for another has asked for an entry, or
\* fills in what the directory has.
LEMMA RootHolder ==
    ASSUME IInv, NEW w \in Threads, lock[Root] = w
    PROVE  pc[w] # "parent" /\ (pc[w] = "node" => at[w] # Root)
<1>1. Holds(w, Root)
  BY DEF IInv, Own, LockOk, Nodes
<1> QED BY <1>1 DEF Holds, HasNode, HasParent, HasCheck

\* Who fills in entries of the directory has its lock.
LEMMA FillerHolds ==
    ASSUME IInv, NEW w \in Threads, todo[w] # {}
    PROVE  pc[w] = "fill" /\ lock[Root] = w
<1>1. pc[w] = "fill" /\ Listed(w) = Root /\ LockOk(w)
  BY DEF IInv, Own, ListOk
<1>2. at[w] = Root \/ call[w] # "readdir"
  BY <1>1 DEF Listed
<1>3. Holds(w, Root)
  BY <1>1, <1>2 DEF Holds, HasNode, HasParent
<1> QED BY <1>1, <1>3 DEF LockOk, Nodes

\* Among those who wait there is one who waits for none of them.  It is one who fills
\* in entries, if there is one: there is only one who does, since he has the lock of the
\* directory, and those who have the locks of entries wait for nobody else.  If there is
\* none, it is one who waits for an entry, and if there is none of these either,
\* everybody: they all wait for who has the directory, who is not among them.
LEMMA Ordered == IInv => NoCircle
<1> SUFFICES ASSUME IInv, NEW T \in SUBSET Threads, T # {}
             PROVE  \E t \in T : Awaited(t) \cap T = {}
  BY DEF NoCircle
<1>1. lock \in [Nodes -> Threads \cup {None}] /\ at \in [Threads -> Nodes]
  BY DEF IInv, Types
<1>2. CASE \E t \in T : Awaited(t) = {}
  BY <1>2
<1>3. CASE \A t \in T : Awaited(t) # {}
  <2>1. \A t \in T : pc[t] \in {"parent", "node"} \/ (pc[t] = "fill" /\ todo[t] # {})
    BY <1>3 DEF Awaited
  <2>2. CASE \E t \in T : pc[t] = "fill"
    <3>1. PICK t \in T : pc[t] = "fill"
      BY <2>2
    <3>2. todo[t] # {} /\ lock[Root] = t
      BY <2>1, <3>1, FillerHolds
    <3>3. ASSUME NEW w \in Awaited(t) \cap T PROVE FALSE
      <4>1. PICK k \in todo[t] : ~Fillable(t, k) /\ w = lock[k]
        BY <3>1, <3>3 DEF Awaited
      <4>2. k \in Kids /\ w \in Threads /\ k # at[t]
        BY <4>1 DEF Fillable, IInv, Types
      <4>3. at[w] = k /\ pc[w] \notin {"parent", "node"}
        BY <4>1, <4>2, KidHolder
      <4>4. todo[w] # {}
        BY <2>1, <4>3
      <4>5. w = t
        BY <3>2, <4>2, <4>4, FillerHolds
      <4> QED BY <4>2, <4>3, <4>5
    <3> QED BY <3>3
  <2>3. CASE /\ \A t \in T : pc[t] \in {"parent", "node"}
             /\ \E t \in T : pc[t] = "node" /\ at[t] # Root
    <3>1. PICK t \in T : pc[t] = "node" /\ at[t] # Root
      BY <2>3
    <3>2. at[t] \in Kids
      BY <1>1, <3>1 DEF Nodes
    <3>3. Awaited(t) = {lock[at[t]]} \ {None}
      BY <3>1 DEF Awaited
    <3>4. ASSUME NEW w \in Awaited(t) \cap T PROVE FALSE
      <4>1. w = lock[at[t]] /\ w \in Threads /\ pc[w] \in {"parent", "node"}
        BY <2>3, <3>3
      <4> QED BY <3>2, <4>1, KidHolder
    <3> QED BY <3>4
  <2>4. CASE \A t \in T : pc[t] = "parent" \/ (pc[t] = "node" /\ at[t] = Root)
    <3>1. PICK t \in T : TRUE
      OBVIOUS
    <3>2. Awaited(t) = {lock[Root]} \ {None}
      BY <2>4, <3>1 DEF Awaited
    <3>3. ASSUME NEW w \in Awaited(t) \cap T PROVE FALSE
      <4>1. w = lock[Root] /\ w \in Threads
        BY <3>2
      <4>2. pc[w] = "parent" \/ (pc[w] = "node" /\ at[w] = Root)
        BY <2>4
      <4> QED BY <4>1, <4>2, RootHolder
    <3> QED BY <3>1, <3>3
  <2> QED BY <2>1, <2>2, <2>3, <2>4
<1> QED BY <1>2, <1>3

----------------------------------------------------------------------------
(* The theorems.                                                           *)

\* A local copy has a reference of each call that uses it and of its cell, and no
\* others: rem_get_file, rem_check_file and av_unref_obj never lose or forget one.
THEOREM CopiesCorrect == Spec => []CopiesExact
<1>1. IInv => CopiesExact
  BY DEF IInv
<1> QED BY <1>1, Inductive, PTL

\* rem_get_attr never finds that an entry is missing which has always been there,
\* whichever directory has been listed for it.
THEOREM MissingCorrect == Spec => []MissingTrue
<1>1. IInv => MissingTrue
  BY DEF IInv
<1> QED BY <1>1, Inductive, PTL

\* The locks of a node, of its parent and of its siblings, which rem_get_locked_node and
\* rem_list_dir take one by one, never leave calls waiting for each other in a circle.
THEOREM CircleCorrect == Spec => []NoCircle
BY Inductive, Ordered, PTL

\* The state has its types, and no reference to a copy is ever given back too often.
THEOREM TypeCorrect == Spec => []TypeOK
<1>1. ASSUME IInv PROVE TypeOK
  <2>1. ASSUME NEW c \in Copies PROVE copyref[c] \in Nat
    <3>1. Users(c) \subseteq Threads
      BY DEF Users
    <3>2. Cardinality(Users(c)) \in Nat
      BY <3>1, PartIsFinite, ThreadsCopiesFinite
    <3>3. copyref[c] = Cardinality(Users(c)) + (IF incell[c] THEN 1 ELSE 0)
      BY <1>1 DEF IInv, CopiesExact, Users
    <3> QED BY <3>2, <3>3
  <2>2. copyref \in [Copies -> Nat]
    BY <1>1, <2>1 DEF IInv, Types
  <2> QED BY <1>1, <2>2 DEF IInv, Types, TypeOK
<1> QED BY <1>1, Inductive, PTL

----------------------------------------------------------------------------
(* Ftp: the connections, what the client believes of them, and the replies *)
(* that are on their way.                                                  *)

\* A command and its reply, and the reply that ends a transfer.
Commands == {"NOOP", "PASS", "PWD", "TYPE", "CWD", "PASV", "RETR", "END"}
Queues(cmds) == {<<>>} \cup {<<[cmd |-> k, yes |-> b]>> : k \in cmds, b \in BOOLEAN}
TransferEnd == <<[cmd |-> "END", yes |-> TRUE]>>

Passwords == FtpPasswords \cup {AvfsPassword, "none"}
Servers == [up : BOOLEAN, pass : Passwords \cup {""}, type : {"A", "I"}, dir : FtpDirs \cup {"/"},
            replies : Queues(Commands)]
Connections == [pass : Passwords, busy : BOOLEAN, sock : BOOLEAN, binary : {"unset", "A", "I"},
                cwd : FtpDirs \cup {""}, untyped : BOOLEAN, server : Servers]
FtpPlaces == {"noop", "connect", "login", "pwd", "syst", "type", "cwd", "pasv", "transfer", "data", "final",
              "localfile", "got", "broken", "reply", "release", "fail", "crash"}
FtpRunning == [pc : FtpPlaces, op : {"list", "get"}, conn : Nat \ {0}, dir : FtpDirs, pass : Passwords,
               whole : BOOLEAN, ans : {"none", "ok"}]

\* What the client believes of the server is so: the type and the directory; and the user.
Believed(c) == /\ c.binary = "unset" \/ c.untyped \/ c.server.type = c.binary
               /\ c.cwd = "" \/ c.server.dir = c.cwd
LoggedIn(c) == c.sock => c.server.pass = c.pass

\* A closed connection has no directory, and its type only after a TYPE that was not
\* granted; an open one without a reply on its way is what it is believed to be.  The reply to
\* PASV is not left unread: the connection is closed then.
ConnOk(c) ==
    /\ c \in Connections /\ c.server.replies \in Queues(Commands \ {"PASV"})
    /\ ~c.sock => c.cwd = "" /\ (c.binary = "unset" \/ c.untyped)
    /\ c.sock /\ c.server.replies = <<>> => Believed(c)

TypeFor(f) == IF f.op = "list" THEN "A" ELSE "I"

\* What has to be true of the connection of a call f at a place.
PlaceOk(f, p, c) ==
    /\ p = "connect" => ~c.sock
    /\ p = "login" => c.server.replies = <<>>
    /\ p # "login" => LoggedIn(c)
    /\ p \in {"cwd", "pasv", "transfer"} => c.binary = TypeFor(f)
    /\ p \in {"pasv", "transfer"} => c.cwd = f.dir
    /\ p = "transfer" => c.sock /\ c.server.replies = <<>>
    /\ p \in {"data", "final", "localfile", "got", "reply"} =>
         /\ c.sock /\ c.server.replies = TransferEnd /\ Believed(c)
         /\ c.binary = TypeFor(f) /\ c.cwd = f.dir

\* What is true of a call f and its connection c.
FtpCallOk(f, c) ==
    /\ f \in FtpRunning /\ c.busy /\ c.pass = f.pass
    /\ PlaceOk(f, f.pc, c)
    /\ f.pc # "release" => f.ans = "none"
    /\ f.ans = "ok" /\ f.op = "get" => f.whole

\* The inductive invariant: every connection is what it should be, is of its user unless a
\* call has it, and is busy if and only if one call has it.
Using(t, i) == fcall[t].conn = i
FtpInv ==
    /\ conns \in Seq(Connections) /\ sessions \in [Accounts -> FtpPasswords \cup {"none"}]
    /\ DOMAIN fcall = FtpCalls /\ fcall \in [FtpCalls -> FtpRunning \cup {NoCall}]
    /\ \A i \in 1 .. Len(conns) : ConnOk(conns[i]) /\ (~conns[i].busy => LoggedIn(conns[i]))
    /\ \A t \in FtpCalls : fcall[t] # NoCall =>
         fcall[t].conn \in 1 .. Len(conns) /\ FtpCallOk(fcall[t], conns[fcall[t].conn])
    /\ \A i \in 1 .. Len(conns) : conns[i].busy => \E t \in FtpCalls : Using(t, i)
    /\ \A i \in 1 .. Len(conns) : \A t, u \in FtpCalls : Using(t, i) /\ Using(u, i) => t = u

\* A queue is empty or has one reply.
LEMMA QueueIs ==
    ASSUME NEW cmds
    PROVE  /\ <<>> \in Queues(cmds)
           /\ \A q \in Queues(cmds) : q = <<>> \/ \E k \in cmds, b \in BOOLEAN : q = <<[cmd |-> k, yes |-> b]>>
           /\ \A k \in cmds, b \in BOOLEAN : <<[cmd |-> k, yes |-> b]>> \in Queues(cmds)
BY DEF Queues

\* ftp_close_conn leaves a connection of which nothing is believed.
LEMMA FtpClosed ==
    ASSUME NEW c \in Connections, NEW d, d = ftp_close_conn(c)
    PROVE  /\ ConnOk(d) /\ LoggedIn(d) /\ ~d.sock /\ d.cwd = "" /\ d.binary = "unset"
           /\ d.busy = c.busy /\ d.pass = c.pass
<1>1. PICK s : s = NewServer
  OBVIOUS
<1>2. s \in Servers /\ s.replies = <<>>
  BY <1>1, QueueIs DEF NewServer, Servers
<1>3. d = [c EXCEPT !.sock = FALSE, !.binary = "unset", !.cwd = "", !.server = s]
  BY <1>1 DEF ftp_close_conn
<1>4. /\ d \in Connections /\ d.server = s /\ ~d.sock /\ d.cwd = "" /\ d.binary = "unset"
      /\ d.busy = c.busy /\ d.pass = c.pass
  BY <1>2, <1>3 DEF Connections
<1>5. d.server.replies \in Queues(Commands \ {"PASV"})
  BY <1>2, <1>4, QueueIs
<1> QED BY <1>4, <1>5 DEF ConnOk, LoggedIn

\* The reply at the head of a queue of one, and what is left.
LEMMA OneTail == ASSUME NEW e PROVE Head(<<e>>) = e /\ Tail(<<e>>) = <<>>
OBVIOUS

\* The queue has one reply at most: a command adds one and reads one.
LEMMA OneReply ==
    ASSUME NEW q \in Queues(Commands), NEW cmd \in Commands, NEW yes \in BOOLEAN, NEW e, e = [cmd |-> cmd, yes |-> yes]
    PROVE  /\ Tail(Append(q, e)) \in Queues(Commands)
           /\ q = <<>> => Head(Append(q, e)) = e /\ Tail(Append(q, e)) = <<>>
           /\ q # <<>> => q = <<Head(Append(q, e))>> /\ Tail(Append(q, e)) = <<e>>
<1>1. CASE q = <<>>
  <2>1. Append(q, e) = <<e>>
    BY <1>1
  <2>2. Head(<<e>>) = e /\ Tail(<<e>>) = <<>>
    BY OneTail
  <2> QED BY <1>1, <2>1, <2>2 DEF Queues
<1>2. ASSUME NEW r, q = <<r>>
      PROVE  Head(Append(q, e)) = r /\ Tail(Append(q, e)) = <<e>>
  <2>1. Append(<<r>>, e) = <<r, e>>
    <3>1. PICK S : S = {r, e}
      OBVIOUS
    <3>2. <<r>> \in Seq(S) /\ <<r, e>> \in Seq(S) /\ e \in S
      BY <3>1
    <3>3. Len(<<r>>) = 1 /\ <<r>>[1] = r
      OBVIOUS
    <3>4. Len(<<r, e>>) = 2 /\ <<r, e>>[1] = r /\ <<r, e>>[2] = e
      OBVIOUS
    <3>5. PICK s \in Seq(S) : s = <<r>>
      BY <3>2
    <3>6. /\ Append(s, e) \in Seq(S) /\ Len(Append(s, e)) = 2
          /\ Append(s, e)[1] = r /\ Append(s, e)[2] = e
      BY <3>2, <3>3, <3>5, AppendProperties
    <3>7. \A k \in 1 .. Len(Append(s, e)) : Append(s, e)[k] = <<r, e>>[k]
      BY <3>4, <3>6
    <3> QED BY <3>2, <3>4, <3>5, <3>6, <3>7, SeqEqual
  <2>2. Head(<<r, e>>) = r /\ Tail(<<r, e>>) = <<e>>
    OBVIOUS
  <2> QED BY <1>2, <2>1, <2>2
<1>3. q = <<>> \/ \E r : q = <<r>>
  BY QueueIs
<1>4. <<>> \in Queues(Commands) /\ <<e>> \in Queues(Commands)
  BY QueueIs
<1>5. \A r : <<r>> # <<>>
  OBVIOUS
<1> QED BY <1>1, <1>2, <1>3, <1>4, <1>5

\* What a connection is when a command was answered: nothing of the client has changed, and if
\* no reply was on its way, the reply is that of the command and the server has done it or not.
Replied(c, x, cmd, arg, s) ==
    /\ c.sock /\ x.reply \in {"yes", "no"} /\ s \in Servers /\ x.c = [c EXCEPT !.server = s]
    /\ s \in {[c.server EXCEPT !.replies = s.replies], [Carried(c.server, cmd, arg) EXCEPT !.replies = s.replies]}
    /\ c.server.replies = <<>> =>
         /\ s.replies = <<>> /\ x.cmd = cmd
         /\ x.reply = "yes" => s = [Carried(c.server, cmd, arg) EXCEPT !.replies = s.replies]
         /\ x.reply = "no"  => s = [c.server EXCEPT !.replies = s.replies]
    /\ c.server.replies # <<>> => s.replies # <<>> /\ s.replies \in Queues({cmd}) /\ x.cmd # "PASV"

\* What may come of a command: nothing, a closed connection, or a reply.
LEMMA Commanding ==
    ASSUME NEW c, ConnOk(c), NEW cmd \in Commands, NEW arg, NEW o \in Outcomes(c), NEW x,
           cmd = "PASS" => arg \in Passwords, cmd = "TYPE" => arg \in {"A", "I"}, cmd = "CWD" => arg \in FtpDirs,
           x = ftp_command(c, cmd, arg, o)
    PROVE  \/ x.c = c /\ x.reply = "error"
           \/ x.c = ftp_close_conn(c) /\ x.reply \in {"error", "421", "null"}
           \/ \E s : Replied(c, x, cmd, arg, s)
<1>1. o \in {"write", "lost", "yes", "no", "421", "421-"} /\ (o \in {"yes", "no"} => c.sock)
  BY DEF Outcomes
<1>2. CASE o = "write"
  BY <1>2 DEF ftp_command
<1>3. CASE o = "lost"
  BY <1>3 DEF ftp_command
<1>4. CASE o = "421"
  BY <1>4 DEF ftp_command
<1>5. CASE o = "421-"
  BY <1>5 DEF ftp_command
<1>6. CASE o \in {"yes", "no"}
  <2>1. /\ c.server \in Servers /\ c.server.replies \in Queues(Commands)
        /\ c.server.replies \in Queues(Commands \ {"PASV"})
    BY DEF ConnOk, Connections, Servers
  <2>2. PICK p : p = IF o = "yes" THEN Carried(c.server, cmd, arg) ELSE c.server
    OBVIOUS
  <2>3. p \in Servers /\ p.replies = c.server.replies
    <3>1. CASE o = "yes" /\ cmd = "PASS"
      <4>1. p = [c.server EXCEPT !.pass = arg]
        BY <2>2, <3>1 DEF Carried
      <4> QED BY <2>1, <3>1, <4>1 DEF Servers
    <3>2. CASE o = "yes" /\ cmd = "TYPE"
      <4>1. p = [c.server EXCEPT !.type = arg]
        BY <2>2, <3>2 DEF Carried
      <4> QED BY <2>1, <3>2, <4>1 DEF Servers
    <3>3. CASE o = "yes" /\ cmd = "CWD"
      <4>1. p = [c.server EXCEPT !.dir = arg]
        BY <2>2, <3>3 DEF Carried
      <4> QED BY <2>1, <3>3, <4>1 DEF Servers
    <3>4. CASE ~(o = "yes" /\ cmd \in {"PASS", "TYPE", "CWD"})
      <4>1. p = c.server
        BY <2>2, <3>4 DEF Carried
      <4> QED BY <2>1, <4>1
    <3> QED BY <3>1, <3>2, <3>3, <3>4
  <2>4. PICK yes \in BOOLEAN : yes = (o = "yes")
    OBVIOUS
  <2>5. PICK e : e = [cmd |-> cmd, yes |-> yes]
    OBVIOUS
  <2>6. PICK q \in Queues(Commands) : q = c.server.replies
    BY <2>1
  <2>7. PICK r : r = Tail(Append(q, e))
    OBVIOUS
  <2>8. PICK h : h = Head(Append(q, e))
    OBVIOUS
  <2>9. /\ r \in Queues(Commands)
        /\ q = <<>> => h = e /\ r = <<>>
        /\ q # <<>> => q = <<h>> /\ r = <<e>>
    BY <2>5, <2>7, <2>8, OneReply
  <2>10. PICK s : s = [p EXCEPT !.replies = r]
    OBVIOUS
  <2>11. s \in Servers /\ s.replies = r
    BY <2>3, <2>9, <2>10 DEF Servers
  <2>12. /\ x.c = [c EXCEPT !.server = s] /\ x.reply = (IF h.yes THEN "yes" ELSE "no") /\ x.cmd = h.cmd
    BY <1>6, <2>2, <2>3, <2>4, <2>5, <2>6, <2>7, <2>8, <2>10 DEF ftp_command
  <2>13. s \in {[c.server EXCEPT !.replies = s.replies], [Carried(c.server, cmd, arg) EXCEPT !.replies = s.replies]}
    BY <2>2, <2>10, <2>11
  <2>14. ASSUME q = <<>>
         PROVE  /\ s.replies = <<>> /\ x.cmd = cmd
                /\ x.reply = "yes" => s = [Carried(c.server, cmd, arg) EXCEPT !.replies = s.replies]
                /\ x.reply = "no"  => s = [c.server EXCEPT !.replies = s.replies]
    <3>1. h.yes = yes /\ h.cmd = cmd
      BY <2>5, <2>9, <2>14
    <3>2. x.reply = "yes" => o = "yes"
      BY <2>4, <2>12, <3>1
    <3>3. x.reply = "no" => o # "yes"
      BY <2>4, <2>12, <3>1
    <3> QED BY <2>2, <2>9, <2>10, <2>11, <2>12, <2>14, <3>1, <3>2, <3>3
  <2>15. ASSUME q # <<>>
         PROVE  s.replies # <<>> /\ s.replies \in Queues({cmd}) /\ x.cmd # "PASV"
    <3>1. PICK k \in Commands \ {"PASV"}, b \in BOOLEAN : q = <<[cmd |-> k, yes |-> b]>>
      BY <2>1, <2>6, <2>15, QueueIs
    <3>2. <<h>> = <<[cmd |-> k, yes |-> b]>>
      BY <2>9, <2>15, <3>1
    <3>3. \A u, v : <<u>> = <<v>> => u = v
      <4> TAKE u, v
      <4> HAVE <<u>> = <<v>>
      <4>1. <<u>>[1] = u /\ <<v>>[1] = v
        OBVIOUS
      <4> QED BY <4>1
    <3>4. h = [cmd |-> k, yes |-> b]
      BY <3>2, <3>3
    <3>5. x.cmd # "PASV"
      BY <2>12, <3>4
    <3>6. <<e>> \in Queues({cmd}) /\ <<e>> # <<>>
      BY <2>5, QueueIs
    <3> QED BY <2>9, <2>11, <2>15, <3>5, <3>6
  <2>16. x.reply \in {"yes", "no"} /\ c.sock
    BY <1>1, <1>6, <2>12
  <2>17. Replied(c, x, cmd, arg, s)
    BY <2>6, <2>11, <2>12, <2>13, <2>14, <2>15, <2>16 DEF Replied
  <2> QED BY <2>17
<1> QED BY <1>1, <1>2, <1>3, <1>4, <1>5, <1>6

\* A step of one call on its connection.
LEMMA OneCallMoves ==
    ASSUME FtpInv, NEW t \in FtpCalls, fcall[t] # NoCall, NEW d, NEW g, ConnOk(d), FtpCallOk(g, d),
           g.conn = fcall[t].conn, sessions' = sessions,
           conns' = [conns EXCEPT ![fcall[t].conn] = d], fcall' = [fcall EXCEPT ![t] = g]
    PROVE  FtpInv'
<1>1. PICK i : i = fcall[t].conn
  OBVIOUS
<1>2. i \in 1 .. Len(conns) /\ conns \in Seq(Connections) /\ Len(conns) \in Nat
  BY <1>1, LenProperties DEF FtpInv
<1>3. d \in Connections /\ g \in FtpRunning /\ d.busy
  BY DEF ConnOk, FtpCallOk
<1>4. /\ conns' \in Seq(Connections) /\ Len(conns') = Len(conns)
      /\ \A j \in 1 .. Len(conns) : conns'[j] = IF j = i THEN d ELSE conns[j]
  BY <1>1, <1>2, <1>3, ExceptSeq
<1>5. /\ DOMAIN fcall' = FtpCalls /\ fcall' \in [FtpCalls -> FtpRunning \cup {NoCall}]
      /\ \A u \in FtpCalls : fcall'[u] = IF u = t THEN g ELSE fcall[u]
  BY <1>3 DEF FtpInv
<1>6. g # NoCall
  <2>1. g.pc \in FtpPlaces
    BY <1>3 DEF FtpRunning
  <2>2. NoCall.pc = "idle"
    BY DEF NoCall
  <2>3. "idle" \notin FtpPlaces
    BY DEF FtpPlaces
  <2> QED BY <2>1, <2>2, <2>3
<1>7. \A u \in FtpCalls : fcall'[u].conn = fcall[u].conn
  BY <1>5
<1>8. \A u \in FtpCalls : u # t => fcall[u].conn # i
  BY <1>1, <1>2 DEF FtpInv, Using
<1>9. \A j \in 1 .. Len(conns') : ConnOk(conns'[j]) /\ (~conns'[j].busy => LoggedIn(conns'[j]))
  BY <1>3, <1>4 DEF FtpInv
<1>10. ASSUME NEW u \in FtpCalls, fcall'[u] # NoCall
       PROVE  fcall'[u].conn \in 1 .. Len(conns') /\ FtpCallOk(fcall'[u], conns'[fcall'[u].conn])
  <2>1. CASE u = t
    <3>1. fcall'[u] = g /\ fcall'[u].conn = i
      BY <1>1, <1>5, <2>1
    <3>2. conns'[i] = d
      BY <1>2, <1>4
    <3> QED BY <1>2, <1>4, <3>1, <3>2
  <2>2. CASE u # t
    <3>1. fcall'[u] = fcall[u] /\ fcall[u].conn # i
      BY <1>5, <1>8, <2>2
    <3>2. fcall[u].conn \in 1 .. Len(conns) /\ FtpCallOk(fcall[u], conns[fcall[u].conn])
      BY <1>10, <3>1 DEF FtpInv
    <3>3. conns'[fcall[u].conn] = conns[fcall[u].conn]
      BY <1>4, <3>1, <3>2
    <3> QED BY <1>4, <3>1, <3>2, <3>3
  <2> QED BY <2>1, <2>2
<1>11. \A j \in 1 .. Len(conns') : conns'[j].busy => \E u \in FtpCalls : Using(u, j)'
  <2> SUFFICES ASSUME NEW j \in 1 .. Len(conns'), conns'[j].busy PROVE \E u \in FtpCalls : Using(u, j)'
    OBVIOUS
  <2>1. CASE j = i
    BY <1>1, <1>7, <2>1 DEF Using
  <2>2. CASE j # i
    <3>1. PICK u \in FtpCalls : Using(u, j)
      BY <1>4, <2>2 DEF FtpInv
    <3> QED BY <1>7, <3>1 DEF Using
  <2> QED BY <2>1, <2>2
<1>12. \A j \in 1 .. Len(conns') : \A u, v \in FtpCalls : Using(u, j)' /\ Using(v, j)' => u = v
  BY <1>4, <1>7 DEF FtpInv, Using
<1>13. sessions' \in [Accounts -> FtpPasswords \cup {"none"}]
  BY DEF FtpInv
<1> QED BY <1>4, <1>5, <1>9, <1>10, <1>11, <1>12, <1>13 DEF FtpInv

\* A call goes on at another place.
LEMMA GoesOn ==
    ASSUME FtpInv, NEW t \in FtpCalls, fcall[t] # NoCall, fcall[t].ans = "none",
           NEW d, ConnOk(d), d.busy, d.pass = fcall[t].pass,
           NEW p \in FtpPlaces, PlaceOk(fcall[t], p, d),
           conns' = [conns EXCEPT ![fcall[t].conn] = d], fcall' = [fcall EXCEPT ![t].pc = p], sessions' = sessions
    PROVE  FtpInv'
<1>1. PICK f : f = fcall[t]
  OBVIOUS
<1>2. f \in FtpRunning
  BY <1>1 DEF FtpInv
<1>3. PICK g : g = [f EXCEPT !.pc = p]
  OBVIOUS
<1>4. /\ g \in FtpRunning /\ g.pc = p /\ g.conn = f.conn /\ g.op = f.op /\ g.dir = f.dir
      /\ g.pass = f.pass /\ g.ans = f.ans
  BY <1>2, <1>3 DEF FtpRunning
<1>5. PlaceOk(g, p, d)
  BY <1>1, <1>4 DEF PlaceOk, TypeFor
<1>6. FtpCallOk(g, d)
  BY <1>1, <1>4, <1>5 DEF FtpCallOk
<1>7. fcall' = [fcall EXCEPT ![t] = g]
  BY <1>1, <1>3
<1> QED BY <1>1, <1>4, <1>6, <1>7, OneCallMoves

\* What is then known of the connection.
RepliedTrue(c, x, cmd, arg, s) ==
    /\ x.c \in Connections /\ x.c.server = s /\ x.c.sock /\ c.sock
    /\ x.c.busy = c.busy /\ x.c.pass = c.pass /\ x.c.binary = c.binary
    /\ x.c.cwd = c.cwd /\ x.c.untyped = c.untyped
    /\ cmd # "PASS" => s.pass = c.server.pass
    /\ cmd # "TYPE" => s.type = c.server.type
    /\ cmd # "CWD"  => s.dir = c.server.dir
    /\ cmd # "PASV" => s.replies \in Queues(Commands \ {"PASV"})
    /\ s.replies = <<>> => c.server.replies = <<>>
    /\ c.server.replies = <<>> => s.replies = <<>> /\ x.cmd = cmd
    /\ c.server.replies # <<>> => x.cmd # "PASV"
    /\ c.server.replies = <<>> /\ x.reply = "yes" =>
         /\ cmd = "PASS" => s.pass = arg
         /\ cmd = "TYPE" => s.type = arg
         /\ cmd = "CWD"  => s.dir = arg

\* What a reply says of the connection, field by field.
LEMMA RepliedIs ==
    ASSUME NEW c, ConnOk(c), NEW cmd \in Commands, NEW arg, NEW x, NEW s, Replied(c, x, cmd, arg, s)
    PROVE  RepliedTrue(c, x, cmd, arg, s)
<1>1. c \in Connections /\ c.server \in Servers
  BY DEF ConnOk, Connections
<1>2. s \in Servers /\ x.c = [c EXCEPT !.server = s] /\ c.sock
  BY DEF Replied
<1>3. /\ x.c \in Connections /\ x.c.server = s /\ x.c.sock
      /\ x.c.busy = c.busy /\ x.c.pass = c.pass /\ x.c.binary = c.binary
      /\ x.c.cwd = c.cwd /\ x.c.untyped = c.untyped
  BY <1>1, <1>2 DEF Connections
<1>4. PICK k : k = Carried(c.server, cmd, arg)
  OBVIOUS
<1>5. /\ cmd # "PASS" => k.pass = c.server.pass
      /\ cmd # "TYPE" => k.type = c.server.type
      /\ cmd # "CWD"  => k.dir = c.server.dir
  BY <1>1, <1>4 DEF Carried, Servers
<1>6. /\ cmd = "PASS" => k.pass = arg
      /\ cmd = "TYPE" => k.type = arg
      /\ cmd = "CWD"  => k.dir = arg
  BY <1>1, <1>4 DEF Carried, Servers
<1>7. /\ [k EXCEPT !.replies = s.replies].pass = k.pass
      /\ [k EXCEPT !.replies = s.replies].type = k.type
      /\ [k EXCEPT !.replies = s.replies].dir = k.dir
      /\ [c.server EXCEPT !.replies = s.replies].pass = c.server.pass
      /\ [c.server EXCEPT !.replies = s.replies].type = c.server.type
      /\ [c.server EXCEPT !.replies = s.replies].dir = c.server.dir
  BY <1>1, <1>4 DEF Carried, Servers
<1>8. s \in {[c.server EXCEPT !.replies = s.replies], [k EXCEPT !.replies = s.replies]}
  BY <1>4 DEF Replied
<1>9. /\ cmd # "PASS" => s.pass = c.server.pass
      /\ cmd # "TYPE" => s.type = c.server.type
      /\ cmd # "CWD"  => s.dir = c.server.dir
  BY <1>5, <1>7, <1>8
<1>10. /\ s.replies = <<>> => c.server.replies = <<>>
       /\ c.server.replies = <<>> => s.replies = <<>> /\ x.cmd = cmd
       /\ c.server.replies # <<>> => x.cmd # "PASV" /\ s.replies \in Queues({cmd})
  BY DEF Replied
<1>11. cmd # "PASV" => s.replies \in Queues(Commands \ {"PASV"})
  <2> SUFFICES ASSUME cmd # "PASV" PROVE s.replies \in Queues(Commands \ {"PASV"})
    OBVIOUS
  <2>1. CASE s.replies = <<>>
    BY <2>1, QueueIs
  <2>2. CASE s.replies # <<>>
    <3>1. PICK q \in Queues({cmd}) : q = s.replies
      BY <1>10, <2>2
    <3>2. PICK j \in {cmd}, b \in BOOLEAN : q = <<[cmd |-> j, yes |-> b]>>
      BY <2>2, <3>1, QueueIs
    <3>3. j \in Commands \ {"PASV"}
      OBVIOUS
    <3> QED BY <3>1, <3>2, <3>3, QueueIs
  <2> QED BY <2>1, <2>2
<1>12. c.server.replies = <<>> /\ x.reply = "yes" =>
                /\ cmd = "PASS" => s.pass = arg
                /\ cmd = "TYPE" => s.type = arg
                /\ cmd = "CWD"  => s.dir = arg
  <2>1. c.server.replies = <<>> /\ x.reply = "yes" => s = [k EXCEPT !.replies = s.replies]
    BY <1>4 DEF Replied
  <2> QED BY <1>6, <1>7, <2>1
<1> QED BY <1>2, <1>3, <1>9, <1>10, <1>11, <1>12 DEF RepliedTrue

\* A command that changes nothing at the server leaves a connection as it should be.
LEMMA Harmless ==
    ASSUME NEW c, ConnOk(c), LoggedIn(c), NEW cmd \in {"NOOP", "PWD", "RETR"}, NEW arg, NEW o \in Outcomes(c),
           NEW x, x = ftp_command(c, cmd, arg, o)
    PROVE  /\ ConnOk(x.c) /\ LoggedIn(x.c) /\ x.c.busy = c.busy /\ x.c.pass = c.pass
           /\ x.reply = "421" => ~x.c.sock
           /\ x.reply = "yes" => /\ x.c.sock /\ (c.server.replies = <<>> => x.c.server.replies = <<>>)
                                 /\ x.c.binary = c.binary /\ x.c.cwd = c.cwd
<1>1. cmd \in Commands /\ cmd \notin {"PASS", "TYPE", "CWD", "PASV"}
  BY DEF Commands
<1>2. c \in Connections
  BY DEF ConnOk
<1>3. CASE x.c = c /\ x.reply = "error"
  BY <1>3
<1>4. CASE x.c = ftp_close_conn(c) /\ x.reply \in {"error", "421", "null"}
  BY <1>2, <1>4, FtpClosed
<1>5. CASE \E s : Replied(c, x, cmd, arg, s)
  <2>1. PICK s : Replied(c, x, cmd, arg, s)
    BY <1>5
  <2>2. RepliedTrue(c, x, cmd, arg, s)
    BY <1>1, <2>1, RepliedIs
  <2>3. /\ x.c \in Connections /\ x.c.server = s /\ x.c.sock /\ c.sock
        /\ x.c.busy = c.busy /\ x.c.pass = c.pass /\ x.c.binary = c.binary
        /\ x.c.cwd = c.cwd /\ x.c.untyped = c.untyped
        /\ s.pass = c.server.pass /\ s.type = c.server.type /\ s.dir = c.server.dir
        /\ s.replies \in Queues(Commands \ {"PASV"})
        /\ s.replies = <<>> => c.server.replies = <<>>
        /\ c.server.replies = <<>> => s.replies = <<>>
    BY <1>1, <2>2 DEF RepliedTrue
  <2>4. x.reply # "421"
    BY <2>1 DEF Replied
  <2> QED BY <2>3, <2>4 DEF ConnOk, LoggedIn, Believed
<1> QED BY <1>1, <1>3, <1>4, <1>5, Commanding

\* What is known of a call that has begun, and of its connection.
LEMMA CallWorks ==
    ASSUME FtpInv, NEW t \in FtpCalls, fcall[t].pc # "idle"
    PROVE  /\ fcall[t] # NoCall /\ fcall[t] \in FtpRunning /\ fcall[t].conn \in 1 .. Len(conns)
           /\ ConnOk(conns[fcall[t].conn]) /\ FtpCallOk(fcall[t], conns[fcall[t].conn])
           /\ conns[fcall[t].conn].busy /\ conns[fcall[t].conn].pass = fcall[t].pass
           /\ PlaceOk(fcall[t], fcall[t].pc, conns[fcall[t].conn])
           /\ fcall[t].pc # "release" => fcall[t].ans = "none"
<1>1. fcall[t] # NoCall
  <2>1. NoCall.pc = "idle"
    BY DEF NoCall
  <2> QED BY <2>1
<1> QED BY <1>1 DEF FtpInv, FtpCallOk

\* Where a call goes on with a connection of which all that is believed is true.
LEMMA NextPlace ==
    ASSUME NEW t, fcall[t] \in FtpRunning, NEW d, ConnOk(d), LoggedIn(d)
    PROVE  /\ d.binary = TypeFor(fcall[t]) =>
                AfterType(d, t) \in FtpPlaces /\ PlaceOk(fcall[t], AfterType(d, t), d)
           /\ AfterOpen(d, t) \in FtpPlaces /\ PlaceOk(fcall[t], AfterOpen(d, t), d)
<1>1. Type(t) = TypeFor(fcall[t])
  BY DEF Type, TypeFor
<1>2. "type" \in FtpPlaces /\ "cwd" \in FtpPlaces /\ "pasv" \in FtpPlaces
  BY DEF FtpPlaces
<1>3. ASSUME d.binary = TypeFor(fcall[t])
      PROVE  AfterType(d, t) \in FtpPlaces /\ PlaceOk(fcall[t], AfterType(d, t), d)
  BY <1>2, <1>3 DEF AfterType, PlaceOk
<1>4. CASE d.binary # TypeFor(fcall[t])
  <2>1. AfterOpen(d, t) = "type"
    BY <1>1, <1>4 DEF AfterOpen
  <2> QED BY <1>2, <1>3, <2>1 DEF PlaceOk
<1>5. CASE d.binary = TypeFor(fcall[t])
  <2>1. AfterOpen(d, t) = AfterType(d, t)
    BY <1>1, <1>5 DEF AfterOpen
  <2> QED BY <1>3, <1>5, <2>1
<1> QED BY <1>3, <1>4, <1>5

\* At these places nothing is known of a connection but that it is that of the call.
LEMMA FreePlaces ==
    ASSUME NEW f, NEW d, LoggedIn(d)
    PROVE  \A p \in {"fail", "crash", "pwd", "syst", "type", "noop"} : p \in FtpPlaces /\ PlaceOk(f, p, d)
BY DEF FtpPlaces, PlaceOk

\* ftp_open_conn asks whether a kept connection is still there.
LEMMA FtpNoop == ASSUME FtpInv, NEW t \in FtpCalls, ftp_noop(t) PROVE FtpInv'
<1>1. PICK f, c : f = fcall[t] /\ c = conns[f.conn]
  OBVIOUS
<1>2. /\ f # NoCall /\ f \in FtpRunning /\ ConnOk(c) /\ c.busy /\ c.pass = f.pass
      /\ PlaceOk(f, "noop", c) /\ f.ans = "none"
  BY <1>1, CallWorks DEF ftp_noop
<1>3. LoggedIn(c)
  BY <1>2 DEF PlaceOk
<1>4. PICK o, x :
        /\ o \in Outcomes(c)
        /\ x = ftp_command(c, "NOOP", "", o)
        /\ conns' = [conns EXCEPT ![f.conn] = x.c]
        /\ fcall' = [fcall EXCEPT ![t].pc = IF x.reply = "null" THEN "crash" ELSE IF x.reply = "error" THEN "fail"
                                            ELSE IF x.reply = "421" THEN "connect" ELSE AfterOpen(x.c, t)]
        /\ sessions' = sessions
  BY <1>1 DEF ftp_noop, Exchange, Goes
<1>5. /\ ConnOk(x.c) /\ LoggedIn(x.c) /\ x.c.busy = c.busy /\ x.c.pass = c.pass
      /\ x.reply = "421" => ~x.c.sock
  BY <1>2, <1>3, <1>4, Harmless
<1>6. PICK p : p = IF x.reply = "null" THEN "crash" ELSE IF x.reply = "error" THEN "fail"
                   ELSE IF x.reply = "421" THEN "connect" ELSE AfterOpen(x.c, t)
  OBVIOUS
<1>7. p \in FtpPlaces /\ PlaceOk(f, p, x.c)
  <2>1. CASE p \in {"crash", "fail"}
    BY <1>5, <2>1, FreePlaces
  <2>2. CASE x.reply = "421" /\ p = "connect"
    BY <1>5, <2>2 DEF FtpPlaces, PlaceOk
  <2>3. CASE p = AfterOpen(x.c, t)
    BY <1>1, <1>2, <1>5, <2>3, NextPlace
  <2> QED BY <1>6, <2>1, <2>2, <2>3
<1> QED BY <1>1, <1>2, <1>4, <1>5, <1>6, <1>7, GoesOn

\* ftp_init_conn connects to the server.
LEMMA FtpConnect == ASSUME FtpInv, NEW t \in FtpCalls, ftp_connect(t) PROVE FtpInv'
<1>1. PICK f, c : f = fcall[t] /\ c = conns[f.conn]
  OBVIOUS
<1>2. /\ f # NoCall /\ f \in FtpRunning /\ ConnOk(c) /\ c.busy /\ c.pass = f.pass
      /\ PlaceOk(f, "connect", c) /\ f.ans = "none" /\ f.conn \in 1 .. Len(conns)
  BY <1>1, CallWorks DEF ftp_connect
<1>3. PICK ok \in BOOLEAN :
        /\ conns' = [conns EXCEPT ![f.conn].sock = ok, ![f.conn].server = NewServer]
        /\ fcall' = [fcall EXCEPT ![t].pc = IF ok THEN "login" ELSE "fail"]
        /\ sessions' = sessions
  <2>1. (IF ftpfaults > 0 THEN BOOLEAN ELSE {TRUE}) \subseteq BOOLEAN
    OBVIOUS
  <2> QED BY <1>1, <2>1 DEF ftp_connect
<1>4. PICK s : s = NewServer
  OBVIOUS
<1>5. s \in Servers /\ s.replies = <<>>
  BY <1>4, QueueIs DEF NewServer, Servers
<1>6. PICK d : d = [c EXCEPT !.sock = ok, !.server = s]
  OBVIOUS
<1>7. conns' = [conns EXCEPT ![f.conn] = d]
  <2>1. f.conn \in DOMAIN conns /\ DOMAIN conns = 1 .. Len(conns)
    BY <1>2, LenProperties DEF FtpInv
  <2> QED BY <1>1, <1>3, <1>4, <1>6, <2>1
<1>8. c \in Connections
  BY <1>2 DEF ConnOk
<1>9. /\ d \in Connections /\ d.busy = c.busy /\ d.pass = c.pass /\ d.sock = ok /\ d.server = s
      /\ d.binary = c.binary /\ d.cwd = c.cwd /\ d.untyped = c.untyped
  BY <1>5, <1>6, <1>8 DEF Connections
<1>10. c.cwd = "" /\ (c.binary = "unset" \/ c.untyped)
  BY <1>2 DEF ConnOk, PlaceOk
<1>11. d.server.replies \in Queues(Commands \ {"PASV"})
  BY <1>5, <1>9, QueueIs
<1>12. ConnOk(d)
  BY <1>9, <1>10, <1>11 DEF ConnOk, Believed
<1>13. PICK p : p = IF ok THEN "login" ELSE "fail"
  OBVIOUS
<1>14. p \in FtpPlaces /\ PlaceOk(f, p, d)
  BY <1>5, <1>9, <1>13 DEF FtpPlaces, PlaceOk, LoggedIn
<1> QED BY <1>1, <1>2, <1>3, <1>7, <1>9, <1>12, <1>13, <1>14, GoesOn

\* ftp_login gives the password that the connection was made for.
LEMMA FtpLogin == ASSUME FtpInv, NEW t \in FtpCalls, ftp_login(t) PROVE FtpInv'
<1>1. PICK f, c : f = fcall[t] /\ c = conns[f.conn]
  OBVIOUS
<1>2. /\ f # NoCall /\ f \in FtpRunning /\ ConnOk(c) /\ c.busy /\ c.pass = f.pass
      /\ PlaceOk(f, "login", c) /\ f.ans = "none"
  BY <1>1, CallWorks DEF ftp_login
<1>3. PICK o, x, d, p :
        /\ o \in Outcomes(c)
        /\ x = ftp_command(c, "PASS", c.pass, o)
        /\ d = IF x.reply = "yes" THEN x.c ELSE ftp_close_conn(x.c)
        /\ p = IF x.reply = "null" THEN "crash" ELSE IF x.reply = "yes" THEN "pwd" ELSE "fail"
        /\ conns' = [conns EXCEPT ![f.conn] = d]
        /\ fcall' = [fcall EXCEPT ![t].pc = p]
        /\ sessions' = sessions
  <2>1. PICK o \in Outcomes(c) : LET x == ftp_command(c, "PASS", c.pass, o) IN
          /\ conns' = [conns EXCEPT ![f.conn] = (IF x.reply = "yes" THEN Goes(x.c, "pwd")
                                                 ELSE Goes(ftp_close_conn(x.c), "fail")).c]
          /\ fcall' = [fcall EXCEPT ![t].pc = IF x.reply = "null" THEN "crash" ELSE
                                                (IF x.reply = "yes" THEN Goes(x.c, "pwd")
                                                 ELSE Goes(ftp_close_conn(x.c), "fail")).pc]
          /\ sessions' = sessions
    BY <1>1 DEF ftp_login, Exchange
  <2>2. PICK x : x = ftp_command(c, "PASS", c.pass, o)
    OBVIOUS
  <2>3. PICK d : d = IF x.reply = "yes" THEN x.c ELSE ftp_close_conn(x.c)
    OBVIOUS
  <2>4. PICK p : p = IF x.reply = "null" THEN "crash" ELSE IF x.reply = "yes" THEN "pwd" ELSE "fail"
    OBVIOUS
  <2>5. /\ (IF x.reply = "yes" THEN Goes(x.c, "pwd") ELSE Goes(ftp_close_conn(x.c), "fail")).c = d
        /\ (IF x.reply = "yes" THEN Goes(x.c, "pwd") ELSE Goes(ftp_close_conn(x.c), "fail")).pc
             = IF x.reply = "yes" THEN "pwd" ELSE "fail"
    BY <2>3 DEF Goes
  <2>6. conns' = [conns EXCEPT ![f.conn] = d] /\ fcall' = [fcall EXCEPT ![t].pc = p] /\ sessions' = sessions
    BY <2>1, <2>2, <2>4, <2>5
  <2> QED BY <2>2, <2>3, <2>4, <2>6
<1>4. c \in Connections /\ c.pass \in Passwords /\ "PASS" \in Commands
  BY <1>2 DEF ConnOk, Connections, Commands
<1>5. \/ x.c = c /\ x.reply = "error"
      \/ x.c = ftp_close_conn(c) /\ x.reply \in {"error", "421", "null"}
      \/ \E s : Replied(c, x, "PASS", c.pass, s)
  BY <1>2, <1>3, <1>4, Commanding
<1>6. /\ x.c \in Connections /\ x.c.busy = c.busy /\ x.c.pass = c.pass
      /\ x.reply = "yes" => ConnOk(x.c) /\ LoggedIn(x.c)
  <2>1. CASE x.c = c /\ x.reply = "error"
    BY <1>4, <2>1
  <2>2. CASE x.c = ftp_close_conn(c) /\ x.reply \in {"error", "421", "null"}
    BY <1>4, <2>2, FtpClosed DEF ConnOk
  <2>3. CASE \E s : Replied(c, x, "PASS", c.pass, s)
    <3>1. PICK s : Replied(c, x, "PASS", c.pass, s)
      BY <2>3
    <3>2. RepliedTrue(c, x, "PASS", c.pass, s)
      BY <1>2, <1>4, <3>1, RepliedIs
    <3>3. /\ x.c \in Connections /\ x.c.server = s /\ x.c.sock /\ c.sock
          /\ x.c.busy = c.busy /\ x.c.pass = c.pass /\ x.c.binary = c.binary
          /\ x.c.cwd = c.cwd /\ x.c.untyped = c.untyped
          /\ s.type = c.server.type /\ s.dir = c.server.dir
          /\ s.replies \in Queues(Commands \ {"PASV"})
          /\ c.server.replies = <<>> /\ x.reply = "yes" => s.pass = c.pass
      BY <3>2 DEF RepliedTrue
    <3>4. c.server.replies = <<>>
      BY <1>2 DEF PlaceOk
    <3> QED BY <1>2, <3>3, <3>4 DEF ConnOk, LoggedIn, Believed
  <2> QED BY <1>5, <2>1, <2>2, <2>3
<1>7. ConnOk(d) /\ LoggedIn(d) /\ d.busy = c.busy /\ d.pass = c.pass
  <2>1. CASE x.reply = "yes"
    BY <1>3, <1>6, <2>1
  <2>2. CASE x.reply # "yes"
    BY <1>3, <1>6, <2>2, FtpClosed
  <2> QED BY <2>1, <2>2
<1>8. p \in FtpPlaces /\ PlaceOk(f, p, d)
  BY <1>3, <1>7, FreePlaces
<1> QED BY <1>1, <1>2, <1>3, <1>7, <1>8, GoesOn, ZenonT(40)

\* PWD and SYST, whose replies are not looked at.
LEMMA FtpInitConn == ASSUME FtpInv, NEW t \in FtpCalls, ftp_init_conn(t) PROVE FtpInv'
<1>1. PICK f, c : f = fcall[t] /\ c = conns[f.conn]
  OBVIOUS
<1>2. /\ f # NoCall /\ f \in FtpRunning /\ ConnOk(c) /\ c.busy /\ c.pass = f.pass
      /\ PlaceOk(f, f.pc, c) /\ f.ans = "none" /\ f.pc \in {"pwd", "syst"}
  BY <1>1, CallWorks DEF ftp_init_conn
<1>3. LoggedIn(c)
  BY <1>2 DEF PlaceOk
<1>4. PICK o, x :
        /\ o \in Outcomes(c)
        /\ x = ftp_command(c, "PWD", "", o)
        /\ conns' = [conns EXCEPT ![f.conn] = x.c]
        /\ fcall' = [fcall EXCEPT ![t].pc = IF x.reply = "null" THEN "crash"
                                            ELSE IF f.pc = "pwd" THEN "syst" ELSE AfterOpen(x.c, t)]
        /\ sessions' = sessions
  BY <1>1 DEF ftp_init_conn, Exchange, Goes
<1>5. ConnOk(x.c) /\ LoggedIn(x.c) /\ x.c.busy = c.busy /\ x.c.pass = c.pass
  BY <1>2, <1>3, <1>4, Harmless
<1>6. PICK p : p = IF x.reply = "null" THEN "crash" ELSE IF f.pc = "pwd" THEN "syst" ELSE AfterOpen(x.c, t)
  OBVIOUS
<1>7. p \in FtpPlaces /\ PlaceOk(f, p, x.c)
  <2>1. CASE p \in {"crash", "syst"}
    BY <1>5, <2>1, FreePlaces
  <2>2. CASE p = AfterOpen(x.c, t)
    BY <1>1, <1>2, <1>5, <2>2, NextPlace
  <2> QED BY <1>6, <2>1, <2>2
<1> QED BY <1>1, <1>2, <1>4, <1>5, <1>6, <1>7, GoesOn

\* ftp_set_ascii or ftp_set_binary.
LEMMA FtpSetType == ASSUME FtpInv, NEW t \in FtpCalls, ftp_set_type(t) PROVE FtpInv'
<1>1. PICK f, c : f = fcall[t] /\ c = conns[f.conn]
  OBVIOUS
<1>2. /\ f # NoCall /\ f \in FtpRunning /\ ConnOk(c) /\ c.busy /\ c.pass = f.pass
      /\ PlaceOk(f, "type", c) /\ f.ans = "none"
  BY <1>1, CallWorks DEF ftp_set_type
<1>3. LoggedIn(c) /\ c \in Connections
  BY <1>2 DEF PlaceOk, ConnOk
<1>4. PICK type \in {"A", "I"} : type = Type(t) /\ type = TypeFor(f)
  BY <1>1 DEF Type, TypeFor
<1>5. PICK o \in Outcomes(c) : LET x == ftp_command(c, "TYPE", type, o)
                                   y == IF x.reply = "error" THEN Goes(x.c, "fail")
                                        ELSE Goes([x.c EXCEPT !.binary = type, !.untyped = x.reply # "yes"],
                                                  AfterType(x.c, t))
        IN /\ conns' = [conns EXCEPT ![f.conn] = y.c]
           /\ fcall' = [fcall EXCEPT ![t].pc = IF x.reply = "null" THEN "crash" ELSE y.pc]
           /\ sessions' = sessions
  BY <1>1, <1>4 DEF ftp_set_type, Exchange
<1>6. PICK x : x = ftp_command(c, "TYPE", type, o)
  OBVIOUS
<1>7. PICK d : d = IF x.reply = "error" THEN x.c ELSE [x.c EXCEPT !.binary = type, !.untyped = x.reply # "yes"]
  OBVIOUS
<1>8. PICK p : p = IF x.reply = "null" THEN "crash" ELSE IF x.reply = "error" THEN "fail" ELSE AfterType(x.c, t)
  OBVIOUS
<1>9. conns' = [conns EXCEPT ![f.conn] = d] /\ fcall' = [fcall EXCEPT ![t].pc = p] /\ sessions' = sessions
  <2>1. CASE x.reply = "error"
    BY <1>5, <1>6, <1>7, <1>8, <2>1 DEF Goes
  <2>2. CASE x.reply # "error"
    BY <1>5, <1>6, <1>7, <1>8, <2>2 DEF Goes
  <2> QED BY <2>1, <2>2
<1>10. "TYPE" \in Commands
  BY DEF Commands
<1>11. \/ x.c = c /\ x.reply = "error"
       \/ x.c = ftp_close_conn(c) /\ x.reply \in {"error", "421", "null"}
       \/ \E s : Replied(c, x, "TYPE", type, s)
  BY <1>2, <1>6, <1>10, Commanding
<1>12. ASSUME x.c \in Connections, x.reply # "error"
       PROVE  /\ d \in Connections /\ d.binary = type /\ d.untyped = (x.reply # "yes")
              /\ d.busy = x.c.busy /\ d.pass = x.c.pass /\ d.sock = x.c.sock /\ d.cwd = x.c.cwd
              /\ d.server = x.c.server
  <2>1. PICK u \in BOOLEAN : u = (x.reply # "yes")
    OBVIOUS
  <2>2. d = [x.c EXCEPT !.binary = type, !.untyped = u]
    BY <1>7, <1>12, <2>1
  <2> QED BY <1>12, <2>1, <2>2 DEF Connections
<1>13. ConnOk(d) /\ LoggedIn(d) /\ d.busy = c.busy /\ d.pass = c.pass /\ (x.reply # "error" => d.binary = type)
  <2>1. CASE x.c = c /\ x.reply = "error"
    BY <1>2, <1>3, <1>7, <2>1
  <2>2. CASE x.c = ftp_close_conn(c) /\ x.reply \in {"error", "421", "null"}
    <3>1. /\ ConnOk(x.c) /\ LoggedIn(x.c) /\ ~x.c.sock /\ x.c.cwd = ""
          /\ x.c.busy = c.busy /\ x.c.pass = c.pass /\ x.c \in Connections
      BY <1>3, <2>2, FtpClosed DEF ConnOk
    <3>2. CASE x.reply = "error"
      BY <1>7, <3>1, <3>2
    <3>3. CASE x.reply # "error"
      <4>1. d.untyped
        BY <1>12, <2>2, <3>1, <3>3
      <4> QED BY <1>12, <3>1, <3>3, <4>1 DEF ConnOk, LoggedIn
    <3> QED BY <3>2, <3>3
  <2>3. CASE \E s : Replied(c, x, "TYPE", type, s)
    <3>1. PICK s : Replied(c, x, "TYPE", type, s)
      BY <2>3
    <3>2. RepliedTrue(c, x, "TYPE", type, s)
      BY <1>2, <1>10, <3>1, RepliedIs
    <3>3. /\ x.c \in Connections /\ x.c.server = s /\ x.c.sock /\ c.sock
          /\ x.c.busy = c.busy /\ x.c.pass = c.pass /\ x.c.cwd = c.cwd
          /\ s.pass = c.server.pass /\ s.dir = c.server.dir
          /\ s.replies \in Queues(Commands \ {"PASV"})
          /\ s.replies = <<>> => c.server.replies = <<>>
          /\ c.server.replies = <<>> /\ x.reply = "yes" => s.type = type
      BY <3>2 DEF RepliedTrue
    <3>4. x.reply # "error"
      BY <3>1 DEF Replied
    <3>5. s.replies = <<>> => (d.untyped \/ s.type = type) /\ (c.cwd = "" \/ c.server.dir = c.cwd)
      <4>1. ~d.untyped => x.reply = "yes"
        BY <1>12, <3>3, <3>4
      <4> QED BY <1>2, <3>3, <4>1 DEF ConnOk, Believed
    <3>6. d.sock /\ d.server = s /\ d.cwd = c.cwd /\ d.binary = type /\ d \in Connections
          /\ d.busy = c.busy /\ d.pass = c.pass
      BY <1>12, <3>3, <3>4
    <3>7. ConnOk(d)
      BY <3>3, <3>5, <3>6 DEF ConnOk, Believed
    <3>8. LoggedIn(d)
      BY <1>3, <3>3, <3>6 DEF LoggedIn
    <3> QED BY <3>6, <3>7, <3>8
  <2> QED BY <1>11, <2>1, <2>2, <2>3
<1>14. p \in FtpPlaces /\ PlaceOk(f, p, d)
  <2>1. CASE p \in {"crash", "fail"}
    BY <1>13, <2>1, FreePlaces
  <2>2. CASE p = AfterType(x.c, t) /\ x.reply # "error"
    <3>1. d.binary = TypeFor(f)
      BY <1>4, <1>13, <2>2
    <3>2. d.cwd = x.c.cwd
      <4>1. d = [x.c EXCEPT !.binary = type, !.untyped = x.reply # "yes"]
        BY <1>7, <2>2
      <4>2. x.c \in Connections
        <5>1. CASE \E s : Replied(c, x, "TYPE", type, s)
          <6>1. PICK s : Replied(c, x, "TYPE", type, s)
            BY <5>1
          <6>2. RepliedTrue(c, x, "TYPE", type, s)
            BY <1>2, <1>10, <6>1, RepliedIs
          <6> QED BY <6>2 DEF RepliedTrue
        <5>2. CASE x.c = ftp_close_conn(c)
          BY <1>3, <5>2, FtpClosed DEF ConnOk
        <5> QED BY <1>11, <2>2, <5>1, <5>2
      <4> QED BY <1>12, <2>2, <4>2
    <3>3. AfterType(x.c, t) = AfterType(d, t)
      BY <3>2 DEF AfterType
    <3> QED BY <1>1, <1>2, <1>13, <2>2, <3>1, <3>3, NextPlace
  <2> QED BY <1>8, <2>1, <2>2
<1> QED BY <1>1, <1>2, <1>9, <1>13, <1>14, GoesOn

\* ftp_set_cwd.
LEMMA FtpSetCwd == ASSUME FtpInv, NEW t \in FtpCalls, ftp_set_cwd(t) PROVE FtpInv'
<1>1. PICK f, c : f = fcall[t] /\ c = conns[f.conn]
  OBVIOUS
<1>2. /\ f # NoCall /\ f \in FtpRunning /\ ConnOk(c) /\ c.busy /\ c.pass = f.pass
      /\ PlaceOk(f, "cwd", c) /\ f.ans = "none"
  BY <1>1, CallWorks DEF ftp_set_cwd
<1>3. LoggedIn(c) /\ c \in Connections /\ c.binary = TypeFor(f)
  BY <1>2 DEF PlaceOk, ConnOk
<1>4. PICK dir \in FtpDirs : dir = f.dir
  BY <1>2 DEF FtpRunning
<1>5. PICK o \in Outcomes(c) : LET x == ftp_command(c, "CWD", dir, o)
                                   y == IF x.reply = "yes" THEN Goes([x.c EXCEPT !.cwd = dir], "pasv")
                                        ELSE Goes(x.c, "fail")
        IN /\ conns' = [conns EXCEPT ![f.conn] = y.c]
           /\ fcall' = [fcall EXCEPT ![t].pc = IF x.reply = "null" THEN "crash" ELSE y.pc]
           /\ sessions' = sessions
  BY <1>1, <1>4 DEF ftp_set_cwd, Exchange
<1>6. PICK x : x = ftp_command(c, "CWD", dir, o)
  OBVIOUS
<1>7. PICK d : d = IF x.reply = "yes" THEN [x.c EXCEPT !.cwd = dir] ELSE x.c
  OBVIOUS
<1>8. PICK p : p = IF x.reply = "null" THEN "crash" ELSE IF x.reply = "yes" THEN "pasv" ELSE "fail"
  OBVIOUS
<1>9. conns' = [conns EXCEPT ![f.conn] = d] /\ fcall' = [fcall EXCEPT ![t].pc = p] /\ sessions' = sessions
  <2>1. CASE x.reply = "yes"
    BY <1>5, <1>6, <1>7, <1>8, <2>1 DEF Goes
  <2>2. CASE x.reply # "yes"
    BY <1>5, <1>6, <1>7, <1>8, <2>2 DEF Goes
  <2> QED BY <2>1, <2>2
<1>10. "CWD" \in Commands
  BY DEF Commands
<1>11. \/ x.c = c /\ x.reply = "error"
       \/ x.c = ftp_close_conn(c) /\ x.reply \in {"error", "421", "null"}
       \/ \E s : Replied(c, x, "CWD", dir, s)
  BY <1>2, <1>6, <1>10, Commanding
<1>12. /\ ConnOk(d) /\ LoggedIn(d) /\ d.busy = c.busy /\ d.pass = c.pass
       /\ x.reply = "yes" => d.cwd = dir /\ d.binary = c.binary
  <2>1. CASE x.c = c /\ x.reply = "error"
    BY <1>2, <1>3, <1>7, <2>1
  <2>2. CASE x.c = ftp_close_conn(c) /\ x.reply \in {"error", "421", "null"}
    BY <1>3, <1>7, <2>2, FtpClosed
  <2>3. CASE \E s : Replied(c, x, "CWD", dir, s)
    <3>1. PICK s : Replied(c, x, "CWD", dir, s)
      BY <2>3
    <3>2. RepliedTrue(c, x, "CWD", dir, s)
      BY <1>2, <1>10, <3>1, RepliedIs
    <3>3. /\ x.c \in Connections /\ x.c.server = s /\ x.c.sock /\ c.sock
          /\ x.c.busy = c.busy /\ x.c.pass = c.pass /\ x.c.cwd = c.cwd
          /\ x.c.binary = c.binary /\ x.c.untyped = c.untyped
          /\ s.pass = c.server.pass /\ s.type = c.server.type
          /\ s.replies \in Queues(Commands \ {"PASV"})
          /\ s.replies = <<>> => c.server.replies = <<>>
          /\ c.server.replies = <<>> /\ x.reply = "yes" => s.dir = dir
      BY <3>2 DEF RepliedTrue
    <3>4. /\ d \in Connections /\ d.server = s /\ d.sock /\ d.busy = c.busy /\ d.pass = c.pass
          /\ d.binary = c.binary /\ d.untyped = c.untyped
          /\ d.cwd = IF x.reply = "yes" THEN dir ELSE c.cwd
      BY <1>7, <3>3 DEF Connections
    <3>5. CASE x.reply = "yes"
      BY <1>2, <1>3, <3>3, <3>4, <3>5 DEF ConnOk, Believed, LoggedIn
    <3>6. CASE x.reply # "yes"
      <4>1. x.reply = "no"
        BY <3>1, <3>6 DEF Replied
      <4>2. c.server.replies = <<>> => s.dir = c.server.dir
        <5>1. c.server.replies = <<>> => s = [c.server EXCEPT !.replies = s.replies]
          BY <3>1, <4>1 DEF Replied
        <5>2. c.server \in Servers
          BY <1>3 DEF Connections
        <5>3. [c.server EXCEPT !.replies = s.replies].dir = c.server.dir
          BY <5>2 DEF Servers
        <5> QED BY <5>1, <5>3
      <4> QED BY <1>2, <1>3, <3>3, <3>4, <3>6, <4>2 DEF ConnOk, Believed, LoggedIn
    <3> QED BY <3>5, <3>6
  <2> QED BY <1>11, <2>1, <2>2, <2>3
<1>13. p \in FtpPlaces /\ PlaceOk(f, p, d)
  <2>1. CASE p \in {"crash", "fail"}
    BY <1>12, <2>1, FreePlaces
  <2>2. CASE p = "pasv" /\ x.reply = "yes"
    BY <1>3, <1>4, <1>12, <2>2 DEF FtpPlaces, PlaceOk
  <2> QED BY <1>8, <2>1, <2>2
<1> QED BY <1>1, <1>2, <1>9, <1>12, <1>13, GoesOn

\* ftp_open_dataconn: after PASV no reply of before is on its way, or the connection is closed.
LEMMA FtpOpenDataconn == ASSUME FtpInv, NEW t \in FtpCalls, ftp_open_dataconn(t) PROVE FtpInv'
<1>1. PICK f, c : f = fcall[t] /\ c = conns[f.conn]
  OBVIOUS
<1>2. /\ f # NoCall /\ f \in FtpRunning /\ ConnOk(c) /\ c.busy /\ c.pass = f.pass
      /\ PlaceOk(f, "pasv", c) /\ f.ans = "none"
  BY <1>1, CallWorks DEF ftp_open_dataconn
<1>3. LoggedIn(c) /\ c \in Connections /\ c.binary = TypeFor(f) /\ c.cwd = f.dir
  BY <1>2 DEF PlaceOk, ConnOk
<1>5. PICK made \in BOOLEAN, o \in Outcomes(c) :
        LET x == ftp_command(c, "PASV", "", o)
            y == IF x.reply = "yes" /\ x.cmd = "PASV" THEN Goes(x.c, IF made THEN "transfer" ELSE "fail")
                 ELSE IF x.reply = "error" THEN Goes(x.c, "fail")
                 ELSE Goes(ftp_close_conn(x.c), "fail")
        IN /\ conns' = [conns EXCEPT ![f.conn] = y.c]
           /\ fcall' = [fcall EXCEPT ![t].pc = IF x.reply = "null" THEN "crash" ELSE y.pc]
           /\ sessions' = sessions
  <2>1. (IF ftpfaults > 0 THEN BOOLEAN ELSE {TRUE}) \subseteq BOOLEAN
    OBVIOUS
  <2> QED BY <1>1, <2>1, ZenonT(40) DEF ftp_open_dataconn, Exchange
<1>6. PICK x : x = ftp_command(c, "PASV", "", o)
  OBVIOUS
<1>7. PICK d : d = IF x.reply = "yes" /\ x.cmd = "PASV" THEN x.c
                   ELSE IF x.reply = "error" THEN x.c ELSE ftp_close_conn(x.c)
  OBVIOUS
<1>8. PICK p : p = IF x.reply = "null" THEN "crash"
                   ELSE IF x.reply = "yes" /\ x.cmd = "PASV" /\ made THEN "transfer" ELSE "fail"
  OBVIOUS
<1>9. conns' = [conns EXCEPT ![f.conn] = d] /\ fcall' = [fcall EXCEPT ![t].pc = p] /\ sessions' = sessions
  <2>1. CASE x.reply = "yes" /\ x.cmd = "PASV"
    BY <1>5, <1>6, <1>7, <1>8, <2>1 DEF Goes
  <2>2. CASE x.reply = "error"
    <3>1. d = x.c /\ p = "fail" /\ ~(x.reply = "yes" /\ x.cmd = "PASV") /\ x.reply # "null"
      BY <1>7, <1>8, <2>2
    <3> QED BY <1>5, <1>6, <2>2, <3>1 DEF Goes
  <2>3. CASE x.reply # "error" /\ ~(x.reply = "yes" /\ x.cmd = "PASV")
    BY <1>5, <1>6, <1>7, <1>8, <2>3 DEF Goes
  <2> QED BY <2>1, <2>2, <2>3
<1>10. "PASV" \in Commands
  BY DEF Commands
<1>11. \/ x.c = c /\ x.reply = "error"
       \/ x.c = ftp_close_conn(c) /\ x.reply \in {"error", "421", "null"}
       \/ \E s : Replied(c, x, "PASV", "", s)
  BY <1>2, <1>6, <1>10, Commanding
<1>12. /\ ConnOk(d) /\ LoggedIn(d) /\ d.busy = c.busy /\ d.pass = c.pass
       /\ x.reply = "yes" /\ x.cmd = "PASV" =>
            d.cwd = f.dir /\ d.binary = TypeFor(f) /\ d.sock /\ d.server.replies = <<>>
  <2>1. CASE x.c = c /\ x.reply = "error"
    <3>1. d = c /\ x.reply # "yes"
      BY <1>7, <2>1
    <3> QED BY <1>2, <1>3, <3>1
  <2>2. CASE x.c = ftp_close_conn(c) /\ x.reply \in {"error", "421", "null"}
    <3>1. PICK e : e = ftp_close_conn(c)
      OBVIOUS
    <3>2. /\ ConnOk(e) /\ LoggedIn(e) /\ e.busy = c.busy /\ e.pass = c.pass /\ e \in Connections
      BY <1>3, <3>1, FtpClosed DEF ConnOk
    <3>3. /\ ConnOk(ftp_close_conn(e)) /\ LoggedIn(ftp_close_conn(e))
          /\ ftp_close_conn(e).busy = e.busy /\ ftp_close_conn(e).pass = e.pass
      BY <3>2, FtpClosed
    <3>4. d = e \/ d = ftp_close_conn(e)
      BY <1>7, <2>2, <3>1
    <3> QED BY <2>2, <3>2, <3>3, <3>4
  <2>3. CASE \E s : Replied(c, x, "PASV", "", s)
    <3>1. PICK s : Replied(c, x, "PASV", "", s)
      BY <2>3
    <3>2. RepliedTrue(c, x, "PASV", "", s)
      BY <1>2, <1>10, <3>1, RepliedIs
    <3>3. /\ x.c \in Connections /\ x.c.server = s /\ x.c.sock /\ c.sock
          /\ x.c.busy = c.busy /\ x.c.pass = c.pass /\ x.c.cwd = c.cwd
          /\ x.c.binary = c.binary /\ x.c.untyped = c.untyped
          /\ s.pass = c.server.pass /\ s.type = c.server.type /\ s.dir = c.server.dir
          /\ c.server.replies # <<>> => x.cmd # "PASV"
          /\ c.server.replies = <<>> => s.replies = <<>>
      BY <3>2 DEF RepliedTrue
    <3>4. x.reply # "error"
      BY <3>1 DEF Replied
    <3>5. CASE x.reply = "yes" /\ x.cmd = "PASV"
      <4>1. d = x.c
        BY <1>7, <3>5
      <4>2. c.server.replies = <<>> /\ s.replies = <<>> /\ s.replies \in Queues(Commands \ {"PASV"})
        BY <3>3, <3>5, QueueIs
      <4> QED BY <1>2, <1>3, <3>3, <4>1, <4>2 DEF ConnOk, Believed, LoggedIn
    <3>6. CASE ~(x.reply = "yes" /\ x.cmd = "PASV")
      BY <1>7, <3>3, <3>4, <3>6, FtpClosed
    <3> QED BY <3>5, <3>6
  <2> QED BY <1>11, <2>1, <2>2, <2>3
<1>13. p \in FtpPlaces /\ PlaceOk(f, p, d)
  <2>1. CASE p \in {"crash", "fail"}
    BY <1>12, <2>1, FreePlaces
  <2>2. CASE p = "transfer" /\ x.reply = "yes" /\ x.cmd = "PASV"
    BY <1>12, <2>2 DEF FtpPlaces, PlaceOk
  <2> QED BY <1>8, <2>1, <2>2
<1> QED BY <1>1, <1>2, <1>9, <1>12, <1>13, GoesOn

\* The transfer begins, and one more reply is on its way.
LEMMA FtpTransfer == ASSUME FtpInv, NEW t \in FtpCalls, ftp_transfer(t) PROVE FtpInv'
<1>1. PICK f, c : f = fcall[t] /\ c = conns[f.conn]
  OBVIOUS
<1>2. /\ f # NoCall /\ f \in FtpRunning /\ ConnOk(c) /\ c.busy /\ c.pass = f.pass
      /\ PlaceOk(f, "transfer", c) /\ f.ans = "none"
  BY <1>1, CallWorks DEF ftp_transfer
<1>3. /\ LoggedIn(c) /\ c \in Connections /\ c.binary = TypeFor(f) /\ c.cwd = f.dir
      /\ c.sock /\ c.server.replies = <<>>
  BY <1>2 DEF PlaceOk, ConnOk
<1>4. PICK e : e = [cmd |-> "END", yes |-> TRUE]
  OBVIOUS
<1>5. PICK o \in Outcomes(c) :
        LET x == ftp_command(c, "RETR", "", o)
            y == IF x.reply = "yes"
                 THEN Goes([x.c EXCEPT !.server.replies = Append(@, e)],
                           IF f.op = "list" THEN "data" ELSE "localfile")
                 ELSE Goes(x.c, "fail")
        IN /\ conns' = [conns EXCEPT ![f.conn] = y.c]
           /\ fcall' = [fcall EXCEPT ![t].pc = IF x.reply = "null" THEN "crash" ELSE y.pc]
           /\ sessions' = sessions
  BY <1>1, <1>4, ZenonT(40) DEF ftp_transfer, Exchange
<1>6. PICK x : x = ftp_command(c, "RETR", "", o)
  OBVIOUS
<1>7. PICK d : d = IF x.reply = "yes" THEN [x.c EXCEPT !.server.replies = Append(@, e)] ELSE x.c
  OBVIOUS
<1>8. PICK p : p = IF x.reply = "null" THEN "crash"
                   ELSE IF x.reply = "yes" THEN IF f.op = "list" THEN "data" ELSE "localfile" ELSE "fail"
  OBVIOUS
<1>9. conns' = [conns EXCEPT ![f.conn] = d] /\ fcall' = [fcall EXCEPT ![t].pc = p] /\ sessions' = sessions
  <2>1. CASE x.reply = "yes"
    BY <1>5, <1>6, <1>7, <1>8, <2>1 DEF Goes
  <2>2. CASE x.reply # "yes"
    BY <1>5, <1>6, <1>7, <1>8, <2>2 DEF Goes
  <2> QED BY <2>1, <2>2
<1>10. /\ ConnOk(x.c) /\ LoggedIn(x.c) /\ x.c.busy = c.busy /\ x.c.pass = c.pass
       /\ x.reply = "yes" => /\ x.c.sock /\ (c.server.replies = <<>> => x.c.server.replies = <<>>)
                             /\ x.c.binary = c.binary /\ x.c.cwd = c.cwd
  <2>1. PICK cmd, arg : cmd = "RETR" /\ arg = ""
    OBVIOUS
  <2>2. ConnOk(c) /\ LoggedIn(c) /\ cmd \in {"NOOP", "PWD", "RETR"} /\ o \in Outcomes(c)
    BY <1>2, <1>3, <2>1
  <2>3. x = ftp_command(c, cmd, arg, o)
    BY <1>6, <2>1
  <2> QED BY ONLY <2>2, <2>3, Harmless
<1>11. CASE x.reply # "yes"
  <2>1. d = x.c /\ p \in {"crash", "fail"}
    BY <1>7, <1>8, <1>11
  <2>2. p \in FtpPlaces /\ PlaceOk(f, p, d)
    BY <1>10, <2>1, FreePlaces
  <2> QED BY <1>1, <1>2, <1>9, <1>10, <2>1, <2>2, GoesOn
<1>12. CASE x.reply = "yes"
  <2>1. x.c \in Connections /\ x.c.server \in Servers /\ x.c.server.replies = <<>>
    BY <1>3, <1>10, <1>12 DEF ConnOk, Connections
  <2>2. Append(x.c.server.replies, e) = TransferEnd
    BY <1>4, <2>1 DEF TransferEnd
  <2>3. TransferEnd \in Queues(Commands) /\ TransferEnd \in Queues(Commands \ {"PASV"}) /\ TransferEnd # <<>>
    <3>1. "END" \in Commands /\ "END" \in Commands \ {"PASV"}
      BY DEF Commands
    <3> QED BY <3>1, QueueIs DEF TransferEnd
  <2>4. PICK s : s = [x.c.server EXCEPT !.replies = TransferEnd]
    OBVIOUS
  <2>5. s \in Servers /\ s.replies = TransferEnd /\ s.pass = x.c.server.pass /\ s.dir = x.c.server.dir
        /\ s.type = x.c.server.type
    BY <2>1, <2>3, <2>4 DEF Servers
  <2>6. d = [x.c EXCEPT !.server = s]
    BY <1>7, <1>12, <2>2, <2>4
  <2>7. /\ d \in Connections /\ d.server = s /\ d.busy = c.busy /\ d.pass = c.pass /\ d.sock
        /\ d.binary = c.binary /\ d.cwd = c.cwd /\ d.untyped = x.c.untyped
        /\ x.c.binary = c.binary /\ x.c.cwd = c.cwd /\ x.c.sock /\ x.c.pass = c.pass
    BY <1>10, <1>12, <2>1, <2>5, <2>6 DEF Connections
  <2>8. ConnOk(d)
    BY <2>3, <2>5, <2>7 DEF ConnOk
  <2>9. Believed(d) /\ LoggedIn(d)
    <3>1. Believed(x.c) /\ LoggedIn(x.c)
      BY <1>10, <2>1, <2>7 DEF ConnOk
    <3> QED BY <2>5, <2>7, <3>1 DEF Believed, LoggedIn
  <2>10. p \in FtpPlaces /\ PlaceOk(f, p, d)
    <3>1. p \in {"data", "localfile"}
      BY <1>8, <1>12
    <3> QED BY <1>3, <2>5, <2>7, <2>9, <3>1 DEF FtpPlaces, PlaceOk
  <2> QED BY <1>1, <1>2, <1>9, <2>7, <2>8, <2>10, GoesOn
<1> QED BY <1>11, <1>12

\* A set of natural numbers that is not empty has a least one.
LEMMA FirstFree ==
    ASSUME NEW T, T \subseteq Nat, T # {}
    PROVE  \E i \in T : \A j \in T : i =< j
<1>1. PICK i \in T : \A j \in T : <<j, i>> \notin OpToRel(<, Nat)
  BY NatLessThanWellFounded, WFMin
<1>2. \A j \in T : ~(j < i)
  BY <1>1 DEF OpToRel
<1> QED BY <1>2

\* ftp_read_list, a step in which more of the call changes than its place.
LEMMA FtpReadList == ASSUME FtpInv, NEW t \in FtpCalls, ftp_read_list(t) PROVE FtpInv'
<1>1. PICK f, c : f = fcall[t] /\ c = conns[f.conn]
  OBVIOUS
<1>2. /\ f # NoCall /\ f \in FtpRunning /\ ConnOk(c) /\ FtpCallOk(f, c)
      /\ PlaceOk(f, "data", c) /\ f.ans = "none" /\ f.conn \in 1 .. Len(conns)
  BY <1>1, CallWorks DEF ftp_read_list
<1>3. PICK whole \in BOOLEAN : fcall' = [fcall EXCEPT ![t].pc = "final", ![t].whole = whole]
  <2>1. (IF ftpfaults > 0 THEN BOOLEAN ELSE {TRUE}) \subseteq BOOLEAN
    OBVIOUS
  <2> QED BY <2>1 DEF ftp_read_list
<1>4. PICK g : g = [f EXCEPT !.pc = "final", !.whole = whole]
  OBVIOUS
<1>5. fcall' = [fcall EXCEPT ![t] = g]
  BY <1>1, <1>3, <1>4 DEF FtpInv
<1>6. /\ g \in FtpRunning /\ g.pc = "final" /\ g.conn = f.conn /\ g.op = f.op /\ g.dir = f.dir
      /\ g.pass = f.pass /\ g.ans = f.ans
  BY <1>2, <1>4 DEF FtpRunning, FtpPlaces
<1>7. PlaceOk(g, "final", c)
  BY <1>2, <1>6 DEF PlaceOk, TypeFor
<1>8. FtpCallOk(g, c)
  BY <1>2, <1>6, <1>7 DEF FtpCallOk
<1>9. conns' = [conns EXCEPT ![f.conn] = c] /\ sessions' = sessions
  BY <1>1, <1>2 DEF ftp_read_list, FtpInv
<1> QED BY <1>1, <1>2, <1>5, <1>6, <1>8, <1>9, OneCallMoves

\* ftp_init_localfile.
LEMMA FtpInitLocalfile == ASSUME FtpInv, NEW t \in FtpCalls, ftp_init_localfile(t) PROVE FtpInv'
<1>1. PICK f, c : f = fcall[t] /\ c = conns[f.conn]
  OBVIOUS
<1>2. /\ f # NoCall /\ f \in FtpRunning /\ ConnOk(c) /\ c.busy /\ c.pass = f.pass
      /\ PlaceOk(f, "localfile", c) /\ f.ans = "none" /\ f.conn \in 1 .. Len(conns)
  BY <1>1, CallWorks DEF ftp_init_localfile
<1>3. PICK p \in {"got", "fail"} : fcall' = [fcall EXCEPT ![t].pc = p]
  BY DEF ftp_init_localfile
<1>4. p \in FtpPlaces /\ PlaceOk(f, p, c)
  BY <1>2 DEF PlaceOk, FtpPlaces
<1>5. conns' = [conns EXCEPT ![f.conn] = c] /\ sessions' = sessions
  BY <1>1, <1>2 DEF ftp_init_localfile, FtpInv
<1> QED BY <1>1, <1>2, <1>3, <1>4, <1>5, GoesOn

\* ftp_wait.
LEMMA FtpWait == ASSUME FtpInv, NEW t \in FtpCalls, ftp_wait(t) PROVE FtpInv'
<1>1. PICK f, c : f = fcall[t] /\ c = conns[f.conn]
  OBVIOUS
<1>2. /\ f # NoCall /\ f \in FtpRunning /\ ConnOk(c) /\ FtpCallOk(f, c)
      /\ PlaceOk(f, "got", c) /\ f.ans = "none" /\ f.conn \in 1 .. Len(conns)
  BY <1>1, CallWorks DEF ftp_wait
<1>3. PICK p \in {"broken", "reply"}, whole \in BOOLEAN : fcall' = [fcall EXCEPT ![t].pc = p, ![t].whole = whole]
  <2>1. PICK x : fcall' = [fcall EXCEPT ![t].pc = IF x = "error" THEN "broken" ELSE "reply",
                                        ![t].whole = x = "whole"]
    BY DEF ftp_wait
  <2>2. PICK p : p = IF x = "error" THEN "broken" ELSE "reply"
    OBVIOUS
  <2>3. PICK whole \in BOOLEAN : whole = (x = "whole")
    OBVIOUS
  <2>4. fcall' = [fcall EXCEPT ![t].pc = p, ![t].whole = whole] /\ p \in {"broken", "reply"}
    BY <2>1, <2>2, <2>3
  <2> QED BY <2>4
<1>4. PICK g : g = [f EXCEPT !.pc = p, !.whole = whole]
  OBVIOUS
<1>5. fcall' = [fcall EXCEPT ![t] = g]
  BY <1>1, <1>3, <1>4 DEF FtpInv
<1>6. /\ g \in FtpRunning /\ g.pc = p /\ g.conn = f.conn /\ g.op = f.op /\ g.dir = f.dir
      /\ g.pass = f.pass /\ g.ans = f.ans
  BY <1>2, <1>4 DEF FtpRunning, FtpPlaces
<1>7. PlaceOk(g, p, c)
  BY <1>2, <1>6 DEF PlaceOk, TypeFor
<1>8. FtpCallOk(g, c)
  BY <1>2, <1>6, <1>7 DEF FtpCallOk
<1>9. conns' = [conns EXCEPT ![f.conn] = c] /\ sessions' = sessions
  BY <1>1, <1>2 DEF ftp_wait, FtpInv
<1> QED BY <1>1, <1>2, <1>5, <1>6, <1>8, <1>9, OneCallMoves

\* The reply after a transfer is that of the transfer.
LEMMA LastReply ==
    ASSUME FtpInv, NEW t \in FtpCalls, fcall[t].pc \in {"final", "reply"},
           NEW other \in {"fail", "broken"},
           FinalReply(t, LAMBDA r : IF r.reply = "yes" THEN [c |-> r.c, pc |-> "release", ans |-> "ok"]
                                    ELSE [c |-> r.c, pc |-> other, ans |-> "none"])
    PROVE  FtpInv'
<1>1. PICK f, c : f = fcall[t] /\ c = conns[f.conn]
  OBVIOUS
<1>2. /\ f # NoCall /\ f \in FtpRunning /\ ConnOk(c) /\ c.busy /\ c.pass = f.pass
      /\ PlaceOk(f, f.pc, c) /\ f.ans = "none" /\ f.conn \in 1 .. Len(conns)
  BY <1>1, CallWorks
<1>3. /\ c \in Connections /\ c.sock /\ c.server.replies = TransferEnd /\ Believed(c) /\ LoggedIn(c)
  BY <1>1, <1>2 DEF PlaceOk, ConnOk
<1>4. PICK o \in Outcomes(c) \ {"write"} :
         LET r == IF o \in {"yes", "no"}
                  THEN [c |-> [c EXCEPT !.server.replies = Tail(@)], reply |-> o]
                  ELSE ftp_command(c, "END", "", o)
             y == IF r.reply = "yes" THEN [c |-> r.c, pc |-> "release", ans |-> "ok"]
                  ELSE [c |-> r.c, pc |-> other, ans |-> "none"]
         IN /\ o = "yes" => f.whole \/ f.op = "list"
            /\ conns' = [conns EXCEPT ![f.conn] = y.c]
            /\ fcall' = [fcall EXCEPT ![t] = IF r.reply = "null" THEN [@ EXCEPT !.pc = "crash"]
                                             ELSE [@ EXCEPT !.pc = y.pc, !.ans = y.ans]]
            /\ sessions' = sessions
  BY <1>1, ZenonT(40) DEF FinalReply
<1>5. PICK d : d = IF o \in {"yes", "no"} THEN [c EXCEPT !.server.replies = Tail(@)] ELSE ftp_close_conn(c)
  OBVIOUS
<1>6. PICK r : r = IF o \in {"yes", "no"} THEN [c |-> [c EXCEPT !.server.replies = Tail(@)], reply |-> o]
                   ELSE ftp_command(c, "END", "", o)
  OBVIOUS
<1>7. r.c = d /\ (r.reply = "yes" <=> o = "yes")
  <2>1. o \in {"lost", "yes", "no", "421", "421-"}
    BY DEF Outcomes
  <2>2. CASE o \in {"yes", "no"}
    BY <1>5, <1>6, <2>2
  <2>3. CASE o = "lost"
    BY <1>5, <1>6, <2>3 DEF ftp_command
  <2>4. CASE o = "421"
    BY <1>5, <1>6, <2>4 DEF ftp_command
  <2>5. CASE o = "421-"
    BY <1>5, <1>6, <2>5 DEF ftp_command
  <2> QED BY <2>1, <2>2, <2>3, <2>4, <2>5
<1>8. ConnOk(d) /\ LoggedIn(d) /\ d.busy = c.busy /\ d.pass = c.pass
  <2>1. CASE o \in {"yes", "no"}
    <3>1. Tail(c.server.replies) = <<>>
      <4>1. PICK e : e = [cmd |-> "END", yes |-> TRUE]
        OBVIOUS
      <4>2. Tail(<<e>>) = <<>>
        BY OneTail
      <4> QED BY <1>3, <4>1, <4>2 DEF TransferEnd
    <3>2. PICK s : s = [c.server EXCEPT !.replies = <<>>]
      OBVIOUS
    <3>3. c.server \in Servers /\ <<>> \in Queues(Commands) /\ <<>> \in Queues(Commands \ {"PASV"})
      BY <1>3, QueueIs DEF Connections
    <3>4. s \in Servers /\ s.replies = <<>> /\ s.pass = c.server.pass /\ s.dir = c.server.dir /\ s.type = c.server.type
      BY <3>2, <3>3 DEF Servers
    <3>5. d = [c EXCEPT !.server = s]
      BY <1>5, <2>1, <3>1, <3>2
    <3>6. /\ d \in Connections /\ d.server = s /\ d.busy = c.busy /\ d.pass = c.pass /\ d.sock
          /\ d.binary = c.binary /\ d.cwd = c.cwd /\ d.untyped = c.untyped
      BY <1>3, <3>4, <3>5 DEF Connections
    <3> QED BY <1>3, <3>3, <3>4, <3>6 DEF ConnOk, Believed, LoggedIn
  <2>2. CASE o \notin {"yes", "no"}
    BY <1>3, <1>5, <2>2, FtpClosed
  <2> QED BY <2>1, <2>2
<1>9. conns' = [conns EXCEPT ![f.conn] = d] /\ sessions' = sessions
  <2>1. CASE r.reply = "yes"
    BY <1>4, <1>6, <1>7, <2>1
  <2>2. CASE r.reply # "yes"
    BY <1>4, <1>6, <1>7, <2>2
  <2> QED BY <2>1, <2>2
<1>10. PICK g : g = IF r.reply = "null" THEN [f EXCEPT !.pc = "crash"]
                    ELSE IF r.reply = "yes" THEN [f EXCEPT !.pc = "release", !.ans = "ok"]
                    ELSE [f EXCEPT !.pc = other, !.ans = "none"]
  OBVIOUS
<1>11. fcall' = [fcall EXCEPT ![t] = g]
  <2>1. CASE r.reply = "null"
    BY <1>1, <1>4, <1>6, <1>10, <2>1
  <2>2. CASE r.reply = "yes"
    BY <1>1, <1>4, <1>6, <1>10, <2>2
  <2>3. CASE r.reply \notin {"yes", "null"}
    BY <1>1, <1>4, <1>6, <1>10, <2>3
  <2> QED BY <2>1, <2>2, <2>3
<1>12. PICK p \in {"release", "crash", "fail", "broken"}, ans \in {"none", "ok"} :
         /\ g = [f EXCEPT !.pc = p, !.ans = ans]
         /\ p # "release" => ans = "none"
         /\ ans = "ok" => f.whole \/ f.op = "list"
  <2>1. CASE r.reply = "null"
    <3>1. g = [f EXCEPT !.pc = "crash", !.ans = "none"]
      BY <1>2, <1>10, <2>1 DEF FtpRunning
    <3> QED BY <3>1
  <2>2. CASE r.reply = "yes"
    <3>1. g = [f EXCEPT !.pc = "release", !.ans = "ok"]
      BY <1>10, <2>2
    <3>2. f.whole \/ f.op = "list"
      BY <1>4, <1>7, <2>2
    <3> QED BY <3>1, <3>2
  <2>3. CASE r.reply \notin {"yes", "null"}
    <3>1. g = [f EXCEPT !.pc = other, !.ans = "none"]
      BY <1>10, <2>3
    <3> QED BY <3>1
  <2> QED BY <2>1, <2>2, <2>3
<1>13. /\ g \in FtpRunning /\ g.pc = p /\ g.conn = f.conn /\ g.op = f.op /\ g.dir = f.dir
       /\ g.pass = f.pass /\ g.ans = ans /\ g.whole = f.whole
  <2>1. p \in FtpPlaces
    BY DEF FtpPlaces
  <2> QED BY <1>2, <1>12, <2>1 DEF FtpRunning
<1>14. PlaceOk(g, p, d)
  BY <1>8 DEF PlaceOk
<1>15. FtpCallOk(g, d)
  BY <1>2, <1>8, <1>12, <1>13, <1>14 DEF FtpCallOk
<1> QED BY <1>1, <1>2, <1>8, <1>9, <1>11, <1>13, <1>15, OneCallMoves

\* A call ends and gives its connection back.
LEMMA CallEnds ==
    ASSUME FtpInv, NEW t \in FtpCalls, fcall[t] # NoCall, NEW d, ConnOk(d), LoggedIn(d), ~d.busy,
           conns' = [conns EXCEPT ![fcall[t].conn] = d], fcall' = [fcall EXCEPT ![t] = NoCall], sessions' = sessions
    PROVE  FtpInv'
<1>1. PICK i : i = fcall[t].conn
  OBVIOUS
<1>2. i \in 1 .. Len(conns) /\ conns \in Seq(Connections) /\ Len(conns) \in Nat
  BY <1>1, LenProperties DEF FtpInv
<1>3. d \in Connections
  BY DEF ConnOk
<1>4. /\ conns' \in Seq(Connections) /\ Len(conns') = Len(conns)
      /\ \A j \in 1 .. Len(conns) : conns'[j] = IF j = i THEN d ELSE conns[j]
  BY <1>1, <1>2, <1>3, ExceptSeq
<1>5. /\ DOMAIN fcall' = FtpCalls /\ fcall' \in [FtpCalls -> FtpRunning \cup {NoCall}]
      /\ \A u \in FtpCalls : fcall'[u] = IF u = t THEN NoCall ELSE fcall[u]
  BY DEF FtpInv
<1>6. NoCall.conn = 0
  BY DEF NoCall
<1>7. \A u \in FtpCalls : u # t => fcall[u].conn # i
  BY <1>1, <1>2 DEF FtpInv, Using
<1>8. \A j \in 1 .. Len(conns') : ConnOk(conns'[j]) /\ (~conns'[j].busy => LoggedIn(conns'[j]))
  BY <1>4 DEF FtpInv
<1>9. ASSUME NEW u \in FtpCalls, fcall'[u] # NoCall
      PROVE  fcall'[u].conn \in 1 .. Len(conns') /\ FtpCallOk(fcall'[u], conns'[fcall'[u].conn])
  <2>1. u # t /\ fcall'[u] = fcall[u] /\ fcall[u].conn # i
    BY <1>5, <1>7, <1>9
  <2>2. fcall[u].conn \in 1 .. Len(conns) /\ FtpCallOk(fcall[u], conns[fcall[u].conn])
    BY <1>9, <2>1 DEF FtpInv
  <2>3. conns'[fcall[u].conn] = conns[fcall[u].conn]
    BY <1>4, <2>1, <2>2
  <2> QED BY <1>4, <2>1, <2>2, <2>3
<1>10. \A j \in 1 .. Len(conns') : conns'[j].busy => \E u \in FtpCalls : Using(u, j)'
  <2> SUFFICES ASSUME NEW j \in 1 .. Len(conns'), conns'[j].busy PROVE \E u \in FtpCalls : Using(u, j)'
    OBVIOUS
  <2>1. j # i /\ conns[j].busy /\ j \in 1 .. Len(conns)
    BY <1>4
  <2>2. PICK u \in FtpCalls : fcall[u].conn = j
    BY <2>1 DEF FtpInv, Using
  <2>3. u # t
    BY <1>1, <2>1, <2>2
  <2> QED BY <1>5, <2>2, <2>3 DEF Using
<1>11. \A j \in 1 .. Len(conns') : \A u, v \in FtpCalls : Using(u, j)' /\ Using(v, j)' => u = v
  <2> SUFFICES ASSUME NEW j \in 1 .. Len(conns'), NEW u \in FtpCalls, NEW v \in FtpCalls,
                      fcall'[u].conn = j, fcall'[v].conn = j
               PROVE  u = v
    BY DEF Using
  <2>1. j # 0 /\ j \in 1 .. Len(conns)
    BY <1>4
  <2>2. u # t /\ v # t
    BY <1>5, <1>6, <2>1
  <2> QED BY <1>5, <2>1, <2>2 DEF FtpInv, Using
<1>12. sessions' \in [Accounts -> FtpPasswords \cup {"none"}]
  BY DEF FtpInv
<1> QED BY <1>4, <1>5, <1>8, <1>9, <1>10, <1>11, <1>12 DEF FtpInv

\* ftp_free_localfile closes the connection of a file that was not read to its end.
LEMMA FtpFreeLocalfile == ASSUME FtpInv, NEW t \in FtpCalls, ftp_free_localfile(t) PROVE FtpInv'
<1>1. PICK f, c : f = fcall[t] /\ c = conns[f.conn]
  OBVIOUS
<1>2. f # NoCall /\ ConnOk(c) /\ f.conn \in 1 .. Len(conns)
  BY <1>1, CallWorks DEF ftp_free_localfile
<1>3. PICK e : e = ftp_close_conn(c)
  OBVIOUS
<1>4. e \in Connections /\ ConnOk(e) /\ LoggedIn(e)
  BY <1>2, <1>3, FtpClosed DEF ConnOk
<1>5. PICK d : d = [e EXCEPT !.busy = FALSE]
  OBVIOUS
<1>6. /\ d \in Connections /\ ~d.busy /\ d.pass = e.pass /\ d.sock = e.sock /\ d.server = e.server
      /\ d.binary = e.binary /\ d.cwd = e.cwd /\ d.untyped = e.untyped
  BY <1>4, <1>5 DEF Connections
<1>7. ConnOk(d) /\ LoggedIn(d)
  BY <1>4, <1>6 DEF ConnOk, LoggedIn, Believed
<1>8. conns' = [conns EXCEPT ![f.conn] = d] /\ fcall' = [fcall EXCEPT ![t] = NoCall] /\ sessions' = sessions
  BY <1>1, <1>3, <1>5 DEF ftp_free_localfile
<1> QED BY <1>1, <1>2, <1>6, <1>7, <1>8, CallEnds

\* ftp_release_conn.
LEMMA FtpReleaseConn == ASSUME FtpInv, NEW t \in FtpCalls, ftp_release_conn(t) PROVE FtpInv'
<1>1. PICK f, e : f = fcall[t] /\ e = conns[f.conn]
  OBVIOUS
<1>2. f # NoCall /\ ConnOk(e) /\ PlaceOk(f, f.pc, e) /\ f.pc \in {"fail", "release"}
  BY <1>1, CallWorks DEF ftp_release_conn
<1>4. e \in Connections /\ LoggedIn(e)
  BY <1>2 DEF ConnOk, PlaceOk
<1>5. PICK d : d = [e EXCEPT !.busy = FALSE]
  OBVIOUS
<1>6. /\ d \in Connections /\ ~d.busy /\ d.pass = e.pass /\ d.sock = e.sock /\ d.server = e.server
      /\ d.binary = e.binary /\ d.cwd = e.cwd /\ d.untyped = e.untyped
  BY <1>4, <1>5 DEF Connections
<1>7. ConnOk(d) /\ LoggedIn(d)
  BY <1>2, <1>4, <1>6 DEF ConnOk, LoggedIn, Believed
<1>8. conns' = [conns EXCEPT ![f.conn] = d] /\ fcall' = [fcall EXCEPT ![t] = NoCall] /\ sessions' = sessions
  BY <1>1, <1>5 DEF ftp_release_conn
<1> QED BY <1>1, <1>2, <1>6, <1>7, <1>8, CallEnds

\* The connection that a call takes is of its user and not busy.
LEMMA ConnFound ==
    ASSUME conns \in Seq(Connections), NEW pass
    PROVE  /\ ftp_find_conn(pass) \in 1 .. Len(conns) + 1
           /\ ftp_find_conn(pass) \in 1 .. Len(conns) =>
                conns[ftp_find_conn(pass)].pass = pass /\ ~conns[ftp_find_conn(pass)].busy
<1>1. PICK free : free = {i \in 1 .. Len(conns) : conns[i].pass = pass /\ ~conns[i].busy}
  OBVIOUS
<1>2. Len(conns) \in Nat
  BY LenProperties
<1>3. CASE free = {}
  <2>1. ftp_find_conn(pass) = Len(conns) + 1
    BY <1>1, <1>3 DEF ftp_find_conn
  <2> QED BY <1>2, <2>1
<1>4. CASE free # {}
  <2>1. ftp_find_conn(pass) = CHOOSE i \in free : \A j \in free : i =< j
    BY <1>1, <1>4 DEF ftp_find_conn
  <2>2. free \subseteq Nat
    BY <1>1
  <2>3. \E i \in free : \A j \in free : i =< j
    BY <1>4, <2>2, FirstFree
  <2>4. ftp_find_conn(pass) \in free
    BY <2>1, <2>3
  <2> QED BY <1>1, <1>2, <2>4
<1> QED BY <1>3, <1>4

\* A call begins on a connection that nobody uses.
LEMMA CallBegins ==
    ASSUME FtpInv, NEW t \in FtpCalls, fcall[t] = NoCall, NEW i, NEW d, NEW g,
           conns' \in Seq(Connections), i \in 1 .. Len(conns'), Len(conns) =< Len(conns'), conns'[i] = d,
           \A j \in 1 .. Len(conns') : j # i => j \in 1 .. Len(conns) /\ conns'[j] = conns[j],
           i \in 1 .. Len(conns) => ~conns[i].busy,
           ConnOk(d), FtpCallOk(g, d), g.conn = i,
           fcall' = [fcall EXCEPT ![t] = g], sessions' = sessions
    PROVE  FtpInv'
<1>1. g \in FtpRunning /\ d.busy
  BY DEF FtpCallOk
<1>2. Len(conns) \in Nat /\ Len(conns') \in Nat
  BY LenProperties DEF FtpInv
<1>3. /\ DOMAIN fcall' = FtpCalls /\ fcall' \in [FtpCalls -> FtpRunning \cup {NoCall}]
      /\ \A u \in FtpCalls : fcall'[u] = IF u = t THEN g ELSE fcall[u]
  BY <1>1 DEF FtpInv
<1>4. NoCall.conn = 0
  BY DEF NoCall
<1>5. \A u \in FtpCalls : fcall[u].conn # 0 =>
        fcall[u].conn \in 1 .. Len(conns) /\ FtpCallOk(fcall[u], conns[fcall[u].conn])
  BY <1>4 DEF FtpInv
<1>6. \A u \in FtpCalls : fcall[u].conn # i
  <2> SUFFICES ASSUME NEW u \in FtpCalls, fcall[u].conn = i PROVE FALSE
    OBVIOUS
  <2>1. i # 0
    BY <1>2
  <2>2. i \in 1 .. Len(conns) /\ conns[i].busy
    BY <1>5, <2>1 DEF FtpCallOk
  <2> QED BY <2>2
<1>7. \A j \in 1 .. Len(conns') : ConnOk(conns'[j]) /\ (~conns'[j].busy => LoggedIn(conns'[j]))
  <2> SUFFICES ASSUME NEW j \in 1 .. Len(conns')
               PROVE  ConnOk(conns'[j]) /\ (~conns'[j].busy => LoggedIn(conns'[j]))
    OBVIOUS
  <2>1. CASE j = i
    BY <1>1, <2>1
  <2>2. CASE j # i
    BY <2>2 DEF FtpInv
  <2> QED BY <2>1, <2>2
<1>8. ASSUME NEW u \in FtpCalls, fcall'[u] # NoCall
      PROVE  fcall'[u].conn \in 1 .. Len(conns') /\ FtpCallOk(fcall'[u], conns'[fcall'[u].conn])
  <2>1. CASE u = t
    BY <1>3, <2>1
  <2>2. CASE u # t
    <3>1. fcall'[u] = fcall[u] /\ fcall[u].conn # i
      BY <1>3, <1>6, <2>2
    <3>2. fcall[u].conn \in 1 .. Len(conns) /\ FtpCallOk(fcall[u], conns[fcall[u].conn])
      BY <1>8, <3>1 DEF FtpInv
    <3>3. fcall[u].conn \in 1 .. Len(conns')
      BY <1>2, <3>2
    <3>4. conns'[fcall[u].conn] = conns[fcall[u].conn]
      BY <3>1, <3>3
    <3> QED BY <3>1, <3>2, <3>3, <3>4
  <2> QED BY <2>1, <2>2
<1>9. \A j \in 1 .. Len(conns') : conns'[j].busy => \E u \in FtpCalls : Using(u, j)'
  <2> SUFFICES ASSUME NEW j \in 1 .. Len(conns'), conns'[j].busy PROVE \E u \in FtpCalls : Using(u, j)'
    OBVIOUS
  <2>1. CASE j = i
    BY <1>3, <2>1 DEF Using
  <2>2. CASE j # i
    <3>1. j \in 1 .. Len(conns) /\ conns[j].busy
      BY <2>2
    <3>2. PICK u \in FtpCalls : fcall[u].conn = j
      BY <3>1 DEF FtpInv, Using
    <3>3. u # t
      BY <1>2, <1>4, <3>1, <3>2
    <3> QED BY <1>3, <3>2, <3>3 DEF Using
  <2> QED BY <2>1, <2>2
<1>10. \A j \in 1 .. Len(conns') : \A u, v \in FtpCalls : Using(u, j)' /\ Using(v, j)' => u = v
  <2> SUFFICES ASSUME NEW j \in 1 .. Len(conns'), NEW u \in FtpCalls, NEW v \in FtpCalls,
                      fcall'[u].conn = j, fcall'[v].conn = j
               PROVE  u = v
    BY DEF Using
  <2>1. CASE j = i
    BY <1>3, <1>6, <2>1
  <2>2. CASE j # i
    <3>1. u # t /\ v # t /\ j \in 1 .. Len(conns)
      BY <1>3, <2>2
    <3> QED BY <1>3, <3>1 DEF FtpInv, Using
  <2> QED BY <2>1, <2>2
<1>11. sessions' \in [Accounts -> FtpPasswords \cup {"none"}]
  BY DEF FtpInv
<1> QED BY <1>3, <1>7, <1>8, <1>9, <1>10, <1>11 DEF FtpInv

\* ftp_list and ftp_get take a connection, an old one or a new one.
LEMMA FtpGetConn == ASSUME FtpInv, NEW t \in FtpCalls, ftp_get_conn(t) PROVE FtpInv'
<1>1. fcall[t] = NoCall
  <2>1. "idle" \notin FtpPlaces
    BY DEF FtpPlaces
  <2> QED BY <2>1 DEF FtpInv, FtpRunning, ftp_get_conn
<1>2. PICK op \in {"list", "get"}, dir \in FtpDirs, pass \in {AvfsPassword, PasswordOf("user@host")} :
         LET i == ftp_find_conn(pass)
         IN /\ conns' = IF i > Len(conns) THEN Append(conns, NewConn(pass))
                        ELSE [conns EXCEPT ![i].busy = TRUE]
            /\ fcall' = [fcall EXCEPT ![t] =
                 [NoCall EXCEPT !.op = op, !.conn = i, !.dir = dir, !.pass = pass,
                    !.pc = IF i =< Len(conns) /\ conns[i].sock THEN "noop" ELSE "connect"]]
            /\ sessions' = sessions
  BY ZenonT(40) DEF ftp_get_conn
<1>3. conns \in Seq(Connections) /\ Len(conns) \in Nat
  BY LenProperties DEF FtpInv
<1>4. PICK i \in 1 .. Len(conns) + 1 :
        i = ftp_find_conn(pass) /\ (i \in 1 .. Len(conns) => conns[i].pass = pass /\ ~conns[i].busy)
  BY <1>3, ConnFound
<1>5. pass \in Passwords
  BY DEF PasswordOf, FtpInv, Accounts, Passwords
<1>6. PICK p : p = IF i =< Len(conns) /\ conns[i].sock THEN "noop" ELSE "connect"
  OBVIOUS
<1>7. PICK g : g = [NoCall EXCEPT !.op = op, !.conn = i, !.dir = dir, !.pass = pass, !.pc = p]
  OBVIOUS
<1>8. g = [pc |-> p, op |-> op, conn |-> i, dir |-> dir, pass |-> pass, whole |-> TRUE, ans |-> "none"]
  BY <1>7 DEF NoCall
<1>9. g \in FtpRunning /\ g.pc = p /\ g.conn = i /\ g.pass = pass /\ g.ans = "none"
  <2>1. p \in FtpPlaces /\ i \in Nat \ {0}
    BY <1>3, <1>6 DEF FtpPlaces
  <2> QED BY <1>5, <1>8, <2>1 DEF FtpRunning
<1>10. fcall' = [fcall EXCEPT ![t] = g]
  BY <1>2, <1>4, <1>6, <1>7
<1>11. CASE i \in 1 .. Len(conns)
  <2>1. PICK e \in Connections : e = conns[i]
    BY <1>3, <1>11, ElementOfSeq
  <2>2. ConnOk(e) /\ LoggedIn(e) /\ e.pass = pass
    BY <1>4, <1>11, <2>1 DEF FtpInv
  <2>3. PICK d : d = [e EXCEPT !.busy = TRUE]
    OBVIOUS
  <2>4. /\ d \in Connections /\ d.busy /\ d.pass = e.pass /\ d.sock = e.sock /\ d.server = e.server
        /\ d.binary = e.binary /\ d.cwd = e.cwd /\ d.untyped = e.untyped
    BY <2>1, <2>3 DEF Connections
  <2>5. ConnOk(d) /\ LoggedIn(d)
    BY <2>2, <2>4 DEF ConnOk, LoggedIn, Believed
  <2>6. conns' = [conns EXCEPT ![i] = d]
    BY <1>2, <1>3, <1>4, <1>11, <2>1, <2>3
  <2>7. /\ conns' \in Seq(Connections) /\ Len(conns') = Len(conns)
        /\ \A j \in 1 .. Len(conns) : conns'[j] = IF j = i THEN d ELSE conns[j]
    BY <1>3, <1>11, <2>4, <2>6, ExceptSeq
  <2>8. p \in {"noop", "connect"} /\ (p = "connect" => ~d.sock)
    BY <1>6, <1>11, <2>1, <2>4
  <2>9. PlaceOk(g, p, d)
    BY <2>5, <2>8 DEF PlaceOk
  <2>10. FtpCallOk(g, d)
    BY <1>9, <2>2, <2>4, <2>8, <2>9 DEF FtpCallOk
  <2>11. /\ i \in 1 .. Len(conns') /\ Len(conns) =< Len(conns') /\ conns'[i] = d /\ ~conns[i].busy
         /\ \A j \in 1 .. Len(conns') : j # i => j \in 1 .. Len(conns) /\ conns'[j] = conns[j]
    BY <1>3, <1>4, <1>11, <2>7
  <2>12. g.conn = i /\ sessions' = sessions
    BY <1>9 DEF ftp_get_conn
  <2>13. conns' \in Seq(Connections)
    BY <2>7
  <2> QED BY <1>1, <1>10, <2>5, <2>10, <2>11, <2>12, <2>13, CallBegins
<1>12. CASE i = Len(conns) + 1
  <2>1. PICK d : d = NewConn(pass)
    OBVIOUS
  <2>2. PICK s : s = NewServer
    OBVIOUS
  <2>3. s \in Servers /\ s.replies = <<>> /\ s.replies \in Queues(Commands \ {"PASV"})
    BY <2>2, QueueIs DEF NewServer, Servers
  <2>4. /\ d \in Connections /\ d.busy /\ ~d.sock /\ d.pass = pass /\ d.cwd = "" /\ d.binary = "unset"
        /\ d.server = s
    BY <1>5, <2>1, <2>2, <2>3 DEF NewConn, Connections
  <2>5. ConnOk(d) /\ LoggedIn(d)
    BY <2>3, <2>4 DEF ConnOk, LoggedIn
  <2>6. conns' = Append(conns, d)
    BY <1>2, <1>3, <1>4, <1>12, <2>1
  <2>7. /\ conns' \in Seq(Connections) /\ Len(conns') = i /\ conns'[i] = d
        /\ \A j \in 1 .. Len(conns) : conns'[j] = conns[j]
    <3>1. PICK n \in Nat : n = Len(conns)
      BY <1>3
    <3>2. PICK S : S = Connections
      OBVIOUS
    <3>3. PICK q \in Seq(S) : q = conns
      BY <1>3, <3>2
    <3>4. d \in S
      BY <2>4, <3>2
    <3>5. /\ Append(q, d) \in Seq(S) /\ Len(Append(q, d)) = Len(q) + 1 /\ Append(q, d)[Len(q) + 1] = d
          /\ \A j \in 1 .. Len(q) : Append(q, d)[j] = q[j]
      BY <3>4, AppendProperties
    <3>6. conns' = Append(q, d) /\ i = Len(q) + 1
      BY <1>12, <2>6, <3>3
    <3> QED BY <3>2, <3>3, <3>5, <3>6
  <2>8. p = "connect"
    BY <1>3, <1>6, <1>12
  <2>9. PlaceOk(g, p, d)
    BY <2>4, <2>5, <2>8 DEF PlaceOk
  <2>10. FtpCallOk(g, d)
    BY <1>9, <2>4, <2>8, <2>9 DEF FtpCallOk
  <2>11. /\ i \in 1 .. Len(conns') /\ Len(conns) =< Len(conns') /\ i \notin 1 .. Len(conns)
         /\ \A j \in 1 .. Len(conns') : j # i => j \in 1 .. Len(conns) /\ conns'[j] = conns[j]
    BY <1>3, <1>12, <2>7
  <2>12. g.conn = i /\ sessions' = sessions
    BY <1>9 DEF ftp_get_conn
  <2>13. conns' \in Seq(Connections) /\ conns'[i] = d
    BY <2>7
  <2> QED BY <1>1, <1>10, <2>5, <2>10, <2>11, <2>12, <2>13, CallBegins
<1> QED BY <1>3, <1>11, <1>12

\* A server closes a connection, and the client does not know.
LEMMA ServerCloses == ASSUME FtpInv, server_closes PROVE FtpInv'
<1>1. PICK i \in 1 .. Len(conns) : conns' = [conns EXCEPT ![i].server.up = FALSE]
  BY DEF server_closes
<1>2. conns \in Seq(Connections) /\ Len(conns) \in Nat
  BY LenProperties DEF FtpInv
<1>3. PICK e \in Connections : e = conns[i]
  BY <1>2, ElementOfSeq
<1>4. PICK s : s = [e.server EXCEPT !.up = FALSE]
  OBVIOUS
<1>5. /\ s \in Servers /\ s.pass = e.server.pass /\ s.type = e.server.type /\ s.dir = e.server.dir
      /\ s.replies = e.server.replies
  BY <1>3, <1>4 DEF Connections, Servers
<1>6. PICK d : d = [e EXCEPT !.server = s]
  OBVIOUS
<1>7. /\ d \in Connections /\ d.busy = e.busy /\ d.pass = e.pass /\ d.sock = e.sock /\ d.server = s
      /\ d.binary = e.binary /\ d.cwd = e.cwd /\ d.untyped = e.untyped
  BY <1>3, <1>5, <1>6 DEF Connections
<1>8. conns' = [conns EXCEPT ![i] = d]
  BY <1>1, <1>2, <1>3, <1>4, <1>6
<1>9. /\ conns' \in Seq(Connections) /\ Len(conns') = Len(conns)
      /\ \A j \in 1 .. Len(conns) : conns'[j] = IF j = i THEN d ELSE conns[j]
  BY <1>2, <1>7, <1>8, ExceptSeq
<1>10. ConnOk(e) => ConnOk(d)
  BY <1>5, <1>7 DEF ConnOk, Believed
<1>11. LoggedIn(e) => LoggedIn(d)
  BY <1>5, <1>7 DEF LoggedIn
<1>12. \A f : FtpCallOk(f, e) => FtpCallOk(f, d)
  <2> SUFFICES ASSUME NEW f, FtpCallOk(f, e) PROVE FtpCallOk(f, d)
    OBVIOUS
  <2>1. PlaceOk(f, f.pc, e) => PlaceOk(f, f.pc, d)
    BY <1>5, <1>7, <1>11 DEF PlaceOk, Believed
  <2> QED BY <1>7, <2>1 DEF FtpCallOk
<1>13. fcall' = fcall /\ sessions' = sessions
  BY DEF server_closes
<1>14. \A j \in 1 .. Len(conns') : ConnOk(conns'[j]) /\ (~conns'[j].busy => LoggedIn(conns'[j]))
  <2> SUFFICES ASSUME NEW j \in 1 .. Len(conns')
               PROVE  ConnOk(conns'[j]) /\ (~conns'[j].busy => LoggedIn(conns'[j]))
    OBVIOUS
  <2>1. j \in 1 .. Len(conns) /\ ConnOk(conns[j]) /\ (~conns[j].busy => LoggedIn(conns[j]))
    BY <1>9 DEF FtpInv
  <2> QED BY <1>3, <1>7, <1>9, <1>10, <1>11, <2>1
<1>15. ASSUME NEW u \in FtpCalls, fcall'[u] # NoCall
       PROVE  fcall'[u].conn \in 1 .. Len(conns') /\ FtpCallOk(fcall'[u], conns'[fcall'[u].conn])
  <2>1. fcall[u].conn \in 1 .. Len(conns) /\ FtpCallOk(fcall[u], conns[fcall[u].conn])
    BY <1>13, <1>15 DEF FtpInv
  <2> QED BY <1>3, <1>9, <1>12, <1>13, <2>1
<1>16. \A j \in 1 .. Len(conns') : conns'[j].busy => \E u \in FtpCalls : Using(u, j)'
  <2> SUFFICES ASSUME NEW j \in 1 .. Len(conns'), conns'[j].busy PROVE \E u \in FtpCalls : Using(u, j)'
    OBVIOUS
  <2>1. j \in 1 .. Len(conns) /\ conns[j].busy
    BY <1>3, <1>7, <1>9
  <2> QED BY <1>13, <2>1 DEF FtpInv, Using
<1>17. \A j \in 1 .. Len(conns') : \A u, v \in FtpCalls : Using(u, j)' /\ Using(v, j)' => u = v
  BY <1>9, <1>13 DEF FtpInv, Using
<1>18. fcall' \in [FtpCalls -> FtpRunning \cup {NoCall}] /\ DOMAIN fcall' = FtpCalls
       /\ sessions' \in [Accounts -> FtpPasswords \cup {"none"}]
  BY <1>13 DEF FtpInv
<1> QED BY <1>9, <1>14, <1>15, <1>16, <1>17, <1>18 DEF FtpInv

\* The passwords of the sessions are no part of the connections.
LEMMA SessionsChange ==
    ASSUME FtpInv, conns' = conns, fcall' = fcall, sessions' \in [Accounts -> FtpPasswords \cup {"none"}]
    PROVE  FtpInv'
BY DEF FtpInv, Using

\* The invariant holds at the start.
LEMMA FtpStarts == ASSUME FtpInit PROVE FtpInv
<1>1. conns = <<>> /\ Len(conns) = 0 /\ conns \in Seq(Connections)
  BY DEF FtpInit
<1>2. 1 .. Len(conns) = {}
  BY <1>1
<1>3. fcall = [t \in FtpCalls |-> NoCall] /\ sessions = [a \in Accounts |-> "none"]
  BY DEF FtpInit
<1>4. fcall \in [FtpCalls -> FtpRunning \cup {NoCall}] /\ \A t \in FtpCalls : fcall[t] = NoCall
  BY <1>3
<1>5. sessions \in [Accounts -> FtpPasswords \cup {"none"}]
  BY <1>3
<1> QED BY <1>1, <1>2, <1>3, <1>4, <1>5 DEF FtpInv

\* Every step preserves the invariant.
LEMMA FtpSteps == ASSUME FtpInv, [FtpNext]_ftp_vars PROVE FtpInv'
<1>1. CASE UNCHANGED ftp_vars
  <2>1. conns' = conns /\ fcall' = fcall /\ sessions' = sessions
    BY <1>1 DEF ftp_vars
  <2> QED BY <2>1, SessionsChange DEF FtpInv
<1>2. ASSUME NEW t \in FtpCalls, ftp_list_ends(t) PROVE FtpInv'
  <2>1. FinalReply(t, LAMBDA r : IF r.reply = "yes" THEN [c |-> r.c, pc |-> "release", ans |-> "ok"]
                                 ELSE [c |-> r.c, pc |-> "fail", ans |-> "none"])
    BY <1>2 DEF ftp_list_ends
  <2>2. fcall[t].pc = "final"
    BY <1>2 DEF ftp_list_ends
  <2> QED BY <2>1, <2>2, LastReply
<1>3. ASSUME NEW t \in FtpCalls, ftp_wait_ends(t) PROVE FtpInv'
  <2>1. FinalReply(t, LAMBDA r : IF r.reply = "yes" THEN [c |-> r.c, pc |-> "release", ans |-> "ok"]
                                 ELSE [c |-> r.c, pc |-> "broken", ans |-> "none"])
    BY <1>3 DEF ftp_wait_ends
  <2>2. fcall[t].pc = "reply"
    BY <1>3 DEF ftp_wait_ends
  <2> QED BY <2>1, <2>2, LastReply
<1>4. ASSUME ftp_password_set \/ ftp_loggedin_set PROVE FtpInv'
  <2>1. sessions \in [Accounts -> FtpPasswords \cup {"none"}]
    BY DEF FtpInv
  <2>2. conns' = conns /\ fcall' = fcall
    BY <1>4 DEF ftp_password_set, ftp_loggedin_set
  <2>3. sessions' \in [Accounts -> FtpPasswords \cup {"none"}]
    BY <1>4, <2>1 DEF ftp_password_set, ftp_loggedin_set
  <2> QED BY <2>2, <2>3, SessionsChange
<1> QED BY <1>1, <1>2, <1>3, <1>4, FtpGetConn, FtpReleaseConn, FtpNoop, FtpConnect, FtpLogin, FtpInitConn,
           FtpSetType, FtpSetCwd, FtpOpenDataconn, FtpTransfer, FtpReadList, FtpInitLocalfile, FtpWait,
           FtpFreeLocalfile, ServerCloses DEF FtpNext

\* The invariant holds in every reachable state.
LEMMA FtpAlways == FtpInit /\ [][FtpNext]_ftp_vars => []FtpInv
<1>1. FtpInit => FtpInv
  BY FtpStarts
<1>2. FtpInv /\ [FtpNext]_ftp_vars => FtpInv'
  BY FtpSteps
<1> QED BY <1>1, <1>2, PTL

\* In the invariant a connection is busy while one call has it.
LEMMA FtpBusyOk == ASSUME FtpInv PROVE BusyExact
<1> SUFFICES ASSUME NEW i \in 1 .. Len(conns)
             PROVE  Cardinality({t \in FtpCalls : fcall[t].conn = i}) = IF conns[i].busy THEN 1 ELSE 0
  BY DEF BusyExact
<1>1. CASE conns[i].busy
  <2>1. PICK t \in FtpCalls : fcall[t].conn = i
    BY <1>1 DEF FtpInv, Using
  <2>2. {u \in FtpCalls : fcall[u].conn = i} = {t}
    BY <2>1 DEF FtpInv, Using
  <2> QED BY <1>1, <2>2, FS_Singleton
<1>2. CASE ~conns[i].busy
  <2>1. \A t \in FtpCalls : fcall[t].conn # i
    <3> SUFFICES ASSUME NEW t \in FtpCalls, fcall[t].conn = i PROVE FALSE
      OBVIOUS
    <3>1. NoCall.conn = 0 /\ i # 0
      BY DEF NoCall
    <3>2. fcall[t] # NoCall
      BY <3>1
    <3> QED BY <1>2, <3>2 DEF FtpInv, FtpCallOk
  <2>2. {u \in FtpCalls : fcall[u].conn = i} = {}
    BY <2>1
  <2> QED BY <1>2, <2>2, FS_EmptySet
<1> QED BY <1>1, <1>2

\* A connection is busy while one call or local file has it, and at no other time: every path
\* of ftp_list, ftp_get, ftp_wait and their errors gives back what ftp_find_conn has given, and
\* none gives it back twice, for any number of calls, users, directories and connections.
THEOREM BusyCorrect == FtpInit /\ [][FtpNext]_ftp_vars => []BusyExact
<1>1. FtpInv => BusyExact
  BY FtpBusyOk
<1> QED BY <1>1, FtpAlways, PTL

\* In the invariant the server is as the transfer needs it.
LEMMA FtpTransferOk == ASSUME FtpInv PROVE TransferTrue
<1> SUFFICES ASSUME NEW t \in FtpCalls, fcall[t].pc \in {"data", "localfile", "got"}
             PROVE  LET c == conns[fcall[t].conn]
                    IN c.sock => /\ c.server.dir = fcall[t].dir /\ c.server.pass = fcall[t].pass
                                 /\ c.server.type = Type(t) \/ c.untyped
  BY DEF TransferTrue
<1>1. PICK f, c : f = fcall[t] /\ c = conns[f.conn]
  OBVIOUS
<1>2. f \in FtpRunning /\ c.pass = f.pass /\ PlaceOk(f, f.pc, c)
  BY <1>1, CallWorks
<1>3. /\ Believed(c) /\ LoggedIn(c) /\ c.binary = TypeFor(f) /\ c.cwd = f.dir
  BY <1>1, <1>2 DEF PlaceOk
<1>4. f.dir # "" /\ TypeFor(f) # "unset"
  BY <1>2, FtpAssumption DEF FtpRunning, TypeFor
<1>5. TypeFor(f) = Type(t)
  BY <1>1 DEF Type, TypeFor
<1> QED BY <1>1, <1>2, <1>3, <1>4, <1>5 DEF Believed, LoggedIn

\* What a transfer needs of the server is so: the directory, the user and the type, but for a
\* TYPE that was refused, are those of the call, though ftp_set_cwd and ftp_set_type leave out
\* commands by what conn->cwd and conn->binary say, and a reply may be that of another command.
THEOREM TransferCorrect == FtpInit /\ [][FtpNext]_ftp_vars => []TransferTrue
<1>1. FtpInv => TransferTrue
  BY FtpTransferOk
<1> QED BY <1>1, FtpAlways, PTL

\* In the invariant a get that is done has the whole file.
LEMMA FtpWholeOk == ASSUME FtpInv PROVE FileWhole
<1>1. ASSUME NEW t \in FtpCalls, fcall[t].ans = "ok", fcall[t].op = "get" PROVE fcall[t].whole
  <2>1. NoCall.ans = "none"
    BY DEF NoCall
  <2>2. fcall[t] # NoCall
    BY <1>1, <2>1
  <2> QED BY <1>1, <2>2 DEF FtpInv, FtpCallOk
<1> QED BY <1>1 DEF FileWhole

\* A get is done only when the whole file was received: the reply that ftp_wait takes for the
\* end of the transfer is never that of another command.
THEOREM WholeCorrect == FtpInit /\ [][FtpNext]_ftp_vars => []FileWhole
<1>1. FtpInv => FileWhole
  BY FtpWholeOk
<1> QED BY <1>1, FtpAlways, PTL

----------------------------------------------------------------------------
(* Http: the sizes that are given.                                         *)

\* What a serial file has is a part of the response, and the length announced is its own.
Bodies == 0 .. MaxBody
Sfiles == [state : {"none", "begin", "read", "fini"}, n : Bodies, len : Bodies]
HttpEntries == [there : BOOLEAN, size : Bodies \cup {-1}, sf : Sfiles]
Lefts == [e : HttpEntries, ok : BOOLEAN, cost : Nat]
Answering(e) == e.sf.state \in {"read", "fini"}
HttpEntryOk(e) ==
    /\ e \in HttpEntries /\ e.sf.n =< e.sf.len
    /\ Answering(e) => e.size \in {-1, e.sf.len}

HttpFileType == [url : Urls \cup {NoUrl}, ans : Int, told : {TRUE}]
HttpInv ==
    /\ hents \in [Urls -> HttpEntries] /\ hbody \in [Urls -> Bodies]
    /\ hfiles \in [HttpFiles -> HttpFileType]
    /\ \A u \in Urls : HttpEntryOk(hents[u])

\* A new serial file, and what a failure leaves.
LEMMA NewSfileOk ==
    ASSUME NEW e, HttpEntryOk(e), NEW sf \in {NewSfile, NoSfile}
    PROVE  HttpEntryOk([e EXCEPT !.sf = sf])
<1>1. sf \in Sfiles /\ sf.n =< sf.len /\ sf.state \in {"none", "begin"}
  BY HttpAssumption DEF Sfiles, Bodies, NewSfile, NoSfile
<1>2. PICK d : d = [e EXCEPT !.sf = sf]
  OBVIOUS
<1>3. d \in HttpEntries /\ d.sf = sf
  BY <1>1, <1>2 DEF HttpEntryOk, HttpEntries
<1> QED BY <1>1, <1>2, <1>3 DEF HttpEntryOk, Answering

\* What a failure leaves is a state of an entry.
LEMMA FailedOk ==
    ASSUME NEW e, HttpEntryOk(e)
    PROVE  HttpEntryOk(Failed(e).e) /\ Failed(e) \in Lefts /\ Failed(e).ok = FALSE
<1>1. PICK d : d = [e EXCEPT !.sf = NewSfile]
  OBVIOUS
<1>2. HttpEntryOk(d)
  BY <1>1, NewSfileOk
<1>3. Failed(e) = [e |-> d, ok |-> FALSE, cost |-> 1]
  BY <1>1 DEF Failed
<1> QED BY <1>2, <1>3 DEF Lefts, HttpEntryOk

\* A response is begun with the length announced forgotten, or replaced.
LEMMA StartOk ==
    ASSUME NEW e, HttpEntryOk(e), e.sf.state = "begin", NEW len \in Bodies, NEW l \in http_start(e, len)
    PROVE  l \in Lefts /\ HttpEntryOk(l.e) /\ (l.ok => Answering(l.e))
<1>1. PICK d : d = [e EXCEPT !.size = -1]
  OBVIOUS
<1>2. HttpEntryOk(d)
  <2>1. d \in HttpEntries /\ d.sf = e.sf /\ d.size = -1
    BY <1>1 DEF HttpEntryOk, HttpEntries
  <2> QED BY <2>1 DEF HttpEntryOk, Answering
<1>3. PICK sf : sf = [state |-> "read", n |-> 0, len |-> len]
  OBVIOUS
<1>4. sf \in Sfiles /\ sf.n =< sf.len /\ sf.len = len /\ sf.state = "read"
  BY <1>3, HttpAssumption DEF Sfiles, Bodies
<1>5. PICK r : r = [d EXCEPT !.sf = sf]
  OBVIOUS
<1>6. r \in HttpEntries /\ r.sf = sf /\ r.size = -1
  BY <1>1, <1>2, <1>4, <1>5 DEF HttpEntryOk, HttpEntries
<1>7. PICK q : q = [r EXCEPT !.size = len]
  OBVIOUS
<1>8. q \in HttpEntries /\ q.sf = sf /\ q.size = len
  BY <1>6, <1>7 DEF HttpEntries
<1>9. HttpEntryOk(r) /\ Answering(r) /\ HttpEntryOk(q) /\ Answering(q)
  BY <1>4, <1>6, <1>8 DEF HttpEntryOk, Answering
<1>10. PICK p : p = [d EXCEPT !.size = len]
  OBVIOUS
<1>11. HttpEntryOk(p)
  <2>1. p \in HttpEntries /\ p.sf = e.sf
    BY <1>1, <1>2, <1>10 DEF HttpEntryOk, HttpEntries
  <2> QED BY <2>1 DEF HttpEntryOk, Answering
<1>12. l \in {Failed(e), Left(r, TRUE), Left(q, TRUE), Failed(d), Failed(p)}
  BY <1>1, <1>3, <1>5, <1>7, <1>10 DEF http_start, http_wait_response, http_process_header_line
<1>13. CASE l \in {Failed(e), Failed(d), Failed(p)}
  BY <1>2, <1>11, <1>13, FailedOk
<1>14. CASE l = Left(r, TRUE)
  BY <1>4, <1>6, <1>9, <1>14 DEF Left, Lefts, HttpEntryOk
<1>15. CASE l = Left(q, TRUE)
  BY <1>4, <1>8, <1>9, <1>15 DEF Left, Lefts, HttpEntryOk
<1> QED BY <1>12, <1>13, <1>14, <1>15

\* av_sfile_startget of the serial file of an entry, which it makes if there is none.
LEMMA StartedOk ==
    ASSUME NEW e, HttpEntryOk(e), NEW len \in Bodies, NEW l \in Started(http_get_serialfile(e), len)
    PROVE  l \in Lefts /\ HttpEntryOk(l.e) /\ (l.ok => Answering(l.e))
<1>1. PICK d : d = http_get_serialfile(e)
  OBVIOUS
<1>2. HttpEntryOk(d) /\ d.sf.state # "none"
  <2>1. CASE e.sf.state = "none"
    <3>1. d = [e EXCEPT !.sf = NewSfile]
      BY <1>1, <2>1 DEF http_get_serialfile
    <3>2. d.sf = NewSfile
      BY <3>1 DEF HttpEntryOk, HttpEntries
    <3>3. HttpEntryOk(d)
      BY <3>1, NewSfileOk
    <3> QED BY <3>2, <3>3 DEF NewSfile
  <2>2. CASE e.sf.state # "none"
    BY <1>1, <2>2 DEF http_get_serialfile
  <2> QED BY <2>1, <2>2
<1>3. CASE d.sf.state = "begin"
  <2>1. l \in http_start(d, len)
    BY <1>1, <1>3 DEF Started
  <2> QED BY <1>2, <1>3, <2>1, StartOk
<1>4. CASE d.sf.state # "begin"
  <2>1. l = Left(d, TRUE)
    BY <1>1, <1>4 DEF Started
  <2>2. Answering(d)
    BY <1>2, <1>4 DEF HttpEntryOk, HttpEntries, Sfiles, Answering
  <2> QED BY <1>2, <2>1, <2>2 DEF Left, Lefts, HttpEntryOk
<1> QED BY <1>3, <1>4

\* The body is read on: a file that holds less than was wanted has ended.
LEMMA ReadOnOk ==
    ASSUME NEW l \in Lefts, HttpEntryOk(l.e), l.ok => Answering(l.e), NEW upto \in Nat, NEW m \in ReadOn(l, upto)
    PROVE  /\ HttpEntryOk(m.e)
           /\ m.ok => l.ok /\ (upto > l.e.sf.len => m.e.sf.state = "fini")
<1>1. PICK e, s : e = l.e /\ s = l.e.sf
  OBVIOUS
<1>2. e \in HttpEntries /\ s \in Sfiles /\ s.n \in Nat /\ s.len \in Nat /\ s.n =< s.len /\ s.len \in Bodies
  BY <1>1, HttpAssumption DEF HttpEntryOk, HttpEntries, Sfiles, Bodies
<1>3. CASE ~l.ok \/ s.state # "read" \/ s.n >= upto
  <2>1. m = l
    BY <1>1, <1>3 DEF ReadOn
  <2> QED BY <1>1, <1>2, <1>3, <2>1 DEF Answering
<1>4. CASE l.ok /\ s.state = "read" /\ s.n < upto
  <2>1. e.size \in {-1, s.len}
    BY <1>1, <1>4 DEF HttpEntryOk
  <2>2. ASSUME NEW state \in {"read", "fini"}, NEW k \in Nat, k =< s.len,
               NEW t, t = [s EXCEPT !.state = state, !.n = k], NEW d, d = [e EXCEPT !.sf = t]
        PROVE  HttpEntryOk(d) /\ d.sf.state = state
    <3>1. k \in Bodies
      BY <1>2, <2>2, HttpAssumption DEF Bodies
    <3>2. t = [state |-> state, n |-> k, len |-> s.len]
      BY <1>2, <2>2 DEF Sfiles
    <3>3. t \in Sfiles /\ t.state = state /\ t.n = k /\ t.len = s.len
      BY <1>2, <3>1, <3>2 DEF Sfiles
    <3>4. d \in HttpEntries /\ d.sf = t /\ d.size = e.size
      BY <1>2, <2>2, <3>3 DEF HttpEntries
    <3> QED BY <2>1, <2>2, <3>3, <3>4 DEF HttpEntryOk
  <2>3. ASSUME NEW k \in Nat, k =< s.len PROVE HttpEntryOk(http_sread(e, k)) /\ http_sread(e, k).sf.state = "fini"
    BY <1>1, <2>2, <2>3 DEF http_sread
  <2>4. ASSUME upto =< s.len PROVE HttpEntryOk([e EXCEPT !.sf = [s EXCEPT !.n = upto]])
    <3>1. [s EXCEPT !.n = upto] = [s EXCEPT !.state = "read", !.n = upto]
      BY <1>2, <1>4 DEF Sfiles
    <3> QED BY <2>2, <2>4, <3>1
  <2>5. PICK f : f = Failed(e)
    OBVIOUS
  <2>6. \/ m = [l EXCEPT !.e = IF upto =< s.len THEN [e EXCEPT !.sf = [s EXCEPT !.n = upto]] ELSE http_sread(e, s.len)]
        \/ \E k \in s.n .. s.len - 1 : m = [l EXCEPT !.e = http_sread(e, k), !.cost = l.cost + 1]
        \/ m = [f EXCEPT !.cost = f.cost + l.cost]
    <3>1. m \in {[l EXCEPT !.e = IF upto =< s.len THEN [e EXCEPT !.sf = [s EXCEPT !.n = upto]]
                                  ELSE http_sread(e, s.len)]}
               \cup {[l EXCEPT !.e = http_sread(e, k), !.cost = l.cost + 1] : k \in {j \in s.n .. s.len - 1 : j < upto}}
               \cup {[f EXCEPT !.cost = f.cost + l.cost]}
      <4>1. ~(~l.ok \/ s.state # "read" \/ s.n >= upto)
        BY <1>2, <1>4
      <4>2. m \in {[l EXCEPT !.e = IF upto =< l.e.sf.len THEN [l.e EXCEPT !.sf = [l.e.sf EXCEPT !.n = upto]]
                                  ELSE http_sread(l.e, l.e.sf.len)]}
               \cup {[l EXCEPT !.e = http_sread(l.e, k), !.cost = l.cost + 1] :
                       k \in {j \in l.e.sf.n .. l.e.sf.len - 1 : j < upto}}
               \cup {[Failed(l.e) EXCEPT !.cost = Failed(l.e).cost + l.cost]}
        BY <1>1, <4>1, Zenon DEF ReadOn
      <4> QED BY <1>1, <2>5, <4>2
    <3> QED BY <3>1
  <2>7. CASE m = [l EXCEPT !.e = IF upto =< s.len THEN [e EXCEPT !.sf = [s EXCEPT !.n = upto]] ELSE http_sread(e, s.len)]
    <3>1. m.e = IF upto =< s.len THEN [e EXCEPT !.sf = [s EXCEPT !.n = upto]] ELSE http_sread(e, s.len)
      BY <2>7 DEF Lefts
    <3>2. m.ok = l.ok
      BY <2>7 DEF Lefts
    <3> QED BY <1>1, <1>2, <1>4, <2>3, <2>4, <3>1, <3>2
  <2>8. ASSUME NEW k \in s.n .. s.len - 1, m = [l EXCEPT !.e = http_sread(e, k), !.cost = l.cost + 1]
        PROVE  HttpEntryOk(m.e) /\ m.e.sf.state = "fini"
    <3>1. m.e = http_sread(e, k)
      BY <2>8 DEF Lefts
    <3>2. k \in Nat /\ k =< s.len
      BY <1>2
    <3> QED BY <2>3, <3>1, <3>2
  <2>9. CASE m = [f EXCEPT !.cost = f.cost + l.cost]
    <3>1. f \in Lefts /\ HttpEntryOk(f.e) /\ f.ok = FALSE
      BY <1>1, <2>5, FailedOk
    <3>2. m.e = f.e /\ m.ok = FALSE
      BY <2>9, <3>1 DEF Lefts
    <3> QED BY <3>1, <3>2
  <2> QED BY <1>4, <2>6, <2>7, <2>8, <2>9
<1> QED BY <1>1, <1>2, <1>3, <1>4

\* A call leaves one entry in another state.
LEMMA EntryChanges ==
    ASSUME HttpInv, NEW u \in Urls, NEW e, HttpEntryOk(e), hents' = [hents EXCEPT ![u] = e], hbody' = hbody,
           hfiles' \in [HttpFiles -> HttpFileType]
    PROVE  HttpInv'
<1>1. e \in HttpEntries
  BY DEF HttpEntryOk
<1>2. hents' \in [Urls -> HttpEntries] /\ \A w \in Urls : HttpEntryOk(hents'[w])
  BY <1>1 DEF HttpInv
<1> QED BY <1>2 DEF HttpInv

\* http_open keeps the invariant.
LEMMA HttpOpen == ASSUME HttpInv, NEW f \in HttpFiles, NEW u \in Urls, http_open(f, u) PROVE HttpInv'
<1>1. PICK e : e = http_get_entry(u)
  OBVIOUS
<1>2. HttpEntryOk(e)
  <2>1. HttpEntryOk(hents[u])
    BY DEF HttpInv
  <2>2. CASE hents[u].there
    BY <1>1, <2>1, <2>2 DEF http_get_entry
  <2>3. CASE ~hents[u].there
    <3>1. e = [hents[u] EXCEPT !.there = TRUE]
      BY <1>1, <2>3 DEF http_get_entry
    <3>2. e \in HttpEntries /\ e.sf = hents[u].sf /\ e.size = hents[u].size
      BY <2>1, <3>1 DEF HttpEntryOk, HttpEntries
    <3> QED BY <2>1, <3>2 DEF HttpEntryOk, Answering
  <2> QED BY <2>2, <2>3
<1>3. PICK l \in Started(http_get_serialfile(e), hbody[u]) :
        /\ hents' = [hents EXCEPT ![u] = l.e]
        /\ hfiles' = [hfiles EXCEPT ![f] = IF l.ok THEN [NoHttpFile EXCEPT !.url = u] ELSE hfiles[f]]
        /\ hbody' = hbody
  BY <1>1 DEF http_open, Leaves
<1>4. hbody[u] \in Bodies
  BY DEF HttpInv
<1>5. HttpEntryOk(l.e)
  BY <1>2, <1>3, <1>4, StartedOk
<1>6. PICK h : h = IF l.ok THEN [NoHttpFile EXCEPT !.url = u] ELSE hfiles[f]
  OBVIOUS
<1>7. h \in HttpFileType
  <2>1. hfiles[f] \in HttpFileType
    BY DEF HttpInv
  <2>2. NoHttpFile \in HttpFileType
    BY DEF NoHttpFile, HttpFileType
  <2>3. PICK z \in HttpFileType : z = NoHttpFile
    BY <2>2
  <2>4. [z EXCEPT !.url = u] \in HttpFileType
    BY DEF HttpFileType
  <2> QED BY <1>6, <2>1, <2>3, <2>4
<1>8. hfiles' \in [HttpFiles -> HttpFileType]
  BY <1>3, <1>6, <1>7 DEF HttpInv
<1> QED BY <1>3, <1>5, <1>8, EntryChanges

\* http_read keeps the invariant.
LEMMA HttpRead == ASSUME HttpInv, NEW f \in HttpFiles, http_read(f) PROVE HttpInv'
<1>1. PICK u \in Urls : u = hfiles[f].url
  BY DEF HttpInv, http_read, HttpFileType
<1>2. PICK s \in Started(http_get_serialfile(hents[u]), hbody[u]) : \E pos \in 1 .. MaxBody : \E l \in ReadOn(s, pos) :
        hents' = [hents EXCEPT ![u] = l.e] /\ hfiles' = hfiles /\ hbody' = hbody
  BY <1>1 DEF http_read, Leaves
<1>3. PICK pos \in 1 .. MaxBody : \E l \in ReadOn(s, pos) :
        hents' = [hents EXCEPT ![u] = l.e] /\ hfiles' = hfiles /\ hbody' = hbody
  BY <1>2
<1>4. PICK l \in ReadOn(s, pos) : hents' = [hents EXCEPT ![u] = l.e] /\ hfiles' = hfiles /\ hbody' = hbody
  BY <1>3
<1>5. hbody[u] \in Bodies /\ HttpEntryOk(hents[u]) /\ pos \in Nat
  BY HttpAssumption DEF HttpInv
<1>6. s \in Lefts /\ HttpEntryOk(s.e) /\ (s.ok => Answering(s.e))
  BY <1>2, <1>5, StartedOk
<1>7. HttpEntryOk(l.e)
  BY <1>4, <1>5, <1>6, ReadOnOk
<1> QED BY <1>4, <1>7, EntryChanges DEF HttpInv

\* http_getattr keeps the invariant.
LEMMA HttpGetattr == ASSUME HttpInv, NEW f \in HttpFiles, http_getattr(f) PROVE HttpInv'
<1>1. PICK u \in Urls : u = hfiles[f].url
  BY DEF HttpInv, http_getattr, HttpFileType
<1>2. PICK s \in Started(http_get_serialfile(hents[u]), hbody[u]) :
        /\ hbody' = hbody
        /\ IF ~s.ok THEN Leaves(u, s) /\ UNCHANGED hfiles
           ELSE \E l \in (IF s.e.size # -1 THEN {s} ELSE ReadOn(s, MaxBody + 1)) :
                  LET ans == IF s.e.size # -1 THEN s.e.size ELSE IF l.ok THEN l.e.sf.n ELSE -1
                  IN /\ Leaves(u, l)
                     /\ hfiles' = [hfiles EXCEPT ![f].ans = ans,
                          ![f].told = l.ok => \/ ans = s.e.sf.len
                                              \/ ans = l.e.sf.n /\ l.e.sf.state = "fini"]
  BY <1>1, ZenonT(40) DEF http_getattr
<1>3. hbody[u] \in Bodies /\ HttpEntryOk(hents[u]) /\ MaxBody + 1 \in Nat
  BY HttpAssumption DEF HttpInv
<1>4. s \in Lefts /\ HttpEntryOk(s.e) /\ (s.ok => Answering(s.e))
  BY <1>2, <1>3, StartedOk
<1>5. CASE ~s.ok
  <2>1. hents' = [hents EXCEPT ![u] = s.e] /\ hfiles' = hfiles
    BY <1>2, <1>5 DEF Leaves
  <2> QED BY <1>2, <1>4, <2>1, EntryChanges DEF HttpInv
<1>6. CASE s.ok
  <2>1. PICK l \in (IF s.e.size # -1 THEN {s} ELSE ReadOn(s, MaxBody + 1)) :
          LET ans == IF s.e.size # -1 THEN s.e.size ELSE IF l.ok THEN l.e.sf.n ELSE -1
          IN /\ Leaves(u, l)
             /\ hfiles' = [hfiles EXCEPT ![f].ans = ans,
                  ![f].told = l.ok => \/ ans = s.e.sf.len
                                      \/ ans = l.e.sf.n /\ l.e.sf.state = "fini"]
    BY <1>2, <1>6
  <2>2. PICK ans : ans = IF s.e.size # -1 THEN s.e.size ELSE IF l.ok THEN l.e.sf.n ELSE -1
    OBVIOUS
  <2>3. PICK told : told = (l.ok => \/ ans = s.e.sf.len
                                    \/ ans = l.e.sf.n /\ l.e.sf.state = "fini")
    OBVIOUS
  <2>4. hents' = [hents EXCEPT ![u] = l.e] /\ hfiles' = [hfiles EXCEPT ![f].ans = ans, ![f].told = told]
    BY <2>1, <2>2, <2>3 DEF Leaves
  <2>5. HttpEntryOk(l.e) /\ ans \in Int /\ told = TRUE
    <3>1. CASE s.e.size # -1
      <4>1. l = s
        BY <2>1, <3>1
      <4>2. s.e.size = s.e.sf.len /\ s.e.size \in Int
        BY <1>4, <1>6, <3>1, HttpAssumption DEF HttpEntryOk, HttpEntries, Bodies
      <4> QED BY <1>4, <2>2, <2>3, <3>1, <4>1, <4>2
    <3>2. CASE s.e.size = -1
      <4>1. s.e.sf.len < MaxBody + 1
        BY <1>4, HttpAssumption DEF HttpEntryOk, HttpEntries, Sfiles, Bodies
      <4>2. HttpEntryOk(l.e) /\ (l.ok => l.e.sf.state = "fini")
        BY <1>3, <1>4, <2>1, <3>2, <4>1, ReadOnOk
      <4>3. l.e.sf.n \in Int
        BY <4>2, HttpAssumption DEF HttpEntryOk, HttpEntries, Sfiles, Bodies
      <4>4. CASE l.ok
        <5>1. ans = l.e.sf.n
          BY <2>2, <3>2, <4>4
        <5> QED BY <2>3, <4>2, <4>3, <4>4, <5>1
      <4>5. CASE ~l.ok
        <5>1. ans = -1
          BY <2>2, <3>2, <4>5
        <5>2. told = TRUE
          BY <2>3, <4>5
        <5> QED BY <4>2, <5>1, <5>2
      <4> QED BY <4>4, <4>5
    <3> QED BY <3>1, <3>2
  <2>6. PICK h : h = [hfiles[f] EXCEPT !.ans = ans, !.told = told]
    OBVIOUS
  <2>7. h \in HttpFileType
    BY <2>5, <2>6 DEF HttpInv, HttpFileType
  <2>8. hfiles' = [hfiles EXCEPT ![f] = h]
    BY <2>4, <2>6 DEF HttpInv
  <2>9. hfiles' \in [HttpFiles -> HttpFileType]
    BY <2>7, <2>8 DEF HttpInv
  <2> QED BY <1>2, <2>4, <2>5, <2>9, EntryChanges
<1> QED BY <1>4, <1>5, <1>6 DEF Lefts

\* Every step of the http module keeps the invariant.
LEMMA HttpSteps == ASSUME HttpInv, [HttpNext]_http_vars PROVE HttpInv'
<1>1. CASE UNCHANGED http_vars
  BY <1>1 DEF http_vars, HttpInv
<1>2. ASSUME NEW f \in HttpFiles, http_close(f) PROVE HttpInv'
  <2>1. NoHttpFile \in HttpFileType
    BY DEF NoHttpFile, HttpFileType
  <2> QED BY <1>2, <2>1 DEF http_close, HttpInv
<1>3. ASSUME NEW u \in Urls, http_evict(u) PROVE HttpInv'
  <2>1. hents' = [hents EXCEPT ![u] = [hents[u] EXCEPT !.sf = NoSfile]] /\ hfiles' = hfiles /\ hbody' = hbody
    BY <1>3 DEF http_evict
  <2>2. HttpEntryOk([hents[u] EXCEPT !.sf = NoSfile])
    BY NewSfileOk DEF HttpInv
  <2> QED BY <2>1, <2>2, EntryChanges DEF HttpInv
<1>4. ASSUME NEW u \in Urls, http_changed(u) PROVE HttpInv'
  BY <1>4 DEF http_changed, HttpInv, Bodies
<1> QED BY <1>1, <1>2, <1>3, <1>4, HttpOpen, HttpRead, HttpGetattr DEF HttpNext

\* The http module begins in the invariant.
LEMMA HttpStarts == ASSUME HttpInit PROVE HttpInv
<1>1. PICK e : e = [there |-> FALSE, size |-> 0, sf |-> NoSfile]
  OBVIOUS
<1>2. HttpEntryOk(e)
  <2>1. NoSfile \in Sfiles /\ NoSfile.n =< NoSfile.len /\ NoSfile.state = "none"
    BY HttpAssumption DEF NoSfile, Sfiles, Bodies
  <2>2. e \in HttpEntries /\ e.sf = NoSfile
    BY <1>1, <2>1, HttpAssumption DEF HttpEntries, Bodies
  <2> QED BY <2>1, <2>2 DEF HttpEntryOk, Answering
<1>3. \A u \in Urls : hents[u] = e
  BY <1>1 DEF HttpInit
<1>4. hents \in [Urls -> HttpEntries]
  BY <1>1, <1>2 DEF HttpInit, HttpEntryOk
<1>5. hfiles \in [HttpFiles -> HttpFileType]
  BY DEF HttpInit, NoHttpFile, HttpFileType
<1> QED BY <1>2, <1>3, <1>4, <1>5 DEF HttpInit, HttpInv, Bodies

\* In the invariant the sizes that are given are true.
LEMMA HttpSizeOk == ASSUME HttpInv PROVE HttpSizeTrue
BY DEF HttpInv, HttpSizeTrue, HttpFileType

\* A size that http_getattr gives for an open file is that of the response that was read,
\* through all responses that begin, end early, fail or are begun anew, for any number of
\* addresses and files and any length of a response.
THEOREM HttpSizeCorrect == HttpInit /\ [][HttpNext]_http_vars => []HttpSizeTrue
<1>1. HttpInit => HttpInv
  BY HttpStarts
<1>2. HttpInv /\ [HttpNext]_http_vars => HttpInv'
  BY HttpSteps
<1>3. HttpInv => HttpSizeTrue
  BY HttpSizeOk
<1> QED BY <1>1, <1>2, <1>3, PTL

----------------------------------------------------------------------------
(* Dav: the slots.                                                         *)

\* The places where a call has no slot.
DavSlotless == {"idle", "find", "answer", "fail", "ended"}
DavHas(t, i) == dcalls[t].slot = i

\* The inductive invariant: a slot that is busy or has a session is that of a call.
DavInv ==
    /\ DOMAIN dcalls = DavCalls /\ DOMAIN slots = Slots
    /\ \A i \in Slots : {"busy", "sesh"} \subseteq DOMAIN slots[i]
    /\ \A t \in DavCalls : {"pc", "slot"} \subseteq DOMAIN dcalls[t]
    /\ \A t \in DavCalls : dcalls[t].pc \in DavSlotless => dcalls[t].slot = 0
    /\ \A i \in Slots : slots[i].busy \/ slots[i].sesh # Nobody => \E t \in DavCalls : DavHas(t, i)

\* A call goes on and keeps its slot.
LEMMA DavGoes ==
    ASSUME DavInv, NEW t \in DavCalls, NEW c, {"pc", "slot"} \subseteq DOMAIN c, c.slot = dcalls[t].slot,
           c.pc \in DavSlotless => c.slot = 0, dcalls' = [dcalls EXCEPT ![t] = c],
           NEW s, dcalls[t].slot \in Slots => {"busy", "sesh"} \subseteq DOMAIN s,
           slots' = slots \/ slots' = [slots EXCEPT ![dcalls[t].slot] = s]
    PROVE  DavInv'
<1>1. DOMAIN dcalls' = DavCalls /\ \A u \in DavCalls : dcalls'[u] = IF u = t THEN c ELSE dcalls[u]
  BY DEF DavInv
<1>2. DOMAIN slots' = Slots /\ \A i \in Slots : slots'[i] = slots[i] \/ (i = dcalls[t].slot /\ slots'[i] = s)
  BY DEF DavInv
<1>3. \A u \in DavCalls : dcalls'[u].slot = dcalls[u].slot
  BY <1>1
<1>4. \A i \in Slots : {"busy", "sesh"} \subseteq DOMAIN slots'[i]
  BY <1>2 DEF DavInv
<1>5. \A u \in DavCalls : {"pc", "slot"} \subseteq DOMAIN dcalls'[u] /\ (dcalls'[u].pc \in DavSlotless => dcalls'[u].slot = 0)
  BY <1>1 DEF DavInv
<1>6. \A i \in Slots : slots'[i].busy \/ slots'[i].sesh # Nobody => \E u \in DavCalls : DavHas(u, i)'
  BY <1>2, <1>3 DEF DavInv, DavHas
<1> QED BY <1>1, <1>2, <1>4, <1>5, <1>6 DEF DavInv

\* A call that has no slot may get one.
LEMMA DavGets ==
    ASSUME DavInv, NEW t \in DavCalls, dcalls[t].slot = 0, NEW c, {"pc", "slot"} \subseteq DOMAIN c,
           c.pc \in DavSlotless => c.slot = 0, dcalls' = [dcalls EXCEPT ![t] = c], slots' = slots
    PROVE  DavInv'
<1>1. DOMAIN dcalls' = DavCalls /\ \A u \in DavCalls : dcalls'[u] = IF u = t THEN c ELSE dcalls[u]
  BY DEF DavInv
<1>2. \A u \in DavCalls : {"pc", "slot"} \subseteq DOMAIN dcalls'[u] /\ (dcalls'[u].pc \in DavSlotless => dcalls'[u].slot = 0)
  BY <1>1 DEF DavInv
<1>3. ASSUME NEW i \in Slots, slots[i].busy \/ slots[i].sesh # Nobody PROVE \E u \in DavCalls : DavHas(u, i)'
  <2>1. PICK u \in DavCalls : dcalls[u].slot = i
    BY <1>3 DEF DavInv, DavHas
  <2>2. u # t
    BY <2>1 DEF Slots
  <2> QED BY <1>1, <2>1, <2>2 DEF DavHas
<1> QED BY <1>1, <1>2, <1>3 DEF DavInv

\* The end of a list or of the request of a get gives back the slot, though another call
\* may have the same.
LEMMA DavEnds == ASSUME DavInv, NEW t \in DavCalls, dav_end(t) PROVE DavInv'
<1>1. PICK k, c : c = [dcalls[t] EXCEPT !.pc = k, !.slot = 0] /\ dcalls' = [dcalls EXCEPT ![t] = c]
  BY DEF dav_end
<1>2. {"pc", "slot"} \subseteq DOMAIN c /\ c.slot = 0
  BY <1>1 DEF DavInv
<1>3. PICK j : j = dcalls[t].slot
  OBVIOUS
<1>4. slots' = [slots EXCEPT ![j] = [slots[j] EXCEPT !.sesh = Nobody, !.busy = FALSE]]
  BY <1>3 DEF dav_end, Freed
<1>5. DOMAIN dcalls' = DavCalls /\ \A u \in DavCalls : dcalls'[u] = IF u = t THEN c ELSE dcalls[u]
  BY <1>1 DEF DavInv
<1>6. \A u \in DavCalls : {"pc", "slot"} \subseteq DOMAIN dcalls'[u] /\ (dcalls'[u].pc \in DavSlotless => dcalls'[u].slot = 0)
  BY <1>2, <1>5 DEF DavInv
<1>7. PICK s : s = [slots[j] EXCEPT !.sesh = Nobody, !.busy = FALSE]
  OBVIOUS
<1>8. DOMAIN slots' = Slots /\ \A i \in Slots : slots'[i] = IF i = j THEN s ELSE slots[i]
  BY <1>4, <1>7 DEF DavInv
<1>9. j \in Slots => {"busy", "sesh"} \subseteq DOMAIN s /\ s.sesh = Nobody /\ ~s.busy
  BY <1>7 DEF DavInv
<1>10. \A i \in Slots : {"busy", "sesh"} \subseteq DOMAIN slots'[i]
  BY <1>8, <1>9 DEF DavInv
<1>11. ASSUME NEW i \in Slots, slots'[i].busy \/ slots'[i].sesh # Nobody PROVE \E u \in DavCalls : DavHas(u, i)'
  <2>1. i # j /\ slots'[i] = slots[i]
    BY <1>8, <1>9, <1>11
  <2>2. PICK u \in DavCalls : dcalls[u].slot = i
    BY <1>11, <2>1 DEF DavInv, DavHas
  <2>3. u # t
    BY <1>3, <2>1, <2>2
  <2> QED BY <1>5, <2>2, <2>3 DEF DavHas
<1> QED BY <1>5, <1>6, <1>8, <1>10, <1>11 DEF DavInv

\* Every step of the dav module keeps the invariant.
LEMMA DavSteps == ASSUME DavInv, [DavNext]_dav_vars PROVE DavInv'
<1>1. ASSUME slots' = slots, dcalls' = dcalls PROVE DavInv'
  BY <1>1 DEF DavInv, DavHas
<1>2. ASSUME NEW t \in DavCalls, dav_begin(t) PROVE DavInv'
  <2>1. PICK op : dcalls' = [dcalls EXCEPT ![t] = [NoDavCall EXCEPT !.pc = "find", !.op = op,
                                                     !.tmp = IF op = "get" THEN "made" ELSE "none"]]
    BY <1>2 DEF dav_begin
  <2>2. PICK c : c = [NoDavCall EXCEPT !.pc = "find", !.op = op, !.tmp = IF op = "get" THEN "made" ELSE "none"]
    OBVIOUS
  <2>3. {"pc", "slot"} \subseteq DOMAIN c /\ c.slot = 0
    BY <2>2 DEF NoDavCall
  <2>4. dcalls[t].slot = 0
    BY <1>2 DEF DavInv, DavSlotless, dav_begin, At
  <2>5. slots' = slots /\ dcalls' = [dcalls EXCEPT ![t] = c]
    BY <1>2, <2>1, <2>2 DEF dav_begin
  <2> QED BY <2>3, <2>4, <2>5, DavGets
<1>3. ASSUME NEW t \in DavCalls, new_dav_conn_find(t) PROVE DavInv'
  <2>1. PICK i : \/ dcalls' = [dcalls EXCEPT ![t].pc = "fail"]
                 \/ dcalls' = [dcalls EXCEPT ![t].pc = "take", ![t].slot = i]
    BY <1>3 DEF new_dav_conn_find
  <2>2. dcalls[t].slot = 0 /\ {"pc", "slot"} \subseteq DOMAIN dcalls[t] /\ slots' = slots
    BY <1>3 DEF DavInv, DavSlotless, new_dav_conn_find, At
  <2>3. PICK c, d : c = [dcalls[t] EXCEPT !.pc = "fail"] /\ d = [dcalls[t] EXCEPT !.pc = "take", !.slot = i]
    OBVIOUS
  <2>4. /\ {"pc", "slot"} \subseteq DOMAIN c /\ c.slot = 0
        /\ {"pc", "slot"} \subseteq DOMAIN d /\ d.pc \notin DavSlotless
    BY <2>2, <2>3 DEF DavSlotless
  <2>5. dcalls' = [dcalls EXCEPT ![t] = c] \/ dcalls' = [dcalls EXCEPT ![t] = d]
    BY <2>1, <2>3 DEF DavInv
  <2> QED BY <2>2, <2>4, <2>5, DavGets
<1>4. ASSUME NEW t \in DavCalls, NEW k, k \notin DavSlotless, dcalls' = [dcalls EXCEPT ![t].pc = k],
             NEW s, dcalls[t].slot \in Slots => {"busy", "sesh"} \subseteq DOMAIN s,
             slots' = slots \/ slots' = [slots EXCEPT ![dcalls[t].slot] = s]
      PROVE  DavInv'
  <2>1. PICK c : c = [dcalls[t] EXCEPT !.pc = k]
    OBVIOUS
  <2>2. {"pc", "slot"} \subseteq DOMAIN c /\ c.slot = dcalls[t].slot /\ c.pc \notin DavSlotless
    BY <1>4, <2>1 DEF DavInv
  <2>3. dcalls' = [dcalls EXCEPT ![t] = c]
    BY <1>4, <2>1
  <2> QED BY <1>4, <2>2, <2>3, DavGoes
<1>5. \A k \in {"take", "init", "request", "done", "error", "creds"} : k \notin DavSlotless
  BY DEF DavSlotless
<1>6. PICK r : r = [busy |-> TRUE, sesh |-> Nobody]
  OBVIOUS
<1>7. {"busy", "sesh"} \subseteq DOMAIN r
  BY <1>6
<1>8. ASSUME NEW t \in DavCalls, new_dav_conn_take(t) PROVE DavInv'
  <2>1. PICK k \in {"init", "error"} : dcalls' = [dcalls EXCEPT ![t].pc = k]
    BY <1>8 DEF new_dav_conn_take, DavGoto
  <2>2. slots' = [slots EXCEPT ![dcalls[t].slot] = r]
    BY <1>6, <1>8 DEF new_dav_conn_take
  <2> QED BY <1>4, <1>5, <1>7, <2>1, <2>2
<1>9. ASSUME NEW t \in DavCalls, av_dav_conn_init(t) PROVE DavInv'
  <2>1. dcalls' = [dcalls EXCEPT ![t].pc = "request"]
    BY <1>9 DEF av_dav_conn_init, DavGoto
  <2>2. PICK s : s = [slots[dcalls[t].slot] EXCEPT !.sesh = t]
    OBVIOUS
  <2>3. slots' = [slots EXCEPT ![dcalls[t].slot] = s]
    BY <1>9, <2>2 DEF av_dav_conn_init
  <2>4. dcalls[t].slot \in Slots => {"busy", "sesh"} \subseteq DOMAIN s
    BY <2>2 DEF DavInv
  <2> QED BY <1>4, <1>5, <2>1, <2>3, <2>4
<1>10. ASSUME NEW t \in DavCalls, NEW k, k \notin DavSlotless, NEW a, slots' = slots,
              dcalls' = [dcalls EXCEPT ![t].pc = k, ![t].creds = a]
       PROVE  DavInv'
  <2>1. PICK c : c = [dcalls[t] EXCEPT !.pc = k, !.creds = a]
    OBVIOUS
  <2>2. {"pc", "slot"} \subseteq DOMAIN c /\ c.slot = dcalls[t].slot /\ c.pc \notin DavSlotless
    BY <1>10, <2>1 DEF DavInv
  <2>3. dcalls' = [dcalls EXCEPT ![t] = c]
    BY <1>10, <2>1 DEF DavInv
  <2> QED BY <1>7, <1>10, <2>2, <2>3, DavGoes
<1>11. ASSUME NEW t \in DavCalls, av_http_read_file(t) PROVE DavInv'
  <2>1. \/ dcalls' = dcalls
        \/ \E k \in {"done", "error"} : dcalls' = [dcalls EXCEPT ![t].pc = k]
        \/ \E a : dcalls' = [dcalls EXCEPT ![t].pc = "creds", ![t].creds = a]
    BY <1>11 DEF av_http_read_file, DavGoto
  <2>2. slots' = slots
    BY <1>11 DEF av_http_read_file
  <2> QED BY <1>1, <1>4, <1>5, <1>7, <1>10, <2>1, <2>2
<1>12. ASSUME NEW t \in DavCalls, dav_supply_creds(t) PROVE DavInv'
  <2>1. PICK k \in {"done", "error"} : dcalls' = [dcalls EXCEPT ![t].pc = k, ![t].creds = "none"]
    BY <1>12 DEF dav_supply_creds
  <2>2. slots' = slots
    BY <1>12 DEF dav_supply_creds
  <2> QED BY <1>5, <1>10, <2>1, <2>2
<1>13. ASSUME NEW t \in DavCalls, dav_answer(t) PROVE DavInv'
  <2>1. PICK x : dcalls' = [dcalls EXCEPT ![t].pc = "ended", ![t].tmp = x]
    BY <1>13 DEF dav_answer
  <2>2. PICK c : c = [dcalls[t] EXCEPT !.pc = "ended", !.tmp = x]
    OBVIOUS
  <2>3. {"pc", "slot"} \subseteq DOMAIN dcalls[t] /\ dcalls[t].slot = 0
    BY <1>13 DEF DavInv, DavSlotless, dav_answer, At
  <2>4. {"pc", "slot"} \subseteq DOMAIN c /\ c.slot = 0
    BY <2>2, <2>3
  <2>5. dcalls' = [dcalls EXCEPT ![t] = c] /\ slots' = slots
    BY <1>13, <2>1, <2>2 DEF DavInv, dav_answer
  <2> QED BY <2>3, <2>4, <2>5, DavGets
<1>14. ASSUME NEW t \in DavCalls, dav_return(t) PROVE DavInv'
  <2>1. {"pc", "slot"} \subseteq DOMAIN NoDavCall /\ NoDavCall.slot = 0
    BY DEF NoDavCall
  <2>2. dcalls[t].slot = 0 /\ dcalls' = [dcalls EXCEPT ![t] = NoDavCall] /\ slots' = slots
    BY <1>14 DEF DavInv, DavSlotless, dav_return, At
  <2>3. PICK c : c = NoDavCall
    OBVIOUS
  <2> QED BY <2>1, <2>2, <2>3, DavGets
<1>15. ASSUME NEW a, NEW what, pass_remove_session(a) \/ pass_set(a, what) PROVE DavInv'
  BY <1>1, <1>15 DEF pass_remove_session, pass_set
<1> QED BY <1>1, <1>2, <1>3, <1>8, <1>9, <1>11, <1>12, <1>13, <1>14, <1>15, DavEnds DEF DavNext, dav_vars

\* The dav module begins in the invariant.
LEMMA DavStarts == ASSUME DavInit PROVE DavInv
<1>1. \A t \in DavCalls : {"pc", "slot"} \subseteq DOMAIN dcalls[t] /\ dcalls[t].slot = 0
  BY DEF DavInit, NoDavCall
<1>2. \A i \in Slots : {"busy", "sesh"} \subseteq DOMAIN slots[i] /\ ~slots[i].busy /\ slots[i].sesh = Nobody
  BY DEF DavInit
<1>3. DOMAIN dcalls = DavCalls /\ DOMAIN slots = Slots
  BY DEF DavInit
<1> QED BY <1>1, <1>2, <1>3 DEF DavInv

\* In the invariant a slot is in use only while a call has it.
LEMMA DavFreedOk == ASSUME DavInv PROVE DavFreed
<1> SUFFICES ASSUME \A t \in DavCalls : dcalls[t].slot = 0, NEW i \in Slots
             PROVE  ~slots[i].busy /\ slots[i].sesh = Nobody
  BY DEF DavFreed
<1>1. i # 0
  BY DEF Slots
<1> QED BY <1>1 DEF DavInv, DavHas

\* When no call has a slot, all slots of allconns are free and have no session: each way out of
\* a list or a get, the failures too, gives back the slot that dav_get_conn has given, for any
\* number of calls, accounts and slots.
THEOREM DavFreedCorrect == DavInit /\ [][DavNext]_dav_vars => []DavFreed
<1>1. DavInit => DavInv
  BY DavStarts
<1>2. DavInv /\ [DavNext]_dav_vars => DavInv'
  BY DavSteps
<1>3. DavInv => DavFreed
  BY DavFreedOk
<1> QED BY <1>1, <1>2, <1>3, PTL

----------------------------------------------------------------------------
(* Ucftp: the tree of a connection, the references and busy.               *)

UcConnType == [busy : BOOLEAN, open : BOOLEAN, owed : {0, 1}, cancel_ok : BOOLEAN,
               subdir : SUBSET UcEntries, valid : BOOLEAN]
UcEntryType == [refs : Nat, name : UcNames \cup {""}, node : UcKinds \cup {"none"}, conn : Nat, over : BOOLEAN]
UcWorlds == [c : Seq(UcConnType), e : [UcEntries -> UcEntryType], crash : BOOLEAN, cost : Nat]

\* The tree: each entry is listed where it says, once under its name, and one that is
\* not referred to is nowhere.
UcTree(w) ==
    /\ \A x \in UcEntries : w.e[x].conn \in 0 .. Len(w.c)
    /\ \A i \in 1 .. Len(w.c), x \in UcEntries : x \in w.c[i].subdir <=> w.e[x].conn = i
    /\ \A x, y \in UcEntries :
         w.e[x].conn # 0 /\ w.e[x].conn = w.e[y].conn /\ w.e[x].name = w.e[y].name => x = y
    /\ \A x \in UcEntries : w.e[x].refs = 0 => w.e[x].node = "none" /\ w.e[x].conn = 0

\* An entry that k users and files hold has the references that it should.
UcExact(e, k) == e.over \/ (e.node = "none" /\ e.refs = k) \/ (e.node # "none" /\ e.refs = k + 1)
UcAllExact(e, h) == \A x \in UcEntries : UcExact(e[x], h[x])

\* The world v is w but for fields of connections, of which busy may differ only in i.
UcOver(v, w, i) ==
    /\ v \in UcWorlds /\ v.e = w.e /\ Len(v.c) = Len(w.c)
    /\ \A j \in 1 .. Len(w.c) : v.c[j].subdir = w.c[j].subdir /\ (v.c[j].busy = w.c[j].busy \/ j = i)

\* Fields that are not of the tree leave it a tree.
LEMMA UcOverTree == ASSUME NEW v, NEW w, NEW i, UcOver(v, w, i), UcTree(w) PROVE UcTree(v)
BY DEF UcOver, UcTree

\* Two such changes are one.
LEMMA UcOverOver ==
    ASSUME NEW u, NEW v, NEW w, NEW i, UcOver(u, v, i), UcOver(v, w, i) PROVE UcOver(u, w, i)
BY DEF UcOver

\* One connection is replaced.
LEMMA UcConnSet ==
    ASSUME NEW w \in UcWorlds, NEW i \in 1 .. Len(w.c), NEW r \in UcConnType, r.subdir = w.c[i].subdir,
           NEW v \in {[w EXCEPT !.c[i] = r]}
    PROVE  UcOver(v, w, i) /\ v.c[i] = r /\ v.crash = w.crash /\ v.cost = w.cost
           /\ (r.busy = w.c[i].busy => UcOver(v, w, 0))
<1>1. w.c \in Seq(UcConnType) /\ v = [w EXCEPT !.c[i] = r]
  BY DEF UcWorlds
<1>2. PICK c : c = [w.c EXCEPT ![i] = r]
  OBVIOUS
<1>3. c \in Seq(UcConnType) /\ Len(c) = Len(w.c) /\ \A j \in 1 .. Len(w.c) : c[j] = IF j = i THEN r ELSE w.c[j]
  BY <1>1, <1>2
<1>4. v = [c |-> c, e |-> w.e, crash |-> w.crash, cost |-> w.cost]
  BY <1>1, <1>2 DEF UcWorlds
<1>5. v.c = c /\ v.e = w.e /\ v.crash = w.crash /\ v.cost = w.cost /\ v \in UcWorlds
  BY <1>3, <1>4 DEF UcWorlds
<1> QED BY <1>3, <1>5 DEF UcOver

\* The cost and the crash of a world.
LEMMA UcCrashSet ==
    ASSUME NEW w \in UcWorlds, NEW i, NEW v \in {[w EXCEPT !.crash = TRUE], [w EXCEPT !.cost = 1]}
    PROVE  UcOver(v, w, i) /\ v.c = w.c
<1>1. ASSUME v = [w EXCEPT !.crash = TRUE] PROVE v.c = w.c /\ v.e = w.e /\ v \in UcWorlds
  BY <1>1 DEF UcWorlds
<1>2. ASSUME v = [w EXCEPT !.cost = 1] PROVE v.c = w.c /\ v.e = w.e /\ v \in UcWorlds
  BY <1>2 DEF UcWorlds
<1> QED BY <1>1, <1>2 DEF UcOver

\* One entry is replaced.
LEMMA UcEntrySet ==
    ASSUME NEW w \in UcWorlds, NEW x \in UcEntries, NEW e \in UcEntryType, NEW v \in {[w EXCEPT !.e[x] = e]}
    PROVE  v \in UcWorlds /\ v.c = w.c /\ v.crash = w.crash /\ v.e = [w.e EXCEPT ![x] = e]
           /\ \A y \in UcEntries : v.e[y] = IF y = x THEN e ELSE w.e[y]
BY DEF UcWorlds

\* What one reference less makes of an entry.
LEMMA UnreferredFields ==
    ASSUME NEW e \in UcEntryType
    PROVE  /\ Unreferred(e) \in UcEntryType /\ Unreferred(e).over = e.over
           /\ \/ e.refs > 1 /\ Unreferred(e).refs = e.refs - 1 /\ Unreferred(e).node = e.node
                 /\ Unreferred(e).conn = e.conn /\ Unreferred(e).name = e.name
              \/ e.refs =< 1 /\ Unreferred(e).refs = 0 /\ Unreferred(e).node = "none" /\ Unreferred(e).conn = 0
<1>1. e.refs \in Nat /\ e.over \in BOOLEAN
  BY DEF UcEntryType
<1>2. CASE e.refs > 1
  <2>1. Unreferred(e) = [e EXCEPT !.refs = e.refs - 1]
    BY <1>2 DEF Unreferred
  <2>2. PICK r \in Nat : r = e.refs - 1
    BY <1>1, <1>2
  <2>3. PICK f : f = [e EXCEPT !.refs = r]
    OBVIOUS
  <2>4. f \in UcEntryType /\ f.refs = r /\ f.node = e.node /\ f.conn = e.conn /\ f.name = e.name /\ f.over = e.over
    BY <2>3 DEF UcEntryType
  <2> QED BY <1>2, <2>1, <2>2, <2>3, <2>4
<1>3. CASE e.refs =< 1
  <2>1. Unreferred(e) = [refs |-> 0, name |-> "", node |-> "none", conn |-> 0, over |-> e.over]
    <3>1. Unreferred(e) = [NoUcEntry EXCEPT !.over = e.over]
      BY <1>1, <1>3 DEF Unreferred
    <3> QED BY <3>1 DEF NoUcEntry
  <2>2. PICK f : f = [refs |-> 0, name |-> "", node |-> "none", conn |-> 0, over |-> e.over]
    OBVIOUS
  <2>3. f \in UcEntryType /\ f.over = e.over /\ f.refs = 0 /\ f.node = "none" /\ f.conn = 0
    BY <1>1, <2>2 DEF UcEntryType
  <2> QED BY <1>3, <2>1, <2>2, <2>3
<1> QED BY <1>1, <1>2, <1>3

\* A reference that a user or a file had is dropped.
LEMMA UnreferredExact ==
    ASSUME NEW e \in UcEntryType, NEW k \in Nat, UcExact(e, k + 1)
    PROVE  UcExact(Unreferred(e), k)
<1>1. PICK f, r : f = Unreferred(e) /\ r = e.refs
  OBVIOUS
<1>2. /\ f.over = e.over /\ r \in Nat
      /\ \/ r > 1 /\ f.refs = r - 1 /\ f.node = e.node
         \/ r =< 1 /\ f.refs = 0 /\ f.node = "none"
  BY <1>1, UnreferredFields DEF UcEntryType
<1>3. CASE e.over
  BY <1>1, <1>2, <1>3 DEF UcExact
<1>4. CASE e.node = "none" /\ r = k + 1
  BY <1>1, <1>2, <1>4 DEF UcExact
<1>5. CASE e.node # "none" /\ r = k + 2
  BY <1>1, <1>2, <1>5 DEF UcExact
<1> QED BY <1>1, <1>3, <1>4, <1>5 DEF UcExact

\* The reference that a node had is dropped with it.
LEMMA UnreferredNode ==
    ASSUME NEW e \in UcEntryType, NEW k \in Nat, UcExact(e, k), e.node # "none"
    PROVE  UcExact(Unreferred([e EXCEPT !.node = "none"]), k)
<1>1. PICK f : f = [e EXCEPT !.node = "none"]
  OBVIOUS
<1>2. f \in UcEntryType /\ f.node = "none" /\ f.refs = e.refs /\ f.over = e.over
  BY <1>1 DEF UcEntryType, UcKinds
<1>3. UcExact(f, k + 1)
  BY <1>2 DEF UcExact
<1>4. UcExact(Unreferred(f), k)
  BY <1>2, <1>3, UnreferredExact
<1> QED BY <1>1, <1>4

\* The tree after the last reference of an entry has perhaps gone.
LEMMA UcUnrefTree ==
    ASSUME NEW w \in UcWorlds, UcTree(w), NEW x \in UcEntries
    PROVE  /\ UcUnref(w, x) \in UcWorlds /\ UcTree(UcUnref(w, x))
           /\ UcUnref(w, x).e = [w.e EXCEPT ![x] = Unreferred(w.e[x])]
           /\ UcUnref(w, x).crash = w.crash /\ Len(UcUnref(w, x).c) = Len(w.c)
           /\ \A j \in 1 .. Len(w.c) : UcUnref(w, x).c[j].busy = w.c[j].busy
<1>1. PICK e : e = Unreferred(w.e[x])
  OBVIOUS
<1>2. PICK v : v = [w EXCEPT !.e[x] = e]
  OBVIOUS
<1>3. w.e[x] \in UcEntryType
  BY DEF UcWorlds
<1>4. e \in UcEntryType
  BY <1>1, <1>3, UnreferredFields
<1>5. /\ v \in UcWorlds /\ v.c = w.c /\ v.crash = w.crash /\ v.e = [w.e EXCEPT ![x] = e]
      /\ \A y \in UcEntries : v.e[y] = IF y = x THEN e ELSE w.e[y]
  BY <1>2, <1>4, UcEntrySet
<1>6. UcUnref(w, x) = IF e.conn = w.e[x].conn THEN v ELSE [v EXCEPT !.c[w.e[x].conn].subdir = @ \ {x}]
  BY <1>1, <1>2, <1>5 DEF UcUnref
<1>7. CASE e.conn = w.e[x].conn
  <2>1. e.refs = 0 => e.node = "none" /\ e.conn = 0
    <3>1. w.e[x].refs \in Nat
      BY <1>3 DEF UcEntryType
    <3> QED BY <1>1, <1>3, <3>1, UnreferredFields
  <2>2. e.conn = 0 \/ e.name = w.e[x].name
    BY <1>1, <1>3, UnreferredFields
  <2>3. UcTree(v)
    BY <1>5, <1>7, <2>1, <2>2 DEF UcTree
  <2> QED BY <1>1, <1>5, <1>6, <1>7, <2>3
<1>8. CASE e.conn # w.e[x].conn
  <2>1. e.conn = 0 /\ e.node = "none"
    BY <1>1, <1>3, <1>8, UnreferredFields
  <2>2. PICK i : i = w.e[x].conn
    OBVIOUS
  <2>3. i \in 1 .. Len(w.c)
    BY <1>8, <2>1, <2>2 DEF UcTree, UcWorlds
  <2>4. v.c \in Seq(UcConnType) /\ v.c[i] \in UcConnType
    BY <1>5, <2>3 DEF UcWorlds
  <2>5. PICK r : r = [v.c[i] EXCEPT !.subdir = @ \ {x}]
    OBVIOUS
  <2>6. r \in UcConnType /\ r.subdir = w.c[i].subdir \ {x} /\ r.busy = w.c[i].busy
    BY <1>5, <2>4, <2>5 DEF UcConnType
  <2>7. PICK c : c = [v.c EXCEPT ![i] = r]
    OBVIOUS
  <2>8. c \in Seq(UcConnType) /\ Len(c) = Len(w.c) /\ \A j \in 1 .. Len(w.c) : c[j] = IF j = i THEN r ELSE w.c[j]
    BY <1>5, <2>3, <2>4, <2>6, <2>7
  <2>9. PICK u : u = [v EXCEPT !.c = c]
    OBVIOUS
  <2>10. UcUnref(w, x) = u
    BY <1>6, <1>8, <2>2, <2>5, <2>7, <2>9
  <2>11. u.c = c /\ u.e = v.e /\ u.crash = v.crash /\ u \in UcWorlds
    BY <1>5, <2>8, <2>9 DEF UcWorlds
  <2>12. \A y \in UcEntries : u.e[y].conn \in 0 .. Len(u.c)
    BY <1>5, <2>1, <2>3, <2>8, <2>11 DEF UcTree
  <2>13. \A j \in 1 .. Len(u.c), y \in UcEntries : y \in u.c[j].subdir <=> u.e[y].conn = j
    BY <1>5, <2>1, <2>2, <2>3, <2>6, <2>8, <2>11 DEF UcTree
  <2>14. \A y, z \in UcEntries :
           u.e[y].conn # 0 /\ u.e[y].conn = u.e[z].conn /\ u.e[y].name = u.e[z].name => y = z
    BY <1>5, <2>1, <2>11 DEF UcTree
  <2>15. \A y \in UcEntries : u.e[y].refs = 0 => u.e[y].node = "none" /\ u.e[y].conn = 0
    BY <1>5, <2>1, <2>11 DEF UcTree
  <2>16. UcTree(u)
    BY <2>12, <2>13, <2>14, <2>15 DEF UcTree
  <2>17. \A j \in 1 .. Len(w.c) : u.c[j].busy = w.c[j].busy
    BY <2>6, <2>8, <2>11
  <2> QED BY <1>1, <1>5, <2>8, <2>10, <2>11, <2>16, <2>17
<1> QED BY <1>7, <1>8

\* A world in which h says how many users and files hold each entry.
UcSafe(w, h) == w \in UcWorlds /\ UcTree(w) /\ UcAllExact(w.e, h)

\* Only connection i may have become busy.
UcQuiet(v, w, i) == Len(v.c) = Len(w.c) /\ \A j \in 1 .. Len(w.c) : v.c[j].busy => w.c[j].busy \/ j = i

\* The world w with another entry x, and the holders h when k hold x.
UcWith(w, x, e) == [w EXCEPT !.e[x] = e]
UcHeldBy(h, x, k) == [h EXCEPT ![x] = k]

\* A change of fields that are not of the tree leaves the references right.
LEMMA UcOverSafe ==
    ASSUME NEW v, NEW w, NEW i, NEW h, UcOver(v, w, i), UcSafe(w, h) PROVE UcSafe(v, h) /\ UcQuiet(v, w, i)
BY UcOverTree DEF UcOver, UcSafe, UcQuiet

\* No connection but i becomes busy in one change or in two.
LEMMA UcQuietQuiet ==
    ASSUME NEW u, NEW v, NEW w, NEW i, UcQuiet(u, v, i) \/ UcQuiet(u, v, 0), UcQuiet(v, w, i) \/ UcQuiet(v, w, 0)
    PROVE  UcQuiet(u, w, i)
BY DEF UcQuiet

\* An entry is replaced by one in the same place.
LEMMA UcEntrySafe ==
    ASSUME NEW w, NEW h \in [UcEntries -> Nat], UcSafe(w, h), NEW x \in UcEntries,
           NEW e \in UcEntryType, e.conn = w.e[x].conn, e.name = w.e[x].name, e.refs # 0,
           NEW k \in Nat, UcExact(e, k), NEW v, v = UcWith(w, x, e)
    PROVE  UcSafe(v, UcHeldBy(h, x, k)) /\ UcQuiet(v, w, 0) /\ v.c = w.c /\ v.crash = w.crash
<1>1. w \in UcWorlds /\ UcTree(w) /\ UcAllExact(w.e, h)
  BY DEF UcSafe
<1>2. /\ v \in UcWorlds /\ v.c = w.c /\ v.crash = w.crash
      /\ \A y \in UcEntries : v.e[y] = IF y = x THEN e ELSE w.e[y]
  BY <1>1, UcEntrySet DEF UcWith
<1>3. UcTree(v)
  <2>1. \A y \in UcEntries : v.e[y].conn = w.e[y].conn /\ v.e[y].name = w.e[y].name
    BY <1>2
  <2>2. \A y \in UcEntries : v.e[y].refs = 0 => v.e[y].node = "none" /\ v.e[y].conn = 0
    BY <1>1, <1>2 DEF UcTree
  <2>3. /\ \A y \in UcEntries : v.e[y].conn \in 0 .. Len(v.c)
        /\ \A i \in 1 .. Len(v.c), y \in UcEntries : y \in v.c[i].subdir <=> v.e[y].conn = i
    <3>1. v.c = w.c
      BY <1>2
    <3>2. \A y \in UcEntries : w.e[y].conn \in 0 .. Len(w.c)
      BY <1>1 DEF UcTree
    <3>3. \A i \in 1 .. Len(w.c), y \in UcEntries : y \in w.c[i].subdir <=> w.e[y].conn = i
      BY <1>1 DEF UcTree
    <3>4. \A y \in UcEntries : v.e[y].conn = w.e[y].conn
      BY <2>1
    <3> QED BY ONLY <3>1, <3>2, <3>3, <3>4
  <2>4. ASSUME NEW y \in UcEntries, NEW z \in UcEntries,
               v.e[y].conn # 0, v.e[y].conn = v.e[z].conn, v.e[y].name = v.e[z].name
        PROVE  y = z
    <3>1. /\ w.e[y].conn # 0 /\ w.e[y].conn = w.e[z].conn /\ w.e[y].name = w.e[z].name
      BY <2>1, <2>4
    <3> QED BY <1>1, <3>1 DEF UcTree
  <2> QED BY <2>2, <2>3, <2>4 DEF UcTree
<1>4. PICK g : g = UcHeldBy(h, x, k)
  OBVIOUS
<1>5. \A y \in UcEntries : g[y] = IF y = x THEN k ELSE h[y]
  BY <1>4 DEF UcHeldBy
<1>6. UcAllExact(v.e, g)
  BY <1>1, <1>2, <1>5 DEF UcAllExact
<1>7. UcQuiet(v, w, 0)
  BY <1>2 DEF UcQuiet
<1> QED BY <1>2, <1>3, <1>4, <1>6, <1>7 DEF UcSafe

\* One who holds an entry lets it go.
LEMMA UcUnrefSafe ==
    ASSUME NEW w, NEW h \in [UcEntries -> Nat], UcSafe(w, h), NEW x \in UcEntries,
           NEW k \in Nat, h[x] = k + 1, NEW v, v = UcUnref(w, x)
    PROVE  UcSafe(v, UcHeldBy(h, x, k)) /\ UcQuiet(v, w, 0) /\ v.crash = w.crash
<1>1. w \in UcWorlds /\ UcTree(w) /\ UcAllExact(w.e, h)
  BY DEF UcSafe
<1>2. PICK e, f : e = w.e[x] /\ f = Unreferred(e)
  OBVIOUS
<1>3. e \in UcEntryType /\ UcExact(e, k + 1)
  BY <1>1, <1>2 DEF UcWorlds, UcAllExact
<1>4. UcExact(f, k)
  BY <1>2, <1>3, UnreferredExact
<1>5. /\ v \in UcWorlds /\ UcTree(v) /\ v.e = [w.e EXCEPT ![x] = f] /\ v.crash = w.crash
      /\ UcQuiet(v, w, 0)
  <2>1. /\ v \in UcWorlds /\ UcTree(v) /\ v.e = [w.e EXCEPT ![x] = f] /\ v.crash = w.crash
        /\ Len(v.c) = Len(w.c) /\ \A j \in 1 .. Len(w.c) : v.c[j].busy = w.c[j].busy
    BY <1>1, <1>2, UcUnrefTree
  <2> QED BY <2>1 DEF UcQuiet
<1>6. PICK g : g = UcHeldBy(h, x, k)
  OBVIOUS
<1>7. \A y \in UcEntries : (y = x => g[y] = k /\ v.e[y] = f) /\ (y # x => g[y] = h[y] /\ v.e[y] = w.e[y])
  BY <1>1, <1>5, <1>6 DEF UcWorlds, UcHeldBy
<1>8. UcAllExact(v.e, g)
  BY <1>1, <1>4, <1>7 DEF UcAllExact
<1> QED BY <1>5, <1>6, <1>8 DEF UcSafe

\* A node is taken from its entry.
LEMMA UcUnlinkSafe ==
    ASSUME NEW w, NEW h \in [UcEntries -> Nat], UcSafe(w, h), NEW x \in UcEntries,
           w.e[x].node # "none", NEW v, v = ucftp_unlink_node(w, x)
    PROVE  UcSafe(v, h) /\ UcQuiet(v, w, 0) /\ v.crash = w.crash
<1>1. w \in UcWorlds /\ UcTree(w) /\ UcAllExact(w.e, h)
  BY DEF UcSafe
<1>2. PICK e, f : e = w.e[x] /\ f = [e EXCEPT !.node = "none"]
  OBVIOUS
<1>3. e \in UcEntryType /\ UcExact(e, h[x]) /\ e.node # "none" /\ h[x] \in Nat
  BY <1>1, <1>2 DEF UcWorlds, UcAllExact
<1>4. f \in UcEntryType /\ f.refs = e.refs /\ f.conn = e.conn /\ f.name = e.name /\ f.node = "none"
  BY <1>2, <1>3 DEF UcEntryType, UcKinds
<1>5. UcExact(Unreferred(f), h[x])
  BY <1>2, <1>3, UnreferredNode
<1>6. PICK u : u = [w EXCEPT !.e[x] = f]
  OBVIOUS
<1>7. v = UcUnref(u, x)
  BY <1>2, <1>6 DEF ucftp_unlink_node
<1>8. /\ u \in UcWorlds /\ u.c = w.c /\ u.crash = w.crash /\ u.e = [w.e EXCEPT ![x] = f]
      /\ \A y \in UcEntries : u.e[y] = IF y = x THEN f ELSE w.e[y]
  BY <1>1, <1>4, <1>6, UcEntrySet
<1>9. UcTree(u)
  BY <1>1, <1>2, <1>4, <1>8 DEF UcTree
<1>10. /\ v \in UcWorlds /\ UcTree(v) /\ v.e = [u.e EXCEPT ![x] = Unreferred(u.e[x])] /\ v.crash = w.crash
       /\ UcQuiet(v, w, 0)
  <2>1. /\ v \in UcWorlds /\ UcTree(v) /\ v.e = [u.e EXCEPT ![x] = Unreferred(u.e[x])]
        /\ v.crash = u.crash
        /\ Len(v.c) = Len(u.c) /\ \A j \in 1 .. Len(u.c) : v.c[j].busy = u.c[j].busy
    <3>1. u \in UcWorlds
      BY <1>8
    <3>2. /\ UcUnref(u, x) \in UcWorlds /\ UcTree(UcUnref(u, x))
          /\ UcUnref(u, x).e = [u.e EXCEPT ![x] = Unreferred(u.e[x])]
          /\ UcUnref(u, x).crash = u.crash /\ Len(UcUnref(u, x).c) = Len(u.c)
          /\ \A j \in 1 .. Len(u.c) : UcUnref(u, x).c[j].busy = u.c[j].busy
      BY <1>9, <3>1, UcUnrefTree
    <3> QED BY <1>7, <3>2
  <2> QED BY <1>8, <2>1 DEF UcQuiet
<1>11. \A y \in UcEntries : (y = x => v.e[y] = Unreferred(f)) /\ (y # x => v.e[y] = w.e[y])
  BY <1>8, <1>10 DEF UcWorlds
<1>12. UcAllExact(v.e, h)
  BY <1>1, <1>5, <1>11 DEF UcAllExact
<1> QED BY <1>10, <1>12 DEF UcSafe

\* An entry is given a node, which refers to it.
LEMMA UcLinkSafe ==
    ASSUME NEW w, NEW h \in [UcEntries -> Nat], UcSafe(w, h), NEW x \in UcEntries,
           w.e[x].node = "none", NEW kind \in UcKinds, NEW v, v = ucftp_link_node(w, x, kind)
    PROVE  UcSafe(v, h) /\ UcQuiet(v, w, 0) /\ v.c = w.c /\ v.crash = w.crash /\ v.e[x].node = kind
<1>1. w \in UcWorlds /\ UcTree(w) /\ UcAllExact(w.e, h) /\ kind # "none"
  BY DEF UcSafe, UcKinds
<1>2. PICK e, k : e = w.e[x] /\ k = h[x]
  OBVIOUS
<1>3. e \in UcEntryType /\ e.refs \in Nat /\ UcExact(e, k) /\ e.node = "none" /\ k \in Nat
  BY <1>1, <1>2 DEF UcWorlds, UcAllExact, UcEntryType
<1>4. PICK r \in Nat : r = e.refs + 1
  BY <1>3
<1>5. PICK f : f = [e EXCEPT !.node = kind, !.refs = r]
  OBVIOUS
<1>6. /\ f \in UcEntryType /\ f.refs = r /\ f.node = kind /\ f.conn = e.conn /\ f.name = e.name
      /\ f.over = e.over
  BY <1>3, <1>5 DEF UcEntryType
<1>7. f.refs # 0
  BY <1>3, <1>4, <1>6
<1>8. UcExact(f, k)
  <2>1. e.over \/ r = k + 1
    BY <1>3, <1>4 DEF UcExact
  <2> QED BY <1>1, <1>6, <2>1 DEF UcExact
<1>9. v = UcWith(w, x, f)
  BY <1>1, <1>2, <1>4, <1>5 DEF UcWith, ucftp_link_node, UcWorlds, UcEntryType
<1>10. UcSafe(v, UcHeldBy(h, x, k)) /\ UcQuiet(v, w, 0) /\ v.c = w.c /\ v.crash = w.crash
  <2>1. f \in UcEntryType /\ f.conn = w.e[x].conn /\ f.name = w.e[x].name /\ f.refs # 0 /\ k \in Nat
    BY <1>2, <1>3, <1>6, <1>7
  <2> QED BY <1>8, <1>9, <2>1, UcEntrySafe
<1>11. UcHeldBy(h, x, k) = h
  BY <1>2 DEF UcHeldBy
<1>12. v.e[x] = f
  BY <1>1, <1>9 DEF UcWorlds, UcWith
<1> QED BY <1>6, <1>10, <1>11, <1>12

\* One more user or file holds an entry.
LEMMA UcRefSafe ==
    ASSUME NEW w, NEW h \in [UcEntries -> Nat], UcSafe(w, h), NEW x \in UcEntries,
           NEW v, v = [w EXCEPT !.e[x].refs = @ + 1]
    PROVE  UcSafe(v, UcHeldBy(h, x, h[x] + 1)) /\ UcQuiet(v, w, 0) /\ v.crash = w.crash
<1>1. w \in UcWorlds /\ UcTree(w) /\ UcAllExact(w.e, h)
  BY DEF UcSafe
<1>2. PICK e, k : e = w.e[x] /\ k = h[x]
  OBVIOUS
<1>3. e \in UcEntryType /\ e.refs \in Nat /\ UcExact(e, k) /\ k \in Nat
  BY <1>1, <1>2 DEF UcWorlds, UcAllExact, UcEntryType
<1>4. PICK r \in Nat : r = e.refs + 1
  BY <1>3
<1>5. PICK f : f = [e EXCEPT !.refs = r]
  OBVIOUS
<1>6. /\ f \in UcEntryType /\ f.refs = r /\ f.node = e.node /\ f.conn = e.conn /\ f.name = e.name
      /\ f.over = e.over
  BY <1>3, <1>5 DEF UcEntryType
<1>7. f.refs # 0
  BY <1>3, <1>4, <1>6
<1>8. UcExact(f, k + 1)
  <2>1. e.over \/ (e.node = "none" /\ r = k + 1) \/ (e.node # "none" /\ r = k + 1 + 1)
    BY <1>3, <1>4 DEF UcExact
  <2> QED BY <1>6, <2>1 DEF UcExact
<1>9. v = UcWith(w, x, f)
  BY <1>2, <1>4, <1>5 DEF UcWith
<1>10. k + 1 \in Nat
  BY <1>3
<1>11. UcSafe(v, UcHeldBy(h, x, k + 1)) /\ UcQuiet(v, w, 0) /\ v.crash = w.crash
  <2>1. f \in UcEntryType /\ f.conn = w.e[x].conn /\ f.name = w.e[x].name /\ f.refs # 0
    BY <1>2, <1>6, <1>7
  <2> QED BY <1>8, <1>9, <1>10, <2>1, UcEntrySafe
<1> QED BY <1>2, <1>11

\* One connection of a world is replaced.
UcConnWith(w, i, r) == [w EXCEPT !.c[i] = r]

\* A connection with other fields, of which subdir is not one.
LEMMA UcConnWithOver ==
    ASSUME NEW w \in UcWorlds, NEW i \in 1 .. Len(w.c), NEW r \in UcConnType, r.subdir = w.c[i].subdir,
           NEW v, v = UcConnWith(w, i, r)
    PROVE  UcOver(v, w, i) /\ v.c[i] = r /\ (r.busy = w.c[i].busy => UcOver(v, w, 0))
BY UcConnSet DEF UcConnWith

\* The same for fields that are not busy either.
LEMMA UcFieldOver ==
    ASSUME NEW w \in UcWorlds, NEW i \in 1 .. Len(w.c), NEW r \in UcConnType, r.subdir = w.c[i].subdir,
           r.busy = w.c[i].busy, NEW v, v = UcConnWith(w, i, r)
    PROVE  UcOver(v, w, 0)
BY UcConnWithOver

\* A world with a price or a crash.
UcCosts(w) == [w EXCEPT !.cost = 1]
UcCrashes(w) == [w EXCEPT !.crash = TRUE]
\* A fault changes nothing else.
LEMMA UcCostsOver == ASSUME NEW w \in UcWorlds, NEW i PROVE UcOver(UcCosts(w), w, i)
BY UcCrashSet DEF UcCosts
\* Nor does the failure of the process.
LEMMA UcCrashesOver == ASSUME NEW w \in UcWorlds, NEW i PROVE UcOver(UcCrashes(w), w, i)
BY UcCrashSet DEF UcCrashes

\* The type of a connection.
LEMMA UcConnOf == ASSUME NEW w \in UcWorlds, NEW i \in 1 .. Len(w.c) PROVE w.c[i] \in UcConnType
BY DEF UcWorlds

\* ucftp_close_conn leaves the tree as it is.
LEMMA UcClosed ==
    ASSUME NEW w \in UcWorlds, NEW i \in 1 .. Len(w.c), NEW v, v = ucftp_close_conn(w, i)
    PROVE  UcOver(v, w, 0)
<1>1. PICK c : c = w.c[i]
  OBVIOUS
<1>2. c \in UcConnType
  BY <1>1, UcConnOf
<1>3. PICK r : r = [c EXCEPT !.open = FALSE, !.owed = 0]
  OBVIOUS
<1>4. r \in UcConnType /\ r.subdir = w.c[i].subdir /\ r.busy = w.c[i].busy
  BY <1>1, <1>2, <1>3 DEF UcConnType
<1>5. v = UcConnWith(w, i, r)
  BY <1>1, <1>3 DEF ucftp_close_conn, UcConnWith, UcWorlds, UcConnType
<1> QED BY <1>4, <1>5, UcFieldOver

\* One field of a connection is set.
LEMMA UcOpened ==
    ASSUME NEW w \in UcWorlds, NEW i \in 1 .. Len(w.c), NEW v, v = [w EXCEPT !.c[i].open = TRUE]
    PROVE  UcOver(v, w, 0)
<1>1. PICK c : c = w.c[i]
  OBVIOUS
<1>2. c \in UcConnType
  BY <1>1, UcConnOf
<1>3. PICK r : r = [c EXCEPT !.open = TRUE]
  OBVIOUS
<1>4. r \in UcConnType /\ r.subdir = w.c[i].subdir /\ r.busy = w.c[i].busy
  BY <1>1, <1>2, <1>3 DEF UcConnType
<1>5. v = UcConnWith(w, i, r)
  BY <1>1, <1>3 DEF UcConnWith
<1> QED BY <1>4, <1>5, UcFieldOver

\* So does a reply that is owed or taken.
LEMMA UcOwed ==
    ASSUME NEW w \in UcWorlds, NEW i \in 1 .. Len(w.c), NEW n \in {0, 1}, NEW v, v = [w EXCEPT !.c[i].owed = n]
    PROVE  UcOver(v, w, 0)
<1>1. PICK c : c = w.c[i]
  OBVIOUS
<1>2. c \in UcConnType
  BY <1>1, UcConnOf
<1>3. PICK r : r = [c EXCEPT !.owed = n]
  OBVIOUS
<1>4. r \in UcConnType /\ r.subdir = w.c[i].subdir /\ r.busy = w.c[i].busy
  BY <1>1, <1>2, <1>3 DEF UcConnType
<1>5. v = UcConnWith(w, i, r)
  BY <1>1, <1>3 DEF UcConnWith
<1> QED BY <1>4, <1>5, UcFieldOver

\* So does cancel_ok.
LEMMA UcNoCancel ==
    ASSUME NEW w \in UcWorlds, NEW i \in 1 .. Len(w.c), NEW v, v = [w EXCEPT !.c[i].cancel_ok = FALSE]
    PROVE  UcOver(v, w, 0)
<1>1. PICK c : c = w.c[i]
  OBVIOUS
<1>2. c \in UcConnType
  BY <1>1, UcConnOf
<1>3. PICK r : r = [c EXCEPT !.cancel_ok = FALSE]
  OBVIOUS
<1>4. r \in UcConnType /\ r.subdir = w.c[i].subdir /\ r.busy = w.c[i].busy
  BY <1>1, <1>2, <1>3 DEF UcConnType
<1>5. v = UcConnWith(w, i, r)
  BY <1>1, <1>3 DEF UcConnWith
<1> QED BY <1>4, <1>5, UcFieldOver

\* So does a list that is or is not valid.
LEMMA UcStale ==
    ASSUME NEW w \in UcWorlds, NEW i \in 1 .. Len(w.c), NEW b \in BOOLEAN, NEW v, v = [w EXCEPT !.c[i].valid = b]
    PROVE  UcOver(v, w, 0)
<1>1. PICK c : c = w.c[i]
  OBVIOUS
<1>2. c \in UcConnType
  BY <1>1, UcConnOf
<1>3. PICK r : r = [c EXCEPT !.valid = b]
  OBVIOUS
<1>4. r \in UcConnType /\ r.subdir = w.c[i].subdir /\ r.busy = w.c[i].busy
  BY <1>1, <1>2, <1>3 DEF UcConnType
<1>5. v = UcConnWith(w, i, r)
  BY <1>1, <1>3 DEF UcConnWith
<1> QED BY <1>4, <1>5, UcFieldOver

\* And busy changes in its own connection alone.
LEMMA UcBusySet ==
    ASSUME NEW w \in UcWorlds, NEW i \in 1 .. Len(w.c), NEW b \in BOOLEAN, NEW v, v = [w EXCEPT !.c[i].busy = b]
    PROVE  UcOver(v, w, i) /\ v.c[i].busy = b
<1>1. PICK c : c = w.c[i]
  OBVIOUS
<1>2. c \in UcConnType
  BY <1>1, UcConnOf
<1>3. PICK r : r = [c EXCEPT !.busy = b]
  OBVIOUS
<1>4. r \in UcConnType /\ r.subdir = c.subdir /\ r.busy = b
  BY <1>2, <1>3 DEF UcConnType
<1>5. v = UcConnWith(w, i, r)
  BY <1>1, <1>3 DEF UcConnWith
<1>6. w \in UcWorlds /\ i \in 1 .. Len(w.c) /\ r \in UcConnType /\ r.subdir = w.c[i].subdir
  BY <1>1, <1>4
<1>7. UcOver(v, w, i) /\ v.c[i] = r
  BY ONLY <1>5, <1>6, UcConnWithOver
<1> QED BY ONLY <1>4, <1>7

\* The worlds after the operations on a connection differ only there.
LEMMA UcPrepared ==
    ASSUME NEW w \in UcWorlds, NEW i \in 1 .. Len(w.c), NEW p \in Prepared(w, i)
    PROVE  UcOver(p.w, w, 0) /\ p.ok \in BOOLEAN /\ p = [w |-> p.w, ok |-> p.ok]
<1>1. PICK o, q : o = [w EXCEPT !.c[i].open = TRUE] /\ q = ucftp_close_conn(w, i)
  OBVIOUS
<1>2. UcOver(o, w, 0) /\ UcOver(q, w, 0)
  BY <1>1, UcOpened, UcClosed
<1>3. o \in UcWorlds /\ Len(o.c) = Len(w.c)
  BY <1>2 DEF UcOver
<1>4. PICK r : r = ucftp_close_conn(o, i)
  OBVIOUS
<1>5. UcOver(r, o, 0)
  BY <1>3, <1>4, UcClosed
<1>6. r \in UcWorlds
  BY <1>5 DEF UcOver
<1>7. UcOver(UcCosts(o), o, 0) /\ UcOver(UcCosts(r), r, 0)
  BY <1>3, <1>6, UcCostsOver
<1>8. UcOver(UcCosts(o), w, 0) /\ UcOver(UcCosts(r), w, 0)
  BY <1>2, <1>5, <1>7, UcOverOver
<1>9. p \in {[w |-> q, ok |-> FALSE], [w |-> o, ok |-> TRUE], [w |-> UcCosts(o), ok |-> FALSE],
             [w |-> UcCosts(r), ok |-> FALSE]}
  BY <1>1, <1>4 DEF Prepared, UcCosts
<1>10. ASSUME NEW u, NEW b \in BOOLEAN, p = [w |-> u, ok |-> b], UcOver(u, w, 0)
       PROVE  UcOver(p.w, w, 0) /\ p.ok \in BOOLEAN /\ p = [w |-> p.w, ok |-> p.ok]
  BY <1>10
<1> QED BY <1>2, <1>8, <1>9, <1>10

\* The same for the command that begins a transfer.
LEMMA UcBegun ==
    ASSUME NEW w \in UcWorlds, NEW i \in 1 .. Len(w.c), NEW p \in Begun(w, i)
    PROVE  UcOver(p.w, w, 0) /\ p.ok \in BOOLEAN /\ p = [w |-> p.w, ok |-> p.ok]
<1>1. PICK q \in Prepared(w, i) : p = IF q.ok THEN [q EXCEPT !.w.c[i].owed = 1] ELSE q
  BY DEF Begun
<1>2. UcOver(q.w, w, 0) /\ q.ok \in BOOLEAN /\ q = [w |-> q.w, ok |-> q.ok]
  BY UcPrepared
<1>3. CASE ~q.ok
  BY <1>1, <1>2, <1>3
<1>4. CASE q.ok
  <2>1. PICK u, v : u = q.w /\ v = [u EXCEPT !.c[i].owed = 1]
    OBVIOUS
  <2>2. u \in UcWorlds /\ Len(u.c) = Len(w.c)
    BY <1>2, <2>1 DEF UcOver
  <2>3. UcOver(v, u, 0)
    BY <2>1, <2>2, UcOwed
  <2>4. p = [q EXCEPT !.w = v]
    BY <1>1, <1>4, <2>1
  <2>5. p = [w |-> v, ok |-> q.ok]
    BY <1>2, <2>4
  <2> QED BY <1>2, <2>1, <2>3, <2>5, UcOverOver
<1> QED BY <1>2, <1>3, <1>4

\* The same for ucftp_wait_reply_code.
LEMMA UcWaited ==
    ASSUME NEW w \in UcWorlds, NEW i \in 1 .. Len(w.c), NEW p \in ucftp_wait_reply_code(w, i)
    PROVE  UcOver(p.w, w, 0) /\ p.ok \in BOOLEAN
<1>1. PICK o, q : o = [w EXCEPT !.c[i].owed = 0] /\ q = ucftp_close_conn(w, i)
  OBVIOUS
<1>2. UcOver(o, w, 0) /\ UcOver(q, w, 0)
  BY <1>1, UcOwed, UcClosed
<1>3. o \in UcWorlds /\ Len(o.c) = Len(w.c)
  BY <1>2 DEF UcOver
<1>4. PICK r : r = ucftp_close_conn(o, i)
  OBVIOUS
<1>5. UcOver(r, o, 0)
  BY <1>3, <1>4, UcClosed
<1>6. r \in UcWorlds
  BY <1>5 DEF UcOver
<1>7. UcOver(UcCosts(o), o, 0) /\ UcOver(UcCosts(r), r, 0) /\ UcOver(UcCrashes(w), w, 0)
  BY <1>3, <1>6, UcCostsOver, UcCrashesOver
<1>8. UcOver(UcCosts(o), w, 0) /\ UcOver(UcCosts(r), w, 0)
  BY <1>2, <1>5, <1>7, UcOverOver
<1>9. p \in {[w |-> UcCrashes(w), ok |-> FALSE], [w |-> q, ok |-> FALSE], [w |-> o, ok |-> TRUE],
             [w |-> UcCosts(o), ok |-> FALSE], [w |-> UcCosts(r), ok |-> FALSE]}
  BY <1>1, <1>4 DEF ucftp_wait_reply_code, UcCosts, UcCrashes
<1>10. ASSUME NEW u, NEW b \in BOOLEAN, p = [w |-> u, ok |-> b], UcOver(u, w, 0)
       PROVE  UcOver(p.w, w, 0) /\ p.ok \in BOOLEAN
  BY <1>10
<1> QED BY <1>2, <1>7, <1>8, <1>9, <1>10

\* What a list leaves of an entry that is no longer there.
LEMMA FreedEntry ==
    ASSUME NEW e \in UcEntryType, NEW k \in Nat, UcExact(e, k), NEW f, f = free_entry_list(e)
    PROVE  f \in UcEntryType /\ UcExact(f, k) /\ f.conn = 0 /\ (f.refs = 0 => f.node = "none")
<1>1. PICK a : a = [e EXCEPT !.conn = 0]
  OBVIOUS
<1>2. a \in UcEntryType /\ a.conn = 0 /\ a.node = e.node /\ a.refs = e.refs /\ a.over = e.over
  BY <1>1 DEF UcEntryType
<1>3. UcExact(a, k)
  BY <1>2 DEF UcExact
<1>4. f = Unreferred(IF a.node # "none" THEN [a EXCEPT !.node = "none"] ELSE [a EXCEPT !.over = TRUE])
  BY <1>1 DEF free_entry_list, ucftp_free_tree
<1>5. CASE a.node # "none"
  <2>1. PICK b : b = [a EXCEPT !.node = "none"]
    OBVIOUS
  <2>2. b \in UcEntryType /\ b.node = "none" /\ b.conn = 0
    BY <1>2, <2>1 DEF UcEntryType, UcKinds
  <2>3. f = Unreferred(b)
    BY <1>4, <1>5, <2>1
  <2>4. UcExact(f, k)
    BY <1>2, <1>3, <1>5, <2>1, <2>3, UnreferredNode
  <2> QED BY <2>2, <2>3, <2>4, UnreferredFields
<1>6. CASE a.node = "none"
  <2>1. PICK b : b = [a EXCEPT !.over = TRUE]
    OBVIOUS
  <2>2. b \in UcEntryType /\ b.node = "none" /\ b.conn = 0 /\ b.over
    BY <1>2, <1>6, <2>1 DEF UcEntryType
  <2>3. f = Unreferred(b)
    BY <1>4, <1>6, <2>1
  <2>4. f \in UcEntryType /\ f.over /\ f.conn = 0 /\ f.node = "none"
    BY <2>2, <2>3, UnreferredFields
  <2> QED BY <2>4 DEF UcExact
<1> QED BY <1>5, <1>6

\* What is left of an entry when the whole directory is freed.
UcDropped(e) == [NoUcEntry EXCEPT !.over = e.over \/ e.node = "none" \/ e.refs > 1]

\* An entry that is not there.
UcEmpty(b) == [refs |-> 0, name |-> "", node |-> "none", conn |-> 0, over |-> b]

\* An entry that is gone.
LEMMA EmptyType ==
    ASSUME NEW b \in BOOLEAN
    PROVE  /\ UcEmpty(b) \in UcEntryType /\ UcEmpty(b).refs = 0 /\ UcEmpty(b).node = "none"
           /\ UcEmpty(b).conn = 0 /\ UcEmpty(b).over = b
BY DEF UcEmpty, UcEntryType

\* An entry that ucftp_free_dirlist has dropped has no node, and its references are exact.
LEMMA DroppedEntry ==
    ASSUME NEW e \in UcEntryType, NEW k \in Nat, UcExact(e, k), NEW f, f = UcDropped(e)
    PROVE  f \in UcEntryType /\ UcExact(f, k) /\ f.conn = 0 /\ f.node = "none"
<1>1. PICK b : b = (e.over \/ e.node = "none" \/ e.refs > 1)
  OBVIOUS
<1>2. b \in BOOLEAN
  BY <1>1
<1>3. f = UcEmpty(b)
  BY <1>1 DEF NoUcEntry, UcDropped, UcEmpty
<1>4. f.conn = 0 /\ f.node = "none" /\ f.refs = 0 /\ f.over = b /\ f \in UcEntryType
  BY <1>2, <1>3, EmptyType
<1>5. CASE b
  BY <1>4, <1>5 DEF UcExact
<1>6. CASE ~b
  <2>1. e.node # "none" /\ ~(e.refs > 1) /\ e.refs = k + 1
    BY <1>1, <1>6 DEF UcExact
  <2>2. k = 0
    BY <2>1
  <2> QED BY <1>4, <2>2 DEF UcExact
<1> QED BY <1>2, <1>5, <1>6

\* An entry with one reference, that of its node or of a user.
UcNewEntry(n, k, i) == [refs |-> 1, name |-> n, node |-> k, conn |-> i, over |-> FALSE]

\* A new entry of a list.
LEMMA NewEntryType ==
    ASSUME NEW n \in UcNames, NEW k \in UcKinds \cup {"none"}, NEW i \in Nat, NEW f, f = UcNewEntry(n, k, i)
    PROVE  f \in UcEntryType /\ f.refs = 1 /\ f.name = n /\ f.node = k /\ f.conn = i
<1>1. f.refs = 1 /\ f.name = n /\ f.node = k /\ f.conn = i
  BY DEF UcNewEntry
<1>2. f \in UcEntryType
  BY DEF UcNewEntry, UcEntryType
<1> QED BY <1>1, <1>2

\* A directory and the entries are replaced.
UcDirWith(w, i, r, e) == [w EXCEPT !.c[i] = r, !.e = e]

\* A connection and the entries are replaced.
LEMMA UcDirSet ==
    ASSUME NEW w \in UcWorlds, NEW i \in 1 .. Len(w.c), NEW r \in UcConnType, r.busy = w.c[i].busy,
           NEW e \in [UcEntries -> UcEntryType], NEW v, v = UcDirWith(w, i, r, e)
    PROVE  /\ v \in UcWorlds /\ v.e = e /\ UcQuiet(v, w, 0) /\ Len(v.c) = Len(w.c)
           /\ \A j \in 1 .. Len(w.c) : v.c[j] = IF j = i THEN r ELSE w.c[j]
<1>1. w.c \in Seq(UcConnType)
  BY DEF UcWorlds
<1>2. PICK c : c = [w.c EXCEPT ![i] = r]
  OBVIOUS
<1>3. c \in Seq(UcConnType) /\ Len(c) = Len(w.c) /\ \A j \in 1 .. Len(w.c) : c[j] = IF j = i THEN r ELSE w.c[j]
  BY <1>1, <1>2
<1>4. v = [c |-> c, e |-> e, crash |-> w.crash, cost |-> w.cost]
  BY <1>1, <1>2 DEF UcWorlds, UcDirWith
<1>5. v.c = c /\ v.e = e /\ v \in UcWorlds
  BY <1>3, <1>4 DEF UcWorlds
<1>6. UcQuiet(v, w, 0)
  BY <1>3, <1>5 DEF UcQuiet
<1> QED BY <1>3, <1>5, <1>6

\* The entries of r's list are those of connection i, each name once, and the other
\* entries are as they were or of no connection.
UcDirFits(w, i, r, e) ==
    /\ \A x \in r.subdir : e[x].conn = i /\ (w.e[x].conn = 0 \/ w.e[x].conn = i)
    /\ \A x \in UcEntries \ r.subdir :
          \/ e[x].conn = 0 /\ (w.e[x].conn = 0 \/ w.e[x].conn = i)
          \/ e[x].conn = w.e[x].conn /\ e[x].name = w.e[x].name /\ w.e[x].conn # i
    /\ \A x, y \in r.subdir : e[x].name = e[y].name => x = y
    /\ \A x \in UcEntries : e[x].refs = 0 => e[x].node = "none" /\ e[x].conn = 0

\* What the entries and the list of a directory must be for the tree to be one.
LEMMA UcDirTree ==
    ASSUME NEW w \in UcWorlds, UcTree(w), NEW i \in 1 .. Len(w.c), NEW r \in UcConnType, r.busy = w.c[i].busy,
           NEW e \in [UcEntries -> UcEntryType], UcDirFits(w, i, r, e), NEW v, v = UcDirWith(w, i, r, e)
    PROVE  UcTree(v)
<1> USE DEF UcDirFits
<1>1. /\ v \in UcWorlds /\ v.e = e /\ Len(v.c) = Len(w.c)
      /\ \A j \in 1 .. Len(w.c) : v.c[j] = IF j = i THEN r ELSE w.c[j]
  BY UcDirSet
<1>2. r.subdir \subseteq UcEntries
  BY DEF UcConnType
<1>3. \A x \in UcEntries : e[x].conn \in 0 .. Len(w.c)
  BY <1>2 DEF UcTree
<1>4. ASSUME NEW j \in 1 .. Len(w.c), NEW x \in UcEntries PROVE x \in v.c[j].subdir <=> e[x].conn = j
  <2>1. x \in w.c[j].subdir <=> w.e[x].conn = j
    BY DEF UcTree
  <2>2. CASE j = i
    BY <1>1, <1>2, <2>2
  <2>3. CASE j # i
    BY <1>1, <1>2, <2>1, <2>3
  <2> QED BY <2>2, <2>3
<1>5. ASSUME NEW x \in UcEntries, NEW y \in UcEntries, e[x].conn # 0, e[x].conn = e[y].conn, e[x].name = e[y].name
      PROVE  x = y
  <2>1. CASE x \in r.subdir
    BY <1>5, <2>1
  <2>2. CASE x \notin r.subdir
    BY <1>5, <2>2 DEF UcTree
  <2> QED BY <2>1, <2>2
<1> QED BY <1>1, <1>3, <1>4, <1>5 DEF UcTree

\* The entries after a list, or the part of one.
LEMMA UcListedSafe ==
    ASSUME NEW w, NEW h \in [UcEntries -> Nat], UcSafe(w, h), \A x \in UcUnused(w) : h[x] = 0,
           uc_remote \in [UcNames -> UcKinds \cup {"none"}], NEW i \in 1 .. Len(w.c),
           NEW names \in SUBSET {n \in UcNames : uc_remote[n] # "none"},
           ExistsInjection(UcUnnamed(w, i, names), UcUnused(w)),
           NEW v, v = UcListed(w, i, names, UcUnnamed(w, i, names))
    PROVE  UcSafe(v, h) /\ UcQuiet(v, w, 0)
<1>1. w \in UcWorlds /\ UcTree(w) /\ UcAllExact(w.e, h)
  BY DEF UcSafe
<1> DEFINE new == UcUnnamed(w, i, names)
           spot == CHOOSE f \in Injection(new, UcUnused(w)) : TRUE
           kept == {x \in w.c[i].subdir : w.e[x].name \in names}
           e == [x \in UcEntries |->
                   CASE \E n \in new : spot[n] = x ->
                          LET n == CHOOSE m \in new : spot[m] = x
                          IN [NoUcEntry EXCEPT !.refs = 1, !.name = n, !.node = uc_remote[n], !.conn = i]
                     [] x \in kept -> [w.e[x] EXCEPT !.node = uc_remote[w.e[x].name],
                                                  !.over = w.e[x].over \/ w.e[x].node = "none"]
                     [] x \in w.c[i].subdir \ kept -> free_entry_list(w.e[x])
                     [] OTHER -> w.e[x]]
           r == [w.c[i] EXCEPT !.subdir = kept \cup {spot[n] : n \in new}]
<1>2. v = [w EXCEPT !.c[i].subdir = kept \cup {spot[n] : n \in new}, !.e = e]
  BY DEF UcListed
<1>4. spot \in [new -> UcUnused(w)] /\ \A m, n \in new : spot[m] = spot[n] => m = n
  <2>1. spot \in Injection(new, UcUnused(w))
    BY DEF ExistsInjection
  <2> QED BY <2>1 DEF Injection, IsInjective
<1>5. new \subseteq names /\ \A n \in new, x \in w.c[i].subdir : w.e[x].name # n
  BY DEF UcUnnamed, UcNamed
<1>6. \A x \in UcUnused(w) : x \in UcEntries /\ w.e[x].refs = 0 /\ w.e[x].conn = 0
  BY <1>1 DEF UcUnused, UcTree
<1>7. kept = {x \in w.c[i].subdir : w.e[x].name \in names}
  OBVIOUS
<1>9. r = [w.c[i] EXCEPT !.subdir = kept \cup {spot[n] : n \in new}] /\ DOMAIN e = UcEntries
      /\ e = [x \in UcEntries |-> e[x]]
  OBVIOUS
<1> HIDE DEF new, spot, kept, r
<1>3. ASSUME NEW x \in UcEntries, NEW n \in new, spot[n] = x
      PROVE  e[x] = [NoUcEntry EXCEPT !.refs = 1, !.name = n, !.node = uc_remote[n], !.conn = i]
  <2>1. x \notin w.c[i].subdir /\ x \notin kept
    BY <1>1, <1>3, <1>4, <1>6, <1>7 DEF UcTree
  <2>2. \A m \in new : spot[m] = x <=> m = n
    BY <1>3, <1>4
  <2>3. n = CHOOSE m \in new : spot[m] = x
    BY <2>2
  <2>4. PICK k : k = CHOOSE m \in new : spot[m] = x
    OBVIOUS
  <2>5. e[x] = [NoUcEntry EXCEPT !.refs = 1, !.name = k, !.node = uc_remote[k], !.conn = i]
    BY <1>3, <2>1, <2>4
  <2> QED BY <2>3, <2>4, <2>5
<1>8. \A x \in UcEntries : ~(\E n \in new : spot[n] = x) =>
        /\ x \in kept => e[x] = [w.e[x] EXCEPT !.node = uc_remote[w.e[x].name],
                                               !.over = w.e[x].over \/ w.e[x].node = "none"]
        /\ x \in w.c[i].subdir \ kept => e[x] = free_entry_list(w.e[x])
        /\ x \notin w.c[i].subdir => e[x] = w.e[x]
  BY <1>7
<1> HIDE DEF e
<1>10. w.c[i] \in UcConnType /\ w.c[i].subdir \subseteq UcEntries
  BY <1>1, UcConnOf DEF UcConnType
<1>11. r \in UcConnType /\ r.subdir = kept \cup {spot[n] : n \in new} /\ r.busy = w.c[i].busy
  <2>1. PICK s : s = kept \cup {spot[n] : n \in new}
    OBVIOUS
  <2>2. s \subseteq UcEntries
    BY <1>4, <1>6, <1>7, <1>10, <2>1
  <2> QED BY <1>9, <1>10, <2>1, <2>2 DEF UcConnType
<1>12. v = UcDirWith(w, i, r, e)
  <2>1. PICK d, s : d = e /\ s = kept \cup {spot[n] : n \in new}
    OBVIOUS
  <2>2. v = [w EXCEPT !.c[i].subdir = s, !.e = d]
    BY <1>2, <2>1
  <2>3. PICK c : c = [w.c EXCEPT ![i] = r]
    OBVIOUS
  <2>4. r = [w.c[i] EXCEPT !.subdir = s] /\ i \in DOMAIN w.c
    BY <1>1, <1>9, <2>1 DEF UcWorlds
  <2>5. v = [w EXCEPT !.c = c, !.e = d]
    <3>1. v = [w EXCEPT !.c = [w.c EXCEPT ![i] = [w.c[i] EXCEPT !.subdir = s]], !.e = d]
      BY <2>2
    <3> QED BY <2>3, <2>4, <3>1
  <2>6. UcDirWith(w, i, r, e) = [w EXCEPT !.c = c, !.e = d]
    BY <2>1, <2>3 DEF UcDirWith
  <2> QED BY <2>5, <2>6
<1>13. \A x \in UcEntries : w.e[x] \in UcEntryType /\ UcExact(w.e[x], h[x]) /\ h[x] \in Nat
  BY <1>1 DEF UcWorlds, UcAllExact
<1>14. ASSUME NEW n \in new
       PROVE  /\ e[spot[n]] \in UcEntryType /\ UcExact(e[spot[n]], h[spot[n]]) /\ e[spot[n]].conn = i
              /\ e[spot[n]].name = n /\ e[spot[n]].refs # 0 /\ w.e[spot[n]].conn = 0
  <2>1. PICK x : x = spot[n]
    OBVIOUS
  <2>2. x \in UcEntries /\ w.e[x].conn = 0 /\ h[x] = 0
    BY <1>4, <1>6, <2>1
  <2>4. e[x] = [NoUcEntry EXCEPT !.refs = 1, !.name = n, !.node = uc_remote[n], !.conn = i]
    BY <1>3, <2>1, <2>2
  <2>5. PICK k : k = uc_remote[n]
    OBVIOUS
  <2>6. n \in UcNames /\ k \in UcKinds /\ k # "none"
    BY <1>5, <2>5 DEF UcKinds
  <2>7. e[x] = UcNewEntry(n, k, i)
    BY <2>4, <2>5 DEF NoUcEntry, UcNewEntry
  <2>8. PICK f : f = e[x]
    OBVIOUS
  <2>9. f.conn = i /\ f.name = n /\ f.refs = 1 /\ f.node = k /\ f \in UcEntryType
    <3>1. i \in Nat
      OBVIOUS
    <3> QED BY <2>6, <2>7, <2>8, <3>1, NewEntryType
  <2>10. UcExact(f, h[x])
    BY <2>2, <2>6, <2>9 DEF UcExact
  <2> QED BY <2>1, <2>2, <2>8, <2>9, <2>10
<1>15. ASSUME NEW x \in kept
       PROVE  /\ x \in UcEntries /\ e[x] \in UcEntryType /\ UcExact(e[x], h[x]) /\ e[x].conn = i
              /\ e[x].name = w.e[x].name /\ e[x].refs # 0 /\ w.e[x].conn = i /\ w.e[x].name \in names
  <2>1. x \in UcEntries /\ x \in w.c[i].subdir /\ w.e[x].name \in names
    BY <1>7, <1>10
  <2>2. w.e[x].conn = i
    BY <1>1, <2>1 DEF UcTree
  <2>3. ~ \E m \in new : spot[m] = x
    BY <1>4, <1>6, <2>2
  <2>4. e[x] = [w.e[x] EXCEPT !.node = uc_remote[w.e[x].name], !.over = w.e[x].over \/ w.e[x].node = "none"]
    BY <1>8, <2>1, <2>3
  <2>5. PICK d, k, b : d = w.e[x] /\ k = uc_remote[d.name] /\ b = (d.over \/ d.node = "none")
    OBVIOUS
  <2>6. k \in UcKinds /\ k # "none" /\ b \in BOOLEAN /\ d \in UcEntryType /\ UcExact(d, h[x])
    BY <1>13, <2>1, <2>5 DEF UcKinds
  <2>7. e[x] = [d EXCEPT !.node = k, !.over = b]
    BY <2>4, <2>5
  <2>8. PICK f : f = e[x]
    OBVIOUS
  <2>9. f.conn = d.conn /\ f.name = d.name /\ f.refs = d.refs /\ f.node = k /\ f.over = b /\ f \in UcEntryType
    BY <2>6, <2>7, <2>8 DEF UcEntryType
  <2>10. UcExact(f, h[x])
    BY <2>5, <2>6, <2>9 DEF UcExact
  <2>11. d.refs # 0
    BY <1>1, <2>1, <2>2, <2>5 DEF UcTree
  <2> QED BY <2>1, <2>2, <2>5, <2>8, <2>9, <2>10, <2>11
<1>16. ASSUME NEW x \in w.c[i].subdir, x \notin kept
       PROVE  /\ x \in UcEntries /\ e[x] \in UcEntryType /\ UcExact(e[x], h[x]) /\ e[x].conn = 0
              /\ (e[x].refs = 0 => e[x].node = "none") /\ w.e[x].conn = i
  <2>1. x \in UcEntries /\ w.e[x].conn = i
    BY <1>1, <1>10 DEF UcTree
  <2>2. ~ \E m \in new : spot[m] = x
    BY <1>4, <1>6, <2>1
  <2>3. e[x] = free_entry_list(w.e[x])
    BY <1>8, <1>16, <2>1, <2>2
  <2> QED BY <1>13, <2>1, <2>3, FreedEntry
<1>17. ASSUME NEW x \in UcEntries, x \notin w.c[i].subdir, x \notin {spot[n] : n \in new}
       PROVE  e[x] = w.e[x] /\ w.e[x].conn # i
  <2>1. x \notin kept /\ ~ \E m \in new : spot[m] = x
    BY <1>7, <1>17
  <2> QED BY <1>1, <1>8, <1>17, <2>1 DEF UcTree
<1>18. ASSUME NEW x \in UcEntries
       PROVE  /\ e[x] \in UcEntryType /\ UcExact(e[x], h[x])
              /\ (e[x].refs = 0 => e[x].node = "none" /\ e[x].conn = 0)
  <2>1. CASE x \in {spot[n] : n \in new}
    BY <1>14, <2>1
  <2>2. CASE x \in kept
    BY <1>15, <2>2
  <2>3. CASE x \in w.c[i].subdir \ kept
    BY <1>16, <2>3
  <2>4. CASE x \notin w.c[i].subdir /\ x \notin {spot[n] : n \in new}
    <3>1. e[x] = w.e[x]
      BY <1>17, <2>4
    <3> QED BY <1>1, <1>13, <3>1 DEF UcTree
  <2> QED BY <2>1, <2>2, <2>3, <2>4
<1>19. e \in [UcEntries -> UcEntryType]
  BY <1>9, <1>18
<1>20. \A x \in r.subdir : e[x].conn = i /\ (w.e[x].conn = 0 \/ w.e[x].conn = i)
  BY <1>11, <1>14, <1>15
<1>21. \A x \in UcEntries \ r.subdir :
         \/ e[x].conn = 0 /\ (w.e[x].conn = 0 \/ w.e[x].conn = i)
         \/ e[x].conn = w.e[x].conn /\ e[x].name = w.e[x].name /\ w.e[x].conn # i
  BY <1>11, <1>16, <1>17
<1>22. \A x, y \in r.subdir : e[x].name = e[y].name => x = y
  <2>1. ASSUME NEW x \in kept, NEW y \in kept, e[x].name = e[y].name PROVE x = y
    <3>1. w.e[x].name = w.e[y].name /\ w.e[x].conn = i /\ w.e[y].conn = i /\ x \in UcEntries /\ y \in UcEntries
      BY <1>15, <2>1
    <3>2. i # 0
      OBVIOUS
    <3> QED BY <1>1, <3>1, <3>2 DEF UcTree
  <2>2. ASSUME NEW x \in kept, NEW n \in new PROVE e[x].name # e[spot[n]].name
    BY <1>5, <1>7, <1>14, <1>15
  <2>3. ASSUME NEW m \in new, NEW n \in new, e[spot[m]].name = e[spot[n]].name PROVE spot[m] = spot[n]
    BY <1>14, <2>3
  <2> QED BY <1>11, <2>1, <2>2, <2>3
<1>23. UcTree(v)
  <2>1. \A x \in UcEntries : e[x].refs = 0 => e[x].node = "none" /\ e[x].conn = 0
    BY <1>18
  <2>2. w \in UcWorlds /\ UcTree(w) /\ r \in UcConnType /\ r.busy = w.c[i].busy
    BY <1>1, <1>11
  <2>3. PICK d, q : d = e /\ q = r
    OBVIOUS
  <2>4. /\ d \in [UcEntries -> UcEntryType] /\ q \in UcConnType /\ q.busy = w.c[i].busy
        /\ v = UcDirWith(w, i, q, d)
    BY <1>12, <1>19, <2>2, <2>3
  <2>5. \A x \in q.subdir : d[x].conn = i /\ (w.e[x].conn = 0 \/ w.e[x].conn = i)
    BY <1>20, <2>3
  <2>6. \A x \in UcEntries \ q.subdir :
          \/ d[x].conn = 0 /\ (w.e[x].conn = 0 \/ w.e[x].conn = i)
          \/ d[x].conn = w.e[x].conn /\ d[x].name = w.e[x].name /\ w.e[x].conn # i
    BY <1>21, <2>3
  <2>7. \A x, y \in q.subdir : d[x].name = d[y].name => x = y
    BY <1>22, <2>3
  <2>8. \A x \in UcEntries : d[x].refs = 0 => d[x].node = "none" /\ d[x].conn = 0
    BY <2>1, <2>3
  <2>9. i \in 1 .. Len(w.c)
    OBVIOUS
  <2>10. UcDirFits(w, i, q, d)
    BY ONLY <2>5, <2>6, <2>7, <2>8 DEF UcDirFits
  <2> QED BY ONLY <2>2, <2>4, <2>9, <2>10, UcDirTree
<1>24. v \in UcWorlds /\ v.e = e /\ UcQuiet(v, w, 0)
  BY <1>1, <1>11, <1>12, <1>19, UcDirSet
<1> QED BY <1>18, <1>23, <1>24 DEF UcSafe, UcAllExact

\* A directory whose list was refused at its end is empty.
LEMMA UcFreeSafe ==
    ASSUME NEW w, NEW h \in [UcEntries -> Nat], UcSafe(w, h), NEW i \in 1 .. Len(w.c),
           NEW v, v = ucftp_free_dirlist(w, i)
    PROVE  UcSafe(v, h) /\ UcQuiet(v, w, 0)
<1>1. w \in UcWorlds /\ UcTree(w) /\ UcAllExact(w.e, h)
  BY DEF UcSafe
<1>2. PICK e : e = [x \in UcEntries |->
                      IF x \notin w.c[i].subdir THEN w.e[x]
                      ELSE [NoUcEntry EXCEPT !.over = w.e[x].over \/ w.e[x].node = "none" \/ w.e[x].refs > 1]]
  OBVIOUS
<1>3. PICK r : r = [w.c[i] EXCEPT !.subdir = {}]
  OBVIOUS
<1>4. r \in UcConnType /\ r.subdir = {} /\ r.busy = w.c[i].busy
  BY <1>1, <1>3, UcConnOf DEF UcConnType
<1>5. v = UcDirWith(w, i, r, e)
  BY <1>2, <1>3 DEF ucftp_free_dirlist, UcDirWith
<1>6. \A x \in UcEntries : w.e[x] \in UcEntryType /\ UcExact(w.e[x], h[x]) /\ h[x] \in Nat
  BY <1>1 DEF UcWorlds, UcAllExact
<1>7. \A x \in UcEntries : x \in w.c[i].subdir <=> w.e[x].conn = i
  BY <1>1 DEF UcTree
<1>8. ASSUME NEW x \in UcEntries, w.e[x].conn = i
      PROVE  e[x] \in UcEntryType /\ UcExact(e[x], h[x]) /\ e[x].conn = 0 /\ e[x].node = "none"
  <2>1. PICK d, f : d = w.e[x] /\ f = e[x]
    OBVIOUS
  <2>2. f = UcDropped(d)
    BY <1>2, <1>7, <1>8, <2>1 DEF UcDropped
  <2>3. d \in UcEntryType /\ UcExact(d, h[x]) /\ h[x] \in Nat
    BY <1>6, <2>1
  <2> QED BY <2>1, <2>2, <2>3, DroppedEntry
<1>9. \A x \in UcEntries : w.e[x].conn # i => e[x] = w.e[x]
  BY <1>2, <1>7
<1>10. \A x \in UcEntries :
         /\ e[x] \in UcEntryType /\ UcExact(e[x], h[x])
         /\ (e[x].refs = 0 => e[x].node = "none" /\ e[x].conn = 0)
  BY <1>1, <1>6, <1>8, <1>9 DEF UcTree
<1>11. e \in [UcEntries -> UcEntryType]
  BY <1>2, <1>10
<1>12. \A x \in UcEntries \ r.subdir :
         \/ e[x].conn = 0 /\ (w.e[x].conn = 0 \/ w.e[x].conn = i)
         \/ e[x].conn = w.e[x].conn /\ e[x].name = w.e[x].name /\ w.e[x].conn # i
  BY <1>8, <1>9
<1>13. UcTree(v)
  <2>1. UcDirFits(w, i, r, e)
    BY <1>4, <1>10, <1>12 DEF UcDirFits
  <2>2. w \in UcWorlds /\ UcTree(w) /\ i \in 1 .. Len(w.c)
    BY <1>1
  <2> QED BY ONLY <1>4, <1>5, <1>11, <2>1, <2>2, UcDirTree
<1>14. v \in UcWorlds /\ v.e = e /\ UcQuiet(v, w, 0)
  BY <1>1, <1>4, <1>5, <1>11, UcDirSet
<1> QED BY <1>10, <1>13, <1>14 DEF UcSafe, UcAllExact

\* A new entry, which only its user refers to.
LEMMA UcNewSafe ==
    ASSUME NEW w, NEW h \in [UcEntries -> Nat], UcSafe(w, h), NEW i \in 1 .. Len(w.c),
           NEW name \in UcNames, UcNamed(w, i, name) = {}, NEW x \in UcUnused(w), x = UcLeast(UcUnused(w)),
           NEW v, v = ucftp_new_entry(w, name, i)
    PROVE  UcSafe(v, UcHeldBy(h, x, 1)) /\ UcQuiet(v, w, 0)
<1>1. w \in UcWorlds /\ UcTree(w) /\ UcAllExact(w.e, h)
  BY DEF UcSafe
<1>2. x \in UcEntries /\ w.e[x].conn = 0
  BY <1>1 DEF UcUnused, UcTree
<1>3. PICK d : d = [NoUcEntry EXCEPT !.refs = 1, !.name = name, !.conn = i]
  OBVIOUS
<1>4. d = UcNewEntry(name, "none", i) /\ i \in Nat
  <2>1. d = UcNewEntry(name, "none", i)
    BY <1>3 DEF NoUcEntry, UcNewEntry
  <2> QED BY <2>1
<1>5. d.refs = 1 /\ d.name = name /\ d.node = "none" /\ d.conn = i /\ d \in UcEntryType
  BY <1>4, NewEntryType
<1>6. UcExact(d, 1)
  BY <1>5 DEF UcExact
<1>7. PICK e : e = [w.e EXCEPT ![x] = d]
  OBVIOUS
<1>8. e \in [UcEntries -> UcEntryType] /\ \A y \in UcEntries : e[y] = IF y = x THEN d ELSE w.e[y]
  BY <1>1, <1>5, <1>7 DEF UcWorlds
<1>9. PICK r : r = [w.c[i] EXCEPT !.subdir = @ \cup {x}]
  OBVIOUS
<1>10. w.c[i] \in UcConnType /\ w.c[i].subdir \subseteq UcEntries
  BY <1>1, UcConnOf DEF UcConnType
<1>11. r \in UcConnType /\ r.subdir = w.c[i].subdir \cup {x} /\ r.busy = w.c[i].busy
  BY <1>2, <1>9, <1>10 DEF UcConnType
<1>12. v = UcDirWith(w, i, r, e)
  BY <1>1, <1>3, <1>7, <1>9 DEF ucftp_new_entry, UcDirWith, UcWorlds
<1>13. \A y \in UcEntries : y \in w.c[i].subdir <=> w.e[y].conn = i
  BY <1>1 DEF UcTree
<1>14. i # 0
  OBVIOUS
<1>15. \A y \in r.subdir : e[y].conn = i /\ (w.e[y].conn = 0 \/ w.e[y].conn = i)
  BY <1>2, <1>5, <1>8, <1>10, <1>11, <1>13
<1>16. \A y \in UcEntries \ r.subdir :
         \/ e[y].conn = 0 /\ (w.e[y].conn = 0 \/ w.e[y].conn = i)
         \/ e[y].conn = w.e[y].conn /\ e[y].name = w.e[y].name /\ w.e[y].conn # i
  BY <1>8, <1>11, <1>13
<1>17. \A y \in w.c[i].subdir : w.e[y].name # name
  BY DEF UcNamed
<1>18. \A y, z \in r.subdir : e[y].name = e[z].name => y = z
  <2>1. ASSUME NEW y \in w.c[i].subdir, NEW z \in w.c[i].subdir, w.e[y].name = w.e[z].name PROVE y = z
    BY <1>1, <1>10, <1>13, <1>14, <2>1 DEF UcTree
  <2>2. \A y \in w.c[i].subdir : y # x /\ e[y] = w.e[y]
    BY <1>2, <1>8, <1>10, <1>13, <1>14
  <2>3. e[x].name = name
    BY <1>2, <1>5, <1>8
  <2> QED BY <1>11, <1>17, <2>1, <2>2, <2>3
<1>19. \A y \in UcEntries : e[y].refs = 0 => e[y].node = "none" /\ e[y].conn = 0
  BY <1>1, <1>5, <1>8 DEF UcTree
<1>20. UcTree(v)
  <2>1. UcDirFits(w, i, r, e)
    BY ONLY <1>15, <1>16, <1>18, <1>19 DEF UcDirFits
  <2>2. w \in UcWorlds /\ UcTree(w) /\ i \in 1 .. Len(w.c) /\ e \in [UcEntries -> UcEntryType]
    BY <1>1, <1>8
  <2> QED BY ONLY <1>11, <1>12, <2>1, <2>2, UcDirTree
<1>21. v \in UcWorlds /\ v.e = e /\ UcQuiet(v, w, 0)
  BY <1>1, <1>8, <1>11, <1>12, UcDirSet
<1>22. UcAllExact(e, UcHeldBy(h, x, 1))
  BY <1>1, <1>6, <1>8 DEF UcAllExact, UcHeldBy
<1> QED BY <1>20, <1>21, <1>22 DEF UcSafe

\* The end of a list makes the directory valid, or not.
LEMMA UcReadOver ==
    ASSUME NEW w \in UcWorlds, NEW i \in 1 .. Len(w.c), NEW list, NEW v, v = UcRead(w, i, list)
    PROVE  UcOver(v, w, 0)
<1>1. CASE list.whole
  <2>1. PICK c : c = w.c[i]
    OBVIOUS
  <2>2. c \in UcConnType
    BY <2>1, UcConnOf
  <2>3. PICK r : r = [c EXCEPT !.valid = TRUE]
    OBVIOUS
  <2>4. r \in UcConnType /\ r.subdir = c.subdir /\ r.busy = c.busy
    BY <2>2, <2>3 DEF UcConnType
  <2>5. v = UcConnWith(w, i, r)
    BY <1>1, <2>1, <2>3 DEF UcRead, UcConnWith
  <2> QED BY <2>1, <2>4, <2>5, UcConnWithOver
<1>2. CASE ~list.whole
  <2>1. v = [w EXCEPT !.cost = 1]
    BY <1>2 DEF UcRead
  <2> QED BY <2>1 DEF UcOver, UcWorlds
<1> QED BY <1>1, <1>2

\* What nobody holds is counted as held by nobody.
UcUnheld(h) ==
    \A x \in UcEntries :
      (\A u \in UcUsers : hand[u].ent # x) /\ (\A f \in UcFiles : ufiles[f].ent # x) => h[x] = 0

\* An entry that is taken as new is held by nobody.
LEMMA UcUnheldUnused ==
    ASSUME NEW w, NEW h, UcUnheld(h) PROVE \A x \in UcUnused(w) : x \in UcEntries /\ h[x] = 0
BY DEF UcUnheld, UcUnused

\* ucftp_list leaves a tree, and the references exact.
LEMMA UcListSafe ==
    ASSUME NEW w, NEW h \in [UcEntries -> Nat], UcSafe(w, h), UcUnheld(h),
           uc_remote \in [UcNames -> UcKinds \cup {"none"}], NEW i \in 1 .. Len(w.c), NEW v \in ucftp_list(w, i)
    PROVE  UcSafe(v, h) /\ UcQuiet(v, w, 0)
<1> DEFINE Fit(s) == {a \in UcLists : ExistsInjection(UcUnnamed(s, i, a.names), UcUnused(s))}
           UcAnswered(s, a) == {IF r.ok THEN r.w ELSE ucftp_free_dirlist(r.w, i) :
                              r \in ucftp_wait_reply_code(ucftp_read_list(s, i, a), i)}
           After(p) == IF ~p.ok THEN {p.w} ELSE UNION {UcAnswered(p.w, a) : a \in Fit(p.w)}
<1>1. ucftp_list(w, i) = {[u EXCEPT !.c[i].busy = FALSE] : u \in UNION {After(p) : p \in Begun(w, i)}}
  BY DEF ucftp_list
<1>2. PICK u : u \in UNION {After(p) : p \in Begun(w, i)} /\ v = [u EXCEPT !.c[i].busy = FALSE]
  <2> HIDE DEF After
  <2> QED BY <1>1
<1>3. PICK p : p \in Begun(w, i) /\ u \in After(p)
  <2> HIDE DEF After
  <2> QED BY <1>2
<1>4. UcOver(p.w, w, 0) /\ p.ok \in BOOLEAN
  BY <1>3, UcBegun DEF UcSafe
<1>5. PICK q : q = p.w
  OBVIOUS
<1>6. UcSafe(q, h) /\ UcQuiet(q, w, 0) /\ i \in 1 .. Len(q.c) /\ q \in UcWorlds
  BY <1>4, <1>5, UcOverSafe DEF UcOver
<1>7. UcSafe(u, h) /\ UcQuiet(u, w, 0)
  <2>1. CASE ~p.ok
    BY <1>3, <1>5, <1>6, <2>1
  <2>2. CASE p.ok
    <3>1. PICK a \in Fit(q) : u \in UcAnswered(q, a)
      <4> HIDE DEF Fit, UcAnswered
      <4> QED BY <1>3, <1>5, <2>2
    <3>2. PICK l, k : l = ucftp_read_list(q, i, a) /\ k = UcListed(q, i, a.names, UcUnnamed(q, i, a.names))
      OBVIOUS
    <3>3. UcSafe(l, h) /\ UcQuiet(l, q, 0)
      <4>1. \A x \in UcUnused(q) : h[x] = 0
        BY UcUnheldUnused
      <4>2. PICK names : names = a.names
        OBVIOUS
      <4>3. names \in SUBSET {n \in UcNames : uc_remote[n] # "none"}
        BY <3>1, <4>2 DEF UcLists
      <4>4. /\ ExistsInjection(UcUnnamed(q, i, names), UcUnused(q))
            /\ k = UcListed(q, i, names, UcUnnamed(q, i, names))
        BY <3>1, <3>2, <4>2
      <4>5. UcSafe(k, h) /\ UcQuiet(k, q, 0)
        BY <1>6, <4>1, <4>3, <4>4, UcListedSafe
      <4>6. k \in UcWorlds /\ i \in 1 .. Len(k.c) /\ l = UcRead(k, i, a)
        BY <1>6, <3>2, <4>5 DEF UcSafe, UcQuiet, ucftp_read_list
      <4>7. UcSafe(l, h) /\ UcQuiet(l, k, 0)
        BY <4>5, <4>6, UcReadOver, UcOverSafe
      <4> QED BY <4>5, <4>7, UcQuietQuiet
    <3>4. PICK r \in ucftp_wait_reply_code(l, i) : u = IF r.ok THEN r.w ELSE ucftp_free_dirlist(r.w, i)
      BY <3>1, <3>2
    <3>5. i \in 1 .. Len(l.c) /\ l \in UcWorlds
      BY <1>6, <3>3 DEF UcQuiet, UcSafe
    <3>6. UcOver(r.w, l, 0) /\ r.ok \in BOOLEAN
      BY <3>4, <3>5, UcWaited
    <3>7. PICK m : m = r.w
      OBVIOUS
    <3>8. UcSafe(m, h) /\ UcQuiet(m, l, 0) /\ i \in 1 .. Len(m.c)
      BY <3>3, <3>5, <3>6, <3>7, UcOverSafe DEF UcOver
    <3>9. UcQuiet(m, w, 0)
      BY <1>6, <3>3, <3>8, UcQuietQuiet
    <3>10. CASE r.ok
      BY <3>4, <3>7, <3>8, <3>9, <3>10
    <3>11. CASE ~r.ok
      <4>1. u = ucftp_free_dirlist(m, i)
        BY <3>4, <3>7, <3>11
      <4>2. UcSafe(u, h) /\ UcQuiet(u, m, 0)
        BY <3>8, <4>1, UcFreeSafe
      <4> QED BY <3>9, <4>2, UcQuietQuiet
    <3> QED BY <3>6, <3>10, <3>11
  <2> QED BY <1>4, <2>1, <2>2
<1>8. u \in UcWorlds /\ i \in 1 .. Len(u.c)
  BY <1>7 DEF UcSafe, UcQuiet
<1>9. UcOver(v, u, i) /\ ~v.c[i].busy
  BY <1>2, <1>8, UcBusySet
<1>10. UcSafe(v, h) /\ UcQuiet(v, u, i)
  BY <1>7, <1>9, UcOverSafe
<1>11. UcQuiet(v, w, i)
  BY <1>7, <1>10, UcQuietQuiet
<1> QED BY <1>9, <1>10, <1>11 DEF UcQuiet

\* So does the list that is made only when the one there is has expired.
LEMMA UcFreshSafe ==
    ASSUME NEW w, NEW h \in [UcEntries -> Nat], UcSafe(w, h), UcUnheld(h),
           uc_remote \in [UcNames -> UcKinds \cup {"none"}], NEW i \in 1 .. Len(w.c), NEW v \in UcFresh(w, i)
    PROVE  UcSafe(v, h) /\ UcQuiet(v, w, 0)
<1>1. CASE w.c[i].valid
  BY <1>1 DEF UcFresh, UcQuiet
<1>2. CASE ~w.c[i].valid
  BY <1>2, UcListSafe DEF UcFresh
<1> QED BY <1>1, <1>2

\* The number of users, or of files, that hold an entry.
UcCount(S, f, x) == Cardinality({s \in S : f[s].ent = x})
UcHolders(h, f) == [x \in UcEntries |-> UcCount(UcUsers, h, x) + UcCount(UcFiles, f, x)]

\* How the number of those who hold x changes with one of them.
LEMMA UcCountChanges ==
    ASSUME NEW S, IsFiniteSet(S), NEW f, NEW g, NEW s \in S, \A t \in S : t # s => g[t] = f[t], NEW x
    PROVE  /\ UcCount(S, f, x) \in Nat /\ UcCount(S, g, x) \in Nat
           /\ (f[s].ent = x <=> g[s].ent = x) => UcCount(S, g, x) = UcCount(S, f, x)
           /\ f[s].ent # x /\ g[s].ent = x => UcCount(S, g, x) = UcCount(S, f, x) + 1
           /\ f[s].ent = x /\ g[s].ent # x => UcCount(S, f, x) = UcCount(S, g, x) + 1
<1>1. PICK A, B : A = {t \in S : f[t].ent = x} /\ B = {t \in S : g[t].ent = x}
  OBVIOUS
<1>2. IsFiniteSet(A) /\ A \ {s} = B \ {s} /\ (s \in A <=> f[s].ent = x) /\ (s \in B <=> g[s].ent = x)
  BY <1>1, FS_Subset
<1>3. /\ Cardinality(A) \in Nat /\ Cardinality(B) \in Nat
      /\ Cardinality(B) = Cardinality(A) + One(s \in B) - One(s \in A)
  BY <1>2, OneChanges
<1>4. UcCount(S, f, x) = Cardinality(A) /\ UcCount(S, g, x) = Cardinality(B)
  BY <1>1 DEF UcCount
<1>5. PICK a, b : a = UcCount(S, f, x) /\ b = UcCount(S, g, x)
  OBVIOUS
<1>6. a \in Nat /\ b \in Nat /\ b = a + One(s \in B) - One(s \in A)
  BY <1>3, <1>4, <1>5
<1>7. One(s \in A) = (IF f[s].ent = x THEN 1 ELSE 0) /\ One(s \in B) = (IF g[s].ent = x THEN 1 ELSE 0)
  BY <1>2 DEF One
<1> QED BY <1>5, <1>6, <1>7

\* Of the entry x, of which m and then n are held, what it means to let go of d and take e.
UcShift(d, e, x, m, n) ==
    /\ (d = x <=> e = x) => n = m
    /\ d # x /\ e = x => n = m + 1
    /\ d = x /\ e # x => m = n + 1

\* What a user holds changes.
LEMMA UcHandHolds ==
    ASSUME NEW h, NEW f, NEW u \in UcUsers, NEW g, \A t \in UcUsers : t # u => g[t] = h[t]
    PROVE  /\ UcHolders(h, f) \in [UcEntries -> Nat] /\ UcHolders(g, f) \in [UcEntries -> Nat]
           /\ \A x \in UcEntries : UcShift(h[u].ent, g[u].ent, x, UcHolders(h, f)[x], UcHolders(g, f)[x])
<1>1. IsFiniteSet(UcUsers) /\ IsFiniteSet(UcFiles) /\ 0 \notin UcEntries
  BY UcftpAssumption DEF UcEntries
<1>2. \A x \in UcEntries : UcCount(UcFiles, f, x) \in Nat
  <2> TAKE x \in UcEntries
  <2>1. IsFiniteSet({s \in UcFiles : f[s].ent = x})
    BY <1>1, FS_Subset
  <2> QED BY <2>1, FS_CardinalityType DEF UcCount
<1>3. ASSUME NEW x \in UcEntries
      PROVE  /\ UcCount(UcUsers, h, x) \in Nat /\ UcCount(UcUsers, g, x) \in Nat
             /\ (h[u].ent = x <=> g[u].ent = x) => UcCount(UcUsers, g, x) = UcCount(UcUsers, h, x)
             /\ h[u].ent # x /\ g[u].ent = x => UcCount(UcUsers, g, x) = UcCount(UcUsers, h, x) + 1
             /\ h[u].ent = x /\ g[u].ent # x => UcCount(UcUsers, h, x) = UcCount(UcUsers, g, x) + 1
  <2>1. IsFiniteSet(UcUsers)
    BY <1>1
  <2> QED BY <2>1, UcCountChanges
<1>4. PICK a, b : a = UcHolders(h, f) /\ b = UcHolders(g, f)
  OBVIOUS
<1>5. /\ a \in [UcEntries -> Nat] /\ b \in [UcEntries -> Nat]
      /\ \A x \in UcEntries : UcShift(h[u].ent, g[u].ent, x, a[x], b[x])
  BY <1>2, <1>3, <1>4 DEF UcHolders, UcShift
<1> QED BY <1>4, <1>5

\* What a file holds changes.
LEMMA UcFileHolds ==
    ASSUME NEW h, NEW f, NEW u \in UcFiles, NEW g, \A t \in UcFiles : t # u => g[t] = f[t]
    PROVE  /\ UcHolders(h, f) \in [UcEntries -> Nat] /\ UcHolders(h, g) \in [UcEntries -> Nat]
           /\ \A x \in UcEntries : UcShift(f[u].ent, g[u].ent, x, UcHolders(h, f)[x], UcHolders(h, g)[x])
<1>1. IsFiniteSet(UcUsers) /\ IsFiniteSet(UcFiles) /\ 0 \notin UcEntries
  BY UcftpAssumption DEF UcEntries
<1>2. \A x \in UcEntries : UcCount(UcUsers, h, x) \in Nat
  <2> TAKE x \in UcEntries
  <2>1. IsFiniteSet({s \in UcUsers : h[s].ent = x})
    BY <1>1, FS_Subset
  <2> QED BY <2>1, FS_CardinalityType DEF UcCount
<1>3. ASSUME NEW x \in UcEntries
      PROVE  /\ UcCount(UcFiles, f, x) \in Nat /\ UcCount(UcFiles, g, x) \in Nat
             /\ (f[u].ent = x <=> g[u].ent = x) => UcCount(UcFiles, g, x) = UcCount(UcFiles, f, x)
             /\ f[u].ent # x /\ g[u].ent = x => UcCount(UcFiles, g, x) = UcCount(UcFiles, f, x) + 1
             /\ f[u].ent = x /\ g[u].ent # x => UcCount(UcFiles, f, x) = UcCount(UcFiles, g, x) + 1
  BY <1>1, UcCountChanges
<1>4. PICK a, b : a = UcHolders(h, f) /\ b = UcHolders(h, g)
  OBVIOUS
<1>5. /\ a \in [UcEntries -> Nat] /\ b \in [UcEntries -> Nat]
      /\ \A x \in UcEntries : UcShift(f[u].ent, g[u].ent, x, a[x], b[x])
  BY <1>2, <1>3, <1>4 DEF UcHolders, UcShift
<1> QED BY <1>4, <1>5

\* An entry that is not held has no holders.
LEMMA UcHoldersUnheld == UcUnheld(UcHolders(hand, ufiles))
<1> SUFFICES ASSUME NEW x \in UcEntries, \A u \in UcUsers : hand[u].ent # x, \A f \in UcFiles : ufiles[f].ent # x
             PROVE  UcHolders(hand, ufiles)[x] = 0
  BY DEF UcUnheld
<1>1. {s \in UcUsers : hand[s].ent = x} = {} /\ {s \in UcFiles : ufiles[s].ent = x} = {}
  OBVIOUS
<1>2. Cardinality({}) = 0
  BY FS_EmptySet
<1>3. UcCount(UcUsers, hand, x) = 0 /\ UcCount(UcFiles, ufiles, x) = 0
  BY <1>1, <1>2 DEF UcCount
<1> QED BY <1>3 DEF UcHolders

UcHandType == [root : Nat, ent : 0 .. MaxUcEntries]
UcFileType == [ent : 0 .. MaxUcEntries, mode : {"none", "r", "w"}, conn : Nat, sock : BOOLEAN,
               writing : BOOLEAN, eof : BOOLEAN]

\* n is the number of connections.
UcHandOk(h, n) == h \in UcHandType /\ h.root =< n /\ (h.root # 0 => h.ent = 0)
UcFileOk(f, n) == /\ f \in UcFileType /\ f.conn =< n
                  /\ f.sock \/ f.writing => f.conn # 0
                  /\ f.writing => f.mode = "w"
                  /\ f.mode = "r" /\ ~f.sock /\ ~f.eof => f.conn = 0

UcHandsOk(h, n) == DOMAIN h = UcUsers /\ \A u \in UcUsers : UcHandOk(h[u], n)
UcFilesOk(f, n) == DOMAIN f = UcFiles /\ \A g \in UcFiles : UcFileOk(f[g], n)
UcRemoteOk(r) == r \in [UcNames -> UcKinds \cup {"none"}]

\* A busy connection is that of a file.
UcUsed(c, f) == \A i \in 1 .. Len(c) : c[i].busy => \E g \in UcFiles : f[g].conn = i

\* The inductive invariant.
UcBody ==
    /\ UcHandsOk(hand, Len(uconns)) /\ UcFilesOk(ufiles, Len(uconns)) /\ UcRemoteOk(uc_remote)
    /\ UcSafe(UcNow, UcHolders(hand, ufiles)) /\ UcUsed(uconns, ufiles)
UcWhileUp == ~ucrash => UcBody

\* When no connection becomes busy, those that are have their files.
LEMMA UcQuietUsed ==
    ASSUME NEW v, NEW w, NEW f, UcQuiet(w, v, 0), UcUsed(v.c, f) PROVE UcUsed(w.c, f)
BY DEF UcQuiet, UcUsed

\* A step to the world w keeps the invariant when w and the users and files do.
LEMMA UcStep ==
    ASSUME NEW w, UcBecomes(w), NEW h, UcSafe(w, h), h = UcHolders(hand', ufiles'), Len(w.c) = Len(uconns),
           UcHandsOk(hand', Len(uconns)), UcFilesOk(ufiles', Len(uconns)), UcRemoteOk(uc_remote'),
           UcUsed(w.c, ufiles')
    PROVE  UcBody'
<1>1. uconns' = w.c /\ uents' = w.e /\ w \in UcWorlds /\ UcTree(w) /\ UcAllExact(w.e, h)
  BY DEF UcBecomes, UcSafe
<1>2. UcNow' = [c |-> w.c, e |-> w.e, crash |-> FALSE, cost |-> 0]
  BY <1>1 DEF UcNow
<1>3. PICK v : v = UcNow'
  OBVIOUS
<1>4. v.c = w.c /\ v.e = w.e /\ v \in UcWorlds
  BY <1>1, <1>2, <1>3 DEF UcWorlds
<1>5. UcSafe(v, h)
  BY <1>1, <1>4 DEF UcSafe, UcTree
<1>6. UcSafe(UcNow, UcHolders(hand, ufiles))'
  BY <1>3, <1>5
<1> QED BY <1>1, <1>6 DEF UcBody

\* What a state is as a world.
LEMMA UcNowIs ==
    ASSUME UcBody
    PROVE  /\ UcNow \in UcWorlds /\ UcNow.c = uconns /\ UcNow.e = uents
           /\ UcSafe(UcNow, UcHolders(hand, ufiles)) /\ UcUsed(UcNow.c, ufiles)
           /\ UcHolders(hand, ufiles) \in [UcEntries -> Nat] /\ UcUnheld(UcHolders(hand, ufiles))
           /\ uents \in [UcEntries -> UcEntryType] /\ uconns \in Seq(UcConnType)
<1>1. UcNow.c = uconns /\ UcNow.e = uents
  BY DEF UcNow
<1>2. UcSafe(UcNow, UcHolders(hand, ufiles)) /\ UcNow \in UcWorlds
  BY DEF UcBody, UcSafe
<1>3. UcUsed(UcNow.c, ufiles)
  BY <1>1 DEF UcBody
<1>4. uents \in [UcEntries -> UcEntryType] /\ uconns \in Seq(UcConnType)
  BY <1>1, <1>2 DEF UcWorlds
<1>5. \A x \in UcEntries : UcCount(UcUsers, hand, x) \in Nat /\ UcCount(UcFiles, ufiles, x) \in Nat
  <2> TAKE x \in UcEntries
  <2>1. IsFiniteSet({s \in UcUsers : hand[s].ent = x}) /\ IsFiniteSet({s \in UcFiles : ufiles[s].ent = x})
    BY UcftpAssumption, FS_Subset
  <2> QED BY <2>1, FS_CardinalityType DEF UcCount
<1>6. UcHolders(hand, ufiles) \in [UcEntries -> Nat]
  BY <1>5 DEF UcHolders
<1> QED BY <1>1, <1>2, <1>3, <1>4, <1>6, UcHoldersUnheld

\* A file that is not open.
LEMMA NoUcFileOk == ASSUME NEW n \in Nat PROVE UcFileOk(NoUcFile, n)
BY UcftpAssumption DEF UcFileOk, NoUcFile, UcFileType

\* A hand that holds nothing.
LEMMA NoUcHandOk == ASSUME NEW n \in Nat PROVE UcHandOk(NoUcHand, n)
BY UcftpAssumption DEF UcHandOk, NoUcHand, UcHandType

\* One hand changes.
LEMMA UcHandSet ==
    ASSUME NEW n, UcHandsOk(hand, n), NEW u \in UcUsers, NEW a, UcHandOk(a, n), hand' = [hand EXCEPT ![u] = a]
    PROVE  UcHandsOk(hand', n) /\ hand'[u] = a /\ \A t \in UcUsers : t # u => hand'[t] = hand[t]
BY DEF UcHandsOk

\* One file changes.
LEMMA UcFileSet ==
    ASSUME NEW n, UcFilesOk(ufiles, n), NEW u \in UcFiles, NEW a, UcFileOk(a, n), ufiles' = [ufiles EXCEPT ![u] = a]
    PROVE  UcFilesOk(ufiles', n) /\ ufiles'[u] = a /\ \A t \in UcFiles : t # u => ufiles'[t] = ufiles[t]
BY DEF UcFilesOk

\* The holders when a user's hand changes.
LEMMA UcHandShifts ==
    ASSUME NEW u \in UcUsers, \A t \in UcUsers : t # u => hand'[t] = hand[t],
           NEW a, a = UcHolders(hand, ufiles), NEW b, b = UcHolders(hand', ufiles)
    PROVE  /\ a \in [UcEntries -> Nat] /\ b \in [UcEntries -> Nat]
           /\ \A x \in UcEntries : UcShift(hand[u].ent, hand'[u].ent, x, a[x], b[x])
<1>1. PICK h, f, g : h = hand /\ f = ufiles /\ g = hand'
  OBVIOUS
<1>2. \A t \in UcUsers : t # u => g[t] = h[t]
  BY <1>1
<1>3. /\ UcHolders(h, f) \in [UcEntries -> Nat] /\ UcHolders(g, f) \in [UcEntries -> Nat]
      /\ \A x \in UcEntries : UcShift(h[u].ent, g[u].ent, x, UcHolders(h, f)[x], UcHolders(g, f)[x])
  BY <1>2, UcHandHolds
<1> QED BY <1>1, <1>3

\* The hand holds the entry that it held.
LEMMA UcHandKeeps ==
    ASSUME NEW u \in UcUsers, \A t \in UcUsers : t # u => hand'[t] = hand[t], hand'[u].ent = hand[u].ent
    PROVE  UcHolders(hand', ufiles) = UcHolders(hand, ufiles)
<1>1. PICK a, b : a = UcHolders(hand, ufiles) /\ b = UcHolders(hand', ufiles)
  OBVIOUS
<1>2. /\ a \in [UcEntries -> Nat] /\ b \in [UcEntries -> Nat]
      /\ \A x \in UcEntries : UcShift(hand[u].ent, hand'[u].ent, x, a[x], b[x])
  BY <1>1, UcHandShifts
<1>3. \A x \in UcEntries : b[x] = a[x]
  BY <1>2 DEF UcShift
<1>4. b = a
  BY <1>2, <1>3
<1> QED BY <1>1, <1>4

\* The hand takes an entry.
LEMMA UcHandTakes ==
    ASSUME NEW u \in UcUsers, \A t \in UcUsers : t # u => hand'[t] = hand[t],
           NEW x \in UcEntries, hand[u].ent = 0, hand'[u].ent = x
    PROVE  UcHolders(hand', ufiles) = UcHeldBy(UcHolders(hand, ufiles), x, UcHolders(hand, ufiles)[x] + 1)
<1>1. PICK a, b : a = UcHolders(hand, ufiles) /\ b = UcHolders(hand', ufiles)
  OBVIOUS
<1>2. /\ a \in [UcEntries -> Nat] /\ b \in [UcEntries -> Nat]
      /\ \A y \in UcEntries : UcShift(hand[u].ent, hand'[u].ent, y, a[y], b[y])
  BY <1>1, UcHandShifts
<1>3. \A y \in UcEntries : b[y] = IF y = x THEN a[x] + 1 ELSE a[y]
  BY <1>2 DEF UcShift, UcEntries
<1>4. b = UcHeldBy(a, x, a[x] + 1)
  BY <1>2, <1>3 DEF UcHeldBy
<1> QED BY <1>1, <1>4

\* The hand lets go of its entry.
LEMMA UcHandLeaves ==
    ASSUME NEW u \in UcUsers, \A t \in UcUsers : t # u => hand'[t] = hand[t],
           NEW x \in UcEntries, hand[u].ent = x, hand'[u].ent = 0
    PROVE  /\ UcHolders(hand', ufiles) \in [UcEntries -> Nat]
           /\ UcHolders(hand, ufiles)[x] = UcHolders(hand', ufiles)[x] + 1
           /\ UcHolders(hand', ufiles) = UcHeldBy(UcHolders(hand, ufiles), x, UcHolders(hand', ufiles)[x])
<1>1. PICK a, b : a = UcHolders(hand, ufiles) /\ b = UcHolders(hand', ufiles)
  OBVIOUS
<1>2. /\ a \in [UcEntries -> Nat] /\ b \in [UcEntries -> Nat]
      /\ \A y \in UcEntries : UcShift(hand[u].ent, hand'[u].ent, y, a[y], b[y])
  BY <1>1, UcHandShifts
<1>3. a[x] = b[x] + 1 /\ \A y \in UcEntries : b[y] = IF y = x THEN b[x] ELSE a[y]
  BY <1>2 DEF UcShift, UcEntries
<1>4. b = UcHeldBy(a, x, b[x])
  BY <1>2, <1>3 DEF UcHeldBy
<1> QED BY <1>1, <1>2, <1>3, <1>4

\* The holders when a file changes.
LEMMA UcFileShifts ==
    ASSUME NEW u \in UcFiles, \A t \in UcFiles : t # u => ufiles'[t] = ufiles[t],
           NEW a, a = UcHolders(hand, ufiles), NEW b, b = UcHolders(hand, ufiles')
    PROVE  /\ a \in [UcEntries -> Nat] /\ b \in [UcEntries -> Nat]
           /\ \A x \in UcEntries : UcShift(ufiles[u].ent, ufiles'[u].ent, x, a[x], b[x])
<1>1. PICK h, f, g : h = hand /\ f = ufiles /\ g = ufiles'
  OBVIOUS
<1>2. \A t \in UcFiles : t # u => g[t] = f[t]
  BY <1>1
<1>3. /\ UcHolders(h, f) \in [UcEntries -> Nat] /\ UcHolders(h, g) \in [UcEntries -> Nat]
      /\ \A x \in UcEntries : UcShift(f[u].ent, g[u].ent, x, UcHolders(h, f)[x], UcHolders(h, g)[x])
  BY <1>2, UcFileHolds
<1> QED BY <1>1, <1>3

\* The file has the entry that it had.
LEMMA UcFileKeeps ==
    ASSUME NEW u \in UcFiles, \A t \in UcFiles : t # u => ufiles'[t] = ufiles[t], ufiles'[u].ent = ufiles[u].ent
    PROVE  UcHolders(hand, ufiles') = UcHolders(hand, ufiles)
<1>1. PICK a, b : a = UcHolders(hand, ufiles) /\ b = UcHolders(hand, ufiles')
  OBVIOUS
<1>2. /\ a \in [UcEntries -> Nat] /\ b \in [UcEntries -> Nat]
      /\ \A x \in UcEntries : UcShift(ufiles[u].ent, ufiles'[u].ent, x, a[x], b[x])
  BY <1>1, UcFileShifts
<1>3. \A x \in UcEntries : b[x] = a[x]
  BY <1>2 DEF UcShift
<1>4. b = a
  BY <1>2, <1>3
<1> QED BY <1>1, <1>4

\* The file takes an entry.
LEMMA UcFileTakes ==
    ASSUME NEW u \in UcFiles, \A t \in UcFiles : t # u => ufiles'[t] = ufiles[t],
           NEW x \in UcEntries, ufiles[u].ent = 0, ufiles'[u].ent = x
    PROVE  UcHolders(hand, ufiles') = UcHeldBy(UcHolders(hand, ufiles), x, UcHolders(hand, ufiles)[x] + 1)
<1>1. PICK a, b : a = UcHolders(hand, ufiles) /\ b = UcHolders(hand, ufiles')
  OBVIOUS
<1>2. /\ a \in [UcEntries -> Nat] /\ b \in [UcEntries -> Nat]
      /\ \A y \in UcEntries : UcShift(ufiles[u].ent, ufiles'[u].ent, y, a[y], b[y])
  BY <1>1, UcFileShifts
<1>3. \A y \in UcEntries : b[y] = IF y = x THEN a[x] + 1 ELSE a[y]
  BY <1>2 DEF UcShift, UcEntries
<1>4. b = UcHeldBy(a, x, a[x] + 1)
  BY <1>2, <1>3 DEF UcHeldBy
<1> QED BY <1>1, <1>4

\* The file lets go of its entry.
LEMMA UcFileLeaves ==
    ASSUME NEW u \in UcFiles, \A t \in UcFiles : t # u => ufiles'[t] = ufiles[t],
           NEW x \in UcEntries, ufiles[u].ent = x, ufiles'[u].ent = 0
    PROVE  /\ UcHolders(hand, ufiles') \in [UcEntries -> Nat]
           /\ UcHolders(hand, ufiles)[x] = UcHolders(hand, ufiles')[x] + 1
           /\ UcHolders(hand, ufiles') = UcHeldBy(UcHolders(hand, ufiles), x, UcHolders(hand, ufiles')[x])
<1>1. PICK a, b : a = UcHolders(hand, ufiles) /\ b = UcHolders(hand, ufiles')
  OBVIOUS
<1>2. /\ a \in [UcEntries -> Nat] /\ b \in [UcEntries -> Nat]
      /\ \A y \in UcEntries : UcShift(ufiles[u].ent, ufiles'[u].ent, y, a[y], b[y])
  BY <1>1, UcFileShifts
<1>3. a[x] = b[x] + 1 /\ \A y \in UcEntries : b[y] = IF y = x THEN b[x] ELSE a[y]
  BY <1>2 DEF UcShift, UcEntries
<1>4. b = UcHeldBy(a, x, b[x])
  BY <1>2, <1>3 DEF UcHeldBy
<1> QED BY <1>1, <1>2, <1>3, <1>4

\* A step in which no hand and no file changes.
LEMMA UcQuietStep ==
    ASSUME UcBody, NEW w, UcBecomes(w), UcSafe(w, UcHolders(hand, ufiles)), UcQuiet(w, UcNow, 0),
           UNCHANGED <<hand, ufiles>>, UcRemoteOk(uc_remote')
    PROVE  UcBody'
<1>1. UcHolders(hand', ufiles') = UcHolders(hand, ufiles) /\ Len(w.c) = Len(uconns) /\ UcUsed(w.c, ufiles')
  BY UcNowIs, UcQuietUsed DEF UcQuiet
<1>2. UcHandsOk(hand', Len(uconns)) /\ UcFilesOk(ufiles', Len(uconns))
  BY DEF UcBody
<1>3. PICK h : h = UcHolders(hand, ufiles)
  OBVIOUS
<1> QED BY <1>1, <1>2, <1>3, UcStep

\* A step in which one hand changes.
LEMMA UcHandStep ==
    ASSUME UcBody, NEW w, UcBecomes(w), UcSafe(w, UcHolders(hand', ufiles)), UcQuiet(w, UcNow, 0),
           NEW u \in UcUsers, NEW a, UcHandOk(a, Len(uconns)), hand' = [hand EXCEPT ![u] = a],
           UNCHANGED <<ufiles, uc_remote>>
    PROVE  UcBody'
<1>1. UcHandsOk(hand', Len(uconns))
  BY UcHandSet DEF UcBody
<1>2. Len(w.c) = Len(uconns) /\ UcUsed(w.c, ufiles')
  BY UcNowIs, UcQuietUsed DEF UcQuiet
<1>3. UcFilesOk(ufiles', Len(uconns)) /\ UcRemoteOk(uc_remote')
  BY DEF UcBody
<1>4. PICK h : h = UcHolders(hand', ufiles)
  OBVIOUS
<1> QED BY <1>1, <1>2, <1>3, <1>4, UcStep

\* ucftp_lookup_root keeps the invariant.
LEMMA UcLookupRoot == ASSUME UcBody, NEW u \in UcUsers, ucftp_lookup_root(u) PROVE UcBody'
<1>1. PICK n : n = Len(uconns)
  OBVIOUS
<1>2. uconns \in Seq(UcConnType) /\ n \in Nat
  BY <1>1, UcNowIs
<1>3. PICK i, c : /\ i \in 1 .. Len(c) /\ uconns' = c /\ hand' = [hand EXCEPT ![u].root = i]
                  /\ c = uconns \/ c = Append(uconns, [NewUconn EXCEPT !.busy = FALSE])
  <2> DEFINE free == {i \in 1 .. Len(uconns) : ~uconns[i].busy}
  <2>1. CASE free = {}
    <3>1. uconns' = Append(uconns, [NewUconn EXCEPT !.busy = FALSE]) /\ hand' = [hand EXCEPT ![u].root = n + 1]
      BY <1>1, <2>1 DEF ucftp_lookup_root
    <3>2. NewUconn \in UcConnType
      BY DEF NewUconn, UcConnType
    <3>3. [NewUconn EXCEPT !.busy = FALSE] \in UcConnType
      BY <3>2 DEF UcConnType
    <3>4. n + 1 \in 1 .. Len(uconns')
      BY <1>1, <1>2, <3>1, <3>3
    <3> QED BY <3>1, <3>4
  <2>2. CASE free # {}
    <3>1. uconns' = uconns /\ hand' = [hand EXCEPT ![u].root = UcLeast(free)]
      BY <2>2 DEF ucftp_lookup_root
    <3>2. free \subseteq Nat
      OBVIOUS
    <3>3. UcLeast(free) \in free
      <4> HIDE DEF free
      <4>1. \E x \in free : \A y \in free : x =< y
        BY <2>2, <3>2, FirstFree
      <4> QED BY <4>1 DEF UcLeast
    <3>4. UcLeast(free) \in 1 .. Len(uconns)
      BY <3>3
    <3> HIDE DEF free
    <3> QED BY <3>1, <3>4
  <2> QED BY <2>1, <2>2
<1>4. hand[u] = NoUcHand /\ UNCHANGED <<uents, ufiles, uc_remote>>
  BY DEF ucftp_lookup_root
<1>5. PICK r : r = [NewUconn EXCEPT !.busy = FALSE]
  OBVIOUS
<1>6. r \in UcConnType /\ r.subdir = {} /\ ~r.busy
  <2>1. r = [busy |-> FALSE, open |-> FALSE, owed |-> 0, cancel_ok |-> TRUE, subdir |-> {}, valid |-> FALSE]
    BY <1>5 DEF NewUconn
  <2> QED BY <2>1 DEF UcConnType
<1>7. /\ c \in Seq(UcConnType) /\ n =< Len(c) /\ \A j \in 1 .. n : c[j] = uconns[j]
      /\ \A j \in 1 .. Len(c) : j \in 1 .. n \/ c[j] = r
  BY <1>1, <1>2, <1>3, <1>5, <1>6
<1>8. PICK a : a = [hand[u] EXCEPT !.root = i]
  OBVIOUS
<1>9. a.ent = 0 /\ UcHandOk(a, Len(c)) /\ hand[u].ent = 0
  <2>1. a = [root |-> i, ent |-> 0] /\ hand[u].ent = 0
    BY <1>4, <1>8 DEF NoUcHand
  <2>2. i \in Nat /\ i =< Len(c) /\ 0 \in 0 .. MaxUcEntries
    BY <1>3, UcftpAssumption
  <2> QED BY <2>1, <2>2 DEF UcHandOk, UcHandType
<1>10. UcHandsOk(hand, Len(c)) /\ UcFilesOk(ufiles, Len(c))
  <2>1. UcHandsOk(hand, n) /\ UcFilesOk(ufiles, n)
    BY <1>1 DEF UcBody
  <2>2. Len(c) \in Nat
    BY <1>7
  <2>3. \A t \in UcUsers : UcHandOk(hand[t], Len(c))
    BY <1>2, <1>7, <2>1, <2>2 DEF UcHandsOk, UcHandOk, UcHandType
  <2>4. \A f \in UcFiles : UcFileOk(ufiles[f], Len(c))
    BY <1>2, <1>7, <2>1, <2>2 DEF UcFilesOk, UcFileOk, UcFileType
  <2> QED BY <2>1, <2>3, <2>4 DEF UcHandsOk, UcFilesOk
<1>11. hand' = [hand EXCEPT ![u] = a]
  BY <1>3, <1>8
<1>12. UcHandsOk(hand', Len(c)) /\ hand'[u] = a /\ \A t \in UcUsers : t # u => hand'[t] = hand[t]
  BY <1>9, <1>10, <1>11, UcHandSet
<1>13. UcHolders(hand', ufiles') = UcHolders(hand, ufiles)
  <2>1. UcHolders(hand', ufiles) = UcHolders(hand, ufiles)
    BY <1>9, <1>12, UcHandKeeps
  <2> QED BY <1>4, <2>1
<1>14. PICK w, v : w = UcNow /\ v = UcNow'
  OBVIOUS
<1>15. /\ w \in UcWorlds /\ w.c = uconns /\ w.e = uents /\ UcTree(w) /\ UcAllExact(w.e, UcHolders(hand, ufiles))
       /\ UcUsed(uconns, ufiles)
  BY <1>14, UcNowIs DEF UcSafe
<1>16. v = [c |-> c, e |-> uents, crash |-> FALSE, cost |-> 0]
  BY <1>3, <1>4, <1>14 DEF UcNow
<1>17. v.c = c /\ v.e = uents /\ v \in UcWorlds
  BY <1>7, <1>15, <1>16 DEF UcWorlds
<1>18. UcTree(v)
  <2>1. \A x \in UcEntries : v.e[x].conn \in 0 .. Len(v.c)
    BY <1>1, <1>2, <1>7, <1>15, <1>17 DEF UcTree
  <2>2. \A j \in 1 .. Len(v.c), x \in UcEntries : x \in v.c[j].subdir <=> v.e[x].conn = j
    BY <1>1, <1>2, <1>6, <1>7, <1>15, <1>17 DEF UcTree
  <2> QED BY <1>15, <1>17, <2>1, <2>2 DEF UcTree
<1>19. UcSafe(v, UcHolders(hand', ufiles'))
  BY <1>13, <1>15, <1>17, <1>18 DEF UcSafe
<1>20. UcSafe(UcNow, UcHolders(hand, ufiles))'
  BY <1>14, <1>19
<1>21. UcUsed(c, ufiles)
  BY <1>1, <1>6, <1>7, <1>15 DEF UcUsed
<1>22. UcRemoteOk(uc_remote')
  BY <1>4 DEF UcBody
<1> QED BY <1>3, <1>4, <1>10, <1>12, <1>20, <1>21, <1>22 DEF UcBody

\* A user begins to hold an entry.
LEMMA UcLookup == ASSUME UcBody, NEW u \in UcUsers, ucftp_lookup(u) PROVE UcBody'
<1>1. PICK i, n, h : i = hand[u].root /\ n = Len(uconns) /\ h = UcHolders(hand, ufiles)
  OBVIOUS
<1>2. UcHandOk(hand[u], n) /\ i # 0 /\ n \in Nat
  BY <1>1, UcNowIs DEF UcBody, UcHandsOk, ucftp_lookup
<1>3. i \in 1 .. n /\ hand[u].ent = 0
  BY <1>1, <1>2 DEF UcHandOk, UcHandType
<1>4. PICK w \in UcFresh(UcNow, i), name \in UcNames :
        LET x == UcLeast(IF UcNamed(w, i, name) = {} THEN UcUnused(w) ELSE UcNamed(w, i, name))
        IN /\ UcNamed(w, i, name) # {} \/ UcUnused(w) # {}
           /\ UcBecomes(IF UcNamed(w, i, name) = {} THEN ucftp_new_entry(w, name, i)
                        ELSE [w EXCEPT !.e[x].refs = @ + 1])
           /\ hand' = [hand EXCEPT ![u] = [root |-> 0, ent |-> x]]
  BY <1>1 DEF ucftp_lookup
<1>5. h \in [UcEntries -> Nat] /\ UcSafe(UcNow, h) /\ UcUnheld(h) /\ i \in 1 .. Len(UcNow.c)
  BY <1>1, <1>3, UcNowIs
<1>6. uc_remote \in [UcNames -> UcKinds \cup {"none"}]
  BY DEF UcBody, UcRemoteOk
<1>7. UcSafe(w, h) /\ UcQuiet(w, UcNow, 0)
  BY <1>4, <1>5, <1>6, UcFreshSafe
<1>8. w \in UcWorlds /\ i \in 1 .. Len(w.c)
  BY <1>5, <1>7 DEF UcSafe, UcQuiet
<1>9. PICK T, x : T = (IF UcNamed(w, i, name) = {} THEN UcUnused(w) ELSE UcNamed(w, i, name)) /\ x = UcLeast(T)
  OBVIOUS
<1>10. T # {} /\ T \subseteq UcEntries
  BY <1>4, <1>8, <1>9, UcConnOf DEF UcNamed, UcUnused, UcConnType
<1>11. x \in T
  <2>1. \E y \in T : \A z \in T : y =< z
    <3>1. T \subseteq Nat
      BY <1>10 DEF UcEntries
    <3> QED BY <1>10, <3>1, FirstFree
  <2> QED BY <1>9, <2>1 DEF UcLeast
<1>12. PICK a, v : /\ a = [root |-> 0, ent |-> x]
                   /\ v = IF UcNamed(w, i, name) = {} THEN ucftp_new_entry(w, name, i)
                          ELSE [w EXCEPT !.e[x].refs = @ + 1]
  OBVIOUS
<1>13. hand' = [hand EXCEPT ![u] = a] /\ UcBecomes(v) /\ UNCHANGED <<ufiles, uc_remote>>
  BY <1>4, <1>9, <1>12 DEF ucftp_lookup
<1>14. UcHandOk(a, n) /\ a.ent = x /\ x \in UcEntries
  BY <1>2, <1>10, <1>11, <1>12 DEF UcHandOk, UcHandType, UcEntries
<1>15. UcSafe(v, UcHeldBy(h, x, h[x] + 1)) /\ UcQuiet(v, w, 0)
  <2>1. CASE UcNamed(w, i, name) = {}
    <3>1. x \in UcUnused(w) /\ x = UcLeast(UcUnused(w)) /\ v = ucftp_new_entry(w, name, i)
      BY <1>9, <1>11, <1>12, <2>1
    <3>2. h[x] + 1 = 1
      BY <1>5, <3>1, UcUnheldUnused
    <3>3. UcSafe(v, UcHeldBy(h, x, 1)) /\ UcQuiet(v, w, 0)
      BY <1>5, <1>7, <1>8, <2>1, <3>1, UcNewSafe
    <3> QED BY <3>2, <3>3
  <2>2. CASE UcNamed(w, i, name) # {}
    BY <1>5, <1>7, <1>12, <1>14, <2>2, UcRefSafe
  <2> QED BY <2>1, <2>2
<1>16. UcQuiet(v, UcNow, 0)
  BY <1>7, <1>15, UcQuietQuiet
<1>17. UcHandsOk(hand, n)
  BY <1>1 DEF UcBody
<1>18. hand'[u] = a /\ \A t \in UcUsers : t # u => hand'[t] = hand[t]
  BY <1>13, <1>14, <1>17, UcHandSet
<1>19. UcHolders(hand', ufiles) = UcHeldBy(h, x, h[x] + 1)
  BY <1>1, <1>3, <1>14, <1>18, UcHandTakes
<1> QED BY <1>1, <1>13, <1>14, <1>15, <1>16, <1>19, UcHandStep

\* ucftp_readdir keeps the invariant.
LEMMA UcReaddir == ASSUME UcBody, NEW u \in UcUsers, ucftp_readdir(u) PROVE UcBody'
<1>1. PICK i, n, h : i = hand[u].root /\ n = Len(uconns) /\ h = UcHolders(hand, ufiles)
  OBVIOUS
<1>2. UcHandOk(hand[u], n) /\ i # 0 /\ n \in Nat
  BY <1>1, UcNowIs DEF UcBody, UcHandsOk, ucftp_readdir
<1>3. i \in 1 .. n
  BY <1>1, <1>2 DEF UcHandOk, UcHandType
<1>4. PICK w \in UcFresh(UcNow, i) : UcBecomes(w)
  BY <1>1 DEF ucftp_readdir
<1>5. h \in [UcEntries -> Nat] /\ UcSafe(UcNow, h) /\ UcUnheld(h) /\ i \in 1 .. Len(UcNow.c)
  BY <1>1, <1>3, UcNowIs
<1>6. uc_remote \in [UcNames -> UcKinds \cup {"none"}]
  BY DEF UcBody, UcRemoteOk
<1>7. UcSafe(w, h) /\ UcQuiet(w, UcNow, 0)
  BY <1>4, <1>5, <1>6, UcFreshSafe
<1>8. UNCHANGED <<hand, ufiles>> /\ UcRemoteOk(uc_remote')
  BY DEF ucftp_readdir, UcBody
<1> QED BY <1>1, <1>4, <1>7, <1>8, UcQuietStep

\* ucftp_putent keeps the invariant.
LEMMA UcPutent == ASSUME UcBody, NEW u \in UcUsers, ucftp_putent(u) PROVE UcBody'
<1>1. PICK n, h, x : n = Len(uconns) /\ h = UcHolders(hand, ufiles) /\ x = hand[u].ent
  OBVIOUS
<1>2. UcHandOk(hand[u], n) /\ UcHandsOk(hand, n) /\ n \in Nat
  BY <1>1, UcNowIs DEF UcBody, UcHandsOk
<1>3. hand' = [hand EXCEPT ![u] = NoUcHand] /\ UNCHANGED <<ufiles, uc_remote>>
  BY DEF ucftp_putent
<1>4. UcHandOk(NoUcHand, n) /\ NoUcHand.ent = 0
  BY <1>2, NoUcHandOk DEF NoUcHand
<1>5. hand'[u] = NoUcHand /\ \A t \in UcUsers : t # u => hand'[t] = hand[t]
  BY <1>2, <1>3, <1>4, UcHandSet
<1>6. PICK w : w = (IF hand[u].root # 0 THEN UcNow ELSE UcUnref(UcNow, x)) /\ UcBecomes(w)
  BY <1>1 DEF ucftp_putent
<1>7. h \in [UcEntries -> Nat] /\ UcSafe(UcNow, h) /\ UcQuiet(UcNow, UcNow, 0)
  BY <1>1, UcNowIs DEF UcQuiet
<1>8. UcSafe(w, UcHolders(hand', ufiles)) /\ UcQuiet(w, UcNow, 0)
  <2>1. CASE hand[u].root # 0
    <3>1. hand[u].ent = 0
      BY <1>2, <2>1 DEF UcHandOk
    <3>2. UcHolders(hand', ufiles) = h
      BY <1>1, <1>4, <1>5, <3>1, UcHandKeeps
    <3> QED BY <1>6, <1>7, <2>1, <3>2
  <2>2. CASE hand[u].root = 0
    <3>1. x \in UcEntries
      BY <1>1, <1>2, <2>2, UcftpAssumption DEF ucftp_putent, UcHolds, UcHandOk, UcHandType, UcEntries
    <3>2. PICK g : g = UcHolders(hand', ufiles)
      OBVIOUS
    <3>3. h[x] = g[x] + 1 /\ g = UcHeldBy(h, x, g[x])
      BY <1>1, <1>4, <1>5, <3>1, <3>2, UcHandLeaves
    <3>4. g \in [UcEntries -> Nat]
      BY <1>1, <1>4, <1>5, <3>1, <3>2, UcHandLeaves
    <3>5. UcSafe(w, UcHeldBy(h, x, g[x])) /\ UcQuiet(w, UcNow, 0)
      BY <1>6, <1>7, <2>2, <3>1, <3>3, <3>4, UcUnrefSafe
    <3> QED BY <3>2, <3>3, <3>5
  <2> QED BY <2>1, <2>2
<1> QED BY <1>1, <1>3, <1>4, <1>6, <1>8, UcHandStep

\* Time that passes keeps the invariant.
LEMMA UcExpire == ASSUME UcBody, uc_expire PROVE UcBody'
<1>1. PICK i \in 1 .. Len(uconns) : uconns' = [uconns EXCEPT ![i].valid = FALSE]
  BY DEF uc_expire
<1>2. PICK w : w = [UcNow EXCEPT !.c[i].valid = FALSE]
  OBVIOUS
<1>3. UcNow \in UcWorlds /\ UcNow.c = uconns /\ UcNow.e = uents /\ UcSafe(UcNow, UcHolders(hand, ufiles))
  BY UcNowIs
<1>4. UcOver(w, UcNow, 0)
  BY <1>1, <1>2, <1>3, UcStale
<1>5. UcSafe(w, UcHolders(hand, ufiles)) /\ UcQuiet(w, UcNow, 0)
  BY <1>3, <1>4, UcOverSafe
<1>6. w.c = uconns' /\ w.e = uents' /\ UNCHANGED <<hand, ufiles, uc_remote, uents>>
  BY <1>1, <1>2, <1>3 DEF uc_expire, UcNow
<1>7. UcNow' = [c |-> w.c, e |-> w.e, crash |-> FALSE, cost |-> 0]
  BY <1>6 DEF UcNow
<1>8. PICK v : v = UcNow'
  OBVIOUS
<1>9. v.c = w.c /\ v.e = w.e /\ v \in UcWorlds
  BY <1>5, <1>7, <1>8 DEF UcWorlds, UcSafe
<1>10. UcSafe(v, UcHolders(hand, ufiles))
  BY <1>5, <1>9 DEF UcSafe, UcTree
<1>11. UcSafe(UcNow, UcHolders(hand, ufiles))'
  BY <1>6, <1>8, <1>10
<1>12. UcUsed(w.c, ufiles) /\ Len(uconns') = Len(uconns)
  BY <1>3, <1>5, <1>6, UcNowIs, UcQuietUsed DEF UcQuiet
<1> QED BY <1>6, <1>11, <1>12 DEF UcBody

\* The file of connection k, which is a now, has k still if k is busy, and i if that is.
UcTaken(c, k, a, i) ==
    /\ i \in 1 .. Len(c) /\ c[i].busy => a.conn = i
    /\ \A j \in 1 .. Len(c) : k = j /\ c[j].busy => a.conn = j

\* A step in which one file changes.
LEMMA UcFileStep ==
    ASSUME UcBody, NEW w, UcBecomes(w), UcSafe(w, UcHolders(hand, ufiles')), NEW i, UcQuiet(w, UcNow, i),
           NEW f \in UcFiles, NEW a, UcFileOk(a, Len(uconns)), ufiles' = [ufiles EXCEPT ![f] = a],
           UcTaken(w.c, ufiles[f].conn, a, i),
           hand' = hand, UcRemoteOk(uc_remote')
    PROVE  UcBody'
<1>1. UcFilesOk(ufiles', Len(uconns)) /\ ufiles'[f] = a /\ \A t \in UcFiles : t # f => ufiles'[t] = ufiles[t]
  BY UcFileSet DEF UcBody
<1>2. Len(w.c) = Len(uconns) /\ \A j \in 1 .. Len(uconns) : w.c[j].busy => uconns[j].busy \/ j = i
  BY UcNowIs DEF UcQuiet
<1>3. ASSUME NEW j \in 1 .. Len(w.c), w.c[j].busy PROVE \E g \in UcFiles : ufiles'[g].conn = j
  <2>1. CASE j = i
    BY <1>1, <1>2, <1>3, <2>1 DEF UcTaken
  <2>2. CASE j # i
    <3>1. uconns[j].busy
      BY <1>2, <1>3, <2>2
    <3>2. PICK g \in UcFiles : ufiles[g].conn = j
      BY <1>2, <3>1 DEF UcBody, UcUsed
    <3>3. CASE g = f
      BY <1>1, <1>2, <1>3, <3>2, <3>3 DEF UcTaken
    <3>4. CASE g # f
      BY <1>1, <3>2, <3>4
    <3> QED BY <3>3, <3>4
  <2> QED BY <2>1, <2>2
<1>4. UcUsed(w.c, ufiles')
  BY <1>3 DEF UcUsed
<1>5. UcHandsOk(hand', Len(uconns))
  BY DEF UcBody
<1>6. PICK h : h = UcHolders(hand, ufiles')
  OBVIOUS
<1> QED BY <1>1, <1>2, <1>4, <1>5, <1>6, UcStep

\* The parts of the invariant that a call on an entry or a file relies on.
LEMMA UcEntryOf ==
    ASSUME UcBody, NEW x \in UcEntries
    PROVE  uents[x] \in UcEntryType /\ uents[x].conn \in 0 .. Len(uconns) /\ Len(uconns) \in Nat
<1>1. UcTree(UcNow) /\ UcNow.e = uents /\ UcNow.c = uconns /\ uents \in [UcEntries -> UcEntryType]
      /\ uconns \in Seq(UcConnType)
  BY UcNowIs DEF UcSafe
<1> QED BY <1>1 DEF UcTree

\* What a user holds is an entry.
LEMMA UcHeldEntry ==
    ASSUME UcBody, NEW u \in UcUsers, UcHolds(u)
    PROVE  hand[u].ent \in UcEntries
BY UcftpAssumption DEF UcBody, UcHandsOk, UcHandOk, UcHandType, UcHolds, UcEntries

\* What a file has open is an entry.
LEMMA UcOpenEntry ==
    ASSUME UcBody, NEW f \in UcFiles, ufiles[f].ent # 0
    PROVE  ufiles[f].ent \in UcEntries
BY UcftpAssumption DEF UcBody, UcFilesOk, UcFileOk, UcFileType, UcEntries

\* What an open file is.
LEMMA UcFileIs ==
    ASSUME UcBody, NEW f \in UcFiles
    PROVE  UcFileOk(ufiles[f], Len(uconns)) /\ ufiles[f] \in UcFileType /\ ufiles[f].conn \in 0 .. Len(uconns)
<1>1. UcFileOk(ufiles[f], Len(uconns)) /\ Len(uconns) \in Nat
  BY UcNowIs DEF UcBody, UcFilesOk
<1> QED BY <1>1 DEF UcFileOk, UcFileType

\* ucftp_open for reading keeps the invariant.
LEMMA UcOpenRead == ASSUME UcBody, NEW u \in UcUsers, NEW f \in UcFiles, ucftp_open_read(u, f) PROVE UcBody'
<1>1. PICK x, n, h : x = hand[u].ent /\ n = Len(uconns) /\ h = UcHolders(hand, ufiles)
  OBVIOUS
<1>2. x \in UcEntries /\ n \in Nat /\ ufiles[f] = NoUcFile
  BY <1>1, UcHeldEntry, UcEntryOf DEF ucftp_open_read
<1>3. PICK w, a : w = [UcNow EXCEPT !.e[x].refs = @ + 1] /\ a = [NoUcFile EXCEPT !.ent = x, !.mode = "r"]
  OBVIOUS
<1>4. UcBecomes(w) /\ ufiles' = [ufiles EXCEPT ![f] = a] /\ UNCHANGED <<hand, uc_remote>>
  BY <1>1, <1>3 DEF ucftp_open_read
<1>5. h \in [UcEntries -> Nat] /\ UcSafe(UcNow, h)
  BY <1>1, UcNowIs
<1>6. UcSafe(w, UcHeldBy(h, x, h[x] + 1)) /\ UcQuiet(w, UcNow, 0)
  BY <1>2, <1>3, <1>5, UcRefSafe
<1>7. a = [ent |-> x, mode |-> "r", conn |-> 0, sock |-> FALSE, writing |-> FALSE, eof |-> FALSE]
  BY <1>3 DEF NoUcFile
<1>8. a.ent = x /\ a.conn = 0 /\ UcFileOk(a, n)
  <2>1. x \in 0 .. MaxUcEntries
    BY <1>2 DEF UcEntries
  <2> QED BY <1>2, <1>7, <2>1 DEF UcFileOk, UcFileType
<1>9. ufiles[f].conn = 0 /\ ufiles[f].ent = 0
  BY <1>2 DEF NoUcFile
<1>10. UcFilesOk(ufiles, n)
  BY <1>1 DEF UcBody
<1>11. ufiles'[f] = a /\ \A t \in UcFiles : t # f => ufiles'[t] = ufiles[t]
  BY <1>4, <1>8, <1>10, UcFileSet
<1>12. UcHolders(hand, ufiles') = UcHeldBy(h, x, h[x] + 1)
  BY <1>1, <1>2, <1>8, <1>9, <1>11, UcFileTakes
<1>13. UcRemoteOk(uc_remote') /\ hand' = hand
  BY <1>4 DEF UcBody
<1>14. UcSafe(w, UcHolders(hand, ufiles'))
  BY <1>6, <1>12
<1>16. UcTaken(w.c, ufiles[f].conn, a, 0)
  BY <1>9 DEF UcTaken
<1>17. UcFileOk(a, Len(uconns))
  BY <1>1, <1>8
<1> QED BY <1>4, <1>6, <1>13, <1>14, <1>16, <1>17, UcFileStep

\* A connection is made busy and a transfer begun on it.
LEMMA UcTransfer ==
    ASSUME UcBody, NEW w, NEW h, UcSafe(w, h), UcQuiet(w, UcNow, 0), NEW i \in 1 .. Len(uconns),
           NEW p \in Begun([w EXCEPT !.c[i].busy = TRUE], i)
    PROVE  UcSafe(p.w, h) /\ UcQuiet(p.w, UcNow, i) /\ p.w.e = w.e /\ p.ok \in BOOLEAN
<1>1. w \in UcWorlds /\ Len(w.c) = Len(uconns)
  BY UcNowIs DEF UcSafe, UcQuiet
<1>2. PICK v : v = [w EXCEPT !.c[i].busy = TRUE]
  OBVIOUS
<1>3. UcOver(v, w, i)
  BY <1>1, <1>2, UcBusySet
<1>4. v \in UcWorlds /\ i \in 1 .. Len(v.c) /\ v.e = w.e
  BY <1>1, <1>3 DEF UcOver
<1>5. UcOver(p.w, v, 0) /\ p.ok \in BOOLEAN
  BY <1>2, <1>4, UcBegun
<1>6. PICK q : q = p.w
  OBVIOUS
<1>7. UcSafe(v, h) /\ UcQuiet(v, w, i)
  BY <1>3, UcOverSafe
<1>8. UcSafe(q, h) /\ UcQuiet(q, v, 0)
  BY <1>5, <1>6, <1>7, UcOverSafe
<1>9. UcQuiet(v, UcNow, i)
  BY <1>7, UcQuietQuiet
<1>10. UcQuiet(q, UcNow, i)
  BY <1>8, <1>9, UcQuietQuiet
<1>11. q.e = w.e
  BY <1>4, <1>5, <1>6 DEF UcOver
<1> QED BY <1>5, <1>6, <1>8, <1>10, <1>11

\* And released again.
LEMMA UcReleased ==
    ASSUME NEW w, NEW h, UcSafe(w, h), NEW o, NEW i \in 1 .. Len(w.c), UcQuiet(w, o, i) \/ UcQuiet(w, o, 0),
           NEW v, v = [w EXCEPT !.c[i].busy = FALSE]
    PROVE  UcSafe(v, h) /\ UcQuiet(v, o, 0) /\ v.e = w.e /\ ~v.c[i].busy
<1>1. w \in UcWorlds
  BY DEF UcSafe
<1>2. UcOver(v, w, i) /\ ~v.c[i].busy
  BY <1>1, UcBusySet
<1>3. UcSafe(v, h) /\ UcQuiet(v, w, i) /\ v.e = w.e
  BY <1>2, UcOverSafe DEF UcOver
<1>4. UcQuiet(v, o, i)
  BY <1>3, UcQuietQuiet
<1>5. UcQuiet(v, o, 0)
  BY <1>2, <1>4 DEF UcQuiet
<1> QED BY <1>2, <1>3, <1>5

\* A file for a transfer that has begun.
UcWriter(x, i) == [NoUcFile EXCEPT !.ent = x, !.mode = "w", !.conn = i, !.sock = TRUE, !.writing = TRUE]

\* A file open for writing.
LEMMA UcWriterOk ==
    ASSUME NEW x \in UcEntries, NEW n \in Nat, NEW i \in 1 .. n, NEW a, a = UcWriter(x, i)
    PROVE  UcFileOk(a, n) /\ a.ent = x /\ a.conn = i
<1>1. a = [ent |-> x, mode |-> "w", conn |-> i, sock |-> TRUE, writing |-> TRUE, eof |-> FALSE]
  BY DEF NoUcFile, UcWriter
<1>2. x \in 0 .. MaxUcEntries /\ i \in Nat /\ i # 0 /\ i =< n
  BY DEF UcEntries
<1>3. a \in UcFileType
  BY <1>1, <1>2 DEF UcFileType
<1>4. a.ent = x /\ a.conn = i /\ a.mode = "w"
  BY <1>1
<1> QED BY <1>2, <1>3, <1>4 DEF UcFileOk

\* The connection of a file that cannot be written is released, and its new node goes.
LEMMA UcPutFails ==
    ASSUME NEW w, NEW h \in [UcEntries -> Nat], UcSafe(w, h), NEW o, NEW i \in 1 .. Len(w.c), UcQuiet(w, o, i),
           NEW x \in UcEntries, NEW new, new => w.e[x].node # "none", NEW v, v = PutFails(w, i, x, new)
    PROVE  UcSafe(v, h) /\ UcQuiet(v, o, 0)
<1>1. PICK r : r = [w EXCEPT !.c[i].busy = FALSE]
  OBVIOUS
<1>2. UcSafe(r, h) /\ UcQuiet(r, o, 0) /\ r.e = w.e
  BY <1>1, UcReleased
<1>3. v = IF new THEN ucftp_unlink_node(r, x) ELSE r
  BY <1>1 DEF PutFails
<1>4. CASE new
  <2>1. v = ucftp_unlink_node(r, x) /\ r.e[x].node # "none"
    BY <1>2, <1>3, <1>4
  <2>2. UcSafe(v, h) /\ UcQuiet(v, r, 0)
    BY <1>2, <2>1, UcUnlinkSafe
  <2> QED BY <1>2, <2>2, UcQuietQuiet
<1>5. CASE ~new
  BY <1>2, <1>3, <1>5
<1> QED BY <1>4, <1>5

\* ucftp_open for writing keeps the invariant.
LEMMA UcOpenWrite == ASSUME UcBody, NEW u \in UcUsers, NEW f \in UcFiles, ucftp_open_write(u, f) PROVE UcBody'
<1>1. PICK x, i, n, h, new, w :
        /\ x = hand[u].ent /\ i = uents[x].conn /\ n = Len(uconns) /\ h = UcHolders(hand, ufiles)
        /\ new = (uents[x].node = "none")
        /\ w = IF new THEN ucftp_link_node(UcNow, x, "file") ELSE UcNow
  OBVIOUS
<1>2. x \in UcEntries /\ n \in Nat /\ i \in 0 .. n /\ ufiles[f] = NoUcFile
  BY <1>1, UcHeldEntry, UcEntryOf DEF ucftp_open_write
<1>3. h \in [UcEntries -> Nat] /\ UcSafe(UcNow, h) /\ UcNow.e = uents /\ UcNow.c = uconns
  BY <1>1, UcNowIs
<1>4. /\ UcSafe(w, h) /\ UcQuiet(w, UcNow, 0) /\ w.c = uconns
      /\ new \in BOOLEAN /\ (new => w.e[x].node # "none")
  <2>1. CASE new
    <3>1. UcNow.e[x].node = "none" /\ w = ucftp_link_node(UcNow, x, "file") /\ "file" \in UcKinds
      BY <1>1, <1>3, <2>1 DEF UcKinds
    <3>2. UcSafe(w, h) /\ UcQuiet(w, UcNow, 0) /\ w.c = UcNow.c /\ w.e[x].node = "file"
      BY <1>2, <1>3, <3>1, UcLinkSafe
    <3> QED BY <1>1, <1>3, <3>2
  <2>2. CASE ~new
    <3>1. UcQuiet(UcNow, UcNow, 0)
      BY DEF UcQuiet
    <3> QED BY <1>1, <1>3, <2>2, <3>1
  <2> QED BY <1>1, <2>1, <2>2
<1>5. ASSUME NEW v, UcBecomes(v), UcSafe(v, h), UcQuiet(v, UcNow, 0), UNCHANGED <<ufiles, uc_remote>> PROVE UcBody'
  <2>1. UNCHANGED <<hand, ufiles>> /\ UcRemoteOk(uc_remote')
    BY <1>5 DEF ucftp_open_write, UcBody
  <2> QED BY <1>1, <1>5, <2>1, UcQuietStep
<1>6. CASE i = 0 \/ (i # 0 /\ uconns[i].busy)
  <2>1. PICK v : v = IF new THEN ucftp_unlink_node(w, x) ELSE w
    OBVIOUS
  <2>2. UcBecomes(v) /\ UNCHANGED <<ufiles, uc_remote>>
    BY <1>1, <1>6, <2>1 DEF ucftp_open_write, ConnOf
  <2>3. CASE new
    <3>1. v = ucftp_unlink_node(w, x) /\ w.e[x].node # "none"
      BY <1>4, <2>1, <2>3
    <3>2. UcSafe(v, h) /\ UcQuiet(v, w, 0)
      BY <1>2, <1>3, <1>4, <3>1, UcUnlinkSafe
    <3>3. UcQuiet(v, UcNow, 0)
      BY <1>4, <3>2, UcQuietQuiet
    <3> QED BY <1>5, <2>2, <3>2, <3>3
  <2>4. CASE ~new
    BY <1>4, <1>5, <2>1, <2>2, <2>4
  <2> QED BY <1>4, <2>3, <2>4
<1>7. CASE ~(i = 0 \/ (i # 0 /\ uconns[i].busy))
  <2>1. PICK a : a = UcWriter(x, i)
    OBVIOUS
  <2>2. PICK p \in Begun([w EXCEPT !.c[i].busy = TRUE], i) :
          IF p.ok
          THEN /\ UcBecomes([p.w EXCEPT !.e[x].refs = @ + 1])
               /\ ufiles' = [ufiles EXCEPT ![f] = a]
               /\ uc_remote' = [uc_remote EXCEPT ![uents[x].name] = "file"]
          ELSE UcBecomes(PutFails(p.w, i, x, new)) /\ UNCHANGED <<ufiles, uc_remote>>
    BY <1>1, <1>7, <2>1 DEF ucftp_open_write, ConnOf, UcWriter
  <2>3. i \in 1 .. n
    BY <1>2, <1>7
  <2>4. UcSafe(p.w, h) /\ UcQuiet(p.w, UcNow, i) /\ p.w.e = w.e /\ p.ok \in BOOLEAN
    BY <1>1, <1>4, <2>2, <2>3, UcTransfer, ZenonT(40)
  <2>5. PICK q : q = p.w
    OBVIOUS
  <2>6. UcSafe(q, h) /\ UcQuiet(q, UcNow, i) /\ q.e = w.e /\ i \in 1 .. Len(q.c)
    BY <1>1, <1>3, <2>3, <2>4, <2>5 DEF UcQuiet
  <2>7. CASE ~p.ok
    <3>1. PICK v : v = PutFails(q, i, x, new)
      OBVIOUS
    <3>2. UcBecomes(v) /\ UNCHANGED <<ufiles, uc_remote>>
      BY <2>2, <2>5, <2>7, <3>1
    <3>3. new => q.e[x].node # "none"
      BY <1>4, <2>6
    <3>4. UcSafe(v, h) /\ UcQuiet(v, UcNow, 0)
      BY <1>2, <1>3, <2>6, <3>1, <3>3, UcPutFails
    <3> QED BY <1>5, <3>2, <3>4
  <2>8. CASE p.ok
    <3>1. PICK v : v = [q EXCEPT !.e[x].refs = @ + 1]
      OBVIOUS
    <3>2. /\ UcBecomes(v) /\ ufiles' = [ufiles EXCEPT ![f] = a]
          /\ uc_remote' = [uc_remote EXCEPT ![uents[x].name] = "file"] /\ hand' = hand
      BY <2>2, <2>5, <2>8, <3>1 DEF ucftp_open_write
    <3>3. UcSafe(v, UcHeldBy(h, x, h[x] + 1)) /\ UcQuiet(v, q, 0)
      BY <1>2, <1>3, <2>6, <3>1, UcRefSafe
    <3>4. UcQuiet(v, UcNow, i)
      BY <2>6, <3>3, UcQuietQuiet
    <3>5. UcFileOk(a, n) /\ a.ent = x /\ a.conn = i
      BY <1>2, <2>1, <2>3, UcWriterOk
    <3>6. ufiles[f].conn = 0 /\ ufiles[f].ent = 0 /\ UcFilesOk(ufiles, n)
      <4>1. NoUcFile.conn = 0 /\ NoUcFile.ent = 0
        BY DEF NoUcFile
      <4> QED BY <1>1, <1>2, <4>1 DEF UcBody
    <3>7. ufiles'[f] = a /\ \A t \in UcFiles : t # f => ufiles'[t] = ufiles[t]
      BY <3>2, <3>5, <3>6, UcFileSet
    <3>8. UcHolders(hand, ufiles') = UcHeldBy(h, x, h[x] + 1)
      BY <1>1, <1>2, <3>5, <3>6, <3>7, UcFileTakes
    <3>9. UcSafe(v, UcHolders(hand, ufiles'))
      BY <3>3, <3>8
    <3>10. UcRemoteOk(uc_remote')
      BY <3>2 DEF UcBody, UcRemoteOk, UcKinds
    <3>11. UcTaken(v.c, ufiles[f].conn, a, i)
      BY <3>5, <3>6 DEF UcTaken
    <3>12. UcFileOk(a, Len(uconns))
      BY <1>1, <3>5
    <3> QED BY <3>2, <3>4, <3>9, <3>10, <3>11, <3>12, UcFileStep
  <2> QED BY <2>4, <2>7, <2>8
<1> QED BY <1>6, <1>7

\* The beginning of a transfer keeps the invariant.
LEMMA UcInitGet == ASSUME UcBody, NEW f \in UcFiles, ucftp_init_get(f) PROVE UcBody'
<1>1. PICK x, i, n, h, g : /\ g = ufiles[f] /\ x = g.ent /\ i = uents[x].conn /\ n = Len(uconns)
                           /\ h = UcHolders(hand, ufiles)
  OBVIOUS
<1>2. x \in UcEntries /\ n \in Nat /\ i \in 1 .. n
  <2>1. ufiles[f].ent # 0 /\ uents[ufiles[f].ent].conn # 0
    BY DEF ucftp_init_get, UcUsable, UcSound, ConnOf
  <2>2. x \in UcEntries
    BY <1>1, <2>1, UcOpenEntry
  <2>3. i \in 0 .. n /\ n \in Nat
    BY <1>1, <2>2, UcEntryOf
  <2> QED BY <1>1, <2>1, <2>2, <2>3
<1>3. UcFileOk(g, n) /\ g \in UcFileType /\ g.mode = "r" /\ ~g.sock /\ ~g.eof
  BY <1>1, UcFileIs DEF ucftp_init_get
<1>4. g.conn = 0 /\ ~g.writing
  BY <1>3 DEF UcFileOk, UcFileType
<1>5. PICK a : a = [g EXCEPT !.sock = TRUE, !.conn = i]
  OBVIOUS
<1>6. UcFileOk(a, n) /\ a.ent = x /\ a.conn = i
  <2>1. a \in UcFileType /\ a.sock /\ a.conn = i /\ a.ent = g.ent /\ a.mode = g.mode /\ a.writing = g.writing
    <3>1. i \in Nat
      BY <1>2
    <3>2. a \in UcFileType
      BY <1>3, <1>5, <3>1 DEF UcFileType
    <3> QED BY <1>3, <1>5, <3>2 DEF UcFileType
  <2> QED BY <1>1, <1>2, <1>4, <2>1 DEF UcFileOk
<1>7. UcFilesOk(ufiles, n)
  BY <1>1 DEF UcBody
<1>8. PICK p \in Begun([UcNow EXCEPT !.c[i].busy = TRUE], i) :
        IF p.ok THEN UcBecomes(p.w) /\ ufiles' = [ufiles EXCEPT ![f].sock = TRUE, ![f].conn = i]
        ELSE UcBecomes([p.w EXCEPT !.c[i].busy = FALSE]) /\ UNCHANGED ufiles
  BY <1>1 DEF ucftp_init_get, ConnOf
<1>9. UcSafe(UcNow, h) /\ UcQuiet(UcNow, UcNow, 0) /\ UcNow.c = uconns
  BY <1>1, UcNowIs DEF UcQuiet
<1>10. UcSafe(p.w, h) /\ UcQuiet(p.w, UcNow, i) /\ p.ok \in BOOLEAN
  BY <1>1, <1>2, <1>8, <1>9, UcTransfer
<1>11. PICK q : q = p.w
  OBVIOUS
<1>12. hand' = hand /\ UcRemoteOk(uc_remote')
  BY DEF ucftp_init_get, UcBody
<1>13. CASE p.ok
  <2>1. UcBecomes(q) /\ ufiles' = [ufiles EXCEPT ![f] = a]
    BY <1>1, <1>5, <1>7, <1>8, <1>11, <1>13 DEF UcFilesOk
  <2>2. ufiles'[f] = a /\ \A t \in UcFiles : t # f => ufiles'[t] = ufiles[t]
    BY <1>6, <1>7, <2>1, UcFileSet
  <2>3. UcHolders(hand, ufiles') = h
    BY <1>1, <1>6, <2>2, UcFileKeeps
  <2>4. UcSafe(q, UcHolders(hand, ufiles')) /\ UcQuiet(q, UcNow, i) /\ UcFileOk(a, Len(uconns))
    BY <1>1, <1>6, <1>10, <1>11, <2>3
  <2>5. UcTaken(q.c, ufiles[f].conn, a, i)
    <3>1. ufiles[f].conn = 0 /\ a.conn = i
      BY <1>1, <1>4, <1>6
    <3> QED BY ONLY <3>1 DEF UcTaken
  <2> QED BY <1>12, <2>1, <2>4, <2>5, UcFileStep
<1>14. CASE ~p.ok
  <2>1. PICK v : v = [q EXCEPT !.c[i].busy = FALSE]
    OBVIOUS
  <2>2. UcBecomes(v) /\ ufiles' = ufiles
    BY <1>8, <1>11, <1>14, <2>1
  <2>3. i \in 1 .. Len(q.c)
    BY <1>1, <1>2, <1>9, <1>10, <1>11 DEF UcQuiet
  <2>4. UcSafe(v, h) /\ UcQuiet(v, UcNow, 0)
    BY <1>10, <1>11, <2>1, <2>3, UcReleased
  <2> QED BY <1>1, <1>12, <2>2, <2>4, UcQuietStep
<1> QED BY <1>10, <1>13, <1>14

\* The end of a transfer keeps the invariant.
LEMMA UcReadEnd == ASSUME UcBody, NEW f \in UcFiles, ucftp_read_end(f) PROVE UcBody'
<1>1. PICK x, i, n, h, g : /\ g = ufiles[f] /\ x = g.ent /\ i = g.conn /\ n = Len(uconns)
                           /\ h = UcHolders(hand, ufiles)
  OBVIOUS
<1>2. UcFileOk(g, n) /\ g \in UcFileType /\ g.mode = "r" /\ g.sock /\ i \in 0 .. n /\ n \in Nat
  BY <1>1, UcFileIs, UcNowIs DEF ucftp_read_end
<1>3. i \in 1 .. n /\ ~g.writing
  BY <1>1, <1>2 DEF UcFileOk, UcFileType
<1>4. UcSafe(UcNow, h) /\ UcNow.c = uconns /\ UcNow \in UcWorlds
  BY <1>1, UcNowIs
<1>5. PICK r \in ucftp_wait_reply_code(UcNow, i) :
        /\ UcBecomes(IF r.ok THEN [r.w EXCEPT !.c[i].busy = FALSE] ELSE r.w)
        /\ ufiles' = [ufiles EXCEPT ![f].sock = FALSE, ![f].eof = TRUE, ![f].conn = IF r.ok THEN 0 ELSE @]
  BY <1>1 DEF ucftp_read_end
<1>6. UcOver(r.w, UcNow, 0) /\ r.ok \in BOOLEAN
  BY <1>1, <1>3, <1>4, <1>5, UcWaited
<1>7. PICK q, k : q = r.w /\ k = IF r.ok THEN 0 ELSE i
  OBVIOUS
<1>8. UcSafe(q, h) /\ UcQuiet(q, UcNow, 0) /\ i \in 1 .. Len(q.c)
  <2>1. UcSafe(q, h) /\ UcQuiet(q, UcNow, 0)
    BY <1>4, <1>6, <1>7, UcOverSafe
  <2> QED BY <1>1, <1>3, <1>4, <2>1 DEF UcQuiet
<1>9. PICK a : a = [g EXCEPT !.sock = FALSE, !.eof = TRUE, !.conn = k]
  OBVIOUS
<1>10. UcFilesOk(ufiles, n)
  BY <1>1 DEF UcBody
<1>11. ufiles' = [ufiles EXCEPT ![f] = a]
  BY <1>1, <1>5, <1>7, <1>9, <1>10 DEF UcFilesOk
<1>12. UcFileOk(a, n) /\ a.ent = x /\ a.conn = k
  <2>1. k \in Nat /\ k =< n
    BY <1>2, <1>3, <1>7
  <2>2. a \in UcFileType /\ ~a.sock /\ a.eof /\ a.conn = k /\ a.ent = g.ent /\ a.writing = g.writing
    BY <1>2, <1>9, <2>1 DEF UcFileType
  <2> QED BY <1>1, <1>3, <2>1, <2>2 DEF UcFileOk
<1>13. ufiles'[f] = a /\ \A t \in UcFiles : t # f => ufiles'[t] = ufiles[t]
  BY <1>10, <1>11, <1>12, UcFileSet
<1>14. UcHolders(hand, ufiles') = h
  BY <1>1, <1>12, <1>13, UcFileKeeps
<1>15. PICK v : v = IF r.ok THEN [q EXCEPT !.c[i].busy = FALSE] ELSE q
  OBVIOUS
<1>16. UcSafe(v, h) /\ UcQuiet(v, UcNow, 0) /\ (r.ok => ~v.c[i].busy)
  <2>1. CASE r.ok
    BY <1>8, <1>15, <2>1, UcReleased
  <2>2. CASE ~r.ok
    BY <1>8, <1>15, <2>2
  <2> QED BY <1>6, <2>1, <2>2
<1>17. UcBecomes(v) /\ hand' = hand /\ UcRemoteOk(uc_remote')
  BY <1>5, <1>7, <1>15 DEF ucftp_read_end, UcBody
<1>18. UcTaken(v.c, ufiles[f].conn, a, 0)
  BY <1>1, <1>7, <1>12, <1>16 DEF UcTaken
<1>19. UcSafe(v, UcHolders(hand, ufiles')) /\ UcFileOk(a, Len(uconns))
  BY <1>1, <1>12, <1>14, <1>16
<1> QED BY <1>11, <1>16, <1>17, <1>18, <1>19, UcFileStep

\* A transfer that is broken off closes its connection.
UcBroken(w, i) == [ucftp_close_conn(w, i) EXCEPT !.c[i].cancel_ok = FALSE]

\* A transfer that is broken off leaves the tree as it is.
LEMMA UcBrokenOver ==
    ASSUME NEW w \in UcWorlds, NEW i \in 1 .. Len(w.c), NEW v, v = UcBroken(w, i) PROVE UcOver(v, w, 0)
<1>1. PICK u : u = ucftp_close_conn(w, i)
  OBVIOUS
<1>2. UcOver(u, w, 0)
  BY <1>1, UcClosed
<1>3. u \in UcWorlds /\ i \in 1 .. Len(u.c) /\ v = [u EXCEPT !.c[i].cancel_ok = FALSE]
  BY <1>1, <1>2 DEF UcOver, UcBroken
<1>4. UcOver(v, u, 0)
  BY <1>3, UcNoCancel
<1> QED BY <1>2, <1>4, UcOverOver

\* What ucftp_free_file leaves when the file no longer holds its entry.
LEMMA UcFreeFile ==
    ASSUME NEW w, NEW h, UcSafe(w, h), NEW f \in UcFiles, NEW i, i = ufiles[f].conn, i = 0 \/ i \in 1 .. Len(w.c),
           NEW v \in ucftp_free_file(w, f)
    PROVE  \E m : /\ v = UcUnref(m, ufiles[f].ent) /\ UcSafe(m, h) /\ UcQuiet(m, w, 0)
                  /\ i # 0 => ~m.c[i].busy
<1>1. PICK x : x = ufiles[f].ent
  OBVIOUS
<1>2. UcQuiet(w, w, 0) /\ w \in UcWorlds
  BY DEF UcQuiet, UcSafe
<1>3. ASSUME NEW u, UcSafe(u, h), UcQuiet(u, w, 0), i \in 1 .. Len(w.c), v = UcUnref([u EXCEPT !.c[i].busy = FALSE], x)
      PROVE  \E m : v = UcUnref(m, x) /\ UcSafe(m, h) /\ UcQuiet(m, w, 0) /\ (i # 0 => ~m.c[i].busy)
  <2>1. PICK m : m = [u EXCEPT !.c[i].busy = FALSE]
    OBVIOUS
  <2>2. i \in 1 .. Len(u.c)
    BY <1>3 DEF UcQuiet
  <2>3. UcSafe(m, h) /\ UcQuiet(m, w, 0) /\ ~m.c[i].busy
    BY <1>3, <2>1, <2>2, UcReleased
  <2> QED BY <1>3, <2>1, <2>3
<1>4. CASE i = 0 \/ ~w.c[i].busy
  <2>1. v = UcUnref(w, x)
    BY <1>1, <1>4 DEF ucftp_free_file
  <2> QED BY <1>1, <1>2, <1>4, <2>1
<1>5. CASE i \in 1 .. Len(w.c) /\ w.c[i].busy /\ w.c[i].cancel_ok
  <2>1. PICK r \in ucftp_wait_reply_code(w, i) :
          v = UcUnref([(IF r.ok \/ r.w.crash THEN r.w ELSE UcBroken(r.w, i)) EXCEPT !.c[i].busy = FALSE], x)
    <3>1. i # 0
      BY <1>5
    <3> QED BY <1>1, <1>5, <3>1 DEF ucftp_free_file, UcBroken
  <2>2. UcOver(r.w, w, 0)
    BY <1>2, <1>5, <2>1, UcWaited
  <2>3. PICK q : q = r.w
    OBVIOUS
  <2>4. UcSafe(q, h) /\ UcQuiet(q, w, 0) /\ q \in UcWorlds /\ i \in 1 .. Len(q.c)
    <3>1. UcSafe(q, h) /\ UcQuiet(q, w, 0)
      BY <2>2, <2>3, UcOverSafe
    <3> QED BY <1>5, <3>1 DEF UcSafe, UcQuiet
  <2>5. PICK z : z = UcBroken(q, i)
    OBVIOUS
  <2>6. UcOver(z, q, 0)
    BY <2>4, <2>5, UcBrokenOver
  <2>7. UcSafe(z, h) /\ UcQuiet(z, q, 0)
    BY <2>4, <2>6, UcOverSafe
  <2>8. UcQuiet(z, w, 0)
    BY <2>4, <2>7, UcQuietQuiet
  <2>9. PICK u : u = IF r.ok \/ r.w.crash THEN q ELSE z
    OBVIOUS
  <2>10. UcSafe(u, h) /\ UcQuiet(u, w, 0)
    BY <2>4, <2>7, <2>8, <2>9
  <2>11. v = UcUnref([u EXCEPT !.c[i].busy = FALSE], x)
    BY <2>1, <2>3, <2>5, <2>9
  <2> QED BY <1>1, <1>3, <1>5, <2>10, <2>11
<1>6. CASE i \in 1 .. Len(w.c) /\ w.c[i].busy /\ ~w.c[i].cancel_ok
  <2>1. PICK u : u = ucftp_close_conn(w, i)
    OBVIOUS
  <2>2. v = UcUnref([u EXCEPT !.c[i].busy = FALSE], x)
    <3>1. i # 0
      BY <1>6
    <3> QED BY <1>1, <1>6, <2>1, <3>1 DEF ucftp_free_file
  <2>3. UcOver(u, w, 0)
    BY <1>2, <1>6, <2>1, UcClosed
  <2>4. UcSafe(u, h) /\ UcQuiet(u, w, 0)
    BY <2>3, UcOverSafe
  <2> QED BY <1>1, <1>3, <1>6, <2>2, <2>4
<1> QED BY <1>4, <1>5, <1>6

\* What ucftp_close has after the reply to a STOR.
UcEnded(f) == IF ~ufiles[f].writing THEN {UcNow}
              ELSE {IF r.ok THEN [r.w EXCEPT !.c[ufiles[f].conn].busy = FALSE] ELSE r.w :
                      r \in ucftp_wait_reply_code(UcNow, ufiles[f].conn)}

\* The reply to a STOR leaves the tree as it is, and makes no connection busy.
LEMMA UcEndedSafe ==
    ASSUME UcBody, NEW f \in UcFiles, NEW w \in UcEnded(f)
    PROVE  UcSafe(w, UcHolders(hand, ufiles)) /\ UcQuiet(w, UcNow, 0)
<1>1. PICK i, n, h, g : g = ufiles[f] /\ i = g.conn /\ n = Len(uconns) /\ h = UcHolders(hand, ufiles)
  OBVIOUS
<1>2. UcFileOk(g, n) /\ i \in 0 .. n /\ n \in Nat
  BY <1>1, UcFileIs, UcNowIs
<1>3. g.writing => i \in 1 .. n
  BY <1>1, <1>2 DEF UcFileOk
<1>4. UcSafe(UcNow, h) /\ UcNow.c = uconns /\ UcNow \in UcWorlds /\ UcQuiet(UcNow, UcNow, 0)
  BY <1>1, UcNowIs DEF UcQuiet
<1>5. CASE ~g.writing
  BY <1>1, <1>4, <1>5 DEF UcEnded
<1>6. CASE g.writing
  <2>1. PICK r \in ucftp_wait_reply_code(UcNow, i) : w = IF r.ok THEN [r.w EXCEPT !.c[i].busy = FALSE] ELSE r.w
    BY <1>1, <1>6 DEF UcEnded
  <2>2. UcOver(r.w, UcNow, 0) /\ r.ok \in BOOLEAN
    BY <1>1, <1>3, <1>4, <1>6, <2>1, UcWaited
  <2>3. PICK q : q = r.w
    OBVIOUS
  <2>4. UcSafe(q, h) /\ UcQuiet(q, UcNow, 0)
    BY <1>4, <2>2, <2>3, UcOverSafe
  <2>5. i \in 1 .. Len(q.c)
    BY <1>1, <1>3, <1>4, <1>6, <2>4 DEF UcQuiet
  <2>6. CASE r.ok
    <3>1. w = [q EXCEPT !.c[i].busy = FALSE]
      BY <2>1, <2>3, <2>6
    <3>2. UcSafe(w, h) /\ UcQuiet(w, UcNow, 0)
      BY <2>4, <2>5, <3>1, UcReleased
    <3> QED BY <1>1, <3>2
  <2>7. CASE ~r.ok
    BY <1>1, <2>1, <2>3, <2>4, <2>7
  <2> QED BY <2>2, <2>6, <2>7
<1> QED BY <1>5, <1>6

\* ucftp_close keeps the invariant, unless the process fails in it.
LEMMA UcClose == ASSUME UcBody, NEW f \in UcFiles, ucftp_close(f), ~ucrash' PROVE UcBody'
<1>1. PICK x, i, n, h, g : /\ g = ufiles[f] /\ x = g.ent /\ i = g.conn /\ n = Len(uconns)
                           /\ h = UcHolders(hand, ufiles)
  OBVIOUS
<1>2. UcFileOk(g, n) /\ i \in 0 .. n /\ n \in Nat
  BY <1>1, UcFileIs, UcNowIs
<1>3. x \in UcEntries
  <2>1. ufiles[f].ent # 0
    BY DEF ucftp_close, UcSound
  <2> QED BY <1>1, <2>1, UcOpenEntry
<1>4. g.writing => i \in 1 .. n
  BY <1>1, <1>2 DEF UcFileOk
<1>5. UcSafe(UcNow, h) /\ UcNow.c = uconns /\ UcNow \in UcWorlds /\ UcQuiet(UcNow, UcNow, 0)
  BY <1>1, UcNowIs DEF UcQuiet
<1>6. PICK w \in UcEnded(f) : \E v \in (IF w.crash THEN {w} ELSE ucftp_free_file(w, f)) : UcBecomes(v)
  BY DEF ucftp_close, UcEnded
<1>7. PICK v : v \in (IF w.crash THEN {w} ELSE ucftp_free_file(w, f)) /\ UcBecomes(v)
  BY <1>6
<1>8. v \in ucftp_free_file(w, f)
  BY <1>7 DEF UcBecomes
<1>9. UcSafe(w, h) /\ UcQuiet(w, UcNow, 0)
  BY <1>1, <1>6, UcEndedSafe
<1>10. Len(w.c) = n /\ (i = 0 \/ i \in 1 .. Len(w.c))
  BY <1>1, <1>2, <1>5, <1>9 DEF UcQuiet
<1>11. PICK m : v = UcUnref(m, x) /\ UcSafe(m, h) /\ UcQuiet(m, w, 0) /\ (i # 0 => ~m.c[i].busy)
  BY <1>1, <1>8, <1>9, <1>10, UcFreeFile
<1>12. ufiles' = [ufiles EXCEPT ![f] = NoUcFile] /\ hand' = hand /\ UcRemoteOk(uc_remote')
  BY DEF ucftp_close, UcBody
<1>13. UcFileOk(NoUcFile, n) /\ NoUcFile.ent = 0 /\ UcFilesOk(ufiles, n)
  <2>1. NoUcFile.ent = 0
    BY DEF NoUcFile
  <2> QED BY <1>1, <1>2, <2>1, NoUcFileOk DEF UcBody
<1>14. ufiles'[f] = NoUcFile /\ \A t \in UcFiles : t # f => ufiles'[t] = ufiles[t]
  BY <1>12, <1>13, UcFileSet
<1>15. PICK k : k = UcHolders(hand, ufiles')
  OBVIOUS
<1>16. k \in [UcEntries -> Nat] /\ h[x] = k[x] + 1 /\ k = UcHeldBy(h, x, k[x])
  BY <1>1, <1>3, <1>13, <1>14, <1>15, UcFileLeaves
<1>17. h \in [UcEntries -> Nat]
  BY <1>1, UcNowIs
<1>18. UcSafe(v, UcHeldBy(h, x, k[x])) /\ UcQuiet(v, m, 0)
  BY <1>3, <1>11, <1>16, <1>17, UcUnrefSafe
<1>19. UcQuiet(v, UcNow, 0)
  <2>1. UcQuiet(v, w, 0)
    BY <1>11, <1>18, UcQuietQuiet
  <2> QED BY <1>9, <2>1, UcQuietQuiet
<1>20. UcSafe(v, UcHolders(hand, ufiles'))
  BY <1>15, <1>16, <1>18
<1>21. UcTaken(v.c, ufiles[f].conn, NoUcFile, 0)
  <2>1. Len(m.c) = n /\ Len(v.c) = n
    BY <1>10, <1>11, <1>18 DEF UcQuiet
  <2>2. i # 0 => ~v.c[i].busy
    BY <1>2, <1>11, <1>18, <2>1 DEF UcQuiet
  <2> QED BY <1>1, <2>1, <2>2 DEF UcTaken
<1>22. UcFileOk(NoUcFile, Len(uconns))
  BY <1>1, <1>13
<1> QED BY <1>7, <1>12, <1>19, <1>20, <1>21, <1>22, UcFileStep

\* A command that needs only an answer.
LEMMA UcOperated ==
    ASSUME UcBody, NEW x \in UcEntries, NEW p \in Operated(x)
    PROVE  /\ uents[x].conn \in 1 .. Len(uconns) /\ UcSafe(p.w, UcHolders(hand, ufiles))
           /\ UcQuiet(p.w, UcNow, 0) /\ p.w.e = uents
<1>1. PICK i, h : i = uents[x].conn /\ h = UcHolders(hand, ufiles)
  OBVIOUS
<1>2. UcNow \in UcWorlds /\ UcNow.c = uconns /\ UcNow.e = uents /\ UcSafe(UcNow, h)
  BY <1>1, UcNowIs
<1>3. i # 0 /\ \E q \in Prepared([UcNow EXCEPT !.c[i].busy = TRUE], i) : p = [q EXCEPT !.w.c[i].busy = FALSE]
  BY <1>1 DEF Operated, ConnOf
<1>4. i \in 1 .. Len(uconns)
  BY <1>1, <1>3, UcEntryOf
<1>5. PICK q \in Prepared([UcNow EXCEPT !.c[i].busy = TRUE], i) : p = [q EXCEPT !.w.c[i].busy = FALSE]
  BY <1>3
<1>6. PICK w : w = [UcNow EXCEPT !.c[i].busy = TRUE]
  OBVIOUS
<1>7. UcOver(w, UcNow, i)
  BY <1>2, <1>4, <1>6, UcBusySet
<1>8. w \in UcWorlds /\ i \in 1 .. Len(w.c) /\ w.e = uents
  BY <1>2, <1>4, <1>7 DEF UcOver
<1>9. UcOver(q.w, w, 0) /\ q = [w |-> q.w, ok |-> q.ok]
  BY <1>5, <1>6, <1>8, UcPrepared
<1>10. PICK a, b, v : a = q.w /\ b = q.ok /\ v = [a EXCEPT !.c[i].busy = FALSE]
  OBVIOUS
<1>11. p.w = v
  <2>1. q = [w |-> a, ok |-> b]
    BY <1>9, <1>10
  <2>2. p = [q EXCEPT !.w = [a EXCEPT !.c[i].busy = FALSE]]
    BY <1>5, <1>10
  <2>3. p = [q EXCEPT !.w = v]
    BY <1>10, <2>2
  <2> QED BY <2>1, <2>3
<1>12. UcSafe(w, h) /\ UcQuiet(w, UcNow, i)
  BY <1>2, <1>7, UcOverSafe
<1>13. UcSafe(a, h) /\ UcQuiet(a, w, 0) /\ a.e = uents
  BY <1>8, <1>9, <1>10, <1>12, UcOverSafe DEF UcOver
<1>14. UcQuiet(a, UcNow, i) /\ i \in 1 .. Len(a.c)
  <2>1. UcQuiet(a, UcNow, i)
    BY <1>12, <1>13, UcQuietQuiet
  <2> QED BY <1>2, <1>4, <2>1 DEF UcQuiet
<1>15. UcSafe(v, h) /\ UcQuiet(v, UcNow, 0) /\ v.e = a.e
  BY <1>10, <1>13, <1>14, UcReleased
<1> QED BY <1>1, <1>4, <1>11, <1>13, <1>15

\* ucftp_unlink keeps the invariant.
LEMMA UcUnlink == ASSUME UcBody, NEW u \in UcUsers, ucftp_unlink(u) PROVE UcBody'
<1>1. PICK x, h : x = hand[u].ent /\ h = UcHolders(hand, ufiles)
  OBVIOUS
<1>2. x \in UcEntries /\ uents[x].node # "none"
  BY <1>1, UcHeldEntry DEF ucftp_unlink
<1>3. PICK p \in Operated(x) :
        IF p.ok THEN /\ UcBecomes(ucftp_unlink_node(p.w, x))
                     /\ uc_remote' = [uc_remote EXCEPT ![uents[x].name] = "none"]
        ELSE UcBecomes(p.w) /\ UNCHANGED uc_remote
  BY <1>1 DEF ucftp_unlink
<1>4. UcSafe(p.w, h) /\ UcQuiet(p.w, UcNow, 0) /\ p.w.e = uents
  BY <1>1, <1>2, <1>3, UcOperated
<1>5. PICK w : w = p.w
  OBVIOUS
<1>6. UNCHANGED <<hand, ufiles>> /\ UcRemoteOk(uc_remote')
  <2>1. UcRemoteOk(uc_remote)
    BY DEF UcBody
  <2>2. UNCHANGED <<hand, ufiles>>
    BY DEF ucftp_unlink
  <2> QED BY <1>3, <2>1, <2>2 DEF UcRemoteOk
<1>7. h \in [UcEntries -> Nat]
  BY <1>1, UcNowIs
<1>8. CASE p.ok
  <2>1. PICK v : v = ucftp_unlink_node(w, x)
    OBVIOUS
  <2>2. UcSafe(v, h) /\ UcQuiet(v, w, 0)
    BY <1>2, <1>4, <1>5, <1>7, <2>1, UcUnlinkSafe
  <2>3. UcQuiet(v, UcNow, 0) /\ UcBecomes(v)
    BY <1>3, <1>4, <1>5, <1>8, <2>1, <2>2, UcQuietQuiet
  <2> QED BY <1>1, <1>6, <2>2, <2>3, UcQuietStep
<1>9. CASE ~p.ok
  <2>1. UcBecomes(w) /\ UcSafe(w, h) /\ UcQuiet(w, UcNow, 0)
    BY <1>3, <1>4, <1>5, <1>9
  <2> QED BY <1>1, <1>6, <2>1, UcQuietStep
<1> QED BY <1>8, <1>9

\* ucftp_mkdir keeps the invariant.
LEMMA UcMkdir == ASSUME UcBody, NEW u \in UcUsers, ucftp_mkdir(u) PROVE UcBody'
<1>1. PICK x, i, h : x = hand[u].ent /\ i = uents[x].conn /\ h = UcHolders(hand, ufiles)
  OBVIOUS
<1>2. x \in UcEntries /\ uents[x].node = "none"
  BY <1>1, UcHeldEntry DEF ucftp_mkdir
<1>3. PICK p \in Operated(x) :
        IF p.ok THEN /\ UcBecomes(ucftp_link_node([p.w EXCEPT !.c[i].valid = FALSE], x, "dir"))
                     /\ uc_remote' = [uc_remote EXCEPT ![uents[x].name] = "dir"]
        ELSE UcBecomes(p.w) /\ UNCHANGED uc_remote
  BY <1>1 DEF ucftp_mkdir, ConnOf
<1>4. UcSafe(p.w, h) /\ UcQuiet(p.w, UcNow, 0) /\ p.w.e = uents /\ i \in 1 .. Len(uconns)
  BY <1>1, <1>2, <1>3, UcOperated
<1>5. PICK w : w = p.w
  OBVIOUS
<1>6. UNCHANGED <<hand, ufiles>> /\ UcRemoteOk(uc_remote')
  <2>1. UcRemoteOk(uc_remote)
    BY DEF UcBody
  <2>2. UNCHANGED <<hand, ufiles>>
    BY DEF ucftp_mkdir
  <2> QED BY <1>3, <2>1, <2>2 DEF UcRemoteOk, UcKinds
<1>7. h \in [UcEntries -> Nat]
  BY <1>1, UcNowIs
<1>8. CASE p.ok
  <2>1. PICK z, v : z = [w EXCEPT !.c[i].valid = FALSE] /\ v = ucftp_link_node(z, x, "dir")
    OBVIOUS
  <2>2. w \in UcWorlds /\ i \in 1 .. Len(w.c)
    BY <1>4, <1>5, UcNowIs DEF UcSafe, UcQuiet
  <2>3. UcOver(z, w, 0)
    BY <2>1, <2>2, UcStale
  <2>4. UcSafe(z, h) /\ UcQuiet(z, w, 0) /\ z.e = uents
    <3>1. UcSafe(w, h) /\ w.e = uents
      BY <1>4, <1>5
    <3>2. UcSafe(z, h) /\ UcQuiet(z, w, 0)
      BY ONLY <2>3, <3>1, UcOverSafe
    <3> QED BY ONLY <2>3, <3>1, <3>2 DEF UcOver
  <2>5. z.e[x].node = "none" /\ "dir" \in UcKinds
    BY <1>2, <2>4 DEF UcKinds
  <2>6. UcSafe(v, h) /\ UcQuiet(v, z, 0)
    BY <1>2, <1>7, <2>1, <2>4, <2>5, UcLinkSafe
  <2>7. UcQuiet(z, UcNow, 0)
    BY <1>4, <1>5, <2>4, UcQuietQuiet
  <2>8. UcQuiet(v, UcNow, 0) /\ UcBecomes(v)
    BY <1>3, <1>5, <1>8, <2>1, <2>6, <2>7, UcQuietQuiet
  <2> QED BY <1>1, <1>6, <2>6, <2>8, UcQuietStep
<1>9. CASE ~p.ok
  <2>1. UcBecomes(w) /\ UcSafe(w, h) /\ UcQuiet(w, UcNow, 0)
    BY <1>3, <1>4, <1>5, <1>9
  <2> QED BY <1>1, <1>6, <2>1, UcQuietStep
<1> QED BY <1>8, <1>9

\* The tree is one in the state of a failed process too.
UcTreeKept == UcNow \in UcWorlds /\ UcTree(UcNow)
UcftpInv == UcTreeKept /\ UcWhileUp

\* The invariant of a process that has not failed is the stronger one.
LEMMA UcBodyWhole == ASSUME UcBody PROVE UcftpInv
BY DEF UcBody, UcSafe, UcTreeKept, UcftpInv, UcWhileUp

\* The same after a step.
LEMMA UcBodyNext == ASSUME UcBody' PROVE UcftpInv'
<1>1. UcSafe(UcNow, UcHolders(hand, ufiles))'
  BY DEF UcBody
<1>2. PICK v, h : v = UcNow' /\ h = UcHolders(hand, ufiles)'
  OBVIOUS
<1>3. UcSafe(v, h)
  BY <1>1, <1>2
<1>4. v \in UcWorlds /\ UcTree(v)
  BY <1>3 DEF UcSafe
<1>5. UcTreeKept'
  BY <1>2, <1>4 DEF UcTreeKept
<1> QED BY <1>5 DEF UcftpInv, UcWhileUp

\* A step that fails leaves the tree what it is.
LEMMA UcFails ==
    ASSUME NEW w, UcBecomes(w), w \in UcWorlds, UcTree(w), ucrash' PROVE UcftpInv'
<1>1. uconns' = w.c /\ uents' = w.e
  BY DEF UcBecomes
<1>2. PICK v : v = UcNow'
  OBVIOUS
<1>3. v = [c |-> w.c, e |-> w.e, crash |-> FALSE, cost |-> 0]
  BY <1>1, <1>2 DEF UcNow
<1>4. v \in UcWorlds /\ UcTree(v)
  BY <1>3 DEF UcTree, UcWorlds
<1> QED BY <1>2, <1>4 DEF UcTreeKept, UcftpInv, UcWhileUp

\* A state in which nothing but the process has changed.
LEMMA UcSame ==
    ASSUME UcftpInv, UNCHANGED <<uconns, uents, hand, ufiles>>, UcRemoteOk(uc_remote) => UcRemoteOk(uc_remote'),
           ~ucrash' => ~ucrash
    PROVE  UcftpInv'
<1>1. UcNow' = UcNow /\ UcHolders(hand, ufiles)' = UcHolders(hand, ufiles)
  BY DEF UcNow, UcHolders, UcCount
<1>2. UcTreeKept'
  BY <1>1 DEF UcTreeKept, UcftpInv
<1>3. ASSUME UcBody PROVE UcBody'
  <2>1. UcSafe(UcNow, UcHolders(hand, ufiles))' = UcSafe(UcNow, UcHolders(hand, ufiles))
    BY <1>1
  <2> QED BY <1>3, <2>1 DEF UcBody
<1> QED BY <1>2, <1>3 DEF UcftpInv, UcWhileUp

\* ucftp_close keeps the invariant, also when the process fails in it.
LEMMA UcCloseStep == ASSUME UcBody, NEW f \in UcFiles, ucftp_close(f) PROVE UcftpInv'
<1>1. CASE ~ucrash'
  BY <1>1, UcClose, UcBodyNext
<1>2. CASE ucrash'
  <2>1. PICK w \in UcEnded(f) : \E v \in (IF w.crash THEN {w} ELSE ucftp_free_file(w, f)) : UcBecomes(v)
    BY DEF ucftp_close, UcEnded
  <2>2. PICK h : h = UcHolders(hand, ufiles)
    OBVIOUS
  <2>3. UcSafe(w, h) /\ UcQuiet(w, UcNow, 0)
    BY <2>1, <2>2, UcEndedSafe
  <2>4. CASE w.crash
    <3>1. UcBecomes(w) /\ w \in UcWorlds /\ UcTree(w)
      BY <2>1, <2>3, <2>4 DEF UcSafe
    <3> QED BY <1>2, <3>1, UcFails
  <2>5. CASE ~w.crash
    <3>1. PICK v \in ucftp_free_file(w, f) : UcBecomes(v)
      BY <2>1, <2>5
    <3>2. PICK x, i : x = ufiles[f].ent /\ i = ufiles[f].conn
      OBVIOUS
    <3>3. x \in UcEntries
      <4>1. ufiles[f].ent # 0
        BY DEF ucftp_close, UcSound
      <4> QED BY <3>2, <4>1, UcOpenEntry
    <3>4. i = 0 \/ i \in 1 .. Len(w.c)
      <4>1. i \in 0 .. Len(uconns) /\ Len(uconns) \in Nat /\ UcNow.c = uconns
        BY <3>2, UcFileIs, UcNowIs
      <4>2. Len(w.c) = Len(uconns)
        BY <2>3, <4>1 DEF UcQuiet
      <4> QED BY <4>1, <4>2
    <3>5. PICK m : v = UcUnref(m, x) /\ UcSafe(m, h)
      BY <2>3, <3>1, <3>2, <3>4, UcFreeFile
    <3>6. UcFilesOk(ufiles, Len(uconns)) /\ UcFileOk(NoUcFile, Len(uconns)) /\ NoUcFile.ent = 0
      BY NoUcFileOk, UcNowIs DEF UcBody, NoUcFile
    <3>7. ufiles' = [ufiles EXCEPT ![f] = NoUcFile]
      BY DEF ucftp_close
    <3>8. ufiles'[f] = NoUcFile /\ \A t \in UcFiles : t # f => ufiles'[t] = ufiles[t]
      BY <3>6, <3>7, UcFileSet
    <3>9. PICK k : k = UcHolders(hand, ufiles')
      OBVIOUS
    <3>10. k \in [UcEntries -> Nat] /\ h[x] = k[x] + 1 /\ k = UcHeldBy(h, x, k[x])
      BY <2>2, <3>2, <3>3, <3>6, <3>8, <3>9, UcFileLeaves
    <3>11. h \in [UcEntries -> Nat]
      BY <2>2, UcNowIs
    <3>12. UcSafe(v, UcHeldBy(h, x, k[x]))
      BY <3>3, <3>5, <3>10, <3>11, UcUnrefSafe
    <3> QED BY <1>2, <3>1, <3>12, UcFails DEF UcSafe
  <2> QED BY <2>4, <2>5
<1> QED BY <1>1, <1>2

\* Every step of the ucftp module keeps the invariant.
LEMMA UcSteps == UcftpInv /\ [UcftpNext]_ucftp_vars => UcftpInv'
<1> SUFFICES ASSUME UcftpInv, [UcftpNext]_ucftp_vars PROVE UcftpInv'
  OBVIOUS
<1>1. CASE UNCHANGED ucftp_vars
  BY <1>1, UcSame DEF ucftp_vars
<1>2. CASE UcftpNext
  <2>1. UcBody
    BY <1>2 DEF UcftpNext, UcftpInv, UcWhileUp
  <2>2. ASSUME NEW u \in UcUsers,
               \/ ucftp_lookup_root(u) \/ ucftp_lookup(u) \/ ucftp_readdir(u) \/ ucftp_putent(u)
               \/ ucftp_unlink(u) \/ ucftp_mkdir(u)
        PROVE  UcftpInv'
    BY <2>1, <2>2, UcBodyNext, UcLookupRoot, UcLookup, UcReaddir, UcPutent, UcUnlink, UcMkdir
  <2>3. ASSUME NEW u \in UcUsers, UseFreed(u) PROVE UcftpInv'
    BY <2>3, UcSame DEF UseFreed
  <2>4. ASSUME NEW u \in UcUsers, NEW f \in UcFiles, ucftp_open_read(u, f) \/ ucftp_open_write(u, f) PROVE UcftpInv'
    BY <2>1, <2>4, UcBodyNext, UcOpenRead, UcOpenWrite
  <2>5. ASSUME NEW f \in UcFiles, ucftp_init_get(f) \/ ucftp_read_end(f) \/ ucftp_close(f) PROVE UcftpInv'
    BY <2>1, <2>5, UcBodyNext, UcInitGet, UcReadEnd, UcCloseStep
  <2>6. ASSUME NEW f \in UcFiles, ucftp_use_file(f) PROVE UcftpInv'
    BY <2>6, UcSame DEF ucftp_use_file
  <2>7. CASE uc_expire
    BY <2>1, <2>7, UcExpire, UcBodyNext
  <2>8. CASE uc_remote_change
    <3>1. PICK n \in UcNames :
            uc_remote' = [uc_remote EXCEPT ![n] = IF uc_remote[n] = "none" THEN "file" ELSE "none"]
      BY <2>8 DEF uc_remote_change
    <3>2. UNCHANGED <<uconns, uents, hand, ufiles, ucrash>>
      BY <2>8 DEF uc_remote_change
    <3>3. UcRemoteOk(uc_remote) => UcRemoteOk(uc_remote')
      BY <3>1 DEF UcRemoteOk, UcKinds
    <3> QED BY <3>2, <3>3, UcSame
  <2> QED BY <1>2, <2>2, <2>3, <2>4, <2>5, <2>6, <2>7, <2>8 DEF UcftpNext
<1> QED BY <1>1, <1>2

\* The ucftp module begins in the invariant.
LEMMA UcStarts == UcftpInit => UcftpInv
<1> SUFFICES ASSUME UcftpInit PROVE UcBody
  BY UcBodyWhole
<1>1. uconns = <<>> /\ uconns \in Seq(UcConnType) /\ Len(uconns) = 0
  BY DEF UcftpInit
<1>2. UcHandsOk(hand, Len(uconns)) /\ \A u \in UcUsers : hand[u].ent = 0
  <2>1. UcHandOk(NoUcHand, 0) /\ NoUcHand.ent = 0
    BY NoUcHandOk DEF NoUcHand
  <2> QED BY <1>1, <2>1 DEF UcHandsOk, UcftpInit
<1>3. UcFilesOk(ufiles, Len(uconns)) /\ \A f \in UcFiles : ufiles[f].ent = 0
  <2>1. UcFileOk(NoUcFile, 0) /\ NoUcFile.ent = 0
    BY NoUcFileOk DEF NoUcFile
  <2> QED BY <1>1, <2>1 DEF UcFilesOk, UcftpInit
<1>4. UcRemoteOk(uc_remote)
  BY DEF UcRemoteOk, UcKinds, UcftpInit
<1>5. NoUcEntry \in UcEntryType
  BY DEF NoUcEntry, UcEntryType
<1>6. PICK e : e = NoUcEntry
  OBVIOUS
<1>7. e.refs = 0 /\ e.node = "none" /\ e.conn = 0 /\ \A x \in UcEntries : uents[x] = e
  <2>1. \A x \in UcEntries : uents[x] = e
    BY <1>6 DEF UcftpInit
  <2> QED BY <1>6, <2>1 DEF NoUcEntry
<1>8. PICK v, h : v = UcNow /\ h = UcHolders(hand, ufiles)
  OBVIOUS
<1>9. v.c = uconns /\ v.e = uents /\ v \in UcWorlds
  BY <1>1, <1>5, <1>8 DEF UcNow, UcWorlds, UcftpInit
<1>10. UcTree(v)
  <2>1. Len(v.c) = 0 /\ 1 .. Len(v.c) = {} /\ 0 \in 0 .. Len(v.c)
    BY <1>1, <1>9
  <2>2. \A x \in UcEntries : v.e[x].conn = 0 /\ v.e[x].node = "none"
    BY <1>9, <1>7
  <2> QED BY <2>1, <2>2 DEF UcTree
<1>11. \A x \in UcEntries : h[x] = 0
  <2> TAKE x \in UcEntries
  <2>1. {s \in UcUsers : hand[s].ent = x} = {} /\ {s \in UcFiles : ufiles[s].ent = x} = {}
    BY <1>2, <1>3 DEF UcEntries
  <2>2. UcCount(UcUsers, hand, x) = 0 /\ UcCount(UcFiles, ufiles, x) = 0
    BY <2>1, FS_EmptySet DEF UcCount
  <2> QED BY <1>8, <2>2 DEF UcHolders
<1>12. UcAllExact(v.e, h)
  BY <1>9, <1>11, <1>7 DEF UcAllExact, UcExact
<1>13. UcUsed(uconns, ufiles)
  BY <1>1 DEF UcUsed
<1>14. UcSafe(v, h)
  BY <1>9, <1>10, <1>12 DEF UcSafe
<1> QED BY <1>2, <1>3, <1>4, <1>8, <1>13, <1>14 DEF UcBody

\* In the invariant a busy connection has a file.
LEMMA UcBusyOk == UcftpInv => BusyHasUser
BY DEF UcftpInv, UcWhileUp, UcBody, UcUsed, BusyHasUser

\* In the invariant the references of an entry are exact.
LEMMA UcRefsOk == UcftpInv => UcRefsExact
<1> SUFFICES ASSUME UcBody, NEW x \in UcEntries, ~uents[x].over
             PROVE  uents[x].refs = Cardinality({u \in UcUsers : hand[u].ent = x})
                      + Cardinality({f \in UcFiles : ufiles[f].ent = x})
                      + IF uents[x].node = "none" THEN 0 ELSE 1
  BY DEF UcftpInv, UcWhileUp, UcRefsExact
<1>1. PICK a, b : /\ a = Cardinality({u \in UcUsers : hand[u].ent = x})
                  /\ b = Cardinality({f \in UcFiles : ufiles[f].ent = x})
  OBVIOUS
<1>2. a \in Nat /\ b \in Nat
  BY <1>1, UcftpAssumption, FS_Subset, FS_CardinalityType
<1>3. UcHolders(hand, ufiles)[x] = a + b
  BY <1>1 DEF UcHolders, UcCount
<1>4. UcAllExact(uents, UcHolders(hand, ufiles))
  BY UcNowIs DEF UcSafe
<1>5. UcExact(uents[x], a + b)
  BY <1>3, <1>4 DEF UcAllExact
<1> QED BY <1>1, <1>2, <1>5 DEF UcExact

\* In the invariant a directory has each name once.
LEMMA UcOneOk == UcftpInv => UcOneEntry
<1> SUFFICES ASSUME UcTreeKept, NEW i \in 1 .. Len(uconns), NEW n \in UcNames
             PROVE  Cardinality(UcNamed(UcNow, i, n)) =< 1
  BY DEF UcftpInv, UcOneEntry
<1>1. PICK w : w = UcNow
  OBVIOUS
<1>2. w.c = uconns /\ w \in UcWorlds /\ UcTree(w)
  BY <1>1 DEF UcTreeKept, UcNow
<1>3. \A x, y \in UcNamed(w, i, n) : x = y
  <2> TAKE x \in UcNamed(w, i, n), y \in UcNamed(w, i, n)
  <2>1. x \in w.c[i].subdir /\ y \in w.c[i].subdir /\ w.e[x].name = n /\ w.e[y].name = n
    BY DEF UcNamed
  <2>2. x \in UcEntries /\ y \in UcEntries /\ i # 0
    <3>1. w.c[i] \in UcConnType
      <4>1. w.c \in Seq(UcConnType) /\ i \in 1 .. Len(w.c)
        BY <1>2 DEF UcWorlds
      <4> QED BY <4>1
    <3>2. w.c[i].subdir \subseteq UcEntries
      BY <3>1 DEF UcConnType
    <3> QED BY <2>1, <3>2
  <2>3. w.e[x].conn = i /\ w.e[y].conn = i
    BY <1>2, <2>1, <2>2 DEF UcTree
  <2> QED BY <1>2, <2>1, <2>2, <2>3 DEF UcTree
<1>4. CASE UcNamed(w, i, n) = {}
  BY <1>1, <1>4, FS_EmptySet
<1>5. CASE UcNamed(w, i, n) # {}
  <2>1. PICK x : x \in UcNamed(w, i, n)
    BY <1>5
  <2>2. PICK s : s = UcNamed(w, i, n)
    OBVIOUS
  <2>3. x \in s /\ \A y \in s : x = y
    BY <1>3, <2>1, <2>2
  <2>4. UcNamed(w, i, n) = {x}
    BY <2>2, <2>3
  <2>5. Cardinality({x}) = 1
    BY FS_Singleton
  <2> QED BY <1>1, <2>4, <2>5
<1> QED BY <1>4, <1>5

\* The references of an entry are those of the users, of the files and of its node, but for an
\* entry without a node that a list has taken one from, and a directory has each name once:
\* through all lists that are made anew, refused or dropped, removals, new directories and
\* transfers that fail, for any number of users, files, names, entries and connections.
THEOREM UcListCorrect == UcftpInit /\ [][UcftpNext]_ucftp_vars => [](UcRefsExact /\ UcOneEntry)
BY UcStarts, UcSteps, UcRefsOk, UcOneOk, PTL

\* A connection of ucftp is busy only while a file has it: every failing path of ucftp_open,
\* ucftp_read, ucftp_close and ucftp_op gives it back, for any number of users, files and
\* connections.
THEOREM UcBusyCorrect == UcftpInit /\ [][UcftpNext]_ucftp_vars => []BusyHasUser
BY UcStarts, UcSteps, UcBusyOk, PTL

----------------------------------------------------------------------------
(* The modules together, as the runs have them.                            *)

mc_vars == <<part, vars, ftp_vars, ucftp_vars, http_vars, dav_vars>>

\* A step of the whole is one of each module, or none of its steps.
LEMMA PartSteps ==
    ASSUME [MCNext]_mc_vars
    PROVE  [FtpNext]_ftp_vars /\ [UcftpNext]_ucftp_vars /\ [HttpNext]_http_vars /\ [DavNext]_dav_vars
<1>1. CASE UNCHANGED mc_vars
  BY <1>1 DEF mc_vars
<1>2. CASE RemotePart
  BY <1>2 DEF RemotePart
<1>3. CASE FtpPart
  BY <1>3 DEF FtpPart
<1>4. CASE UcftpPart
  BY <1>4 DEF UcftpPart
<1>5. CASE HttpPart
  BY <1>5 DEF HttpPart
<1>6. CASE DavPart
  BY <1>6 DEF DavPart
<1> QED BY <1>1, <1>2, <1>3, <1>4, <1>5, <1>6 DEF MCNext

\* The modules' invariants hold in every reachable state of the whole.
LEMMA PartsAlways == MCInit /\ [][MCNext]_mc_vars => [](FtpInv /\ UcftpInv /\ HttpInv /\ DavInv)
<1>1. MCInit => FtpInv /\ UcftpInv /\ HttpInv /\ DavInv
  BY FtpStarts, UcStarts, HttpStarts, DavStarts DEF MCInit
<1>2. ASSUME FtpInv /\ UcftpInv /\ HttpInv /\ DavInv, [MCNext]_mc_vars
      PROVE  (FtpInv /\ UcftpInv /\ HttpInv /\ DavInv)'
  BY <1>2, PartSteps, FtpSteps, UcSteps, HttpSteps, DavSteps
<1> QED BY <1>1, <1>2, PTL

\* No connection of ftp, ucftp or dav stays busy longer than it is used: no error of those
\* who use it leaves it busy for ever.  That a connection which is used is busy is shown of
\* ftp only; ucftp and dav do give one back under a transfer.
THEOREM ConnectionsCorrect == MCInit /\ [][MCNext]_mc_vars => []ConnectionsFreed
<1>1. FtpInv /\ UcftpInv /\ DavInv => ConnectionsFreed
  BY FtpBusyOk, UcBusyOk, DavFreedOk DEF ConnectionsFreed
<1> QED BY <1>1, PartsAlways, PTL

\* What is transferred over ftp or http is what was asked for, and all of it.
THEOREM TransfersCorrect == MCInit /\ [][MCNext]_mc_vars => []TransfersTrue
<1>1. FtpInv /\ HttpInv => TransfersTrue
  BY FtpTransferOk, FtpWholeOk, HttpSizeOk DEF TransfersTrue
<1> QED BY <1>1, PartsAlways, PTL

\* The list that ucftp keeps of a directory has each name once, and its entries the
\* references that there are, but for those that a list took from entries without a node:
\* through all lists that are made anew, refused or dropped.
THEOREM ListCorrect == MCInit /\ [][MCNext]_mc_vars => []UcListExact
<1>1. UcftpInv => UcListExact
  BY UcOneOk, UcRefsOk DEF UcListExact
<1> QED BY <1>1, PartsAlways, PTL
=============================================================================
