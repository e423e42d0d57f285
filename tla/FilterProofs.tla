----------------------------- MODULE FilterProofs -----------------------------
(***************************************************************************)
(* Proofs about Filter: that nodes and cells are counted, that those who   *)
(* write can write, that no change is left behind and that every base file *)
(* is closed, for any number of users, nodes and files.                    *)
(***************************************************************************)
EXTENDS Filter, FiniteSetTheorems, TLAPS

----------------------------------------------------------------------------
(* Counting: references are compared with the number of their holders.     *)

\* A condition as a number.
One(b) == IF b THEN 1 ELSE 0

\* A finite set has a number of elements, and none if it is empty.
LEMMA CountIsNat ==
    ASSUME NEW A, IsFiniteSet(A)
    PROVE  /\ Cardinality(A) \in Nat
           /\ Cardinality(A) = 0 <=> A = {}
BY FS_CardinalityType, FS_EmptySet

\* A and B differ at most in x.
LEMMA OneChanges ==
    ASSUME NEW A, NEW B, NEW x, IsFiniteSet(A), A \ {x} = B \ {x}
    PROVE  /\ IsFiniteSet(B)
           /\ Cardinality(A) \in Nat /\ Cardinality(B) \in Nat
           /\ Cardinality(B) = Cardinality(A) + One(x \in B) - One(x \in A)
           /\ x \in A => Cardinality(A) > 0
           /\ x \in B => Cardinality(B) > 0
<1> DEFINE R == A \ {x}
<1>1. IsFiniteSet(R) /\ Cardinality(R) \in Nat /\ x \notin R
  BY FS_RemoveElement, FS_CardinalityType
<1>2. IsFiniteSet(R \cup {x}) /\ Cardinality(R \cup {x}) = Cardinality(R) + 1
  BY <1>1, FS_AddElement
<1>3. A = IF x \in A THEN R \cup {x} ELSE R
  OBVIOUS
<1>4. B = IF x \in B THEN R \cup {x} ELSE R
  OBVIOUS
<1> HIDE DEF R
<1>5. Cardinality(A) = Cardinality(R) + One(x \in A)
  <2>1. CASE x \in A
    <3>1. A = R \cup {x} /\ One(x \in A) = 1
      BY <1>3, <2>1 DEF One
    <3> QED BY <1>2, <3>1
  <2>2. CASE x \notin A
    <3>1. A = R /\ One(x \in A) = 0
      BY <1>3, <2>2 DEF One
    <3> QED BY <1>1, <3>1
  <2> QED BY <2>1, <2>2
<1>6. IsFiniteSet(B) /\ Cardinality(B) = Cardinality(R) + One(x \in B)
  <2>1. CASE x \in B
    <3>1. B = R \cup {x} /\ One(x \in B) = 1
      BY <1>4, <2>1 DEF One
    <3> QED BY <1>2, <3>1
  <2>2. CASE x \notin B
    <3>1. B = R /\ One(x \in B) = 0
      BY <1>4, <2>2 DEF One
    <3> QED BY <1>1, <3>1
  <2> QED BY <2>1, <2>2
<1> QED BY <1>1, <1>5, <1>6 DEF One

\* A part of a finite set is one.
LEMMA PartIsFinite ==
    ASSUME NEW A, NEW B, IsFiniteSet(A), B \subseteq A
    PROVE  IsFiniteSet(B) /\ Cardinality(B) \in Nat /\ Cardinality(B) <= Cardinality(A)
BY FS_Subset, FS_CardinalityType

----------------------------------------------------------------------------
(* The inductive invariant.                                                *)

\* As TypeOK, but that the counts are natural numbers follows from what they count.
Types ==
    /\ now \in 1..MaxVersion /\ path \in Inodes /\ ver \in [Inodes -> 1..MaxVersion]
    /\ nopen \in Int
    /\ node \in [Nodes -> NodeType]
    /\ refctr \in [Nodes -> Int] /\ cellref \in [Nodes -> Int]
    /\ incell \in [Nodes -> BOOLEAN] /\ cached \in Nodes \cup {None}
    /\ lock \in [Nodes -> Threads \cup {None}]
    /\ pc \in [Threads -> Places] /\ nod \in [Threads -> Nodes \cup {None}]
    /\ how \in [Threads -> Hows]
    /\ ino \in [Threads -> Inodes \cup {None}] /\ buf \in [Threads -> -1..MaxVersion]
    /\ size \in [Threads -> -1..MaxVersion] /\ crashed \in BOOLEAN

\* A thread has a node between filt_getfile and the end of its close, and before
\* that it knows the inode of its base file.
ThreadInv ==
    \A t \in Threads :
        /\ nod[t] # None <=> pc[t] \in {"wait", "open", "stat"}
        /\ pc[t] \in {"base", "new", "wait"} => ino[t] \in Inodes

\* A node that is freed is as good as none; the others know their base file.
NodeInv ==
    \A n \in Nodes :
        /\ refctr[n] = 0 => node[n] = NoNode
        /\ refctr[n] > 0 => node[n].id \in Inodes

IInv ==
    /\ Types /\ ThreadInv /\ NodeInv
    /\ RefctrExact /\ WritersCanWrite /\ NothingUnsaved /\ BaseFilesClosed

----------------------------------------------------------------------------
(* Counting users, writers and open vfiles.                                *)

Writing(n) == {t \in Users(n) : pc[t] = "open" /\ IsWrite(t)}
Pending    == {t \in Threads : pc[t] \in {"base", "new", "wait"}}
OpenNodes  == {n \in Nodes : node[n].vf # "none"}

\* A step in which no thread but t does anything changes each number by t at most.
LEMMA ThreadNumbers ==
    ASSUME NEW t,
           \A u \in Threads \ {t} : pc'[u] = pc[u] /\ nod'[u] = nod[u] /\ how'[u] = how[u]
    PROVE  /\ \A n \in Nodes :
                 /\ Cardinality(Users(n)) \in Nat /\ Cardinality(Users(n)') \in Nat
                 /\ Cardinality(Users(n)') =
                       Cardinality(Users(n)) + One(t \in Users(n)') - One(t \in Users(n))
                 /\ t \in Users(n) => Cardinality(Users(n)) > 0
           /\ \A n \in Nodes :
                 /\ Cardinality(Writing(n)) \in Nat /\ Cardinality(Writing(n)') \in Nat
                 /\ Cardinality(Writing(n)') =
                       Cardinality(Writing(n)) + One(t \in Writing(n)') - One(t \in Writing(n))
           /\ Cardinality(Pending) \in Nat /\ Cardinality(Pending') \in Nat
           /\ Cardinality(Pending') =
                 Cardinality(Pending) + One(t \in Pending') - One(t \in Pending)
<1>1. ASSUME NEW n \in Nodes
      PROVE  /\ IsFiniteSet(Users(n)) /\ Users(n) \ {t} = Users(n)' \ {t}
             /\ IsFiniteSet(Writing(n)) /\ Writing(n) \ {t} = Writing(n)' \ {t}
  <2>1. Users(n) \subseteq Threads /\ Writing(n) \subseteq Threads
    BY DEF Users, Writing
  <2>2. IsFiniteSet(Users(n)) /\ IsFiniteSet(Writing(n))
    BY <2>1, PartIsFinite, ThreadsNodesFinite
  <2>3. Users(n) \ {t} = Users(n)' \ {t}
    BY DEF Users
  <2>4. Writing(n) \ {t} = Writing(n)' \ {t}
    BY DEF Writing, Users, IsWrite
  <2> QED BY <2>2, <2>3, <2>4
<1>2. IsFiniteSet(Pending) /\ Pending \ {t} = Pending' \ {t}
  <2>1. Pending \subseteq Threads /\ Pending \ {t} = Pending' \ {t}
    BY DEF Pending
  <2> QED BY <2>1, PartIsFinite, ThreadsNodesFinite
<1>3. ASSUME NEW n \in Nodes
      PROVE  /\ Cardinality(Users(n)) \in Nat /\ Cardinality(Users(n)') \in Nat
             /\ Cardinality(Users(n)') =
                   Cardinality(Users(n)) + One(t \in Users(n)') - One(t \in Users(n))
             /\ t \in Users(n) => Cardinality(Users(n)) > 0
  BY <1>1, OneChanges
<1>4. ASSUME NEW n \in Nodes
      PROVE  /\ Cardinality(Writing(n)) \in Nat /\ Cardinality(Writing(n)') \in Nat
             /\ Cardinality(Writing(n)') =
                   Cardinality(Writing(n)) + One(t \in Writing(n)') - One(t \in Writing(n))
  BY <1>1, OneChanges
<1>5. /\ Cardinality(Pending) \in Nat /\ Cardinality(Pending') \in Nat
      /\ Cardinality(Pending') = Cardinality(Pending) + One(t \in Pending') - One(t \in Pending)
  BY <1>2, OneChanges
<1> QED BY <1>3, <1>4, <1>5

\* The number of open nodes when one node changes.
LEMMA NodeNumbers ==
    ASSUME NEW n, \A m \in Nodes \ {n} : node'[m] = node[m]
    PROVE  /\ Cardinality(OpenNodes) \in Nat /\ Cardinality(OpenNodes') \in Nat
           /\ Cardinality(OpenNodes') =
                 Cardinality(OpenNodes) + One(n \in OpenNodes') - One(n \in OpenNodes)
<1>1. OpenNodes \subseteq Nodes /\ OpenNodes \ {n} = OpenNodes' \ {n}
  BY DEF OpenNodes
<1>2. IsFiniteSet(OpenNodes)
  BY <1>1, PartIsFinite, ThreadsNodesFinite
<1> QED BY <1>1, <1>2, OneChanges

\* What has to be shown of a step of the thread t that touches the node n: the
\* counts of n change with its holders, and if it is still there, so does the
\* number of its writers.
LEMMA OneNode ==
    ASSUME IInv, Types', ThreadInv', NEW t, NEW n \in Nodes,
           \A u \in Threads \ {t} : pc'[u] = pc[u] /\ nod'[u] = nod[u] /\ how'[u] = how[u],
           \A m \in Nodes \ {n} :
               /\ node'[m] = node[m] /\ refctr'[m] = refctr[m] /\ cellref'[m] = cellref[m]
               /\ incell'[m] = incell[m] /\ (cached' = m <=> cached = m)
               /\ t \notin Users(m) /\ t \notin Users(m)',
           cellref'[n] - One(cached' = n) - One(t \in Users(n)') =
               cellref[n] - One(cached = n) - One(t \in Users(n)),
           refctr'[n] - One(incell'[n]) - One(t \in Users(n)') =
               refctr[n] - One(incell[n]) - One(t \in Users(n)),
           incell'[n] => cellref'[n] > 0,
           refctr'[n] = 0 => node'[n] = NoNode,
           refctr'[n] > 0 =>
               /\ node'[n].id \in Inodes
               /\ node'[n].writers - One(t \in Writing(n)') =
                      node[n].writers - One(t \in Writing(n))
               /\ node'[n].writers > 0 => node'[n].vf = "rw" /\ node'[n].told
               /\ node'[n].dirty => node'[n].writers > 0,
           nopen' - One(n \in OpenNodes') - One(t \in Pending') =
               nopen - One(n \in OpenNodes) - One(t \in Pending)
    PROVE  IInv'
<1>1. /\ \A m \in Nodes : Cardinality(Users(m)') =
                Cardinality(Users(m)) + One(t \in Users(m)') - One(t \in Users(m))
      /\ \A m \in Nodes : Cardinality(Writing(m)') =
                Cardinality(Writing(m)) + One(t \in Writing(m)') - One(t \in Writing(m))
      /\ \A m \in Nodes : /\ Cardinality(Users(m)) \in Nat /\ Cardinality(Users(m)') \in Nat
                          /\ Cardinality(Writing(m)) \in Nat /\ Cardinality(Writing(m)') \in Nat
      /\ Cardinality(Pending) \in Nat /\ Cardinality(Pending') \in Nat
      /\ Cardinality(Pending') = Cardinality(Pending) + One(t \in Pending') - One(t \in Pending)
  BY ThreadNumbers
<1>2. /\ Cardinality(OpenNodes) \in Nat /\ Cardinality(OpenNodes') \in Nat
      /\ Cardinality(OpenNodes') =
            Cardinality(OpenNodes) + One(n \in OpenNodes') - One(n \in OpenNodes)
  BY NodeNumbers
<1>3. \A m \in Nodes \ {n} : t \notin Writing(m) /\ t \notin Writing(m)'
  BY DEF Writing
<1>4. \A m \in Nodes \ {n} : /\ Cardinality(Users(m)') = Cardinality(Users(m))
                             /\ Cardinality(Writing(m)') = Cardinality(Writing(m))
  BY <1>1, <1>3 DEF One
<1>5. \A m \in Nodes :
          /\ cellref[m] = Cardinality(Users(m)) + One(cached = m)
          /\ refctr[m] = Cardinality(Users(m)) + One(incell[m])
          /\ node[m].writers = Cardinality(Writing(m))
  BY DEF IInv, RefctrExact, WritersCanWrite, Writing, One
<1>6. RefctrExact'
  <2>1. ASSUME NEW m \in Nodes
        PROVE  /\ cellref'[m] = Cardinality(Users(m)') + One(cached' = m)
               /\ refctr'[m] = Cardinality(Users(m)') + One(incell'[m])
               /\ incell'[m] => cellref'[m] > 0
    <3>1. CASE m # n
      <4>1. (cached' = m <=> cached = m) /\ incell'[m] = incell[m]
        BY <3>1
      <4>2. incell[m] => cellref[m] > 0
        BY DEF IInv, RefctrExact
      <4> QED BY <1>4, <1>5, <3>1, <4>1, <4>2 DEF One
    <3>2. CASE m = n
      <4>1. /\ refctr[n] \in Int /\ refctr'[n] \in Int
            /\ cellref[n] \in Int /\ cellref'[n] \in Int
        BY DEF IInv, Types
      <4>2. cellref'[n] = Cardinality(Users(n)') + One(cached' = n)
        <5>1. Cardinality(Users(n)') = Cardinality(Users(n)) + One(t \in Users(n)') - One(t \in Users(n))
          BY <1>1
        <5>2. cellref[n] = Cardinality(Users(n)) + One(cached = n) /\ Cardinality(Users(n)) \in Int
          BY <1>1, <1>5
        <5>3. /\ One(cached = n) \in Int /\ One(cached' = n) \in Int
              /\ One(t \in Users(n)) \in Int /\ One(t \in Users(n)') \in Int
          BY DEF One
        <5>4. cellref'[n] - One(cached' = n) - One(t \in Users(n)') =
                  cellref[n] - One(cached = n) - One(t \in Users(n))
          OBVIOUS
        <5> QED BY ONLY <4>1, <5>1, <5>2, <5>3, <5>4
      <4>3. refctr'[n] = Cardinality(Users(n)') + One(incell'[n])
        BY <1>1, <1>5, <4>1 DEF One
      <4> QED BY <3>2, <4>2, <4>3
    <3> QED BY <3>1, <3>2
  <2> QED BY <2>1 DEF RefctrExact, One
<1>7. ASSUME NEW m \in Nodes
      PROVE  /\ node'[m].writers = Cardinality(Writing(m)')
             /\ node'[m].writers > 0 => node'[m].vf = "rw" /\ node'[m].told
             /\ node'[m].dirty => node'[m].writers > 0
             /\ refctr'[m] = 0 => node'[m] = NoNode
             /\ refctr'[m] > 0 => node'[m].id \in Inodes
  <2>1. CASE m # n
    <3>1. node'[m] = node[m] /\ refctr'[m] = refctr[m]
      BY <2>1
    <3>2. /\ node[m].writers > 0 => node[m].vf = "rw" /\ node[m].told
          /\ node[m].dirty => node[m].writers > 0
          /\ refctr[m] = 0 => node[m] = NoNode
          /\ refctr[m] > 0 => node[m].id \in Inodes
      BY DEF IInv, WritersCanWrite, NothingUnsaved, NodeInv
    <3>3. node'[m].writers = Cardinality(Writing(m)')
      BY <1>4, <1>5, <2>1, <3>1
    <3> QED BY <3>1, <3>2, <3>3
  <2>2. CASE m = n /\ refctr'[n] > 0
    <3>1. node[n].writers \in Int /\ node'[n].writers \in Int
      BY DEF IInv, Types, NodeType
    <3> QED BY <1>1, <1>5, <2>2, <3>1 DEF One
  <2>3. CASE m = n /\ refctr'[n] = 0
    <3>1. Cardinality(Users(n)') = 0
      BY <1>1, <1>6, <2>3 DEF RefctrExact
    <3>2. Users(n)' = {}
      <4>1. Users(n)' \subseteq Threads
        BY DEF Users
      <4>2. IsFiniteSet(Users(n)')
        BY <4>1, PartIsFinite, ThreadsNodesFinite
      <4> QED BY <3>1, <4>2, CountIsNat
    <3>3. Writing(n)' = {}
      BY <3>2 DEF Writing
    <3>4. Cardinality(Writing(n)') = 0
      BY <3>3, FS_EmptySet
    <3> QED BY <2>3, <3>4 DEF NoNode
  <2>4. refctr'[n] >= 0
    BY <1>1, <1>6 DEF RefctrExact
  <2>5. refctr'[n] \in Int
    BY DEF Types
  <2> QED BY <2>1, <2>2, <2>3, <2>4, <2>5
<1>8. WritersCanWrite' /\ NothingUnsaved' /\ NodeInv'
  BY <1>7 DEF WritersCanWrite, NothingUnsaved, NodeInv, Writing
<1>9. BaseFilesClosed'
  <2>1. nopen = Cardinality(Pending) + Cardinality(OpenNodes)
    BY DEF IInv, BaseFilesClosed, Pending, OpenNodes
  <2>2. nopen' = Cardinality(Pending') + Cardinality(OpenNodes')
    <3>1. nopen \in Int /\ nopen' \in Int
      BY DEF IInv, Types
    <3> QED BY <1>1, <1>2, <2>1, <3>1 DEF One
  <2> QED BY <2>2 DEF BaseFilesClosed, Pending, OpenNodes
<1> QED BY <1>6, <1>8, <1>9 DEF IInv

----------------------------------------------------------------------------
(* Types.                                                                  *)

\* A node with another time.
LEMMA ModChanges ==
    ASSUME NEW d \in NodeType, NEW m \in -1..MaxVersion
    PROVE  [d EXCEPT !.mod = m] \in NodeType
BY DEF NodeType

\* A node with its serial file in another state.
LEMMA SfChanges ==
    ASSUME NEW d \in NodeType, NEW s \in {"begin", "read", "fini"}, NEW b \in BOOLEAN
    PROVE  [d EXCEPT !.sf = s, !.dirty = b] \in NodeType
BY DEF NodeType

\* A node with another base file.
LEMMA VfChanges ==
    ASSUME NEW d \in NodeType, NEW vf \in {"none", "ro", "rw"}, NEW b \in BOOLEAN
    PROVE  [d EXCEPT !.vf = vf, !.told = b] \in NodeType
BY DEF NodeType

\* The nodes that the operations give.
LEMMA NodeTypes ==
    /\ NoNode \in NodeType
    /\ \A d \in NodeType, t \in Threads :
          /\ Opened(t, d) \subseteq NodeType
          /\ Fetched(d) \subseteq NodeType /\ Flushed(d) \subseteq NodeType
    /\ \A t \in Threads : VfOf(t) \in {"ro", "rw"}
<1>1. NoNode \in NodeType
  BY VersionsAreNumbers DEF NoNode, NodeType
<1>2. ASSUME NEW d \in NodeType PROVE Truncated(d) \subseteq NodeType
  <2>1. [d EXCEPT !.sf = "fini", !.dirty = TRUE] \in NodeType
    BY SfChanges
  <2>2. [d EXCEPT !.sf = "begin", !.dirty = FALSE] \in NodeType
    BY SfChanges
  <2> QED BY <2>1, <2>2 DEF Truncated
<1>3. ASSUME NEW d \in NodeType, NEW t \in Threads
      PROVE  Opened(t, d) \subseteq NodeType
  <2> DEFINE e == [d EXCEPT !.writers = IF IsWrite(t) THEN @ + 1 ELSE @]
  <2>1. e \in NodeType
    BY DEF NodeType
  <2> QED BY <1>2, <2>1 DEF Opened
<1>4. ASSUME NEW d \in NodeType
      PROVE  Fetched(d) \subseteq NodeType /\ Flushed(d) \subseteq NodeType
  <2>1. \A s \in {"begin", "read", "fini"} : [d EXCEPT !.sf = s] \in NodeType
    BY DEF NodeType
  <2>2. [d EXCEPT !.dirty = FALSE] \in NodeType
    BY DEF NodeType
  <2>3. [d EXCEPT !.sf = "begin", !.dirty = FALSE] \in NodeType
    BY SfChanges
  <2> QED BY <2>1, <2>2, <2>3 DEF Fetched, Flushed
<1> QED BY <1>1, <1>3, <1>4 DEF VfOf

\* Left and DropCell keep the types; so does leaving.
LEMMA LeftTypes ==
    ASSUME Types, NEW n \in Nodes, NEW k \in Int, NEW d \in NodeType, NEW c \in Int,
           Left(n, k, d, c)
    PROVE  /\ refctr' \in [Nodes -> Int] /\ node' \in [Nodes -> NodeType]
           /\ nopen' \in Int /\ crashed' \in BOOLEAN
<1>1. refctr' \in [Nodes -> Int] /\ node' \in [Nodes -> NodeType]
  BY NodeTypes DEF Left, Types
<1>2. nopen' \in Int
  BY DEF Left, Types, Open
<1> QED BY <1>1, <1>2 DEF Left

\* DropCell keeps the types of what it sets.
LEMMA DropCellTypes ==
    ASSUME Types, NEW n \in Nodes, NEW k \in Int, NEW d \in NodeType, NEW c \in Int,
           DropCell(n, k, d, c)
    PROVE  /\ refctr' \in [Nodes -> Int] /\ node' \in [Nodes -> NodeType]
           /\ nopen' \in Int /\ crashed' \in BOOLEAN
           /\ cellref' \in [Nodes -> Int] /\ incell' \in [Nodes -> BOOLEAN]
<1> DEFINE had == IF cellref[n] = 1 /\ incell[n] THEN 1 ELSE 0
<1>1. refctr[n] - k - had \in Int /\ Left(n, refctr[n] - k - had, d, c)
  BY DEF DropCell, Types
<1>2. cellref' \in [Nodes -> Int] /\ incell' \in [Nodes -> BOOLEAN]
  BY DEF DropCell, Types
<1> QED BY <1>1, <1>2, LeftTypes

\* Out keeps the types of what it sets.
LEMMA OutTypes ==
    ASSUME Types, NEW t \in Threads, Out(t)
    PROVE  /\ pc' \in [Threads -> Places] /\ nod' \in [Threads -> Nodes \cup {None}]
           /\ how' \in [Threads -> Hows] /\ ino' \in [Threads -> Inodes \cup {None}]
           /\ buf' \in [Threads -> -1..MaxVersion] /\ size' \in [Threads -> -1..MaxVersion]
BY VersionsAreNumbers DEF Types, Out, Goto, Places, Hows

\* A change of the base file keeps the types.
LEMMA ChangedTypes ==
    ASSUME Types, NEW i, Changed(i)
    PROVE  now' \in 1..MaxVersion /\ ver' \in [Inodes -> 1..MaxVersion]
<1>1. now' \in 1..MaxVersion
  BY VersionsAreNumbers DEF Types, Changed
<1>2. ver' \in [Inodes -> 1..MaxVersion]
  BY <1>1 DEF Types, Changed
<1> QED BY <1>1, <1>2

\* Validated keeps the types.
LEMMA ValidatedTypes ==
    ASSUME Types, NEW t \in Threads, nod[t] \in Nodes, NEW d \in NodeType, NEW c \in Int,
           Validated(t, d, c), crashed' \in BOOLEAN
    PROVE  Types'
<1>1. node' \in [Nodes -> NodeType]
  BY NodeTypes DEF Validated, Types
<1>2. nopen' \in Int /\ pc' \in [Threads -> Places]
  BY DEF Validated, Types, Goto, Places
<1> QED BY <1>1, <1>2 DEF Validated, Types, base

\* The types hold at the start.
LEMMA TypesInit == Init => Types
<1> SUFFICES ASSUME Init PROVE Types
  OBVIOUS
<1>1. now \in 1..MaxVersion /\ path \in Inodes /\ ver \in [Inodes -> 1..MaxVersion]
  BY VersionsAreNumbers DEF Init
<1>2. node \in [Nodes -> NodeType]
  BY NodeTypes DEF Init
<1>3. /\ refctr \in [Nodes -> Int] /\ cellref \in [Nodes -> Int]
      /\ incell \in [Nodes -> BOOLEAN] /\ cached \in Nodes \cup {None}
      /\ lock \in [Nodes -> Threads \cup {None}] /\ nopen \in Int
  BY DEF Init
<1>4. /\ pc \in [Threads -> Places] /\ nod \in [Threads -> Nodes \cup {None}]
      /\ how \in [Threads -> Hows] /\ ino \in [Threads -> Inodes \cup {None}]
  BY DEF Init, Places, Hows
<1>5. /\ buf \in [Threads -> -1..MaxVersion] /\ size \in [Threads -> -1..MaxVersion]
  BY VersionsAreNumbers DEF Init
<1> QED BY <1>1, <1>2, <1>3, <1>4, <1>5 DEF Init, Types

\* Every step keeps the types.
LEMMA TypesStep ==
    ASSUME Types, ThreadInv, NodeInv, RefctrExact, [Next]_vars
    PROVE  Types'
<1> USE DEF base, nodes, threads
<1>0. ASSUME NEW t \in Threads, pc[t] \in {"wait", "open", "stat"}
      PROVE  nod[t] \in Nodes /\ node[nod[t]] \in NodeType
  BY <1>0 DEF ThreadInv, Types
<1>1. CASE Modify
  BY <1>1, ChangedTypes DEF Modify, Types
<1>2. CASE Expire
  <2>1. cached \in Nodes /\ node[cached] \in NodeType
    BY <1>2 DEF Expire, Types
  <2> QED BY <1>2, <2>1, DropCellTypes DEF Expire, Types
<1>3. ASSUME NEW i \in Inodes, Rename(i) PROVE Types'
  BY <1>3, ChangedTypes DEF Rename, Types
<1>4. ASSUME NEW n \in Nodes, Evict(n) PROVE Types'
  <2>1. refctr[n] - 1 \in Int /\ node[n] \in NodeType
    BY DEF Types
  <2> QED BY <1>4, <2>1, LeftTypes DEF Evict, Types
<1>5. ASSUME NEW t \in Threads, NEW h \in Hows, OpenBase(t, h) PROVE Types'
  <2>1. now' \in 1..MaxVersion /\ ver' \in [Inodes -> 1..MaxVersion]
    BY <1>5, ChangedTypes DEF OpenBase, Types
  <2> QED BY <1>5, <2>1 DEF OpenBase, Goto, Types, Places
<1>6. ASSUME NEW t \in Threads, GetFile(t) PROVE Types'
  <2>1. ver[ino[t]] \in -1..MaxVersion
    BY <1>6, VersionsAreNumbers DEF GetFile, Types, ThreadInv
  <2>2. buf' \in [Threads -> -1..MaxVersion]
    BY <1>6, <2>1 DEF GetFile, Types
  <2>3. /\ refctr' \in [Nodes -> Int] /\ cellref' \in [Nodes -> Int]
        /\ nod' \in [Threads -> Nodes \cup {None}] /\ pc' \in [Threads -> Places]
    BY <1>6 DEF GetFile, Found, Goto, Types, Places
  <2> QED BY <1>6, <2>2, <2>3 DEF GetFile, Types
<1>7. ASSUME NEW t \in Threads, GetFileFails(t) PROVE Types'
  BY <1>7, OutTypes DEF GetFileFails, Types
<1>8. ASSUME NEW t \in Threads, NEW n \in Nodes, NewNode(t, n) PROVE Types'
  <2> DEFINE d == [NoNode EXCEPT !.id = ino[t], !.mod = buf[t], !.vf = VfOf(t), !.told = TRUE]
  <2>1. d \in NodeType
    BY NodeTypes DEF NodeType, Types
  <2>2. node' \in [Nodes -> NodeType]
    BY <1>8, <2>1, NodeTypes DEF NewNode, Types
  <2> QED BY <1>8, <2>2 DEF NewNode, Goto, Types, Places
<1>9. ASSUME NEW t \in Threads, Renew(t) PROVE Types'
  <2> DEFINE d == node[nod[t]]
             e == [d EXCEPT !.sf = "begin", !.dirty = FALSE, !.vf = VfOf(t), !.told = TRUE,
                            !.mod = buf[t]]
  <2>1. nod[t] \in Nodes /\ d \in NodeType
    BY <1>0, <1>9 DEF Renew, Waiting
  <2>2. [d EXCEPT !.sf = "begin", !.dirty = FALSE] \in NodeType
    BY <2>1, SfChanges
  <2>3. [[d EXCEPT !.sf = "begin", !.dirty = FALSE] EXCEPT !.vf = VfOf(t), !.told = TRUE]
            \in NodeType
    BY <2>2, NodeTypes, VfChanges
  <2>4. e \in NodeType
    BY <2>3, ModChanges DEF Types
  <2>5. Open(d.vf) \in Int /\ crashed' \in BOOLEAN
    BY <1>9 DEF Open, Renew, Dangling
  <2>6. Validated(t, e, Open(d.vf))
    BY <1>9 DEF Renew
  <2> HIDE DEF d, e
  <2> QED BY <2>1, <2>4, <2>5, <2>6, ValidatedTypes
<1>10. ASSUME NEW t \in Threads, Switch(t) PROVE Types'
  <2> DEFINE d == node[nod[t]]
             e == [d EXCEPT !.vf = "rw", !.told = TRUE]
  <2>1. nod[t] \in Nodes /\ d \in NodeType
    BY <1>0, <1>10 DEF Switch, Waiting
  <2>2. e \in NodeType
    BY <2>1, VfChanges
  <2>3. Open(d.vf) \in Int
    BY DEF Open
  <2> QED BY <1>10, <2>1, <2>2, <2>3, ValidatedTypes DEF Switch
<1>11. ASSUME NEW t \in Threads, SwitchFails(t) PROVE Types'
  <2>1. nod[t] \in Nodes /\ node[nod[t]] \in NodeType
    BY <1>0, <1>11 DEF SwitchFails, Waiting
  <2> QED BY <1>11, <2>1, DropCellTypes, OutTypes DEF SwitchFails, Types
<1>12. ASSUME NEW t \in Threads, Join(t) PROVE Types'
  <2>1. nod[t] \in Nodes /\ node[nod[t]] \in NodeType
    BY <1>0, <1>12 DEF Join, Waiting
  <2> QED BY <1>12, <2>1, ValidatedTypes DEF Join, Surplus, Types
<1>13. ASSUME NEW t \in Threads, Read(t) PROVE Types'
  <2>1. nod[t] \in Nodes /\ node[nod[t]] \in NodeType
    BY <1>0, <1>13 DEF Read, Using
  <2> QED BY <1>13, <2>1, NodeTypes DEF Read, Types
<1>14. ASSUME NEW t \in Threads, GetAttr(t) PROVE Types'
  <2>1. nod[t] \in Nodes /\ node[nod[t]] \in NodeType
    BY <1>0, <1>14 DEF GetAttr, Using
  <2>2. node' \in [Nodes -> NodeType]
    BY <1>14, <2>1, NodeTypes DEF GetAttr, Types
  <2> QED BY <1>14, <2>2 DEF GetAttr, Types
<1>15. ASSUME NEW t \in Threads, SetAttr(t) PROVE Types'
  <2>1. now' \in 1..MaxVersion /\ ver' \in [Inodes -> 1..MaxVersion]
    BY <1>15, ChangedTypes DEF SetAttr, Types
  <2> QED BY <1>15, <2>1 DEF SetAttr, Types
<1>16. ASSUME NEW t \in Threads, Lose(t) PROVE Types'
  <2> DEFINE e == [node[nod[t]] EXCEPT !.sf = "begin", !.dirty = FALSE]
  <2>1. nod[t] \in Nodes /\ node[nod[t]] \in NodeType
    BY <1>0, <1>16 DEF Lose, Using
  <2>2. e \in NodeType
    BY <2>1 DEF NodeType
  <2> QED BY <1>16, <2>1, <2>2 DEF Lose, Types
<1>17. ASSUME NEW t \in Threads, Write(t) PROVE Types'
  <2>1. nod[t] \in Nodes /\ node[nod[t]] \in NodeType
    BY <1>0, <1>17 DEF Write, Using
  <2>2. PICK time \in {node[nod[t]].mod, -1} :
            node' = [node EXCEPT ![nod[t]] =
                        [node[nod[t]] EXCEPT !.sf = "fini", !.dirty = TRUE, !.mod = time]]
    BY <1>17 DEF Write
  <2>3. [node[nod[t]] EXCEPT !.sf = "fini", !.dirty = TRUE, !.mod = time] \in NodeType
    <3>1. [node[nod[t]] EXCEPT !.sf = "fini", !.dirty = TRUE] \in NodeType
      BY <2>1, SfChanges
    <3>2. time \in -1..MaxVersion
      BY <2>1, <2>2, VersionsAreNumbers DEF NodeType
    <3> QED BY <3>1, <3>2, ModChanges
  <2>4. node' \in [Nodes -> NodeType]
    BY <2>2, <2>3 DEF Types
  <2> QED BY <1>17, <2>4 DEF Write, Types
<1>18. ASSUME NEW t \in Threads, Close(t) PROVE Types'
  <2> DEFINE n == nod[t]
             d == node[n]
             e == [d EXCEPT !.writers = IF IsWrite(t) THEN @ - 1 ELSE @]
  <2>1. n \in Nodes /\ d \in NodeType
    BY <1>0, <1>18 DEF Close, Using
  <2>2. e \in NodeType
    BY <1>18, <2>1 DEF NodeType, Close
  <2>3. DropCell(n, 1, e, 0) /\ Out(t) /\ UNCHANGED <<base, cached, lock>>
    BY <1>18 DEF Close
  <2> HIDE DEF e
  <2> QED BY <2>1, <2>2, <2>3, DropCellTypes, OutTypes DEF Types
<1>19. ASSUME NEW t \in Threads, LastClose(t) PROVE Types'
  <2> DEFINE n == nod[t]
             d == [node[n] EXCEPT !.writers = 0]
  <2>1. n \in Nodes /\ node[n] \in NodeType
    BY <1>0, <1>19 DEF LastClose, Using
  <2>2. d \in NodeType /\ Open(d.vf) \in Int
    BY <2>1 DEF NodeType, Open
  <2>3. d.id \in Inodes
    <3>1. refctr[n] > 0 => node[n].id \in Inodes
      BY <2>1 DEF NodeInv
    <3>2. t \in Users(n) /\ IsFiniteSet(Users(n))
      BY PartIsFinite, ThreadsNodesFinite DEF Users
    <3>3. Cardinality(Users(n)) > 0
      BY <3>2, CountIsNat
    <3>4. refctr[n] > 0
      BY <2>1, <3>2, <3>3, CountIsNat DEF RefctrExact
    <3> QED BY <2>1, <3>1, <3>4 DEF NodeType
  <2>4. now' \in 1..MaxVersion /\ ver' \in [Inodes -> 1..MaxVersion]
    BY <1>19, ChangedTypes DEF LastClose, Types
  <2>5. size' \in [Threads -> -1..MaxVersion]
    BY <1>19, <2>3, <2>4, VersionsAreNumbers DEF LastClose, Types
  <2>6. node' \in [Nodes -> NodeType]
    <3>1. PICK e \in (IF d.dirty THEN Flushed(d) ELSE {d}) :
              node' = [node EXCEPT ![n] = [e EXCEPT !.vf = "none", !.told = FALSE, !.mod = -1]]
      BY <1>19 DEF LastClose
    <3>2. e \in NodeType
      BY <2>2, <3>1, NodeTypes
    <3>3. [e EXCEPT !.vf = "none", !.told = FALSE, !.mod = -1] \in NodeType
      <4>1. [e EXCEPT !.vf = "none", !.told = FALSE] \in NodeType
        BY <3>2, VfChanges
      <4>2. -1 \in -1..MaxVersion
        BY VersionsAreNumbers
      <4> QED BY <4>1, <4>2, ModChanges
    <3> QED BY <3>1, <3>3 DEF Types
  <2>7. nopen' \in Int /\ lock' \in [Nodes -> Threads \cup {None}] /\ pc' \in [Threads -> Places]
    BY <1>19, <2>1, <2>2 DEF LastClose, Goto, Types, Places
  <2> QED BY <1>19, <2>4, <2>5, <2>6, <2>7 DEF LastClose, Types
<1>20. ASSUME NEW t \in Threads, AfterFlush(t) PROVE Types'
  <2> DEFINE n == nod[t]
  <2>1. n \in Nodes /\ node[n] \in NodeType
    BY <1>0, <1>20 DEF AfterFlush
  <2>2. PICK mod \in {-1} \cup (IF node[n].id = path /\ size[t] = ver[path] THEN {size[t]} ELSE {}) :
            DropCell(n, 1, [node[n] EXCEPT !.mod = mod], 0)
    BY <1>20 DEF AfterFlush
  <2>3. [node[n] EXCEPT !.mod = mod] \in NodeType
    <3>1. mod \in -1..MaxVersion
      BY <2>2, VersionsAreNumbers DEF Types
    <3> QED BY <2>1, <3>1 DEF NodeType
  <2>4. lock' \in [Nodes -> Threads \cup {None}] /\ Out(t) /\ UNCHANGED <<base, cached>>
    BY <1>20, <2>1 DEF AfterFlush, Types
  <2>5. /\ refctr' \in [Nodes -> Int] /\ node' \in [Nodes -> NodeType]
        /\ nopen' \in Int /\ crashed' \in BOOLEAN
        /\ cellref' \in [Nodes -> Int] /\ incell' \in [Nodes -> BOOLEAN]
    BY <2>1, <2>2, <2>3, DropCellTypes
  <2> QED BY <2>4, <2>5, OutTypes DEF Types
<1>21. CASE UNCHANGED vars
  BY <1>21 DEF vars, Types
<1> QED BY <1>1, <1>2, <1>3, <1>4, <1>5, <1>6, <1>7, <1>8, <1>9, <1>10, <1>11, <1>12, <1>13,
           <1>14, <1>15, <1>16, <1>17, <1>18, <1>19, <1>20, <1>21 DEF Next

----------------------------------------------------------------------------
(* The threads.                                                            *)

\* One thread goes on.
LEMMA OneThread ==
    ASSUME ThreadInv, NEW t \in Threads,
           \A u \in Threads \ {t} : pc'[u] = pc[u] /\ nod'[u] = nod[u] /\ ino'[u] = ino[u],
           nod'[t] # None <=> pc'[t] \in {"wait", "open", "stat"},
           pc'[t] \in {"base", "new", "wait"} => ino'[t] \in Inodes
    PROVE  ThreadInv'
BY DEF ThreadInv

\* What the places have in common where no other thread is touched.
LEMMA OutThread ==
    ASSUME Types, ThreadInv, NEW t \in Threads, Out(t)
    PROVE  /\ \A u \in Threads \ {t} :
                 pc'[u] = pc[u] /\ nod'[u] = nod[u] /\ ino'[u] = ino[u] /\ how'[u] = how[u]
           /\ pc'[t] = "out" /\ nod'[t] = None
           /\ ThreadInv'
<1>1. \A u \in Threads \ {t} :
          pc'[u] = pc[u] /\ nod'[u] = nod[u] /\ ino'[u] = ino[u] /\ how'[u] = how[u]
  BY DEF Out, Goto, Types
<1>2. pc'[t] = "out" /\ nod'[t] = None
  BY DEF Out, Goto, Types
<1> QED BY <1>1, <1>2, OneThread

\* A thread that goes from one place to another and keeps its node and its inode.
LEMMA GoThread ==
    ASSUME Types, ThreadInv, NEW t \in Threads, NEW place, Goto(t, place),
           UNCHANGED <<nod, ino>>,
           pc[t] \in {"wait", "open", "stat"}, place \in {"open", "stat"}
    PROVE  /\ \A u \in Threads \ {t} : pc'[u] = pc[u] /\ nod'[u] = nod[u]
           /\ pc'[t] = place /\ nod'[t] = nod[t]
           /\ ThreadInv'
<1>1. \A u \in Threads \ {t} : pc'[u] = pc[u] /\ nod'[u] = nod[u] /\ ino'[u] = ino[u]
  BY DEF Goto, Types
<1>2. pc'[t] = place /\ nod'[t] = nod[t]
  BY DEF Goto, Types
<1>3. nod'[t] # None <=> pc'[t] \in {"wait", "open", "stat"}
  BY <1>2 DEF ThreadInv
<1>4. pc'[t] \notin {"base", "new", "wait"}
  BY <1>2
<1> QED BY <1>1, <1>2, <1>3, <1>4, OneThread

\* The one who is about to use a node holds it.
LEMMA Holder ==
    ASSUME IInv, NEW t \in Threads, pc[t] \in {"wait", "open", "stat"}
    PROVE  /\ nod[t] \in Nodes /\ node[nod[t]] \in NodeType
           /\ t \in Users(nod[t])
           /\ refctr[nod[t]] > 0 /\ cellref[nod[t]] > 0
           /\ node[nod[t]].id \in Inodes
<1>1. nod[t] \in Nodes /\ node[nod[t]] \in NodeType
  BY DEF IInv, ThreadInv, Types
<1>2. t \in Users(nod[t]) /\ IsFiniteSet(Users(nod[t]))
  BY PartIsFinite, ThreadsNodesFinite DEF Users
<1>3. Cardinality(Users(nod[t])) \in Nat /\ Cardinality(Users(nod[t])) > 0
  BY <1>2, CountIsNat
<1>4. refctr[nod[t]] > 0 /\ cellref[nod[t]] > 0
  BY <1>1, <1>3 DEF IInv, RefctrExact
<1> QED BY <1>1, <1>2, <1>4 DEF IInv, NodeInv

----------------------------------------------------------------------------
(* Steps that touch no node.                                               *)

\* A step that touches neither nodes nor threads keeps the invariant.
LEMMA NothingTouched ==
    ASSUME IInv, Types', UNCHANGED <<nopen, nodes, threads>>
    PROVE  IInv'
BY DEF IInv, ThreadInv, NodeInv, RefctrExact, WritersCanWrite, NothingUnsaved, BaseFilesClosed,
       Users, IsWrite, nodes, threads

\* A step of a thread without a node that touches no node keeps the invariant.
LEMMA NoNodeTouched ==
    ASSUME IInv, Types', ThreadInv', NEW t \in Threads, UNCHANGED nodes,
           \A u \in Threads \ {t} : pc'[u] = pc[u] /\ nod'[u] = nod[u] /\ how'[u] = how[u],
           nod[t] = None, nod'[t] = None,
           nopen' - One(t \in Pending') = nopen - One(t \in Pending)
    PROVE  IInv'
<1>1. \A n \in Nodes : Users(n)' = Users(n) /\ Writing(n)' = Writing(n)
  BY NoneIsNothing DEF Users, Writing, IsWrite
<1>2. NodeInv' /\ RefctrExact' /\ NothingUnsaved'
  BY <1>1 DEF IInv, NodeInv, RefctrExact, NothingUnsaved, nodes
<1>3. WritersCanWrite'
  BY <1>1 DEF IInv, WritersCanWrite, Writing, nodes
<1>4. BaseFilesClosed'
  <2>1. /\ Cardinality(Pending) \in Nat /\ Cardinality(Pending') \in Nat
        /\ Cardinality(Pending') = Cardinality(Pending) + One(t \in Pending') - One(t \in Pending)
    BY ThreadNumbers
  <2>2. OpenNodes' = OpenNodes /\ Cardinality(OpenNodes) \in Nat
    BY PartIsFinite, ThreadsNodesFinite DEF OpenNodes, nodes
  <2>3. nopen = Cardinality(Pending) + Cardinality(OpenNodes)
    BY DEF IInv, BaseFilesClosed, Pending, OpenNodes
  <2>4. nopen' = Cardinality(Pending') + Cardinality(OpenNodes')
    <3>1. nopen \in Int /\ nopen' \in Int
      BY DEF IInv, Types
    <3> QED BY <2>1, <2>2, <2>3, <3>1 DEF One
  <2> QED BY <2>4 DEF BaseFilesClosed, Pending, OpenNodes
<1> QED BY <1>2, <1>3, <1>4 DEF IInv

\* OpenBase keeps the invariant.
LEMMA OpenBaseStep ==
    ASSUME IInv, Types', NEW t \in Threads, NEW h \in Hows, OpenBase(t, h)
    PROVE  IInv'
<1>1. \A u \in Threads \ {t} : pc'[u] = pc[u] /\ nod'[u] = nod[u] /\ how'[u] = how[u]
                               /\ ino'[u] = ino[u]
  BY DEF OpenBase, Goto, IInv, Types
<1>2. pc[t] = "out" /\ pc'[t] = "base" /\ nod'[t] = nod[t] /\ ino'[t] = path
  BY DEF OpenBase, Goto, IInv, Types
<1>3. nod[t] = None
  BY <1>2 DEF IInv, ThreadInv
<1>4. ThreadInv'
  <2>1. path \in Inodes
    BY DEF IInv, Types
  <2> QED BY <1>1, <1>2, <1>3, <2>1, OneThread DEF IInv
<1>5. One(t \in Pending') = 1 /\ One(t \in Pending) = 0
  BY <1>2 DEF One, Pending
<1>6. nopen' - One(t \in Pending') = nopen - One(t \in Pending)
  BY <1>5 DEF OpenBase, IInv, Types
<1> QED BY <1>1, <1>2, <1>3, <1>4, <1>6, NoNodeTouched DEF OpenBase

\* GetFileFails keeps the invariant.
LEMMA GetFileFailsStep ==
    ASSUME IInv, Types', NEW t \in Threads, GetFileFails(t)
    PROVE  IInv'
<1>1. /\ \A u \in Threads \ {t} : pc'[u] = pc[u] /\ nod'[u] = nod[u] /\ how'[u] = how[u]
      /\ pc'[t] = "out" /\ nod'[t] = None /\ ThreadInv'
  BY OutThread DEF GetFileFails, IInv
<1>2. pc[t] = "base" /\ nod[t] = None
  BY DEF GetFileFails, IInv, ThreadInv
<1>3. One(t \in Pending') = 0 /\ One(t \in Pending) = 1
  BY <1>1, <1>2 DEF One, Pending
<1>4. nopen' - One(t \in Pending') = nopen - One(t \in Pending)
  BY <1>3 DEF GetFileFails, IInv, Types
<1> QED BY <1>1, <1>2, <1>4, NoNodeTouched DEF GetFileFails

----------------------------------------------------------------------------
(* Getting a node.                                                         *)

\* A thread that has the node n and goes on with it touches no other.
LEMMA OthersUntouched ==
    ASSUME NEW t \in Threads, NEW n \in Nodes,
           nod[t] \in {None, n}, nod'[t] \in {None, n}
    PROVE  \A m \in Nodes \ {n} : t \notin Users(m) /\ t \notin Users(m)'
BY NoneIsNothing DEF Users

\* GetFile keeps the invariant.
LEMMA GetFileStep ==
    ASSUME IInv, Types', NEW t \in Threads, GetFile(t)
    PROVE  IInv'
<1>1. pc[t] = "base" /\ nod[t] = None /\ ino[t] \in Inodes
  BY DEF GetFile, IInv, ThreadInv
<1>2. CASE cached # None /\ incell[cached] /\ node[cached].id = ino[t]
  <2>1. PICK n \in Nodes : cached = n
    BY <1>2 DEF IInv, Types
  <2>2. /\ refctr' = [refctr EXCEPT ![n] = @ + 1] /\ cellref' = [cellref EXCEPT ![n] = @ + 1]
        /\ nod' = [nod EXCEPT ![t] = n] /\ pc' = [pc EXCEPT ![t] = "wait"]
        /\ UNCHANGED <<nopen, node, incell, cached, how, ino>>
    BY <1>2, <2>1 DEF GetFile, Found, Goto
  <2>3. /\ \A u \in Threads \ {t} : pc'[u] = pc[u] /\ nod'[u] = nod[u] /\ how'[u] = how[u]
                                    /\ ino'[u] = ino[u]
        /\ pc'[t] = "wait" /\ nod'[t] = n /\ ino'[t] = ino[t]
    BY <2>2 DEF IInv, Types
  <2>4. ThreadInv'
    <3>1. n # None
      BY <2>1, NoneIsNothing
    <3> QED BY <1>1, <2>3, <3>1, OneThread DEF IInv
  <2>5. /\ refctr'[n] = refctr[n] + 1 /\ cellref'[n] = cellref[n] + 1
        /\ refctr[n] \in Int /\ cellref[n] \in Int
        /\ \A m \in Nodes \ {n} : refctr'[m] = refctr[m] /\ cellref'[m] = cellref[m]
    BY <2>1, <2>2 DEF IInv, Types
  <2>6. One(t \in Users(n)') = 1 /\ One(t \in Users(n)) = 0
    BY <1>1, <2>1, <2>3, NoneIsNothing DEF One, Users
  <2>7. One(t \in Writing(n)') = One(t \in Writing(n))
    BY <1>1, <2>3 DEF One, Writing
  <2>8. One(t \in Pending') = One(t \in Pending) /\ One(n \in OpenNodes') = One(n \in OpenNodes)
    BY <1>1, <2>1, <2>2, <2>3 DEF One, Pending, OpenNodes
  <2>9. \A m \in Nodes \ {n} : t \notin Users(m) /\ t \notin Users(m)'
    BY <1>1, <2>1, <2>3, OthersUntouched
  <2>10. refctr[n] > 0 /\ cellref[n] > 0
    <3>1. Cardinality(Users(n)) \in Nat
      BY PartIsFinite, ThreadsNodesFinite DEF Users
    <3> QED BY <1>2, <2>1, <3>1 DEF IInv, RefctrExact
  <2>11. /\ node[n].id \in Inodes
         /\ node[n].writers > 0 => node[n].vf = "rw" /\ node[n].told
         /\ node[n].dirty => node[n].writers > 0
    BY <2>1, <2>10 DEF IInv, NodeInv, WritersCanWrite, NothingUnsaved
  <2>12. /\ refctr'[n] # 0 /\ cellref'[n] > 0
         /\ cellref'[n] - One(cached' = n) - One(t \in Users(n)') =
                cellref[n] - One(cached = n) - One(t \in Users(n))
         /\ refctr'[n] - One(incell'[n]) - One(t \in Users(n)') =
                refctr[n] - One(incell[n]) - One(t \in Users(n))
    BY <2>2, <2>5, <2>6, <2>10 DEF One
  <2> QED BY <2>1, <2>2, <2>3, <2>4, <2>5, <2>7, <2>8, <2>9, <2>11, <2>12, OneNode
<1>3. CASE ~(cached # None /\ incell[cached] /\ node[cached].id = ino[t])
  <2>1. UNCHANGED <<nopen, nodes, nod, how, ino>> /\ pc' = [pc EXCEPT ![t] = "new"]
    BY <1>3 DEF GetFile, Goto, nodes
  <2>2. /\ \A u \in Threads \ {t} : pc'[u] = pc[u] /\ nod'[u] = nod[u] /\ how'[u] = how[u]
                                    /\ ino'[u] = ino[u]
        /\ pc'[t] = "new" /\ nod'[t] = None /\ ino'[t] = ino[t]
    BY <1>1, <2>1 DEF IInv, Types
  <2>3. ThreadInv'
    BY <1>1, <2>2, OneThread DEF IInv
  <2>4. One(t \in Pending') = One(t \in Pending)
    BY <1>1, <2>2 DEF Pending, One
  <2> QED BY <1>1, <2>1, <2>2, <2>3, <2>4, NoNodeTouched
<1> QED BY <1>2, <1>3

\* What an open makes of a node that has no changes, or of one that is written.
LEMMA OpenedNode ==
    ASSUME Types, NEW t \in Threads, NEW d \in NodeType, NEW e \in Opened(t, d)
    PROVE  /\ e.id = d.id /\ e.vf = d.vf /\ e.told = d.told
           /\ e.writers = d.writers + One(IsWrite(t))
           /\ e.dirty => d.dirty \/ IsWrite(t)
<1> DEFINE w == [d EXCEPT !.writers = IF IsWrite(t) THEN @ + 1 ELSE @]
<1>1. /\ w.id = d.id /\ w.vf = d.vf /\ w.told = d.told /\ w.dirty = d.dirty
      /\ w.writers = d.writers + One(IsWrite(t)) /\ w \in NodeType
  BY DEF NodeType, One
<1>2. e \in IF how[t] = "truncate" THEN Truncated(w) ELSE {w}
  BY DEF Opened
<1> HIDE DEF w
<1>3. CASE how[t] = "truncate"
  <2>1. IsWrite(t)
    BY <1>3 DEF IsWrite
  <2>2. e \in Truncated(w)
    BY <1>2, <1>3
  <2>3. e.id = w.id /\ e.vf = w.vf /\ e.told = w.told /\ e.writers = w.writers
    BY <1>1, <2>2 DEF Truncated, NodeType
  <2> QED BY <1>1, <2>1, <2>3
<1>4. CASE how[t] # "truncate"
  BY <1>1, <1>2, <1>4
<1> QED BY <1>3, <1>4

\* NewNode keeps the invariant.
LEMMA NewNodeStep ==
    ASSUME IInv, Types', NEW t \in Threads, NEW n \in Nodes, NewNode(t, n)
    PROVE  IInv'
<1> DEFINE d == [NoNode EXCEPT !.id = ino[t], !.mod = buf[t], !.vf = VfOf(t), !.told = TRUE]
<1>1. /\ pc[t] = "new" /\ nod[t] = None /\ ino[t] \in Inodes /\ cached = None
      /\ refctr[n] = 0 /\ cellref[n] = 0
  BY DEF NewNode, IInv, ThreadInv
<1>2. /\ \A u \in Threads \ {t} : pc'[u] = pc[u] /\ nod'[u] = nod[u] /\ how'[u] = how[u]
                                  /\ ino'[u] = ino[u]
      /\ pc'[t] = "open" /\ nod'[t] = n /\ how'[t] = how[t]
  BY DEF NewNode, Goto, IInv, Types
<1>3. ThreadInv'
  BY <1>2, OneThread, NoneIsNothing DEF IInv
<1>4. /\ cellref'[n] = 2 /\ refctr'[n] = 2 /\ incell'[n] /\ cached' = n /\ nopen' = nopen
      /\ \A m \in Nodes \ {n} :
             /\ node'[m] = node[m] /\ refctr'[m] = refctr[m] /\ cellref'[m] = cellref[m]
             /\ incell'[m] = incell[m]
  BY DEF NewNode, IInv, Types
<1>5. \A m \in Nodes \ {n} : t \notin Users(m) /\ t \notin Users(m)'
  BY <1>1, <1>2, OthersUntouched
<1>6. d \in NodeType
  BY NodeTypes DEF NodeType, IInv, Types
<1>7. PICK e \in Opened(t, d) : node'[n] = e
  BY DEF NewNode, IInv, Types
<1>8. /\ d.id = ino[t] /\ d.vf = VfOf(t) /\ d.told /\ d.writers = 0 /\ ~d.dirty
  BY DEF NoNode
<1> HIDE DEF d
<1>9. /\ e.id = ino[t] /\ e.vf = VfOf(t) /\ e.told /\ e.writers = One(IsWrite(t))
      /\ e.dirty => IsWrite(t)
  <2>1. /\ e.id = d.id /\ e.vf = d.vf /\ e.told = d.told
        /\ e.writers = d.writers + One(IsWrite(t)) /\ (e.dirty => d.dirty \/ IsWrite(t))
    BY <1>6, OpenedNode DEF IInv
  <2> QED BY <2>1, <1>8 DEF One
<1>10. node[n] = NoNode /\ ~incell[n]
  <2>1. node[n] = NoNode
    BY <1>1 DEF IInv, NodeInv
  <2>2. ~incell[n]
    BY <1>1 DEF IInv, RefctrExact
  <2> QED BY <2>1, <2>2
<1>11. One(t \in Users(n)') = 1 /\ One(t \in Users(n)) = 0
  BY <1>1, <1>2, NoneIsNothing DEF One, Users
<1>12. One(t \in Writing(n)') = One(IsWrite(t)) /\ One(t \in Writing(n)) = 0
  BY <1>1, <1>2 DEF One, Writing, Users, IsWrite
<1>13. One(t \in Pending') = 0 /\ One(t \in Pending) = 1
  BY <1>1, <1>2 DEF One, Pending
<1>14. One(n \in OpenNodes') = 1 /\ One(n \in OpenNodes) = 0
  BY <1>7, <1>9, <1>10 DEF One, OpenNodes, VfOf, NoNode
<1>15. /\ cellref'[n] - One(cached' = n) - One(t \in Users(n)') =
              cellref[n] - One(cached = n) - One(t \in Users(n))
       /\ refctr'[n] - One(incell'[n]) - One(t \in Users(n)') =
              refctr[n] - One(incell[n]) - One(t \in Users(n))
       /\ incell'[n] => cellref'[n] > 0
       /\ refctr'[n] # 0
  BY <1>1, <1>4, <1>10, <1>11, NoneIsNothing DEF One
<1>16. /\ node'[n].id \in Inodes
       /\ node'[n].writers - One(t \in Writing(n)') = node[n].writers - One(t \in Writing(n))
       /\ node'[n].writers > 0 => node'[n].vf = "rw" /\ node'[n].told
       /\ node'[n].dirty => node'[n].writers > 0
  BY <1>1, <1>7, <1>9, <1>10, <1>12 DEF One, NoNode, VfOf
<1>17. nopen' - One(n \in OpenNodes') - One(t \in Pending') =
           nopen - One(n \in OpenNodes) - One(t \in Pending)
  BY <1>4, <1>13, <1>14 DEF IInv, Types
<1>18. \A m \in Nodes \ {n} : cached' = m <=> cached = m
  BY <1>1, <1>4, NoneIsNothing
<1>19. \A u \in Threads \ {t} : pc'[u] = pc[u] /\ nod'[u] = nod[u] /\ how'[u] = how[u]
  BY <1>2
<1>20. \A m \in Nodes \ {n} :
         /\ node'[m] = node[m] /\ refctr'[m] = refctr[m] /\ cellref'[m] = cellref[m]
         /\ incell'[m] = incell[m] /\ (cached' = m <=> cached = m)
         /\ t \notin Users(m) /\ t \notin Users(m)'
  BY <1>4, <1>5, <1>18
<1> QED BY <1>3, <1>15, <1>16, <1>17, <1>19, <1>20, OneNode

\* A thread that waits for its node opens it; what it has validated is fit for it.
LEMMA ValidatedStep ==
    ASSUME IInv, Types', NEW t \in Threads, NEW n \in Nodes, nod[t] = n, pc[t] = "wait",
           NEW d \in NodeType, NEW c \in Int, Validated(t, d, c),
           d.id = node[n].id, d.writers = node[n].writers,
           IsWrite(t) \/ d.writers > 0 => d.vf = "rw" /\ d.told,
           d.dirty => d.writers > 0,
           c = 1 + Open(node[n].vf) - Open(d.vf)
    PROVE  IInv'
<1>1. node[n] \in NodeType /\ refctr[n] > 0 /\ cellref[n] > 0 /\ node[n].id \in Inodes
  BY Holder
<1>2. /\ \A u \in Threads \ {t} : pc'[u] = pc[u] /\ nod'[u] = nod[u] /\ how'[u] = how[u]
      /\ pc'[t] = "open" /\ nod'[t] = n /\ how'[t] = how[t] /\ ThreadInv'
  BY GoThread DEF Validated, IInv
<1>3. /\ UNCHANGED <<refctr, cellref, incell, cached>> /\ nopen' = nopen - c
      /\ \A m \in Nodes \ {n} : node'[m] = node[m]
  BY DEF Validated, IInv, Types
<1>4. PICK e \in Opened(t, d) : node'[n] = e
  BY DEF Validated, IInv, Types
<1>5. /\ e.id = d.id /\ e.vf = d.vf /\ e.told = d.told
      /\ e.writers = d.writers + One(IsWrite(t))
      /\ e.dirty => d.dirty \/ IsWrite(t)
  BY <1>4, OpenedNode DEF IInv
<1>6. \A m \in Nodes \ {n} : t \notin Users(m) /\ t \notin Users(m)'
  BY <1>2, OthersUntouched
<1>7. One(t \in Users(n)') = One(t \in Users(n))
  BY <1>2 DEF One, Users
<1>8. One(t \in Writing(n)') = One(IsWrite(t)) /\ One(t \in Writing(n)) = 0
  BY <1>2 DEF One, Writing, Users, IsWrite
<1>9. One(t \in Pending') = 0 /\ One(t \in Pending) = 1
  BY <1>2 DEF One, Pending
<1>10. One(n \in OpenNodes') = Open(d.vf) /\ One(n \in OpenNodes) = Open(node[n].vf)
  BY <1>4, <1>5 DEF One, OpenNodes, Open
<1>11. /\ cellref'[n] - One(cached' = n) - One(t \in Users(n)') =
              cellref[n] - One(cached = n) - One(t \in Users(n))
       /\ refctr'[n] - One(incell'[n]) - One(t \in Users(n)') =
              refctr[n] - One(incell[n]) - One(t \in Users(n))
       /\ cellref'[n] > 0 /\ refctr'[n] # 0
  BY <1>1, <1>3, <1>7
<1>12. d.writers \in Nat
  BY DEF NodeType
<1>13. /\ node'[n].id \in Inodes
       /\ node'[n].writers - One(t \in Writing(n)') = node[n].writers - One(t \in Writing(n))
       /\ node'[n].writers > 0 => node'[n].vf = "rw" /\ node'[n].told
       /\ node'[n].dirty => node'[n].writers > 0
  BY <1>1, <1>4, <1>5, <1>8, <1>12 DEF One
<1>14. nopen' - One(n \in OpenNodes') - One(t \in Pending') =
           nopen - One(n \in OpenNodes) - One(t \in Pending)
  BY <1>3, <1>9, <1>10 DEF IInv, Types, Open
<1> QED BY <1>2, <1>3, <1>6, <1>11, <1>13, <1>14, OneNode

\* The three ways to validate.
LEMMA RenewStep ==
    ASSUME IInv, Types', NEW t \in Threads, Renew(t)
    PROVE  IInv'
<1>1. pc[t] = "wait"
  BY DEF Renew, Waiting
<1>2. PICK n \in Nodes : nod[t] = n
  BY <1>1, Holder
<1>3. PICK d \in NodeType : node[n] = d
  BY <1>1, <1>2, Holder
<1>4. PICK e : e = [d EXCEPT !.sf = "begin", !.dirty = FALSE, !.vf = VfOf(t), !.told = TRUE,
                             !.mod = buf[t]]
  OBVIOUS
<1>5. /\ e.id = d.id /\ e.writers = d.writers /\ e.vf = VfOf(t) /\ e.told /\ ~e.dirty
      /\ d.writers = 0
  BY <1>2, <1>3, <1>4 DEF NodeType, Renew, Idle
<1>6. e \in NodeType
  <2>1. [d EXCEPT !.sf = "begin", !.dirty = FALSE] \in NodeType
    BY SfChanges
  <2>2. [[d EXCEPT !.sf = "begin", !.dirty = FALSE] EXCEPT !.vf = VfOf(t), !.told = TRUE]
            \in NodeType
    BY <2>1, NodeTypes, VfChanges
  <2> QED BY <1>4, <2>2, ModChanges DEF IInv, Types
<1>7. PICK c \in Int : c = Open(d.vf)
  BY DEF Open
<1>8. Validated(t, e, c)
  BY <1>2, <1>3, <1>4, <1>7 DEF Renew
<1>9. IsWrite(t) \/ e.writers > 0 => e.vf = "rw" /\ e.told
  BY <1>5 DEF VfOf
<1>10. c = 1 + Open(node[n].vf) - Open(e.vf)
  BY <1>3, <1>5, <1>7 DEF Open, VfOf
<1> QED BY <1>1, <1>2, <1>3, <1>5, <1>6, <1>8, <1>9, <1>10, ValidatedStep

\* Switch keeps the invariant.
LEMMA SwitchStep ==
    ASSUME IInv, Types', NEW t \in Threads, Switch(t)
    PROVE  IInv'
<1>1. pc[t] = "wait"
  BY DEF Switch, Waiting
<1>2. PICK n \in Nodes : nod[t] = n
  BY <1>1, Holder
<1>3. PICK d \in NodeType : node[n] = d
  BY <1>1, <1>2, Holder
<1>4. PICK e : e = [d EXCEPT !.vf = "rw", !.told = TRUE]
  OBVIOUS
<1>5. /\ e.id = d.id /\ e.writers = d.writers /\ e.vf = "rw" /\ e.told /\ e.dirty = d.dirty
      /\ d.writers = 0
  BY <1>2, <1>3, <1>4 DEF NodeType, Switch, SwitchNeeded, Idle
<1>6. e \in NodeType
  BY <1>4, VfChanges
<1>7. PICK c \in Int : c = Open(d.vf)
  BY DEF Open
<1>8. Validated(t, e, c)
  BY <1>2, <1>3, <1>4, <1>7 DEF Switch
<1>9. ~e.dirty
  BY <1>3, <1>5 DEF IInv, NothingUnsaved
<1>10. c = 1 + Open(node[n].vf) - Open(e.vf)
  BY <1>3, <1>5, <1>7 DEF Open
<1> QED BY <1>1, <1>2, <1>3, <1>5, <1>6, <1>8, <1>9, <1>10, ValidatedStep

\* Join keeps the invariant.
LEMMA JoinStep ==
    ASSUME IInv, Types', NEW t \in Threads, Join(t)
    PROVE  IInv'
<1>1. pc[t] = "wait"
  BY DEF Join, Waiting
<1>2. PICK n \in Nodes : nod[t] = n
  BY <1>1, Holder
<1>3. PICK d \in NodeType : node[n] = d
  BY <1>1, <1>2, Holder
<1>4. Validated(t, d, 1)
  BY <1>2, <1>3 DEF Join, Surplus
<1>5. IsWrite(t) => d.writers # 0
  BY <1>2, <1>3 DEF Join, SwitchNeeded, Idle
<1>6. (d.writers > 0 => d.vf = "rw" /\ d.told) /\ (d.dirty => d.writers > 0)
  BY <1>3 DEF IInv, WritersCanWrite, NothingUnsaved
<1>7. d.writers \in Nat
  BY DEF NodeType
<1>8. 1 = 1 + Open(node[n].vf) - Open(d.vf)
  BY <1>3 DEF Open
<1> QED BY <1>1, <1>2, <1>3, <1>4, <1>5, <1>6, <1>7, <1>8, ValidatedStep

----------------------------------------------------------------------------
(* Using a node.                                                           *)

\* Who writes to a node is one of its writers.
LEMMA WriterCounted ==
    ASSUME IInv, NEW t \in Threads, NEW n \in Nodes, nod[t] = n, pc[t] = "open", IsWrite(t)
    PROVE  node[n].writers > 0
<1>1. t \in Writing(n) /\ IsFiniteSet(Writing(n))
  <2>1. Writing(n) \subseteq Threads
    BY DEF Writing, Users
  <2> QED BY <2>1, PartIsFinite, ThreadsNodesFinite DEF Writing, Users
<1>2. Cardinality(Writing(n)) \in Nat /\ Cardinality(Writing(n)) > 0
  BY <1>1, CountIsNat
<1> QED BY <1>2 DEF IInv, WritersCanWrite, Writing

\* A use leaves the vfile and the writers of the node alone, and changes it only
\* for a writer.
LEMMA UsedStep ==
    ASSUME IInv, Types', NEW t \in Threads, NEW n \in Nodes, nod[t] = n, pc[t] = "open",
           UNCHANGED <<nopen, refctr, cellref, incell, cached, threads>>,
           NEW e, node' = [node EXCEPT ![n] = e],
           e.id = node[n].id, e.vf = node[n].vf, e.told = node[n].told,
           e.writers = node[n].writers, e.dirty => node[n].dirty \/ IsWrite(t)
    PROVE  IInv'
<1>1. \A m \in Nodes \ {n} : node'[m] = node[m]
  BY DEF IInv, Types
<1>2. node'[n] = e
  BY DEF IInv, Types
<1>3. refctr[n] > 0 /\ node[n].id \in Inodes
  BY Holder
<1>4. ThreadInv'
  BY DEF IInv, ThreadInv, threads
<1>5. /\ Users(n)' = Users(n) /\ Writing(n)' = Writing(n) /\ Pending' = Pending
      /\ One(n \in OpenNodes') = One(n \in OpenNodes)
  BY <1>2 DEF Users, Writing, Pending, OpenNodes, IsWrite, threads, One
<1>6. \A m \in Nodes \ {n} : t \notin Users(m) /\ t \notin Users(m)'
  BY OthersUntouched DEF threads
<1>7. /\ node[n].writers > 0 => node[n].vf = "rw" /\ node[n].told
      /\ node[n].dirty => node[n].writers > 0
      /\ incell[n] => cellref[n] > 0
  BY DEF IInv, WritersCanWrite, NothingUnsaved, RefctrExact
<1>8. IsWrite(t) => node[n].writers > 0
  BY WriterCounted
<1>9. \A u \in Threads \ {t} : pc'[u] = pc[u] /\ nod'[u] = nod[u] /\ how'[u] = how[u]
  BY DEF threads
<1> QED BY <1>1, <1>2, <1>3, <1>4, <1>5, <1>6, <1>7, <1>8, <1>9, OneNode

\* Fetching leaves what a node is of.
LEMMA FetchedNode ==
    ASSUME NEW d \in NodeType, NEW e \in Fetched(d)
    PROVE  e.id = d.id /\ e.vf = d.vf /\ e.told = d.told /\ e.writers = d.writers
           /\ e.dirty = d.dirty
BY DEF Fetched, NodeType

\* Use keeps the invariant.
LEMMA UseStep ==
    ASSUME IInv, Types', NEW t \in Threads, Read(t) \/ GetAttr(t) \/ Lose(t) \/ Write(t)
    PROVE  IInv'
<1>1. pc[t] = "open" /\ UNCHANGED <<nopen, refctr, cellref, incell, cached, threads>>
  BY DEF Read, GetAttr, Lose, Write, Using
<1>2. PICK n \in Nodes : nod[t] = n
  BY <1>1, Holder
<1>3. PICK d \in NodeType : node[n] = d
  BY <1>1, <1>2, Holder
<1>4. \E e : /\ node' = [node EXCEPT ![n] = e]
             /\ e.id = d.id /\ e.vf = d.vf /\ e.told = d.told /\ e.writers = d.writers
             /\ e.dirty => d.dirty \/ IsWrite(t)
  <2>1. CASE Read(t)
    <3>1. PICK e \in Fetched(d) : node' = [node EXCEPT ![n] = e]
      BY <1>2, <1>3, <2>1 DEF Read
    <3>2. /\ e.id = d.id /\ e.vf = d.vf /\ e.told = d.told /\ e.writers = d.writers
          /\ e.dirty = d.dirty
      BY FetchedNode
    <3> QED BY <3>1, <3>2
  <2>2. CASE GetAttr(t)
    <3>1. PICK e \in {d} \cup Fetched(d) : node' = [node EXCEPT ![n] = e]
      BY <1>2, <1>3, <2>2 DEF GetAttr
    <3>2. /\ e.id = d.id /\ e.vf = d.vf /\ e.told = d.told /\ e.writers = d.writers
          /\ e.dirty = d.dirty
      BY FetchedNode
    <3> QED BY <3>1, <3>2
  <2>3. CASE Lose(t)
    <3> DEFINE e == [d EXCEPT !.sf = "begin", !.dirty = FALSE]
    <3>1. node' = [node EXCEPT ![n] = e]
      BY <1>2, <1>3, <2>3 DEF Lose
    <3>2. e.id = d.id /\ e.vf = d.vf /\ e.told = d.told /\ e.writers = d.writers /\ ~e.dirty
      BY DEF NodeType
    <3> QED BY <3>1, <3>2
  <2>4. CASE Write(t)
    <3>1. PICK time \in {d.mod, -1} :
              node' = [node EXCEPT ![n] = [d EXCEPT !.sf = "fini", !.dirty = TRUE, !.mod = time]]
      BY <1>2, <1>3, <2>4 DEF Write
    <3> DEFINE e == [d EXCEPT !.sf = "fini", !.dirty = TRUE, !.mod = time]
    <3>2. e.id = d.id /\ e.vf = d.vf /\ e.told = d.told /\ e.writers = d.writers
      BY DEF NodeType
    <3>3. IsWrite(t)
      BY <2>4 DEF Write
    <3> QED BY <3>1, <3>2, <3>3
  <2> QED BY <2>1, <2>2, <2>3, <2>4
<1>5. PICK e : /\ node' = [node EXCEPT ![n] = e]
               /\ e.id = d.id /\ e.vf = d.vf /\ e.told = d.told /\ e.writers = d.writers
               /\ e.dirty => d.dirty \/ IsWrite(t)
  BY <1>4
<1>6. /\ e.id = node[n].id /\ e.vf = node[n].vf /\ e.told = node[n].told
      /\ e.writers = node[n].writers /\ (e.dirty => node[n].dirty \/ IsWrite(t))
  BY <1>3, <1>5
<1> QED BY <1>1, <1>2, <1>5, <1>6, UsedStep

----------------------------------------------------------------------------
(* Dropping references.                                                    *)

\* What dropping a reference to the cell n, and k to its node, leaves behind.
LEMMA DropCellNumbers ==
    ASSUME IInv, Types', NEW n \in Nodes, cellref[n] > 0, NEW k \in {0, 1},
           NEW d \in NodeType, NEW c \in Int, DropCell(n, k, d, c)
    PROVE  /\ cellref'[n] = cellref[n] - 1
           /\ refctr'[n] - One(incell'[n]) = refctr[n] - k - One(incell[n])
           /\ incell'[n] => cellref'[n] > 0 /\ incell[n]
           /\ refctr'[n] = 0 => node'[n] = NoNode
           /\ refctr'[n] # 0 => node'[n] = d
           /\ nopen' - One(n \in OpenNodes') = nopen - c - Open(d.vf)
           /\ \A m \in Nodes \ {n} :
                 /\ node'[m] = node[m] /\ refctr'[m] = refctr[m]
                 /\ cellref'[m] = cellref[m] /\ incell'[m] = incell[m]
<1> DEFINE had == IF cellref[n] = 1 /\ incell[n] THEN 1 ELSE 0
           r   == refctr[n] - k - had
<1>1. /\ cellref[n] \in Int /\ refctr[n] \in Int /\ incell[n] \in BOOLEAN /\ nopen \in Int
  BY DEF IInv, Types
<1>2. /\ cellref' = [cellref EXCEPT ![n] = @ - 1]
      /\ incell' = [incell EXCEPT ![n] = @ /\ cellref[n] > 1]
      /\ refctr' = [refctr EXCEPT ![n] = r]
      /\ node' = [node EXCEPT ![n] = IF r = 0 THEN NoNode ELSE d]
      /\ nopen' = nopen - c - (IF r = 0 THEN Open(d.vf) ELSE 0)
  BY DEF DropCell, Left
<1>3. /\ cellref'[n] = cellref[n] - 1 /\ (incell'[n] <=> incell[n] /\ cellref[n] > 1)
      /\ refctr'[n] = r /\ node'[n] = IF r = 0 THEN NoNode ELSE d
  BY <1>2 DEF IInv, Types
<1>4. \A m \in Nodes \ {n} :
          /\ node'[m] = node[m] /\ refctr'[m] = refctr[m]
          /\ cellref'[m] = cellref[m] /\ incell'[m] = incell[m]
  BY <1>2 DEF IInv, Types
<1>5. had = One(incell[n]) - One(incell'[n])
  BY <1>1, <1>3 DEF One
<1>6. refctr'[n] - One(incell'[n]) = refctr[n] - k - One(incell[n])
  BY <1>1, <1>3, <1>5 DEF One
<1>7. nopen' - One(n \in OpenNodes') = nopen - c - Open(d.vf)
  <2>1. CASE r = 0
    <3>1. nopen' = nopen - c - Open(d.vf)
      BY <1>2, <2>1
    <3>2. One(n \in OpenNodes') = 0
      BY <1>3, <2>1 DEF OpenNodes, NoNode, One
    <3> QED BY <1>1, <3>1, <3>2 DEF Open
  <2>2. CASE r # 0
    BY <1>1, <1>2, <1>3, <2>2 DEF OpenNodes, One, Open
  <2> QED BY <2>1, <2>2
<1> QED BY <1>1, <1>3, <1>4, <1>6, <1>7

\* A thread leaves its node; what it makes of the node is fit for the others.
LEMMA LeavingStep ==
    ASSUME IInv, Types', NEW t \in Threads, NEW n \in Nodes, nod[t] = n,
           pc[t] \in {"wait", "open", "stat"}, NEW d \in NodeType, NEW c \in Int,
           DropCell(n, 1, d, c), Out(t), UNCHANGED cached,
           d.id = node[n].id, d.vf = node[n].vf, d.told = node[n].told,
           d.writers = node[n].writers - One(t \in Writing(n)),
           d.dirty = node[n].dirty, d.dirty => d.writers > 0,
           c = One(pc[t] = "wait")
    PROVE  IInv'
<1>1. node[n] \in NodeType /\ refctr[n] > 0 /\ cellref[n] > 0 /\ node[n].id \in Inodes
      /\ t \in Users(n)
  BY Holder
<1>2. /\ \A u \in Threads \ {t} : pc'[u] = pc[u] /\ nod'[u] = nod[u] /\ how'[u] = how[u]
      /\ pc'[t] = "out" /\ nod'[t] = None /\ ThreadInv'
  BY OutThread DEF IInv
<1>3. /\ cellref'[n] = cellref[n] - 1
      /\ refctr'[n] - One(incell'[n]) = refctr[n] - 1 - One(incell[n])
      /\ incell'[n] => cellref'[n] > 0
      /\ refctr'[n] = 0 => node'[n] = NoNode
      /\ refctr'[n] # 0 => node'[n] = d
      /\ nopen' - One(n \in OpenNodes') = nopen - c - Open(d.vf)
      /\ \A m \in Nodes \ {n} :
            /\ node'[m] = node[m] /\ refctr'[m] = refctr[m]
            /\ cellref'[m] = cellref[m] /\ incell'[m] = incell[m]
  BY <1>1, DropCellNumbers
<1>4. One(t \in Users(n)') = 0 /\ One(t \in Users(n)) = 1
  BY <1>1, <1>2, NoneIsNothing DEF One, Users
<1>5. One(t \in Writing(n)') = 0
  BY <1>2 DEF One, Writing
<1>6. One(t \in Pending') = 0 /\ One(t \in Pending) = c
  BY <1>2 DEF One, Pending
<1>7. One(n \in OpenNodes) = Open(d.vf)
  BY DEF One, OpenNodes, Open
<1>8. \A m \in Nodes \ {n} : t \notin Users(m) /\ t \notin Users(m)'
  BY <1>2, OthersUntouched
<1>9. /\ cellref[n] \in Int /\ refctr[n] \in Int /\ refctr'[n] \in Int /\ nopen \in Int
      /\ nopen' \in Int /\ node[n].writers \in Int
  BY <1>1 DEF IInv, Types, NodeType
<1>10. /\ cellref'[n] - One(cached' = n) - One(t \in Users(n)') =
              cellref[n] - One(cached = n) - One(t \in Users(n))
       /\ refctr'[n] - One(incell'[n]) - One(t \in Users(n)') =
              refctr[n] - One(incell[n]) - One(t \in Users(n))
  BY <1>3, <1>4, <1>9 DEF One
<1>11. nopen' - One(n \in OpenNodes') - One(t \in Pending') =
           nopen - One(n \in OpenNodes) - One(t \in Pending)
  BY <1>3, <1>6, <1>7, <1>9 DEF One, Open
<1>12. d.writers > 0 => d.vf = "rw" /\ d.told
  <2>1. node[n].writers > 0 => node[n].vf = "rw" /\ node[n].told
    BY DEF IInv, WritersCanWrite
  <2> QED BY <1>9, <2>1 DEF One
<1>13. refctr'[n] # 0 =>
          /\ node'[n].id \in Inodes
          /\ node'[n].writers - One(t \in Writing(n)') =
                 node[n].writers - One(t \in Writing(n))
          /\ node'[n].writers > 0 => node'[n].vf = "rw" /\ node'[n].told
          /\ node'[n].dirty => node'[n].writers > 0
  BY <1>1, <1>3, <1>5, <1>9, <1>12 DEF One
<1> QED BY <1>2, <1>3, <1>8, <1>10, <1>11, <1>13, OneNode

\* SwitchFails keeps the invariant.
LEMMA SwitchFailsStep ==
    ASSUME IInv, Types', NEW t \in Threads, SwitchFails(t)
    PROVE  IInv'
<1>1. pc[t] = "wait"
  BY DEF SwitchFails, Waiting
<1>2. PICK n \in Nodes : nod[t] = n
  BY <1>1, Holder
<1>3. PICK d \in NodeType : node[n] = d
  BY <1>1, <1>2, Holder
<1>4. PICK c \in Int : c = 1
  OBVIOUS
<1>5. DropCell(n, 1, d, c) /\ Out(t) /\ UNCHANGED cached
  BY <1>2, <1>3, <1>4 DEF SwitchFails
<1>6. One(t \in Writing(n)) = 0 /\ c = One(pc[t] = "wait")
  BY <1>1, <1>4 DEF One, Writing
<1>7. d.writers = node[n].writers - One(t \in Writing(n))
  BY <1>3, <1>6 DEF NodeType
<1>8. d.dirty => d.writers > 0
  BY <1>3 DEF IInv, NothingUnsaved
<1> QED BY <1>1, <1>2, <1>3, <1>5, <1>6, <1>7, <1>8, LeavingStep

\* Close keeps the invariant.
LEMMA CloseStep ==
    ASSUME IInv, Types', NEW t \in Threads, Close(t)
    PROVE  IInv'
<1>1. pc[t] = "open"
  BY DEF Close, Using
<1>2. PICK n \in Nodes : nod[t] = n
  BY <1>1, Holder
<1>3. PICK d \in NodeType : node[n] = d
  BY <1>1, <1>2, Holder
<1>4. PICK e : e = [d EXCEPT !.writers = IF IsWrite(t) THEN @ - 1 ELSE @]
  OBVIOUS
<1>5. IsWrite(t) => d.writers > 1
  BY <1>2, <1>3 DEF Close
<1>6. /\ e.id = d.id /\ e.vf = d.vf /\ e.told = d.told /\ e.dirty = d.dirty
      /\ e.writers = d.writers - One(IsWrite(t)) /\ e \in NodeType
  BY <1>4, <1>5 DEF NodeType, One
<1>7. DropCell(n, 1, e, 0) /\ Out(t) /\ UNCHANGED cached
  BY <1>2, <1>3, <1>4 DEF Close
<1>8. One(t \in Writing(n)) = One(IsWrite(t)) /\ One(pc[t] = "wait") = 0
  BY <1>1, <1>2 DEF One, Writing, Users
<1>9. e.dirty => e.writers > 0
  <2>1. (d.dirty => d.writers > 0) /\ d.writers \in Nat
    BY <1>3 DEF IInv, NothingUnsaved, NodeType
  <2> QED BY <1>5, <1>6, <2>1 DEF One
<1>10. e.writers = node[n].writers - One(t \in Writing(n))
  BY <1>3, <1>6, <1>8
<1> QED BY <1>1, <1>2, <1>3, <1>6, <1>7, <1>8, <1>9, <1>10, LeavingStep

\* AfterFlush keeps the invariant.
LEMMA AfterFlushStep ==
    ASSUME IInv, Types', NEW t \in Threads, AfterFlush(t)
    PROVE  IInv'
<1>1. pc[t] = "stat"
  BY DEF AfterFlush
<1>2. PICK n \in Nodes : nod[t] = n
  BY <1>1, Holder
<1>3. PICK d \in NodeType : node[n] = d
  BY <1>1, <1>2, Holder
<1>4. PICK mod \in {-1} \cup (IF d.id = path /\ size[t] = ver[path] THEN {size[t]} ELSE {}) :
          DropCell(n, 1, [d EXCEPT !.mod = mod], 0)
  BY <1>2, <1>3 DEF AfterFlush
<1>5. PICK e : e = [d EXCEPT !.mod = mod]
  OBVIOUS
<1>6. e \in NodeType
  <2>1. mod \in -1..MaxVersion
    BY <1>4, VersionsAreNumbers DEF IInv, Types
  <2> QED BY <1>5, <2>1, ModChanges
<1>7. /\ e.id = d.id /\ e.vf = d.vf /\ e.told = d.told /\ e.dirty = d.dirty
      /\ e.writers = d.writers
  BY <1>5 DEF NodeType
<1>8. DropCell(n, 1, e, 0) /\ Out(t) /\ UNCHANGED cached
  BY <1>4, <1>5 DEF AfterFlush
<1>9. One(t \in Writing(n)) = 0 /\ One(pc[t] = "wait") = 0
  BY <1>1 DEF One, Writing
<1>10. e.dirty => e.writers > 0
  BY <1>3, <1>7 DEF IInv, NothingUnsaved
<1>11. e.writers = node[n].writers - One(t \in Writing(n))
  BY <1>3, <1>7, <1>9 DEF NodeType
<1> QED BY <1>1, <1>2, <1>3, <1>6, <1>7, <1>8, <1>9, <1>10, <1>11, LeavingStep

\* The flush of the last writer: it is a writer no more, and its changes are gone,
\* but it still holds the node.
LEMMA LastCloseStep ==
    ASSUME IInv, Types', NEW t \in Threads, LastClose(t)
    PROVE  IInv'
<1>1. pc[t] = "open"
  BY DEF LastClose, Using
<1>2. PICK n \in Nodes : nod[t] = n
  BY <1>1, Holder
<1>3. PICK d \in NodeType : node[n] = d
  BY <1>1, <1>2, Holder
<1>4. IsWrite(t) /\ d.writers = 1
  BY <1>2, <1>3 DEF LastClose
<1>5. PICK w : w = [d EXCEPT !.writers = 0]
  OBVIOUS
<1>6. w.id = d.id /\ w.vf = d.vf /\ w.writers = 0 /\ w.dirty = d.dirty /\ w \in NodeType
  BY <1>5 DEF NodeType
<1>7. PICK e \in (IF w.dirty THEN Flushed(w) ELSE {w}) :
          node' = [node EXCEPT ![n] = [e EXCEPT !.vf = "none", !.told = FALSE, !.mod = -1]]
  BY <1>2, <1>3, <1>5 DEF LastClose
<1>8. e.id = d.id /\ e.writers = 0 /\ ~e.dirty /\ e \in NodeType
  <2>1. CASE w.dirty
    <3>1. e \in Flushed(w)
      BY <1>7, <2>1
    <3>2. e \in NodeType
      BY <1>6, <3>1, NodeTypes
    <3> QED BY <1>6, <3>1, <3>2 DEF Flushed, NodeType
  <2>2. CASE ~w.dirty
    BY <1>6, <1>7, <2>2
  <2> QED BY <2>1, <2>2
<1>9. /\ node'[n] = [e EXCEPT !.vf = "none", !.told = FALSE, !.mod = -1]
      /\ \A m \in Nodes \ {n} : node'[m] = node[m]
  BY <1>7 DEF IInv, Types
<1>10. /\ node'[n].id = d.id /\ node'[n].writers = 0 /\ ~node'[n].dirty
       /\ node'[n].vf = "none"
  BY <1>8, <1>9 DEF NodeType
<1>11. /\ nopen' = nopen - Open(d.vf) /\ Goto(t, "stat")
       /\ UNCHANGED <<refctr, cellref, incell, cached, nod, how, ino>>
  BY <1>2, <1>3, <1>5, <1>6 DEF LastClose
<1>12. /\ \A u \in Threads \ {t} : pc'[u] = pc[u] /\ nod'[u] = nod[u] /\ how'[u] = how[u]
       /\ pc'[t] = "stat" /\ nod'[t] = n /\ ThreadInv'
  <2>1. UNCHANGED <<nod, ino>> /\ pc[t] \in {"wait", "open", "stat"}
    BY <1>1, <1>11
  <2>2. /\ \A u \in Threads \ {t} : pc'[u] = pc[u] /\ nod'[u] = nod[u]
        /\ pc'[t] = "stat" /\ nod'[t] = nod[t] /\ ThreadInv'
    BY <1>11, <2>1, GoThread DEF IInv
  <2> QED BY <1>2, <1>11, <2>2
<1>13. One(t \in Users(n)') = One(t \in Users(n))
  BY <1>2, <1>12 DEF One, Users
<1>14. One(t \in Writing(n)') = 0 /\ One(t \in Writing(n)) = 1
  BY <1>1, <1>2, <1>4, <1>12 DEF One, Writing, Users
<1>15. One(t \in Pending') = 0 /\ One(t \in Pending) = 0
  BY <1>1, <1>12 DEF One, Pending
<1>16. One(n \in OpenNodes') = 0 /\ One(n \in OpenNodes) = Open(d.vf)
  BY <1>3, <1>10 DEF One, OpenNodes, Open
<1>17. nopen' - One(n \in OpenNodes') - One(t \in Pending') =
           nopen - One(n \in OpenNodes) - One(t \in Pending)
  BY <1>11, <1>15, <1>16 DEF IInv, Types, Open
<1>18. \A m \in Nodes \ {n} : t \notin Users(m) /\ t \notin Users(m)'
  BY <1>2, <1>12, OthersUntouched
<1>19. /\ node'[n].id \in Inodes
       /\ node'[n].writers - One(t \in Writing(n)') = node[n].writers - One(t \in Writing(n))
       /\ ~(node'[n].writers > 0)
  <2>1. node[n].id \in Inodes
    BY <1>1, <1>2, Holder
  <2> QED BY <1>3, <1>4, <1>10, <1>14, <2>1
<1>20. /\ cellref'[n] - One(cached' = n) - One(t \in Users(n)') =
              cellref[n] - One(cached = n) - One(t \in Users(n))
       /\ refctr'[n] - One(incell'[n]) - One(t \in Users(n)') =
              refctr[n] - One(incell[n]) - One(t \in Users(n))
       /\ incell'[n] => cellref'[n] > 0
       /\ refctr'[n] # 0
  <2>1. refctr[n] > 0 /\ cellref[n] > 0
    BY <1>1, <1>2, Holder
  <2> QED BY <1>11, <1>13, <2>1
<1> QED BY <1>9, <1>10, <1>11, <1>12, <1>17, <1>18, <1>19, <1>20, OneNode

\* What no thread does: None stands for the one who does it.
LEMMA ExpireStep ==
    ASSUME IInv, Types', Expire
    PROVE  IInv'
<1>1. PICK n \in Nodes : cached = n
  BY DEF Expire, IInv, Types
<1>2. PICK d \in NodeType : node[n] = d
  BY DEF IInv, Types
<1>3. DropCell(n, 0, d, 0) /\ cached' = None /\ UNCHANGED threads
  BY <1>1, <1>2 DEF Expire
<1>4. cellref[n] > 0
  <2>1. Cardinality(Users(n)) \in Nat
    BY PartIsFinite, ThreadsNodesFinite DEF Users
  <2> QED BY <1>1, <2>1 DEF IInv, RefctrExact
<1>5. /\ cellref'[n] = cellref[n] - 1
      /\ refctr'[n] - One(incell'[n]) = refctr[n] - 0 - One(incell[n])
      /\ incell'[n] => cellref'[n] > 0 /\ incell[n]
      /\ refctr'[n] = 0 => node'[n] = NoNode
      /\ refctr'[n] # 0 => node'[n] = d
      /\ nopen' - One(n \in OpenNodes') = nopen - 0 - Open(d.vf)
      /\ \A m \in Nodes \ {n} :
            /\ node'[m] = node[m] /\ refctr'[m] = refctr[m]
            /\ cellref'[m] = cellref[m] /\ incell'[m] = incell[m]
  BY <1>3, <1>4, DropCellNumbers
<1>6. ThreadInv'
  BY <1>3 DEF IInv, ThreadInv, threads
<1>7. /\ \A m \in Nodes : None \notin Users(m) /\ None \notin Users(m)'
      /\ One(None \in Writing(n)') = One(None \in Writing(n))
      /\ One(None \in Users(n)') = 0 /\ One(None \in Users(n)) = 0
      /\ One(None \in Pending') = 0 /\ One(None \in Pending) = 0
  BY NoneIsNothing DEF Users, Writing, Pending, One
<1>8. One(n \in OpenNodes) = Open(d.vf)
  BY <1>2 DEF One, OpenNodes, Open
<1>9. /\ cellref[n] \in Int /\ refctr[n] \in Int /\ refctr'[n] \in Int /\ nopen \in Int
      /\ nopen' \in Int /\ cellref'[n] \in Int
  BY DEF IInv, Types
<1>10. /\ cellref'[n] - One(cached' = n) - One(None \in Users(n)') =
              cellref[n] - One(cached = n) - One(None \in Users(n))
       /\ refctr'[n] - One(incell'[n]) - One(None \in Users(n)') =
              refctr[n] - One(incell[n]) - One(None \in Users(n))
  BY <1>1, <1>3, <1>5, <1>7, <1>9, NoneIsNothing DEF One
<1>11. nopen' - One(n \in OpenNodes') - One(None \in Pending') =
           nopen - One(n \in OpenNodes) - One(None \in Pending)
  <2>1. One(n \in OpenNodes') \in Int /\ Open(d.vf) \in Int
    BY DEF One, Open
  <2> QED BY <1>5, <1>7, <1>8, <1>9, <2>1
<1>12. /\ refctr[n] > 0 => node[n].id \in Inodes
       /\ node[n].writers > 0 => node[n].vf = "rw" /\ node[n].told
       /\ node[n].dirty => node[n].writers > 0
  BY DEF IInv, NodeInv, WritersCanWrite, NothingUnsaved
<1>13. refctr'[n] > 0 => refctr[n] > 0
  <2>1. refctr[n] = Cardinality(Users(n)) + One(incell[n])
    BY DEF IInv, RefctrExact, One
  <2>2. Cardinality(Users(n)) \in Nat
    BY PartIsFinite, ThreadsNodesFinite DEF Users
  <2> QED BY <1>5, <1>9, <2>1, <2>2 DEF One
<1>14. \A m \in Nodes \ {n} : cached' = m <=> cached = m
  BY <1>1, <1>3, NoneIsNothing
<1>15. refctr'[n] > 0 =>
          /\ node'[n].id \in Inodes
          /\ node'[n].writers - One(None \in Writing(n)') =
                 node[n].writers - One(None \in Writing(n))
          /\ node'[n].writers > 0 => node'[n].vf = "rw" /\ node'[n].told
          /\ node'[n].dirty => node'[n].writers > 0
  BY <1>2, <1>5, <1>7, <1>12, <1>13
<1>16. \A u \in Threads \ {None} : pc'[u] = pc[u] /\ nod'[u] = nod[u] /\ how'[u] = how[u]
  BY <1>3 DEF threads
<1> QED BY <1>5, <1>6, <1>7, <1>10, <1>11, <1>14, <1>15, <1>16, OneNode

\* Evict keeps the invariant.
LEMMA EvictStep ==
    ASSUME IInv, Types', NEW n \in Nodes, Evict(n)
    PROVE  IInv'
<1>1. PICK d \in NodeType : node[n] = d
  BY DEF IInv, Types
<1>2. PICK k \in Int : k = refctr[n] - 1
  BY DEF IInv, Types
<1>3. /\ incell[n] /\ incell' = [incell EXCEPT ![n] = FALSE] /\ Left(n, k, d, 0)
      /\ UNCHANGED <<cellref, cached, threads>>
  BY <1>1, <1>2 DEF Evict
<1>4. /\ refctr'[n] = k /\ node'[n] = (IF k = 0 THEN NoNode ELSE d) /\ ~incell'[n]
      /\ nopen' = nopen - 0 - (IF k = 0 THEN Open(d.vf) ELSE 0)
      /\ \A m \in Nodes \ {n} :
            /\ node'[m] = node[m] /\ refctr'[m] = refctr[m]
            /\ cellref'[m] = cellref[m] /\ incell'[m] = incell[m]
  BY <1>3 DEF Left, IInv, Types
<1>5. ThreadInv'
  BY <1>3 DEF IInv, ThreadInv, threads
<1>6. /\ \A m \in Nodes : None \notin Users(m) /\ None \notin Users(m)'
      /\ One(None \in Writing(n)') = One(None \in Writing(n))
      /\ One(None \in Users(n)') = 0 /\ One(None \in Users(n)) = 0
      /\ One(None \in Pending') = 0 /\ One(None \in Pending) = 0
  BY NoneIsNothing DEF Users, Writing, Pending, One
<1>7. One(n \in OpenNodes) = Open(d.vf) /\ Open(d.vf) \in Int
  BY <1>1 DEF One, OpenNodes, Open
<1>8. One(n \in OpenNodes') = IF k = 0 THEN 0 ELSE Open(d.vf)
  BY <1>4 DEF One, OpenNodes, Open, NoNode
<1>9. nopen' - One(n \in OpenNodes') - One(None \in Pending') =
          nopen - One(n \in OpenNodes) - One(None \in Pending)
  <2>1. nopen \in Int
    BY DEF IInv, Types
  <2> QED BY <1>4, <1>6, <1>7, <1>8, <2>1
<1>10. /\ cellref'[n] - One(cached' = n) - One(None \in Users(n)') =
              cellref[n] - One(cached = n) - One(None \in Users(n))
       /\ refctr'[n] - One(incell'[n]) - One(None \in Users(n)') =
              refctr[n] - One(incell[n]) - One(None \in Users(n))
  <2>1. refctr[n] \in Int
    BY DEF IInv, Types
  <2> QED BY <1>2, <1>3, <1>4, <1>6, <2>1 DEF One
<1>11. refctr'[n] > 0 => refctr[n] > 0
  BY <1>2, <1>4 DEF IInv, Types
<1>12. /\ refctr[n] > 0 => node[n].id \in Inodes
       /\ node[n].writers > 0 => node[n].vf = "rw" /\ node[n].told
       /\ node[n].dirty => node[n].writers > 0
  BY DEF IInv, NodeInv, WritersCanWrite, NothingUnsaved
<1>13. refctr'[n] > 0 =>
          /\ node'[n].id \in Inodes
          /\ node'[n].writers - One(None \in Writing(n)') =
                 node[n].writers - One(None \in Writing(n))
          /\ node'[n].writers > 0 => node'[n].vf = "rw" /\ node'[n].told
          /\ node'[n].dirty => node'[n].writers > 0
  BY <1>1, <1>4, <1>6, <1>11, <1>12
<1>14. \A u \in Threads \ {None} : pc'[u] = pc[u] /\ nod'[u] = nod[u] /\ how'[u] = how[u]
  BY <1>3 DEF threads
<1>15. refctr'[n] = 0 => node'[n] = NoNode
  BY <1>4
<1>16. \A m \in Nodes \ {n} :
           /\ node'[m] = node[m] /\ refctr'[m] = refctr[m] /\ cellref'[m] = cellref[m]
           /\ incell'[m] = incell[m] /\ (cached' = m <=> cached = m)
           /\ None \notin Users(m) /\ None \notin Users(m)'
  BY <1>3, <1>4, <1>6
<1>17. incell'[n] => cellref'[n] > 0
  BY <1>4
<1> QED BY <1>5, <1>9, <1>10, <1>13, <1>14, <1>15, <1>16, <1>17, OneNode

----------------------------------------------------------------------------
(* The theorems.                                                           *)

\* The invariant holds at the start.
LEMMA InvInit == Init => IInv
<1> SUFFICES ASSUME Init PROVE IInv
  OBVIOUS
<1>1. Types
  BY TypesInit
<1>2. ThreadInv /\ NodeInv /\ NothingUnsaved
  BY DEF Init, ThreadInv, NodeInv, NothingUnsaved, NoNode
<1>3. \A n \in Nodes : Users(n) = {} /\ Writing(n) = {}
  BY NoneIsNothing DEF Init, Users, Writing
<1>4. Pending = {} /\ OpenNodes = {}
  BY DEF Init, Pending, OpenNodes, NoNode
<1>5. /\ \A n \in Nodes : Cardinality(Users(n)) = 0 /\ Cardinality(Writing(n)) = 0
      /\ Cardinality(Pending) = 0 /\ Cardinality(OpenNodes) = 0
  BY <1>3, <1>4, FS_EmptySet
<1>6. RefctrExact
  BY <1>5, NoneIsNothing DEF Init, RefctrExact
<1>7. WritersCanWrite
  <2>1. \A n \in Nodes : node[n].writers = 0
    BY DEF Init, NoNode
  <2> QED BY <1>5, <2>1 DEF WritersCanWrite, Writing
<1>8. BaseFilesClosed
  BY <1>5 DEF Init, BaseFilesClosed, Pending, OpenNodes
<1> QED BY <1>1, <1>2, <1>6, <1>7, <1>8 DEF IInv

\* Every step keeps the invariant.
LEMMA InvNext == IInv /\ [Next]_vars => IInv'
<1> SUFFICES ASSUME IInv, [Next]_vars PROVE IInv'
  OBVIOUS
<1>0. Types'
  BY TypesStep DEF IInv
<1>1. CASE Modify
  BY <1>0, <1>1, NothingTouched DEF Modify
<1>2. CASE Expire
  BY <1>0, <1>2, ExpireStep
<1>3. ASSUME NEW i \in Inodes, Rename(i) PROVE IInv'
  BY <1>0, <1>3, NothingTouched DEF Rename
<1>4. ASSUME NEW n \in Nodes, Evict(n) PROVE IInv'
  BY <1>0, <1>4, EvictStep
<1>5. ASSUME NEW t \in Threads, NEW h \in Hows, OpenBase(t, h) PROVE IInv'
  BY <1>0, <1>5, OpenBaseStep
<1>6. ASSUME NEW t \in Threads, NEW n \in Nodes, NewNode(t, n) PROVE IInv'
  BY <1>0, <1>6, NewNodeStep
<1>7. ASSUME NEW t \in Threads, SetAttr(t) PROVE IInv'
  BY <1>0, <1>7, NothingTouched DEF SetAttr
<1>8. ASSUME NEW t \in Threads,
             \/ GetFile(t) \/ GetFileFails(t) \/ Renew(t) \/ Switch(t) \/ Join(t)
      PROVE  IInv'
  BY <1>0, <1>8, GetFileStep, GetFileFailsStep, RenewStep, SwitchStep, JoinStep
<1>9. ASSUME NEW t \in Threads, \/ Read(t) \/ GetAttr(t) \/ Lose(t) \/ Write(t)
      PROVE  IInv'
  BY <1>0, <1>9, UseStep
<1>10. ASSUME NEW t \in Threads,
              \/ SwitchFails(t) \/ Close(t) \/ LastClose(t) \/ AfterFlush(t)
       PROVE  IInv'
  BY <1>0, <1>10, SwitchFailsStep, CloseStep, LastCloseStep, AfterFlushStep
<1>11. CASE UNCHANGED vars
  BY <1>0, <1>11, NothingTouched DEF vars
<1> QED BY <1>1, <1>2, <1>3, <1>4, <1>5, <1>6, <1>7, <1>8, <1>9, <1>10, <1>11 DEF Next

\* The inductive invariant holds in every reachable state.
LEMMA Invariant == Spec => []IInv
<1>1. Init => IInv
  BY InvInit
<1>2. IInv /\ [Next]_vars => IInv'
  BY InvNext
<1> QED BY <1>1, <1>2, PTL DEF Spec

\* The counts are exact, so that neither a node nor a cell is freed while it is
\* used, nor kept for ever (filtnode_free, cacheobj_free, filecache_delete).
THEOREM RefctrCorrect == Spec => []RefctrExact
<1>1. IInv => RefctrExact
  BY DEF IInv
<1> QED BY <1>1, Invariant, PTL

\* As long as somebody writes to a node, its serial file has a base file that can
\* be read and written (filt_validate_file, filt_afterflush).
THEOREM WritersCorrect == Spec => []WritersCanWrite
<1>1. IInv => WritersCanWrite
  BY DEF IInv
<1> QED BY <1>1, Invariant, PTL

\* Changes have a writer whose close will flush them (filt_close, filtnode_free).
THEOREM UnsavedCorrect == Spec => []NothingUnsaved
<1>1. IInv => NothingUnsaved
  BY DEF IInv
<1> QED BY <1>1, Invariant, PTL

\* Every base file that was opened is closed, and once (filt_validate_file,
\* filt_afterflush, filtnode_free, and the error paths of filt_open).
THEOREM BaseFilesCorrect == Spec => []BaseFilesClosed
<1>1. IInv => BaseFilesClosed
  BY DEF IInv
<1> QED BY <1>1, Invariant, PTL

\* The types of the state; that the counts are never negative follows from what
\* they count.
THEOREM TypeCorrect == Spec => []TypeOK
<1>1. IInv => TypeOK
  <2> SUFFICES ASSUME IInv PROVE TypeOK
    OBVIOUS
  <2>1. \A n \in Nodes : Cardinality(Users(n)) \in Nat
    BY PartIsFinite, ThreadsNodesFinite DEF Users
  <2>2. \A n \in Nodes : refctr[n] \in Nat /\ cellref[n] \in Nat
    BY <2>1 DEF IInv, RefctrExact
  <2>3. Cardinality(Pending) \in Nat /\ Cardinality(OpenNodes) \in Nat
    BY PartIsFinite, ThreadsNodesFinite DEF Pending, OpenNodes
  <2>4. nopen \in Nat
    BY <2>3 DEF IInv, BaseFilesClosed, Pending, OpenNodes
  <2>5. refctr \in [Nodes -> Nat] /\ cellref \in [Nodes -> Nat]
    BY <2>2 DEF IInv, Types
  <2> QED BY <2>4, <2>5 DEF IInv, Types, TypeOK
<1> QED BY <1>1, Invariant, PTL

=============================================================================
