----------------------------- MODULE CacheProofs -----------------------------
(***************************************************************************)
(* Proofs about Cache: types, the list, and the reference counts, for any  *)
(* number of threads, cells and objects.                                   *)
(***************************************************************************)
EXTENDS Cache, FiniteSetTheorems, WellFoundedInduction, TLAPS

----------------------------------------------------------------------------
(* Lists: cacheobj_remove and cacheobj_insert.                             *)

NoDup(s) == \A i, j \in DOMAIN s : s[i] = s[j] => i = j

\* Whatever is removed, what remains is a list of cells.
LEMMA WithoutType ==
    ASSUME NEW S, NEW s \in Seq(S), NEW c
    PROVE  Without(s, c) \in Seq(S)
<1> DEFINE n == Len(s) - 1
<1>1. CASE Len(s) = 0
  <2>1. Without(s, c) \in [1..0 -> S]
    BY <1>1 DEF Without
  <2> QED BY <2>1
<1>2. CASE Len(s) # 0
  <2>1. n \in Nat /\ \A j \in 1..n : s[j] \in S /\ s[j + 1] \in S
    BY <1>2
  <2>2. Without(s, c) \in [1..n -> S]
    BY <2>1 DEF Without
  <2> QED BY <2>1, <2>2
<1> QED BY <1>1, <1>2

\* Inserting in front yields a list.
LEMMA InFrontType ==
    ASSUME NEW S, NEW s \in Seq(S), NEW c \in S
    PROVE  InFront(s, c) \in Seq(S)
<1>1. Len(s) + 1 \in Nat /\ \A j \in 2..(Len(s) + 1) : s[j - 1] \in S
  OBVIOUS
<1>2. InFront(s, c) \in [1..(Len(s) + 1) -> S]
  BY <1>1 DEF InFront
<1> QED BY <1>1, <1>2

\* Removing a cell from a list without duplicates removes it and nothing else.
LEMMA WithoutProperties ==
    ASSUME NEW S, NEW s \in Seq(S), NoDup(s), NEW c \in Listed(s)
    PROVE  /\ NoDup(Without(s, c))
           /\ Listed(Without(s, c)) = Listed(s) \ {c}
<1> DEFINE w == Without(s, c)
           p == Position(s, c)
           n == Len(s)
<1>1. p \in 1..n /\ s[p] = c
  BY DEF Position, Listed
<1>2. n \in Nat /\ DOMAIN s = 1..n
  OBVIOUS
<1>3. DOMAIN w = 1..(n - 1)
  BY DEF Without
<1>4. \A j \in 1..(n - 1) : w[j] = IF j < p THEN s[j] ELSE s[j + 1]
  BY DEF Without
<1> HIDE DEF w, p, n
<1>5. NoDup(w)
  <2> SUFFICES ASSUME NEW i \in 1..(n - 1), NEW j \in 1..(n - 1), w[i] = w[j]
               PROVE  i = j
    BY <1>3 DEF NoDup
  <2> DEFINE at(k) == IF k < p THEN k ELSE k + 1
  <2>1. at(i) \in 1..n /\ at(j) \in 1..n
    BY <1>1, <1>2
  <2>2. w[i] = s[at(i)] /\ w[j] = s[at(j)]
    BY <1>4
  <2>3. at(i) = at(j)
    BY <2>1, <2>2, <1>2 DEF NoDup
  <2> QED BY <2>3, <1>1, <1>2
<1>6. ASSUME NEW x \in Listed(w) PROVE x \in Listed(s) \ {c}
  <2>1. PICK j \in 1..(n - 1) : w[j] = x
    BY <1>3, <1>6 DEF Listed
  <2>2. j \in 1..n /\ j + 1 \in 1..n
    BY <1>2, <2>1
  <2>3. CASE j < p
    <3>1. x = s[j] /\ j # p
      BY <1>4, <2>1, <2>3, <1>1, <1>2
    <3> QED BY <3>1, <2>2, <1>1, <1>2 DEF Listed, NoDup
  <2>4. CASE ~(j < p)
    <3>1. x = s[j + 1] /\ j + 1 # p
      BY <1>4, <2>1, <2>4, <1>1, <1>2
    <3> QED BY <3>1, <2>2, <1>1, <1>2 DEF Listed, NoDup
  <2> QED BY <2>3, <2>4
<1>7. ASSUME NEW x \in Listed(s) \ {c} PROVE x \in Listed(w)
  <2>1. PICK i \in 1..n : s[i] = x
    BY <1>2, <1>7 DEF Listed
  <2>2. i # p
    BY <1>1, <1>7, <2>1
  <2>3. CASE i < p
    <3>1. i \in 1..(n - 1) /\ w[i] = x
      BY <2>1, <2>3, <1>1, <1>2, <1>4
    <3> QED BY <3>1, <1>3 DEF Listed
  <2>4. CASE i > p
    <3>1. i - 1 \in 1..(n - 1) /\ w[i - 1] = x
      BY <2>1, <2>4, <1>1, <1>2, <1>4
    <3> QED BY <3>1, <1>3 DEF Listed
  <2> QED BY <2>2, <2>3, <2>4, <1>1, <1>2
<1> QED BY <1>5, <1>6, <1>7 DEF w

\* Inserting a new cell keeps the list free of duplicates.
LEMMA InFrontProperties ==
    ASSUME NEW S, NEW s \in Seq(S), NoDup(s), NEW c \in S, c \notin Listed(s)
    PROVE  /\ NoDup(InFront(s, c))
           /\ Listed(InFront(s, c)) = Listed(s) \cup {c}
<1> DEFINE w == InFront(s, c)
           n == Len(s)
<1>1. n \in Nat /\ DOMAIN s = 1..n
  OBVIOUS
<1>2. DOMAIN w = 1..(n + 1)
  BY DEF InFront
<1>3. w[1] = c /\ \A j \in 2..(n + 1) : w[j] = s[j - 1]
  BY <1>1 DEF InFront
<1>4. \A i \in 1..n : s[i] # c
  BY <1>1 DEF Listed
<1> HIDE DEF w, n
<1>5. NoDup(w)
  <2> SUFFICES ASSUME NEW i \in 1..(n + 1), NEW j \in 1..(n + 1), w[i] = w[j]
               PROVE  i = j
    BY <1>2 DEF NoDup
  <2>1. CASE i = 1 \/ j = 1
    BY <2>1, <1>1, <1>3, <1>4
  <2>2. CASE i # 1 /\ j # 1
    <3>1. i - 1 \in 1..n /\ j - 1 \in 1..n /\ s[i - 1] = s[j - 1]
      BY <2>2, <1>1, <1>3
    <3> QED BY <3>1, <1>1 DEF NoDup
  <2> QED BY <2>1, <2>2
<1>6. ASSUME NEW x \in Listed(w) PROVE x \in Listed(s) \cup {c}
  <2>1. PICK j \in 1..(n + 1) : w[j] = x
    BY <1>2, <1>6 DEF Listed
  <2>2. CASE j = 1
    BY <2>1, <2>2, <1>3
  <2>3. CASE j # 1
    <3>1. j - 1 \in 1..n /\ s[j - 1] = x
      BY <2>1, <2>3, <1>1, <1>3
    <3> QED BY <3>1, <1>1 DEF Listed
  <2> QED BY <2>2, <2>3
<1>7. ASSUME NEW x \in Listed(s) \cup {c} PROVE x \in Listed(w)
  <2>1. CASE x = c
    <3>1. 1 \in 1..(n + 1)
      BY <1>1
    <3> QED BY <2>1, <3>1, <1>2, <1>3 DEF Listed
  <2>2. CASE x \in Listed(s)
    <3>1. PICK i \in 1..n : s[i] = x
      BY <1>1, <2>2 DEF Listed
    <3>2. i + 1 \in 2..(n + 1) /\ i + 1 \in 1..(n + 1) /\ (i + 1) - 1 = i
      BY <1>1, <3>1
    <3>3. w[i + 1] = x
      BY <3>1, <3>2, <1>3
    <3> QED BY <3>2, <3>3, <1>2 DEF Listed
  <2> QED BY <1>7, <2>1, <2>2
<1> QED BY <1>5, <1>6, <1>7 DEF w

----------------------------------------------------------------------------
(* Counting references: what one assignment does to the number of holders. *)

\* The number of references of one kind to o.
Held(f, o) == Cardinality(HeldBy(f, o))

\* 1 for an equality that holds.
One(x, o) == IF x = o THEN 1 ELSE 0

\* The number of those who hold an object.
LEMMA HeldIsNat ==
    ASSUME NEW S, IsFiniteSet(S), NEW T, NEW f \in [S -> T], NEW o
    PROVE  Held(f, o) \in Nat
<1>1. HeldBy(f, o) \subseteq S
  BY DEF HeldBy
<1> QED BY <1>1, FS_Subset, FS_CardinalityType DEF Held

\* f and g differ at most at a.
LEMMA Counting ==
    ASSUME NEW f, NEW g, IsFiniteSet(DOMAIN f), DOMAIN g = DOMAIN f,
           NEW a \in DOMAIN f, NEW o, \A x \in DOMAIN f \ {a} : g[x] = f[x]
    PROVE  /\ Held(g, o) = Held(f, o) + One(g[a], o) - One(f[a], o)
           /\ f[a] = o => Held(f, o) > 0
<1> DEFINE H == HeldBy(f, o)
           G == HeldBy(g, o)
           R == H \ {a}
<1>1. H \subseteq DOMAIN f /\ IsFiniteSet(H) /\ Cardinality(H) \in Nat
  BY FS_Subset, FS_CardinalityType DEF HeldBy
<1>2. IsFiniteSet(R) /\ Cardinality(R) \in Nat /\ a \notin R
  BY <1>1, FS_Subset, FS_CardinalityType
<1>3. Cardinality(R \cup {a}) = Cardinality(R) + 1
  BY <1>2, FS_AddElement
<1>4. H = IF f[a] = o THEN R \cup {a} ELSE R
  BY DEF HeldBy
<1>5. G = IF g[a] = o THEN R \cup {a} ELSE R
  BY DEF HeldBy
<1> HIDE DEF H, G, R
<1>6. Cardinality(H) = Cardinality(R) + One(f[a], o)
  BY <1>2, <1>3, <1>4 DEF One
<1>7. Cardinality(G) = Cardinality(R) + One(g[a], o)
  BY <1>2, <1>3, <1>5 DEF One
<1>8. Cardinality(G) = Cardinality(H) + One(g[a], o) - One(f[a], o)
  BY <1>2, <1>6, <1>7 DEF One
<1>9. f[a] = o => Cardinality(H) > 0
  BY <1>2, <1>6 DEF One
<1> QED BY <1>8, <1>9 DEF H, G, Held

----------------------------------------------------------------------------
(* Searching the list.                                                     *)

\* A set of positions has a first one.
LEMMA FirstPosition ==
    ASSUME NEW T, T \subseteq Nat, T # {}
    PROVE  \E i \in T : \A j \in T : i <= j
<1>1. PICK i \in T : \A j \in T : <<j, i>> \notin OpToRel(<, Nat)
  BY NatLessThanWellFounded, WFMin
<1>2. \A j \in T : ~(j < i)
  BY <1>1 DEF OpToRel
<1> QED BY <1>2

\* cacheobj2_find answers NULL or a V2 cell of the list with that name.
LEMMA FindProperties ==
    ASSUME lru \in Seq(CObjs), NEW n, Find(n) # None
    PROVE  /\ Find(n) \in CObjs
           /\ Find(n) \in Listed(lru)
           /\ kind[Find(n)] = "int" /\ name[Find(n)] = n
<1> DEFINE hits == {i \in DOMAIN lru : kind[lru[i]] = "int" /\ name[lru[i]] = n}
           k == CHOOSE i \in hits : \A j \in hits : i <= j
<1>1. hits # {} /\ Find(n) = lru[k]
  BY DEF Find
<1>2. hits \subseteq Nat
  OBVIOUS
<1>3. k \in hits
  BY <1>1, <1>2, FirstPosition
<1>4. k \in DOMAIN lru /\ kind[lru[k]] = "int" /\ name[lru[k]] = n
  BY <1>3
<1> HIDE DEF k
<1>5. lru[k] \in CObjs
  BY <1>4
<1> QED BY <1>1, <1>4, <1>5 DEF Listed

\* cache_free_one picks a cell of the list, and not the one to be skipped.
LEMMA VictimProperties ==
    ASSUME lru \in Seq(CObjs), NEW s, Victim(s) # None
    PROVE  /\ Victim(s) \in CObjs
           /\ Victim(s) \in Listed(lru)
           /\ NoDup(lru) => Victim(s) # s
<1> DEFINE n == Len(lru)
           k == IF n > 0 /\ lru[n] = s THEN n - 1 ELSE n
<1>1. n \in Nat /\ DOMAIN lru = 1..n
  OBVIOUS
<1>2. k # 0 /\ Victim(s) = lru[k]
  BY DEF Victim
<1>3. k = IF n > 0 /\ lru[n] = s THEN n - 1 ELSE n
  OBVIOUS
<1> HIDE DEF n, k
<1>4. k \in 1..n
  BY <1>1, <1>2, <1>3
<1>5. lru[k] \in CObjs
  BY <1>1, <1>4 DEF n
<1>6. ASSUME NoDup(lru) PROVE lru[k] # s
  <2>1. CASE n > 0 /\ lru[n] = s
    <3>1. k # n /\ n \in 1..n
      BY <2>1, <1>1, <1>3
    <3> QED BY <2>1, <3>1, <1>1, <1>4, <1>6 DEF NoDup
  <2>2. CASE ~(n > 0 /\ lru[n] = s)
    <3>1. k = n /\ n > 0
      BY <2>2, <1>1, <1>3, <1>4
    <3> QED BY <2>2, <3>1
  <2> QED BY <2>1, <2>2
<1> QED BY <1>1, <1>2, <1>4, <1>5, <1>6 DEF Listed

----------------------------------------------------------------------------
(* The inductive invariant, apart from the reference counts.               *)

\* An av_cache2_set that has to insert its cell after a release.
Inserting(t) == pc[t] = "insert" \/ (pc[t] = "free" /\ ret[t] = "insert")

\* A thread has an object to release exactly while it is releasing one; it
\* has a cell exactly while it deletes or inserts one, and no other thread
\* has that cell.
ThreadInv ==
    /\ \A t \in Threads :
          /\ pc[t] = "free" <=> tmp[t] # None
          /\ pc[t] = "free" => ret[t] \notin {"free", "delete"}
          /\ pc[t] = "delete" =>
                arg[t] # None /\ kind[arg[t]] = "ext" /\ users[arg[t]] = {}
          /\ Inserting(t) => arg[t] # None /\ kind[arg[t]] = "new"
          /\ arg[t] # None => pc[t] = "delete" \/ Inserting(t)
    /\ \A t, u \in Threads : arg[t] = arg[u] /\ arg[t] # None => t = u

\* An address that holds no cell stores no object; only a V1 cell has users.
CellInv ==
    \A c \in CObjs :
        /\ kind[c] \in {"none", "freed"} => obj[c] = None
        /\ kind[c] = "new" => obj[c] # None
        /\ users[c] # {} => kind[c] = "ext"

Structure == ThreadInv /\ CellInv /\ ListMatchesCells

----------------------------------------------------------------------------
(* Types.                                                                  *)

\* The limit of cache_checkspace is an avoff_t, also when the sum wraps.
LEMMA SpaceLimitType ==
    ASSUME SpaceTypes, NEW usage \in Int, NEW free \in -1..MaxOff
    PROVE  SpaceLimit(usage, free) \in Offsets
<1> DEFINE known == IF free = -1 THEN MaxOff ELSE free
           m == 2 * MaxOff + 2
           y == usage - disk_keep_free + known + MaxOff + 1
<1>1. MaxOff \in Nat /\ disk_keep_free \in Int /\ disk_cache_limit \in 0..MaxOff
  BY SizeAssumption DEF SpaceTypes
<1>2. m \in Nat /\ m > 0 /\ y \in Int
  BY <1>1
<1>3. y % m \in 0..(m - 1)
  BY <1>2
<1> HIDE DEF y
<1>4. (y % m) - MaxOff - 1 \in Offsets
  BY <1>1, <1>3 DEF Offsets
<1>5. Wrap(usage - disk_keep_free + known) = (y % m) - MaxOff - 1
  BY <1>1 DEF Wrap, y
<1>6. disk_cache_limit \in Offsets
  BY <1>1 DEF Offsets
<1> QED BY <1>4, <1>5, <1>6 DEF SpaceLimit

\* The types hold at the start.
LEMMA TypesInit == Init => Types
<1> SUFFICES ASSUME Init PROVE Types
  OBVIOUS
<1>1. CellTypes
  BY DEF Init, CellTypes, Kinds
<1>2. 0 \in Offsets /\ 0 \in -1..MaxOff /\ DefaultLimit \in 0..MaxOff /\ DefaultKeepFree \in 0..MaxOff
  BY SizeAssumption DEF Offsets
<1>3. SpaceTypes
  BY <1>2 DEF Init, SpaceTypes
<1>4. ObjTypes
  BY DEF Init, ObjTypes
<1>5. ThreadTypes
  BY DEF Init, ThreadTypes, Places
<1> QED BY <1>1, <1>3, <1>4, <1>5 DEF Types

\* The values that steps assign.
LEMMA TypeMembers ==
    /\ {"idle", "loop", "clear", "destroy", "insert", "delete", "free"} \subseteq Places
    /\ {"none", "new", "ext", "int", "freed"} \subseteq Kinds
    /\ 0 \in Offsets /\ 0 \in -1..MaxOff
    /\ \A n \in Sizes \cup {0} : n \in Int
    /\ \A n \in FreeSpaces \cup {0} : n \in -1..MaxOff
BY SizeAssumption DEF Places, Kinds, Offsets

\* What Unlink and Return do to the types, and what they need.
LEMMA UnlinkTypes ==
    ASSUME Types, NEW t \in Threads, NEW c \in CObjs, NEW dies \in BOOLEAN, NEW next \in Places,
           Unlink(t, c, dies, next)
    PROVE  /\ lru' \in Seq(CObjs)
           /\ disk_usage' \in Int
           /\ obj' \in [CObjs -> Objs \cup {None}]
           /\ tmp' \in [Threads -> Objs \cup {None}]
           /\ kind' \in [CObjs -> Kinds]
           /\ cachelock' \in Threads \cup {None}
           /\ pc' \in [Threads -> Places]
           /\ ret' \in [Threads -> Places]
<1>1. lru' \in Seq(CObjs)
  BY WithoutType DEF Types, CellTypes, Unlink
<1>2. disk_usage' \in Int
  BY TypeMembers DEF Types, CellTypes, SpaceTypes, Unlink
<1> QED BY <1>1, <1>2, TypeMembers DEF Types, CellTypes, ThreadTypes, Unlink

\* The counters stay integers.
LEMMA RefctrType ==
    ASSUME refctr \in [Objs -> Int], NEW o
    PROVE  /\ [refctr EXCEPT ![o] = Ref(@)] \in [Objs -> Int]
           /\ [refctr EXCEPT ![o] = Unref(@)] \in [Objs -> Int]
<1>1. \A n \in Int : Ref(n) \in Int /\ Unref(n) \in Int
  BY DEF Ref, Unref
<1> QED BY <1>1

\* The steps of an operation that has begun.
LEMMA TypesContinue ==
    ASSUME Types, ThreadInv, NEW t \in Threads, Continue(t)
    PROVE  Types'
<1> USE TypeMembers
    DEF Types, CellTypes, SpaceTypes, ObjTypes, ThreadTypes, cells, knobs, objs, check, local
<1>1. CASE DeleteListed(t)
  <2>1. arg[t] \in CObjs
    BY <1>1 DEF DeleteListed, ThreadInv
  <2> QED BY <1>1, <2>1, UnlinkTypes DEF DeleteListed
<1>2. CASE DeleteEvicted(t)
  BY <1>2 DEF DeleteEvicted, Return
<1>3. CASE LoopEvict(t)
  <2>1. Victim(skip[t]) \in CObjs
    BY <1>3, VictimProperties DEF LoopEvict
  <2> QED BY <1>3, <2>1, UnlinkTypes DEF LoopEvict
<1>4. CASE LoopExit(t)
  BY <1>4 DEF LoopExit, Return
<1>5. CASE Release(t)
  BY <1>5, RefctrType DEF Release
<1>6. CASE ClearEvict(t)
  BY <1>6, VictimProperties, UnlinkTypes DEF ClearEvict
<1>7. CASE ClearExit(t)
  BY <1>7 DEF ClearExit, Return
<1>8. CASE Cache2Insert(t)
  <2>1. arg[t] \in CObjs
    BY <1>8 DEF Cache2Insert, ThreadInv, Inserting
  <2> QED BY <1>8, <2>1, InFrontType DEF Cache2Insert, Return
<1>9. CASE DestroyOne(t)
  <2>1. PICK i \in DOMAIN lru : Unlink(t, lru[i], TRUE, "destroy")
    BY <1>9 DEF DestroyOne, Internal
  <2>2. lru[i] \in CObjs
    BY <2>1
  <2> QED BY <1>9, <2>1, <2>2, UnlinkTypes DEF DestroyOne
<1>10. CASE DestroyExit(t)
  BY <1>10 DEF DestroyExit, Return
<1> QED BY <1>1, <1>2, <1>3, <1>4, <1>5, <1>6, <1>7, <1>8, <1>9, <1>10 DEF Continue

\* A change of size: what Resize and EnterCheck assign.
LEMMA EnterCheckTypes ==
    ASSUME Types, NEW t \in Threads, NEW usage \in Int, NEW free \in -1..MaxOff,
           NEW s \in CObjs \cup {None}, EnterCheck(t, usage, free, s)
    PROVE  /\ limit' \in [Threads -> Offsets]
           /\ skip' \in [Threads -> CObjs \cup {None}]
           /\ tmpfree' \in [Threads -> -1..MaxOff]
           /\ cachelock' \in Threads \cup {None}
           /\ pc' \in [Threads -> Places]
<1>1. SpaceLimit(usage, free) \in Offsets
  BY SpaceLimitType DEF Types
<1> QED BY <1>1, TypeMembers DEF Types, SpaceTypes, ThreadTypes, EnterCheck

\* Resize keeps the types of what it sets.
LEMMA ResizeTypes ==
    ASSUME Types, NEW t \in Threads, NEW c \in CObjs, NEW size \in Sizes,
           NEW free \in FreeSpaces, Resize(t, c, size, free)
    PROVE  /\ diskusage' \in [CObjs -> Sizes \cup {0}]
           /\ disk_usage' \in Int
           /\ limit' \in [Threads -> Offsets]
           /\ skip' \in [Threads -> CObjs \cup {None}]
           /\ tmpfree' \in [Threads -> -1..MaxOff]
           /\ cachelock' \in Threads \cup {None}
           /\ pc' \in [Threads -> Places]
<1>1. diskusage[c] \in Int /\ size \in Int /\ free \in -1..MaxOff
  BY TypeMembers DEF Types, CellTypes
<1>2. disk_usage' \in Int
  BY <1>1 DEF Types, SpaceTypes, Resize
<1>3. diskusage' \in [CObjs -> Sizes \cup {0}]
  BY DEF Types, CellTypes, Resize
<1>4. EnterCheck(t, disk_usage', free, c)
  BY DEF Resize
<1> QED BY <1>1, <1>2, <1>3, <1>4, EnterCheckTypes

\* The steps with which a caller starts an operation.
LEMMA TypesCall ==
    ASSUME Types, NEW t \in Threads, Call(t)
    PROVE  Types'
<1> USE TypeMembers
    DEF Types, CellTypes, SpaceTypes, ObjTypes, ThreadTypes, cells, knobs, objs, check, local
<1>1. CASE \E o \in Objs : NewObj(t, o)
  BY <1>1 DEF NewObj
<1>2. CASE DropObj(t)
  BY <1>2, RefctrType DEF DropObj
<1>3. CASE \E u \in Threads, c \in CObjs : ShareCell(t, u, c)
  BY <1>3 DEF ShareCell
<1>4. CASE \E c \in CObjs : CacheObjNew(t, c)
  <2>1. PICK c \in CObjs : CacheObjNew(t, c)
    BY <1>4
  <2>2. lru' \in Seq(CObjs)
    BY <2>1, InFrontType DEF CacheObjNew
  <2>3. refctr' \in [Objs -> Int]
    BY <2>1, RefctrType DEF CacheObjNew
  <2>4. obj' \in [CObjs -> Objs \cup {None}] /\ users' \in [CObjs -> SUBSET Threads]
    BY <2>1 DEF CacheObjNew
  <2> QED BY <2>1, <2>2, <2>3, <2>4 DEF CacheObjNew
<1>5. CASE \E c \in CObjs : CacheObjGet(t, c)
  <2>1. PICK c \in CObjs : CacheObjGet(t, c)
    BY <1>5
  <2>2. lru' \in Seq(CObjs)
    BY <2>1, WithoutType, InFrontType DEF CacheObjGet
  <2> QED BY <2>1, <2>2, RefctrType DEF CacheObjGet
<1>6. CASE \E c \in CObjs : UnrefCell(t, c)
  <2>1. PICK c \in CObjs : UnrefCell(t, c)
    BY <1>6
  <2>2. pc' \in [Threads -> Places] /\ arg' \in [Threads -> CObjs \cup {None}]
    BY <2>1 DEF UnrefCell
  <2>3. users' \in [CObjs -> SUBSET Threads]
    BY <2>1 DEF UnrefCell
  <2> QED BY <2>1, <2>2, <2>3 DEF UnrefCell
<1>7. CASE \E c \in CObjs, size \in Sizes, free \in FreeSpaces : CacheObjSetSize(t, c, size, free)
  <2>1. PICK c \in CObjs, size \in Sizes, free \in FreeSpaces : CacheObjSetSize(t, c, size, free)
    BY <1>7
  <2> QED BY <2>1, ResizeTypes DEF CacheObjSetSize
<1>8. CASE \E full \in BOOLEAN, free \in FreeSpaces \cup {0} : Checkspace(t, full, free)
  <2>1. PICK full \in BOOLEAN, free \in FreeSpaces \cup {0} : Checkspace(t, full, free)
    BY <1>8
  <2>2. free \in -1..MaxOff
    BY SizeAssumption
  <2> QED BY <2>1, <2>2, EnterCheckTypes DEF Checkspace
<1>9. CASE Clear(t)
  BY <1>9 DEF Clear
<1>10. CASE \E n \in Names, c \in CObjs : Cache2Set(t, n, c)
  <2>1. PICK n \in Names, c \in CObjs : Cache2Set(t, n, c)
    BY <1>10
  <2> refctr' \in [Objs -> Int]
    BY <2>1, RefctrType DEF Cache2Set
  <2> name' \in [CObjs -> Names \cup {None}] /\ key' \in [Threads -> Names \cup {None}]
    BY <2>1 DEF Cache2Set
  <2>2. CASE Find(n) = None
    <3>1. lru' \in Seq(CObjs)
      BY <2>1, <2>2, InFrontType DEF Cache2Set
    <3>2. kind' = [kind EXCEPT ![c] = "int"] /\ obj' = [obj EXCEPT ![c] = hold[t]]
      BY <2>1, <2>2 DEF Cache2Set
    <3>3. kind' \in [CObjs -> Kinds]
      <4>1. kind \in [CObjs -> Kinds] /\ "int" \in Kinds
        BY DEF Kinds
      <4> HIDE DEF Types, CellTypes, SpaceTypes, ObjTypes, ThreadTypes
      <4> QED BY <3>2, <4>1
    <3>4. obj' \in [CObjs -> Objs \cup {None}]
      <4>1. obj \in [CObjs -> Objs \cup {None}] /\ hold[t] \in Objs \cup {None}
        OBVIOUS
      <4> HIDE DEF Types, CellTypes, SpaceTypes, ObjTypes, ThreadTypes
      <4> QED BY <3>2, <4>1
    <3> QED BY <2>1, <2>2, <3>1, <3>3, <3>4 DEF Cache2Set
  <2>3. CASE Find(n) # None
    <3>1. Find(n) \in CObjs
      BY <2>3, FindProperties
    <3>2. lru' \in Seq(CObjs)
      BY <2>1, <2>3, WithoutType DEF Cache2Set
    <3>3. disk_usage' \in Int
      <4>1. diskusage[Find(n)] \in Int
        BY <3>1
      <4> QED BY <2>1, <2>3, <4>1 DEF Cache2Set
    <3>4. /\ obj' = [obj EXCEPT ![c] = hold[t], ![Find(n)] = None]
          /\ kind' = [kind EXCEPT ![c] = "new", ![Find(n)] = "freed"]
          /\ tmp' = [tmp EXCEPT ![t] = obj[Find(n)]]
          /\ pc' = [pc EXCEPT ![t] = "free"] /\ ret' = [ret EXCEPT ![t] = "insert"]
          /\ arg' = [arg EXCEPT ![t] = c] /\ cachelock' = None
      BY <2>1, <2>3 DEF Cache2Set
    <3>5. obj' \in [CObjs -> Objs \cup {None}] /\ kind' \in [CObjs -> Kinds]
      BY <3>1, <3>4
    <3>6. tmp' \in [Threads -> Objs \cup {None}] /\ arg' \in [Threads -> CObjs \cup {None}]
      BY <3>1, <3>4
    <3>7. pc' \in [Threads -> Places] /\ ret' \in [Threads -> Places]
              /\ cachelock' \in Threads \cup {None}
      BY <3>4
    <3> QED BY <2>1, <3>2, <3>3, <3>5, <3>6, <3>7 DEF Cache2Set
  <2> QED BY <2>2, <2>3
<1>11. CASE \E n \in Names : Cache2Get(t, n)
  <2>1. PICK n \in Names : Cache2Get(t, n)
    BY <1>11
  <2>2. Find(n) \in CObjs
    BY <2>1, FindProperties DEF Cache2Get
  <2>3. lru' \in Seq(CObjs)
    BY <2>1, <2>2, WithoutType, InFrontType DEF Cache2Get
  <2> QED BY <2>1, <2>2, <2>3, RefctrType DEF Cache2Get
<1>12. CASE \E n \in Names, size \in Sizes, free \in FreeSpaces : Cache2SetSize(t, n, size, free)
  <2>1. PICK n \in Names, size \in Sizes, free \in FreeSpaces : Cache2SetSize(t, n, size, free)
    BY <1>12
  <2>2. CASE Find(n) # None /\ Resize(t, Find(n), size, free)
    <3>1. Find(n) \in CObjs
      BY <2>2, FindProperties
    <3> QED BY <2>1, <2>2, <3>1, ResizeTypes DEF Cache2SetSize
  <2>3. CASE ~(Find(n) # None /\ Resize(t, Find(n), size, free))
    BY <2>1, <2>3 DEF Cache2SetSize
  <2> QED BY <2>2, <2>3
<1>13. CASE SetOff(t)
  BY <1>13, SizeAssumption DEF SetOff
<1>14. CASE Destroy(t)
  BY <1>14 DEF Destroy
<1> QED BY <1>1, <1>2, <1>3, <1>4, <1>5, <1>6, <1>7, <1>8, <1>9, <1>10, <1>11, <1>12,
           <1>13, <1>14 DEF Call

----------------------------------------------------------------------------
(* Structure.                                                              *)

\* The structure of the list holds at the start.
LEMMA StructureInit == Init => Structure
<1> SUFFICES ASSUME Init PROVE Structure
  OBVIOUS
<1>1. ThreadInv
  BY DEF Init, ThreadInv, Inserting
<1>2. CellInv
  BY DEF Init, CellInv
<1>3. ListMatchesCells
  BY DEF Init, ListMatchesCells, Listed
<1> QED BY <1>1, <1>2, <1>3 DEF Structure

\* A V1 or V2 cell that stores an object is in the list, and the other way round.
LEMMA ListedCell ==
    ASSUME Structure, NEW c \in CObjs
    PROVE  /\ c \in Listed(lru) <=> obj[c] # None /\ kind[c] # "new"
           /\ NoDup(lru)
BY DEF Structure, ListMatchesCells, NoDup

\* Taking a cell out of the list together with its object.
LEMMA UnlinkStructure ==
    ASSUME Types, Structure, NEW t \in Threads, NEW c \in Listed(lru), c \in CObjs,
           NEW dies \in BOOLEAN, NEW next \in {"idle", "loop", "clear", "destroy"},
           Unlink(t, c, dies, next), users' = users,
           arg' = [arg EXCEPT ![t] = None],
           dies => users[c] = {},
           dies => \A u \in Threads \ {t} : arg[u] # c
    PROVE  Structure'
<1>1. obj[c] # None /\ kind[c] # "new" /\ NoDup(lru)
  BY ListedCell
<1>2. /\ lru' = Without(lru, c)
      /\ obj' = [obj EXCEPT ![c] = None]
      /\ tmp' = [tmp EXCEPT ![t] = obj[c]]
      /\ kind' = [kind EXCEPT ![c] = IF dies \/ kind[c] = "int" THEN "freed" ELSE @]
      /\ pc' = [pc EXCEPT ![t] = "free"]
      /\ ret' = [ret EXCEPT ![t] = next]
  BY DEF Unlink
<1>3. ThreadInv'
  <2> USE DEF Types, CellTypes, ThreadTypes
  <2>1. ASSUME NEW u \in Threads, u # t
        PROVE  /\ pc'[u] = pc[u] /\ tmp'[u] = tmp[u] /\ ret'[u] = ret[u] /\ arg'[u] = arg[u]
               /\ arg[u] # None /\ kind[arg[u]] \in {"new", "ext"} => kind'[arg[u]] = kind[arg[u]]
    <3>1. arg[u] # None => arg[u] \in CObjs
      BY <2>1
    <3>2. arg[u] # None /\ arg[u] # c => kind'[arg[u]] = kind[arg[u]]
      BY <1>2, <3>1
    <3>3. arg[u] = c /\ kind[c] = "ext" => kind'[c] = kind[c]
      BY <1>2, <2>1
    <3> QED BY <1>1, <1>2, <2>1, <3>2, <3>3
  <2>2. pc'[t] = "free" /\ tmp'[t] = obj[c] /\ ret'[t] = next /\ arg'[t] = None
    BY <1>2
  <2>3. ThreadInv
    BY DEF Structure
  <2>4. ASSUME NEW u \in Threads
        PROVE  /\ pc'[u] = "free" <=> tmp'[u] # None
               /\ pc'[u] = "free" => ret'[u] \notin {"free", "delete"}
               /\ pc'[u] = "delete" =>
                     arg'[u] # None /\ kind'[arg'[u]] = "ext" /\ users'[arg'[u]] = {}
               /\ Inserting(u)' => arg'[u] # None /\ kind'[arg'[u]] = "new"
               /\ arg'[u] # None => pc'[u] = "delete" \/ Inserting(u)'
    BY <1>1, <2>1, <2>2, <2>3 DEF ThreadInv, Inserting
  <2>5. \A u, v \in Threads : arg'[u] = arg'[v] /\ arg'[u] # None => u = v
    BY <2>1, <2>2, <2>3 DEF ThreadInv
  <2> QED BY <2>4, <2>5 DEF ThreadInv
<1>4. CellInv'
  <2>1. CellInv
    BY DEF Structure
  <2> QED BY <1>1, <1>2, <2>1 DEF CellInv, Types, CellTypes
<1>5. ListMatchesCells'
  <2>1. NoDup(lru') /\ Listed(lru') = Listed(lru) \ {c}
    BY <1>1, <1>2, WithoutProperties DEF Types, CellTypes
  <2>2. ASSUME NEW d \in CObjs
        PROVE  d \in Listed(lru') <=> obj'[d] # None /\ kind'[d] # "new"
    <3>1. d \in Listed(lru) <=> obj[d] # None /\ kind[d] # "new"
      BY ListedCell
    <3> QED BY <1>2, <2>1, <3>1 DEF Types, CellTypes
  <2> QED BY <2>1, <2>2 DEF ListMatchesCells, NoDup
<1> QED BY <1>3, <1>4, <1>5 DEF Structure

\* A step that touches no cell and no list, and no thread but t.
LEMMA ThreadStep ==
    ASSUME Types, Structure, NEW t \in Threads,
           kind' = kind, obj' = obj, lru' = lru,
           \A c \in CObjs : users'[c] # {} => kind[c] = "ext",
           \A u \in Threads : pc[u] = "delete" => users'[arg[u]] = {},
           \A u \in Threads \ {t} :
               pc'[u] = pc[u] /\ ret'[u] = ret[u] /\ tmp'[u] = tmp[u] /\ arg'[u] = arg[u],
           pc'[t] = "free" <=> tmp'[t] # None,
           pc'[t] = "free" => ret'[t] \notin {"free", "delete"},
           pc'[t] = "delete" =>
               arg'[t] # None /\ kind[arg'[t]] = "ext" /\ users'[arg'[t]] = {},
           Inserting(t)' => arg'[t] # None /\ kind[arg'[t]] = "new",
           arg'[t] # None => pc'[t] = "delete" \/ Inserting(t)',
           arg'[t] # None => \A u \in Threads \ {t} : arg[u] # arg'[t]
    PROVE  Structure'
<1>1. ThreadInv
  BY DEF Structure
<1>2. ThreadInv'
  <2>1. ASSUME NEW u \in Threads
        PROVE  /\ pc'[u] = "free" <=> tmp'[u] # None
               /\ pc'[u] = "free" => ret'[u] \notin {"free", "delete"}
               /\ pc'[u] = "delete" =>
                     arg'[u] # None /\ kind'[arg'[u]] = "ext" /\ users'[arg'[u]] = {}
               /\ Inserting(u)' => arg'[u] # None /\ kind'[arg'[u]] = "new"
               /\ arg'[u] # None => pc'[u] = "delete" \/ Inserting(u)'
    BY <1>1 DEF ThreadInv, Inserting
  <2>2. \A u, v \in Threads : arg'[u] = arg'[v] /\ arg'[u] # None => u = v
    BY <1>1 DEF ThreadInv
  <2> QED BY <2>1, <2>2 DEF ThreadInv
<1>3. CellInv'
  BY DEF Structure, CellInv
<1>4. ListMatchesCells'
  BY DEF Structure, ListMatchesCells, Listed
<1> QED BY <1>2, <1>3, <1>4 DEF Structure

\* The end of an operation, apart from changes to cells.
LEMMA ReturnStep ==
    ASSUME Types, Structure, NEW t \in Threads, pc[t] # "free", Return(t),
           UNCHANGED <<kind, obj, lru, users, tmp>>
    PROVE  Structure'
<1>1. tmp[t] = None
  BY DEF Structure, ThreadInv
<1>2. pc'[t] = "idle" /\ ret'[t] = "idle" /\ arg'[t] = None /\ tmp'[t] = None
  BY <1>1 DEF Return, Types, ThreadTypes
<1>3. \A u \in Threads \ {t} :
          pc'[u] = pc[u] /\ ret'[u] = ret[u] /\ tmp'[u] = tmp[u] /\ arg'[u] = arg[u]
  BY DEF Return, Types, ThreadTypes
<1>4. /\ \A c \in CObjs : users'[c] # {} => kind[c] = "ext"
      /\ \A u \in Threads : pc[u] = "delete" => users'[arg[u]] = {}
  BY DEF Structure, ThreadInv, CellInv
<1> QED BY <1>2, <1>3, <1>4, ThreadStep DEF Inserting

\* A step of a call that goes on keeps the structure.
LEMMA StructureContinue ==
    ASSUME Types, Structure, NEW t \in Threads, Continue(t)
    PROVE  Structure'
<1> USE DEF cells, knobs, objs, check, local
<1>0. ThreadInv /\ CellInv /\ ListMatchesCells
  BY DEF Structure
<1>a. ASSUME pc[t] \in {"loop", "clear", "destroy"}
      PROVE  arg = [arg EXCEPT ![t] = None]
  BY <1>0, <1>a DEF ThreadInv, Inserting, Types, ThreadTypes
<1>1. CASE DeleteListed(t)
  <2> DEFINE c == arg[t]
  <2>1. pc[t] = "delete" /\ obj[c] # None /\ Unlink(t, c, TRUE, "idle")
            /\ arg' = [arg EXCEPT ![t] = None] /\ users' = users
    BY <1>1 DEF DeleteListed
  <2>2. c \in CObjs /\ kind[c] = "ext" /\ users[c] = {}
    BY <1>0, <2>1 DEF ThreadInv, Types, ThreadTypes
  <2>3. c \in Listed(lru)
    BY <2>1, <2>2, ListedCell
  <2>4. \A u \in Threads \ {t} : arg[u] # c
    BY <1>0, <2>2, NoneAssumption DEF ThreadInv
  <2> QED BY <2>1, <2>2, <2>3, <2>4, UnlinkStructure
<1>2. CASE DeleteEvicted(t)
  <2> DEFINE c == arg[t]
  <2>1. /\ pc[t] = "delete" /\ obj[c] = None
        /\ kind' = [kind EXCEPT ![c] = "freed"]
        /\ UNCHANGED <<lru, obj, users, tmp>>
        /\ pc' = [pc EXCEPT ![t] = "idle"] /\ ret' = [ret EXCEPT ![t] = "idle"]
        /\ arg' = [arg EXCEPT ![t] = None]
    BY <1>2 DEF DeleteEvicted, Return
  <2>2. c \in CObjs /\ kind[c] = "ext" /\ users[c] = {} /\ tmp[t] = None
    BY <1>0, <2>1 DEF ThreadInv, Types, ThreadTypes
  <2>3. \A u \in Threads \ {t} : arg[u] # c
    BY <1>0, <2>2, NoneAssumption DEF ThreadInv
  <2>4. ThreadInv'
    BY <1>0, <2>1, <2>2, <2>3 DEF ThreadInv, Inserting, Types, ThreadTypes, CellTypes
  <2>5. CellInv'
    BY <1>0, <2>1, <2>2 DEF CellInv, Types, CellTypes
  <2>6. ListMatchesCells'
    BY <1>0, <2>1, <2>2 DEF ListMatchesCells, Listed, Types, CellTypes
  <2> QED BY <2>4, <2>5, <2>6 DEF Structure
<1>3. CASE LoopEvict(t)
  <2>1. Victim(skip[t]) \in CObjs /\ Victim(skip[t]) \in Listed(lru)
    BY <1>3, VictimProperties DEF LoopEvict, Types, CellTypes
  <2> QED BY <1>3, <1>a, <2>1, UnlinkStructure DEF LoopEvict
<1>4. CASE LoopExit(t)
  BY <1>4, ReturnStep DEF LoopExit
<1>5. CASE Release(t)
  <2>1. /\ pc[t] = "free"
        /\ UNCHANGED <<kind, obj, lru, users, ret, arg>>
        /\ tmp' = [tmp EXCEPT ![t] = None] /\ pc' = [pc EXCEPT ![t] = ret[t]]
    BY <1>5 DEF Release
  <2>2. tmp'[t] = None /\ pc'[t] = ret[t] /\ ret[t] \notin {"free", "delete"}
    BY <1>0, <2>1 DEF ThreadInv, Types, ThreadTypes
  <2>3. arg[t] # None => ret[t] = "insert" /\ kind[arg[t]] = "new"
    BY <1>0, <2>1 DEF ThreadInv, Inserting
  <2>4. ret[t] = "insert" => arg[t] # None
    BY <1>0, <2>1 DEF ThreadInv, Inserting
  <2>5. \A u \in Threads \ {t} :
            /\ pc'[u] = pc[u] /\ ret'[u] = ret[u] /\ tmp'[u] = tmp[u] /\ arg'[u] = arg[u]
            /\ arg[t] # None => arg[u] # arg[t]
    BY <1>0, <2>1 DEF ThreadInv, Types, ThreadTypes
  <2>6. /\ \A c \in CObjs : users'[c] # {} => kind[c] = "ext"
        /\ \A u \in Threads : pc[u] = "delete" => users'[arg[u]] = {}
    BY <1>0, <2>1 DEF ThreadInv, CellInv
  <2> QED BY <2>1, <2>2, <2>3, <2>4, <2>5, <2>6, ThreadStep DEF Inserting
<1>6. CASE ClearEvict(t)
  <2>1. Victim(None) \in CObjs /\ Victim(None) \in Listed(lru)
    BY <1>6, VictimProperties DEF ClearEvict, Types, CellTypes
  <2> QED BY <1>6, <1>a, <2>1, UnlinkStructure DEF ClearEvict
<1>7. CASE ClearExit(t)
  BY <1>7, ReturnStep DEF ClearExit
<1>8. CASE Cache2Insert(t)
  <2> DEFINE c == arg[t]
  <2>1. /\ pc[t] = "insert"
        /\ lru' = InFront(lru, c)
        /\ kind' = [kind EXCEPT ![c] = "int"]
        /\ UNCHANGED <<obj, users, tmp>>
        /\ pc' = [pc EXCEPT ![t] = "idle"] /\ ret' = [ret EXCEPT ![t] = "idle"]
        /\ arg' = [arg EXCEPT ![t] = None]
    BY <1>8 DEF Cache2Insert, Return
  <2>2. c \in CObjs /\ kind[c] = "new" /\ tmp[t] = None /\ users[c] = {} /\ obj[c] # None
    BY <1>0, <2>1 DEF ThreadInv, CellInv, Inserting, Types, ThreadTypes
  <2>3. c \notin Listed(lru) /\ NoDup(lru)
    BY <2>2, ListedCell
  <2>4. \A u \in Threads \ {t} : arg[u] # c
    BY <1>0, <2>2, NoneAssumption DEF ThreadInv
  <2>5. ThreadInv'
    BY <1>0, <2>1, <2>2, <2>4 DEF ThreadInv, Inserting, Types, ThreadTypes, CellTypes
  <2>6. CellInv'
    BY <1>0, <2>1, <2>2 DEF CellInv, Types, CellTypes
  <2>7. ListMatchesCells'
    <3>1. NoDup(lru') /\ Listed(lru') = Listed(lru) \cup {c}
      BY <2>1, <2>2, <2>3, InFrontProperties DEF Types, CellTypes
    <3>2. ASSUME NEW d \in CObjs
          PROVE  d \in Listed(lru') <=> obj'[d] # None /\ kind'[d] # "new"
      BY <2>1, <2>2, <3>1, ListedCell DEF Types, CellTypes
    <3> QED BY <3>1, <3>2 DEF ListMatchesCells, NoDup
  <2> QED BY <2>5, <2>6, <2>7 DEF Structure
<1>9. CASE DestroyOne(t)
  <2>1. PICK i \in DOMAIN lru : kind[lru[i]] = "int" /\ Unlink(t, lru[i], TRUE, "destroy")
    BY <1>9 DEF DestroyOne, Internal
  <2>2. lru[i] \in CObjs /\ lru[i] \in Listed(lru)
    BY <2>1 DEF Types, CellTypes, Listed
  <2>3. users[lru[i]] = {}
    BY <1>0, <2>1, <2>2 DEF CellInv
  <2>4. \A u \in Threads : arg[u] # lru[i]
    BY <1>0, <2>1, <2>2, NoneAssumption DEF ThreadInv
  <2> QED BY <1>9, <1>a, <2>1, <2>2, <2>3, <2>4, UnlinkStructure DEF DestroyOne
<1>10. CASE DestroyExit(t)
  BY <1>10, ReturnStep DEF DestroyExit
<1> QED BY <1>1, <1>2, <1>3, <1>4, <1>5, <1>6, <1>7, <1>8, <1>9, <1>10 DEF Continue

\* A step of thread t that changes where it is at most, outside releases.
LEMMA CallStep ==
    ASSUME Types, Structure, NEW t \in Threads, pc[t] = "idle",
           UNCHANGED <<kind, obj, lru, users, tmp, ret, arg>>,
           \E p \in {"idle", "loop", "clear", "destroy"} : pc' = [pc EXCEPT ![t] = p]
    PROVE  Structure'
<1>1. ThreadInv /\ CellInv
  BY DEF Structure
<1>2. tmp[t] = None /\ arg[t] = None
  BY <1>1 DEF ThreadInv, Inserting
<1>3. pc'[t] \in {"idle", "loop", "clear", "destroy"} /\ \A u \in Threads \ {t} : pc'[u] = pc[u]
  BY DEF Types, ThreadTypes
<1>4. /\ \A c \in CObjs : users'[c] # {} => kind[c] = "ext"
      /\ \A u \in Threads : pc[u] = "delete" => users'[arg[u]] = {}
  BY <1>1 DEF ThreadInv, CellInv
<1> QED BY <1>2, <1>3, <1>4, ThreadStep DEF Inserting

\* Moving a cell to the front.
LEMMA TouchStructure ==
    ASSUME Types, Structure, NEW c \in Listed(lru), c \in CObjs,
           lru' = InFront(Without(lru, c), c),
           UNCHANGED <<kind, obj, users, tmp, ret, arg, pc>>
    PROVE  Structure'
<1>1. NoDup(lru)
  BY DEF Structure, ListMatchesCells, NoDup
<1>2. /\ Without(lru, c) \in Seq(CObjs) /\ NoDup(Without(lru, c))
      /\ Listed(Without(lru, c)) = Listed(lru) \ {c}
  BY <1>1, WithoutType, WithoutProperties DEF Types, CellTypes
<1>3. NoDup(lru') /\ Listed(lru') = (Listed(lru) \ {c}) \cup {c}
  BY <1>2, InFrontProperties
<1>4. Listed(lru') = Listed(lru)
  BY <1>3
<1>5. ListMatchesCells'
  BY <1>3, <1>4 DEF Structure, ListMatchesCells, NoDup
<1>6. ThreadInv' /\ CellInv'
  BY DEF Structure, ThreadInv, CellInv, Inserting
<1> QED BY <1>5, <1>6 DEF Structure

\* A step that begins a call keeps the structure.
LEMMA StructureCall ==
    ASSUME Types, Structure, NEW t \in Threads, Call(t)
    PROVE  Structure'
<1> USE DEF cells, knobs, objs, check, local
<1>0. ThreadInv /\ CellInv /\ ListMatchesCells
  BY DEF Structure
<1>a. ASSUME UNCHANGED <<cells, local>> PROVE Structure'
  BY <1>0, <1>a DEF Structure, ThreadInv, CellInv, ListMatchesCells, Inserting, Listed
<1>b. pc[t] = "idle" => pc = [pc EXCEPT ![t] = "idle"]
  BY DEF Types, ThreadTypes
<1>1. CASE \E o \in Objs : NewObj(t, o)
  BY <1>1, <1>a DEF NewObj
<1>2. CASE DropObj(t)
  BY <1>2, <1>a DEF DropObj
<1>3. CASE \E u \in Threads, c \in CObjs : ShareCell(t, u, c)
  <2>1. PICK u \in Threads, c \in CObjs : ShareCell(t, u, c)
    BY <1>3
  <2>2. users' = [users EXCEPT ![c] = @ \cup {u}] /\ t \in users[c] /\ kind[c] = "ext"
    BY <1>0, <2>1 DEF ShareCell, CellInv
  <2>3. /\ \A d \in CObjs : users'[d] # {} => kind[d] = "ext"
        /\ \A v \in Threads : pc[v] = "delete" => users'[arg[v]] = {}
    BY <1>0, <2>2 DEF ThreadInv, CellInv, Types, CellTypes
  <2> QED BY <1>0, <2>1, <2>3 DEF ShareCell, Structure, ThreadInv, CellInv, ListMatchesCells,
                                  Inserting, Listed
<1>4. CASE \E c \in CObjs : CacheObjNew(t, c)
  <2>1. PICK c \in CObjs : CacheObjNew(t, c)
    BY <1>4
  <2>2. /\ kind[c] = "none" /\ hold[t] # None
        /\ kind' = [kind EXCEPT ![c] = "ext"]
        /\ obj' = [obj EXCEPT ![c] = hold[t]]
        /\ users' = [users EXCEPT ![c] = {t}]
        /\ lru' = InFront(lru, c)
        /\ UNCHANGED <<pc, ret, tmp, arg>>
    BY <2>1 DEF CacheObjNew
  <2>3. obj[c] = None /\ c \notin Listed(lru) /\ NoDup(lru)
    BY <1>0, <2>2, ListedCell DEF CellInv
  <2>4. \A u \in Threads : arg[u] # c
    BY <1>0, <2>2, NoneAssumption DEF ThreadInv
  <2>5. ThreadInv'
    BY <1>0, <2>2, <2>4 DEF ThreadInv, Inserting, Types, ThreadTypes, CellTypes
  <2>6. CellInv'
    BY <1>0, <2>2 DEF CellInv, Types, CellTypes
  <2>7. ListMatchesCells'
    <3>1. NoDup(lru') /\ Listed(lru') = Listed(lru) \cup {c}
      BY <2>2, <2>3, InFrontProperties DEF Types, CellTypes
    <3>2. ASSUME NEW d \in CObjs
          PROVE  d \in Listed(lru') <=> obj'[d] # None /\ kind'[d] # "new"
      BY <2>2, <3>1, ListedCell DEF Types, CellTypes
    <3> QED BY <3>1, <3>2 DEF ListMatchesCells, NoDup
  <2> QED BY <2>5, <2>6, <2>7 DEF Structure
<1>5. CASE \E c \in CObjs : CacheObjGet(t, c)
  <2>1. PICK c \in CObjs : CacheObjGet(t, c)
    BY <1>5
  <2>2. c \in Listed(lru)
    BY <2>1, ListedCell DEF CacheObjGet
  <2> QED BY <2>1, <2>2, TouchStructure DEF CacheObjGet
<1>6. CASE \E c \in CObjs : UnrefCell(t, c)
  <2>1. PICK c \in CObjs : UnrefCell(t, c)
    BY <1>6
  <2>2. /\ pc[t] = "idle" /\ t \in users[c] /\ kind[c] = "ext"
        /\ users' = [users EXCEPT ![c] = @ \ {t}]
        /\ UNCHANGED <<kind, obj, lru, tmp, ret>>
    BY <1>0, <2>1 DEF UnrefCell, Ready, CellInv
  <2>3. tmp[t] = None /\ arg[t] = None
    BY <1>0, <2>2 DEF ThreadInv, Inserting
  <2>4. /\ \A d \in CObjs : users'[d] # {} => kind[d] = "ext"
        /\ \A u \in Threads : pc[u] = "delete" => users'[arg[u]] = {}
        /\ \A u \in Threads : arg[u] # c
    <3>1. \A d \in CObjs : users'[d] \subseteq users[d] /\ (d # c => users'[d] = users[d])
      BY <1>0, <2>2 DEF Types, CellTypes
    <3>2. \A d \in CObjs : users'[d] # {} => kind[d] = "ext"
      BY <1>0, <3>1 DEF CellInv
    <3>3. \A u \in Threads : arg[u] # c
      BY <1>0, <2>2, NoneAssumption DEF ThreadInv, CellInv
    <3>4. \A u \in Threads : pc[u] = "delete" => users'[arg[u]] = {}
      <4> SUFFICES ASSUME NEW u \in Threads, pc[u] = "delete" PROVE users'[arg[u]] = {}
        OBVIOUS
      <4>1. arg[u] \in CObjs /\ users[arg[u]] = {}
        BY <1>0 DEF ThreadInv, Types, ThreadTypes
      <4> QED BY <3>1, <4>1
    <3> QED BY <3>2, <3>3, <3>4
  <2>5. CASE users[c] = {t}
    <3>1. pc' = [pc EXCEPT ![t] = "delete"] /\ arg' = [arg EXCEPT ![t] = c]
      BY <2>1, <2>5 DEF UnrefCell
    <3>2. users'[c] = {}
      BY <2>2, <2>5 DEF Types, CellTypes
    <3>3. /\ pc'[t] = "delete" /\ arg'[t] = c
          /\ \A u \in Threads \ {t} : pc'[u] = pc[u] /\ arg'[u] = arg[u]
      BY <3>1 DEF Types, ThreadTypes
    <3> QED BY <2>2, <2>3, <2>4, <3>2, <3>3, NoneAssumption, ThreadStep DEF Inserting
  <2>6. CASE users[c] # {t}
    <3>1. UNCHANGED <<pc, arg>>
      BY <2>1, <2>6 DEF UnrefCell
    <3> QED BY <2>2, <2>3, <2>4, <3>1, ThreadStep DEF Inserting
  <2> QED BY <2>5, <2>6
<1>7. CASE \E c \in CObjs, size \in Sizes, free \in FreeSpaces : CacheObjSetSize(t, c, size, free)
  BY <1>7, CallStep DEF CacheObjSetSize, Resize, EnterCheck, Ready
<1>8. CASE \E full \in BOOLEAN, free \in FreeSpaces \cup {0} : Checkspace(t, full, free)
  BY <1>8, CallStep DEF Checkspace, EnterCheck, Ready
<1>9. CASE Clear(t)
  BY <1>9, CallStep DEF Clear, Ready
<1>11. CASE \E n \in Names : Cache2Get(t, n)
  <2>1. PICK n \in Names : Cache2Get(t, n)
    BY <1>11
  <2>2. Find(n) \in CObjs /\ Find(n) \in Listed(lru)
    BY <2>1, FindProperties DEF Cache2Get, Types, CellTypes
  <2> QED BY <2>1, <2>2, TouchStructure DEF Cache2Get
<1>12. CASE \E n \in Names, size \in Sizes, free \in FreeSpaces : Cache2SetSize(t, n, size, free)
  <2>1. PICK n \in Names, size \in Sizes, free \in FreeSpaces : Cache2SetSize(t, n, size, free)
    BY <1>12
  <2>2. pc[t] = "idle" /\ UNCHANGED <<kind, obj, lru, users, tmp, ret, arg>>
    BY <2>1 DEF Cache2SetSize
  <2>3. pc' = pc \/ pc' = [pc EXCEPT ![t] = "loop"]
    BY <2>1 DEF Cache2SetSize, Resize, EnterCheck
  <2> QED BY <1>b, <2>2, <2>3, CallStep
<1>13. CASE SetOff(t)
  BY <1>13, <1>a DEF SetOff
<1>14. CASE Destroy(t)
  <2>1. pc[t] = "idle"
    BY <1>14 DEF Destroy, Ready
  <2> QED BY <1>14, <2>1, CallStep DEF Destroy
<1>10. CASE \E n \in Names, c \in CObjs : Cache2Set(t, n, c)
  <2>1. PICK n \in Names, c \in CObjs : Cache2Set(t, n, c)
    BY <1>10
  <2>2. /\ pc[t] = "idle" /\ kind[c] = "none" /\ hold[t] # None
        /\ UNCHANGED users
    BY <2>1 DEF Cache2Set, Ready
  <2>3. /\ obj[c] = None /\ users[c] = {} /\ c \notin Listed(lru) /\ NoDup(lru)
        /\ tmp[t] = None /\ arg[t] = None
    BY <1>0, <2>2, ListedCell DEF CellInv, ThreadInv, Inserting
  <2>4. \A u \in Threads : arg[u] # c
    BY <1>0, <2>2, NoneAssumption DEF ThreadInv
  <2>5. CASE Find(n) = None
    <3>1. /\ lru' = InFront(lru, c)
          /\ kind' = [kind EXCEPT ![c] = "int"]
          /\ obj' = [obj EXCEPT ![c] = hold[t]]
          /\ UNCHANGED <<tmp, pc, ret, arg>>
      BY <2>1, <2>5 DEF Cache2Set
    <3>2. ThreadInv'
      BY <1>0, <2>2, <2>4, <3>1 DEF ThreadInv, Inserting, Types, ThreadTypes, CellTypes
    <3>3. CellInv'
      BY <1>0, <2>2, <2>3, <3>1 DEF CellInv, Types, CellTypes
    <3>4. ListMatchesCells'
      <4>1. NoDup(lru') /\ Listed(lru') = Listed(lru) \cup {c}
        BY <2>3, <3>1, InFrontProperties DEF Types, CellTypes
      <4>2. ASSUME NEW d \in CObjs
            PROVE  d \in Listed(lru') <=> obj'[d] # None /\ kind'[d] # "new"
        BY <2>2, <3>1, <4>1, ListedCell DEF Types, CellTypes
      <4> QED BY <4>1, <4>2 DEF ListMatchesCells, NoDup
    <3> QED BY <3>2, <3>3, <3>4 DEF Structure
  <2>6. CASE Find(n) # None
    <3> DEFINE e == Find(n)
    <3>1. /\ lru' = Without(lru, e)
          /\ kind' = [kind EXCEPT ![c] = "new", ![e] = "freed"]
          /\ obj' = [obj EXCEPT ![c] = hold[t], ![e] = None]
          /\ tmp' = [tmp EXCEPT ![t] = obj[e]]
          /\ pc' = [pc EXCEPT ![t] = "free"]
          /\ ret' = [ret EXCEPT ![t] = "insert"]
          /\ arg' = [arg EXCEPT ![t] = c]
      BY <2>1, <2>6 DEF Cache2Set
    <3>2. e \in CObjs /\ e \in Listed(lru) /\ kind[e] = "int"
      BY <2>6, FindProperties DEF Types, CellTypes
    <3> HIDE DEF e
    <3>3. obj[e] # None /\ users[e] = {} /\ e # c /\ \A u \in Threads : arg[u] # e
      BY <1>0, <2>2, <3>2, ListedCell, NoneAssumption DEF CellInv, ThreadInv
    <3>4. ThreadInv'
      <4>1. /\ pc'[t] = "free" /\ ret'[t] = "insert" /\ tmp'[t] = obj[e] /\ arg'[t] = c
            /\ kind'[c] = "new" /\ c # None
            /\ \A u \in Threads \ {t} : pc'[u] = pc[u] /\ ret'[u] = ret[u]
                                        /\ tmp'[u] = tmp[u] /\ arg'[u] = arg[u]
        BY <3>1, <3>3, NoneAssumption DEF Types, ThreadTypes, CellTypes
      <4>2. \A u \in Threads : arg[u] # None => kind'[arg[u]] = kind[arg[u]]
        BY <2>4, <3>1, <3>3 DEF Types, ThreadTypes, CellTypes
      <4> QED BY <1>0, <2>2, <2>4, <3>3, <4>1, <4>2 DEF ThreadInv, Inserting
    <3>5. CellInv'
      BY <1>0, <2>2, <2>3, <3>1, <3>2, <3>3 DEF CellInv, Types, CellTypes
    <3>6. ListMatchesCells'
      <4>1. NoDup(lru') /\ Listed(lru') = Listed(lru) \ {e}
        BY <2>3, <3>1, <3>2, WithoutProperties DEF Types, CellTypes
      <4>2. ASSUME NEW d \in CObjs
            PROVE  d \in Listed(lru') <=> obj'[d] # None /\ kind'[d] # "new"
        BY <2>3, <3>1, <3>2, <3>3, <4>1, ListedCell DEF Types, CellTypes
      <4> QED BY <4>1, <4>2 DEF ListMatchesCells, NoDup
    <3> QED BY <3>4, <3>5, <3>6 DEF Structure
  <2> QED BY <2>5, <2>6
<1> QED BY <1>1, <1>2, <1>3, <1>4, <1>5, <1>6, <1>7, <1>8, <1>9, <1>10, <1>11, <1>12,
           <1>13, <1>14 DEF Call

----------------------------------------------------------------------------
(* Reference counts.                                                       *)

\* An object that does not exist yet has no references.
Unborn == \A o \in Objs \ born : refctr[o] = 0

Counts == RefctrExact /\ Unborn

\* Lemma Counting for the three places that hold references.
LEMMA HeldType ==
    ASSUME Types, NEW o
    PROVE  Held(hold, o) \in Nat /\ Held(obj, o) \in Nat /\ Held(tmp, o) \in Nat
<1>1. Held(hold, o) \in Nat
  BY HeldIsNat, FiniteAssumption DEF Types, ObjTypes
<1>2. Held(obj, o) \in Nat
  BY HeldIsNat, FiniteAssumption DEF Types, CellTypes
<1>3. Held(tmp, o) \in Nat
  BY HeldIsNat, FiniteAssumption DEF Types, ThreadTypes
<1> QED BY <1>1, <1>2, <1>3

\* The counts when what a thread holds changes.
LEMMA HeldHold ==
    ASSUME Types, NEW t \in Threads, NEW v \in Objs \cup {None}, NEW o
    PROVE  /\ Held([hold EXCEPT ![t] = v], o) = Held(hold, o) + One(v, o) - One(hold[t], o)
           /\ hold[t] = o => Held(hold, o) > 0
<1> DEFINE g == [hold EXCEPT ![t] = v]
<1>1. hold \in [Threads -> Objs \cup {None}]
  BY DEF Types, ObjTypes
<1>2. /\ DOMAIN g = DOMAIN hold /\ g[t] = v /\ t \in DOMAIN hold
      /\ \A x \in DOMAIN hold \ {t} : g[x] = hold[x]
  BY <1>1
<1>3. IsFiniteSet(DOMAIN hold)
  BY <1>1, FiniteAssumption
<1> HIDE DEF g
<1>4. /\ Held(g, o) = Held(hold, o) + One(g[t], o) - One(hold[t], o)
      /\ hold[t] = o => Held(hold, o) > 0
  BY <1>2, <1>3, Counting
<1> QED BY <1>2, <1>4 DEF g

\* The counts when the object of a cacheobj changes.
LEMMA HeldObj ==
    ASSUME Types, NEW c \in CObjs, NEW v \in Objs \cup {None}, NEW o
    PROVE  /\ Held([obj EXCEPT ![c] = v], o) = Held(obj, o) + One(v, o) - One(obj[c], o)
           /\ obj[c] = o => Held(obj, o) > 0
<1> DEFINE g == [obj EXCEPT ![c] = v]
<1>1. obj \in [CObjs -> Objs \cup {None}]
  BY DEF Types, CellTypes
<1>2. /\ DOMAIN g = DOMAIN obj /\ g[c] = v /\ c \in DOMAIN obj
      /\ \A x \in DOMAIN obj \ {c} : g[x] = obj[x]
  BY <1>1
<1>3. IsFiniteSet(DOMAIN obj)
  BY <1>1, FiniteAssumption
<1> HIDE DEF g
<1>4. /\ Held(g, o) = Held(obj, o) + One(g[c], o) - One(obj[c], o)
      /\ obj[c] = o => Held(obj, o) > 0
  BY <1>2, <1>3, Counting
<1> QED BY <1>2, <1>4 DEF g

\* The counts when the object a call has in hand changes.
LEMMA HeldTmp ==
    ASSUME Types, NEW t \in Threads, NEW v \in Objs \cup {None}, NEW o
    PROVE  /\ Held([tmp EXCEPT ![t] = v], o) = Held(tmp, o) + One(v, o) - One(tmp[t], o)
           /\ tmp[t] = o => Held(tmp, o) > 0
<1> DEFINE g == [tmp EXCEPT ![t] = v]
<1>1. tmp \in [Threads -> Objs \cup {None}]
  BY DEF Types, ThreadTypes
<1>2. /\ DOMAIN g = DOMAIN tmp /\ g[t] = v /\ t \in DOMAIN tmp
      /\ \A x \in DOMAIN tmp \ {t} : g[x] = tmp[x]
  BY <1>1
<1>3. IsFiniteSet(DOMAIN tmp)
  BY <1>1, FiniteAssumption
<1> HIDE DEF g
<1>4. /\ Held(g, o) = Held(tmp, o) + One(g[t], o) - One(tmp[t], o)
      /\ tmp[t] = o => Held(tmp, o) > 0
  BY <1>2, <1>3, Counting
<1> QED BY <1>2, <1>4 DEF g

\* An object to which there is a reference exists, and av_ref_obj and
\* av_unref_obj on it count by one.
LEMMA HeldCounts ==
    ASSUME Types, Counts, NEW o \in Objs,
           Held(hold, o) > 0 \/ Held(obj, o) > 0 \/ Held(tmp, o) > 0
    PROVE  /\ refctr[o] > 0 /\ o \in born
           /\ Ref(refctr[o]) = refctr[o] + 1
           /\ Unref(refctr[o]) = refctr[o] - 1
<1>1. refctr[o] = Held(hold, o) + Held(obj, o) + Held(tmp, o)
  BY DEF Counts, RefctrExact, References, Held
<1>2. refctr[o] > 0
  BY <1>1, HeldType
<1>3. o \in born
  BY <1>2 DEF Counts, Unborn
<1> QED BY <1>2, <1>3 DEF Ref, Unref, Types, ObjTypes

\* What has to be shown of a step: the four numbers change together.
LEMMA CountsStep ==
    ASSUME Counts, born \subseteq born',
           \A o \in Objs : refctr'[o] = Held(hold', o) + Held(obj', o) + Held(tmp', o),
           \A o \in Objs \ born' : refctr'[o] = refctr[o]
    PROVE  Counts'
BY DEF Counts, RefctrExact, Unborn, References, Held

\* A step that touches no reference keeps the counts.
LEMMA CountsSame ==
    ASSUME Counts, UNCHANGED <<born, refctr, hold, obj, tmp>>
    PROVE  Counts'
BY DEF Counts, RefctrExact, Unborn, References

\* What the count of an object is.
LEMMA CountsNow ==
    ASSUME Counts, NEW o \in Objs
    PROVE  refctr[o] = Held(hold, o) + Held(obj, o) + Held(tmp, o)
BY DEF Counts, RefctrExact, References, Held

\* The counts hold at the start.
LEMMA CountsInit == Init => Counts
<1> SUFFICES ASSUME Init PROVE Counts
  OBVIOUS
<1>1. ASSUME NEW o \in Objs PROVE HeldBy(hold, o) = {} /\ HeldBy(obj, o) = {} /\ HeldBy(tmp, o) = {}
  BY NoneAssumption DEF Init, HeldBy
<1>2. Cardinality({}) = 0
  BY FS_EmptySet
<1>3. ASSUME NEW o \in Objs PROVE References(o) = 0
  <2>1. HeldBy(hold, o) = {} /\ HeldBy(obj, o) = {} /\ HeldBy(tmp, o) = {}
    BY <1>1
  <2> QED BY <1>2, <2>1 DEF References
<1>4. RefctrExact
  BY <1>3 DEF Init, RefctrExact
<1>5. Unborn
  BY DEF Init, Unborn
<1> QED BY <1>4, <1>5 DEF Counts

\* Unlink hands the cell's reference to the thread.
LEMMA UnlinkCounts ==
    ASSUME Types, Structure, Counts, NEW t \in Threads, pc[t] # "free",
           NEW c \in CObjs, NEW dies, NEW next, Unlink(t, c, dies, next),
           UNCHANGED <<born, refctr, hold>>
    PROVE  Counts'
<1>1. obj' = [obj EXCEPT ![c] = None] /\ tmp' = [tmp EXCEPT ![t] = obj[c]]
  BY DEF Unlink
<1>2. tmp[t] = None
  BY DEF Structure, ThreadInv
<1>3. ASSUME NEW o \in Objs
      PROVE  refctr'[o] = Held(hold', o) + Held(obj', o) + Held(tmp', o)
  <2>1. One(None, o) = 0
    BY NoneAssumption DEF One
  <2>2. Held(obj', o) = Held(obj, o) + One(None, o) - One(obj[c], o)
    BY <1>1, HeldObj
  <2>3. Held(tmp', o) = Held(tmp, o) + One(obj[c], o) - One(None, o)
    <3>1. obj[c] \in Objs \cup {None}
      BY DEF Types, CellTypes
    <3> QED BY <1>1, <1>2, <3>1, HeldTmp
  <2> QED BY <2>1, <2>2, <2>3, CountsNow, HeldType DEF One
<1> QED BY <1>3, CountsStep

\* The steps of an operation that has begun: a reference moves from the list
\* to the thread, and then it is given up.
LEMMA CountsContinue ==
    ASSUME Types, Structure, Counts, NEW t \in Threads, Continue(t)
    PROVE  Counts'
<1> USE DEF cells, knobs, objs, check, local
<1>0. ThreadInv
  BY DEF Structure
<1>1. CASE DeleteListed(t)
  <2>1. arg[t] \in CObjs
    BY <1>0, <1>1 DEF DeleteListed, ThreadInv, Types, ThreadTypes
  <2> QED BY <1>1, <2>1, UnlinkCounts DEF DeleteListed
<1>2. CASE LoopEvict(t)
  <2>1. Victim(skip[t]) \in CObjs
    BY <1>2, VictimProperties DEF LoopEvict, Types, CellTypes
  <2> QED BY <1>2, <2>1, UnlinkCounts DEF LoopEvict
<1>3. CASE ClearEvict(t)
  <2>1. Victim(None) \in CObjs
    BY <1>3, VictimProperties DEF ClearEvict, Types, CellTypes
  <2> QED BY <1>3, <2>1, UnlinkCounts DEF ClearEvict
<1>4. CASE DestroyOne(t)
  <2>1. PICK i \in DOMAIN lru : Unlink(t, lru[i], TRUE, "destroy")
    BY <1>4 DEF DestroyOne, Internal
  <2>2. lru[i] \in CObjs
    BY <2>1 DEF Types, CellTypes
  <2> QED BY <1>4, <2>1, <2>2, UnlinkCounts DEF DestroyOne
<1>5. CASE Release(t)
  <2>1. /\ tmp[t] \in Objs
        /\ refctr' = [refctr EXCEPT ![tmp[t]] = Unref(@)]
        /\ tmp' = [tmp EXCEPT ![t] = None]
        /\ UNCHANGED <<obj, hold, born>>
    BY <1>0, <1>5 DEF Release, ThreadInv, Types, ThreadTypes
  <2>2. Unref(refctr[tmp[t]]) = refctr[tmp[t]] - 1 /\ tmp[t] \in born
    BY <2>1, HeldTmp, HeldCounts
  <2>3. ASSUME NEW o \in Objs
        PROVE  refctr'[o] = Held(hold', o) + Held(obj', o) + Held(tmp', o)
    <3>1. Held(tmp', o) = Held(tmp, o) + One(None, o) - One(tmp[t], o)
      BY <2>1, HeldTmp
    <3>2. One(None, o) = 0
      BY NoneAssumption DEF One
    <3>3. refctr'[o] = refctr[o] - One(tmp[t], o)
      BY <2>1, <2>2 DEF One, Types, ObjTypes
    <3> QED BY <2>1, <3>1, <3>2, <3>3, CountsNow, HeldType DEF One
  <2>4. \A o \in Objs \ born' : refctr'[o] = refctr[o]
    BY <2>1, <2>2 DEF Types, ObjTypes
  <2> QED BY <2>1, <2>3, <2>4, CountsStep
<1>6. CASE DeleteEvicted(t) \/ LoopExit(t) \/ ClearExit(t) \/ Cache2Insert(t) \/ DestroyExit(t)
  BY <1>6, CountsSame DEF DeleteEvicted, LoopExit, ClearExit, Cache2Insert, DestroyExit
<1> QED BY <1>1, <1>2, <1>3, <1>4, <1>5, <1>6 DEF Continue

\* A caller takes a reference to an object of the cache.
LEMMA CountsGet ==
    ASSUME Types, Counts, NEW t \in Threads, NEW c \in CObjs,
           obj[c] # None, hold[t] = None,
           refctr' = [refctr EXCEPT ![obj[c]] = Ref(@)],
           hold' = [hold EXCEPT ![t] = obj[c]],
           UNCHANGED <<obj, tmp, born>>
    PROVE  Counts'
<1>1. obj[c] \in Objs
  BY DEF Types, CellTypes
<1>2. Ref(refctr[obj[c]]) = refctr[obj[c]] + 1 /\ obj[c] \in born
  BY <1>1, HeldObj, HeldCounts
<1>3. ASSUME NEW o \in Objs
      PROVE  refctr'[o] = Held(hold', o) + Held(obj', o) + Held(tmp', o)
  <2>1. Held(hold', o) = Held(hold, o) + One(obj[c], o) - One(None, o)
    BY <1>1, HeldHold
  <2>2. One(None, o) = 0
    BY NoneAssumption DEF One
  <2>3. refctr'[o] = refctr[o] + One(obj[c], o)
    BY <1>1, <1>2 DEF One, Types, ObjTypes
  <2> QED BY <2>1, <2>2, <2>3, CountsNow, HeldType DEF One
<1>4. \A o \in Objs \ born' : refctr'[o] = refctr[o]
  BY <1>2 DEF Types, ObjTypes
<1> QED BY <1>3, <1>4, CountsStep

\* A cell that stores nothing takes a reference to the object the caller holds.
LEMMA CountsStore ==
    ASSUME Types, Counts, NEW t \in Threads, NEW c \in CObjs,
           obj[c] = None, hold[t] # None,
           refctr' = [refctr EXCEPT ![hold[t]] = Ref(@)],
           obj' = [obj EXCEPT ![c] = hold[t]],
           UNCHANGED <<hold, tmp, born>>
    PROVE  Counts'
<1>1. hold[t] \in Objs
  BY DEF Types, ObjTypes
<1>2. Ref(refctr[hold[t]]) = refctr[hold[t]] + 1 /\ hold[t] \in born
  BY <1>1, HeldHold, HeldCounts
<1>3. ASSUME NEW o \in Objs
      PROVE  refctr'[o] = Held(hold', o) + Held(obj', o) + Held(tmp', o)
  <2>1. Held(obj', o) = Held(obj, o) + One(hold[t], o) - One(None, o)
    BY <1>1, HeldObj
  <2>2. One(None, o) = 0
    BY NoneAssumption DEF One
  <2>3. refctr'[o] = refctr[o] + One(hold[t], o)
    BY <1>1, <1>2 DEF One, Types, ObjTypes
  <2> QED BY <2>1, <2>2, <2>3, CountsNow, HeldType DEF One
<1>4. \A o \in Objs \ born' : refctr'[o] = refctr[o]
  BY <1>2 DEF Types, ObjTypes
<1> QED BY <1>3, <1>4, CountsStep

\* av_cache2_set takes a reference for the new cell while the one of its
\* predecessor e passes to the thread.
LEMMA CountsReplace ==
    ASSUME Types, Counts, NEW t \in Threads, NEW c \in CObjs, NEW e \in CObjs,
           obj[c] = None, hold[t] # None, tmp[t] = None, c # e,
           refctr' = [refctr EXCEPT ![hold[t]] = Ref(@)],
           obj' = [obj EXCEPT ![c] = hold[t], ![e] = None],
           tmp' = [tmp EXCEPT ![t] = obj[e]],
           UNCHANGED <<hold, born>>
    PROVE  Counts'
<1> DEFINE stored == [obj EXCEPT ![c] = hold[t]]
           after  == [stored EXCEPT ![e] = None]
<1>1. hold[t] \in Objs /\ obj[e] \in Objs \cup {None}
  BY DEF Types, ObjTypes, CellTypes
<1>2. Ref(refctr[hold[t]]) = refctr[hold[t]] + 1 /\ hold[t] \in born
  BY <1>1, HeldHold, HeldCounts
<1>3. /\ IsFiniteSet(DOMAIN obj) /\ DOMAIN stored = DOMAIN obj /\ c \in DOMAIN obj
      /\ stored[c] = hold[t] /\ obj[c] = None
      /\ \A d \in DOMAIN obj \ {c} : stored[d] = obj[d]
  BY FiniteAssumption DEF Types, CellTypes
<1>4. /\ IsFiniteSet(DOMAIN stored) /\ DOMAIN after = DOMAIN stored /\ e \in DOMAIN stored
      /\ stored[e] = obj[e] /\ after[e] = None
      /\ \A d \in DOMAIN stored \ {e} : after[d] = stored[d]
  BY FiniteAssumption DEF Types, CellTypes
<1>9. obj' = after
  OBVIOUS
<1> HIDE DEF stored, after
<1>5. ASSUME NEW o \in Objs
      PROVE  refctr'[o] = Held(hold', o) + Held(obj', o) + Held(tmp', o)
  <2>1. Held(stored, o) = Held(obj, o) + One(hold[t], o) - One(None, o)
    BY <1>3, Counting
  <2>2. Held(obj', o) = Held(stored, o) + One(None, o) - One(obj[e], o)
    <3>1. Held(after, o) = Held(stored, o) + One(after[e], o) - One(stored[e], o)
      BY <1>4, Counting
    <3> QED BY <1>4, <1>9, <3>1
  <2>3. Held(tmp', o) = Held(tmp, o) + One(obj[e], o) - One(None, o)
    BY <1>1, HeldTmp
  <2>4. One(None, o) = 0
    BY NoneAssumption DEF One
  <2>5. refctr'[o] = refctr[o] + One(hold[t], o)
    BY <1>1, <1>2 DEF One, Types, ObjTypes
  <2> QED BY <2>1, <2>2, <2>3, <2>4, <2>5, CountsNow, HeldType DEF One
<1>6. \A o \in Objs \ born' : refctr'[o] = refctr[o]
  BY <1>2 DEF Types, ObjTypes
<1> QED BY <1>5, <1>6, CountsStep

\* The operations a caller starts.
LEMMA CountsCall ==
    ASSUME Types, Structure, Counts, NEW t \in Threads, Call(t)
    PROVE  Counts'
<1> USE DEF cells, knobs, objs, check, local
<1>0. ThreadInv /\ CellInv
  BY DEF Structure
<1>1. CASE \E o \in Objs : NewObj(t, o)
  <2>1. PICK n \in Objs : NewObj(t, n)
    BY <1>1
  <2>2. /\ hold[t] = None /\ n \notin born /\ born' = born \cup {n}
        /\ refctr' = [refctr EXCEPT ![n] = 1]
        /\ hold' = [hold EXCEPT ![t] = n]
        /\ UNCHANGED <<obj, tmp>>
    BY <2>1 DEF NewObj
  <2>3. refctr[n] = 0
    BY <2>2 DEF Counts, Unborn
  <2>4. ASSUME NEW o \in Objs
        PROVE  refctr'[o] = Held(hold', o) + Held(obj', o) + Held(tmp', o)
    <3>1. Held(hold', o) = Held(hold, o) + One(n, o) - One(None, o)
      BY <2>2, HeldHold
    <3>2. One(None, o) = 0
      BY NoneAssumption DEF One
    <3>3. refctr'[o] = refctr[o] + One(n, o)
      BY <2>2, <2>3 DEF One, Types, ObjTypes
    <3> QED BY <2>2, <3>1, <3>2, <3>3, CountsNow, HeldType DEF One
  <2>5. \A o \in Objs \ born' : refctr'[o] = refctr[o]
    BY <2>2 DEF Types, ObjTypes
  <2> QED BY <2>2, <2>4, <2>5, CountsStep
<1>2. CASE DropObj(t)
  <2>1. /\ hold[t] \in Objs
        /\ refctr' = [refctr EXCEPT ![hold[t]] = Unref(@)]
        /\ hold' = [hold EXCEPT ![t] = None]
        /\ UNCHANGED <<obj, tmp, born>>
    BY <1>2 DEF DropObj, Types, ObjTypes
  <2>2. Unref(refctr[hold[t]]) = refctr[hold[t]] - 1 /\ hold[t] \in born
    BY <2>1, HeldHold, HeldCounts
  <2>3. ASSUME NEW o \in Objs
        PROVE  refctr'[o] = Held(hold', o) + Held(obj', o) + Held(tmp', o)
    <3>1. Held(hold', o) = Held(hold, o) + One(None, o) - One(hold[t], o)
      BY <2>1, HeldHold
    <3>2. One(None, o) = 0
      BY NoneAssumption DEF One
    <3>3. refctr'[o] = refctr[o] - One(hold[t], o)
      BY <2>1, <2>2 DEF One, Types, ObjTypes
    <3> QED BY <2>1, <3>1, <3>2, <3>3, CountsNow, HeldType DEF One
  <2>4. \A o \in Objs \ born' : refctr'[o] = refctr[o]
    BY <2>1, <2>2 DEF Types, ObjTypes
  <2> QED BY <2>1, <2>3, <2>4, CountsStep
<1>3. CASE \E c \in CObjs : CacheObjNew(t, c)
  <2>1. PICK c \in CObjs : CacheObjNew(t, c)
    BY <1>3
  <2>2. obj[c] = None
    BY <1>0, <2>1 DEF CacheObjNew, CellInv
  <2> QED BY <2>1, <2>2, CountsStore DEF CacheObjNew
<1>4. CASE \E c \in CObjs : CacheObjGet(t, c)
  BY <1>4, CountsGet DEF CacheObjGet
<1>5. CASE \E n \in Names : Cache2Get(t, n)
  <2>1. PICK n \in Names : Cache2Get(t, n)
    BY <1>5
  <2>2. Find(n) \in CObjs /\ Find(n) \in Listed(lru)
    BY <2>1, FindProperties DEF Cache2Get, Types, CellTypes
  <2>3. obj[Find(n)] # None
    BY <2>2, ListedCell
  <2> QED BY <2>1, <2>2, <2>3, CountsGet DEF Cache2Get
<1>6. CASE \E n \in Names, c \in CObjs : Cache2Set(t, n, c)
  <2>1. PICK n \in Names, c \in CObjs : Cache2Set(t, n, c)
    BY <1>6
  <2>2. pc[t] = "idle" /\ kind[c] = "none" /\ hold[t] # None
    BY <2>1 DEF Cache2Set, Ready
  <2>3. obj[c] = None /\ tmp[t] = None
    BY <1>0, <2>2 DEF CellInv, ThreadInv
  <2>4. CASE Find(n) = None
    BY <2>1, <2>2, <2>3, <2>4, CountsStore DEF Cache2Set
  <2>5. CASE Find(n) # None
    <3>1. Find(n) \in CObjs /\ kind[Find(n)] = "int"
      BY <2>5, FindProperties DEF Types, CellTypes
    <3>2. c # Find(n)
      BY <2>2, <3>1
    <3> QED BY <2>1, <2>2, <2>3, <2>5, <3>1, <3>2, CountsReplace DEF Cache2Set
  <2> QED BY <2>4, <2>5
<1>7. CASE \/ \E u \in Threads, c \in CObjs : ShareCell(t, u, c)
           \/ \E c \in CObjs : UnrefCell(t, c)
           \/ \E c \in CObjs, size \in Sizes, free \in FreeSpaces : CacheObjSetSize(t, c, size, free)
           \/ \E full \in BOOLEAN, free \in FreeSpaces \cup {0} : Checkspace(t, full, free)
           \/ Clear(t)
           \/ \E n \in Names, size \in Sizes, free \in FreeSpaces : Cache2SetSize(t, n, size, free)
           \/ SetOff(t)
           \/ Destroy(t)
  <2>1. UNCHANGED <<born, refctr, hold, obj, tmp>>
    BY <1>7 DEF ShareCell, UnrefCell, CacheObjSetSize, Checkspace, Clear, Cache2SetSize, SetOff, Destroy
  <2> QED BY <2>1, CountsSame
<1> QED BY <1>1, <1>2, <1>3, <1>4, <1>5, <1>6, <1>7 DEF Call

----------------------------------------------------------------------------
(* The theorems.                                                           *)

\* The inductive invariant.
IInv == Types /\ Structure /\ Counts

\* The inductive invariant holds in every reachable state.
LEMMA IInvHolds == Spec => []IInv
<1>1. Init => IInv
  BY TypesInit, StructureInit, CountsInit DEF IInv
<1>2. IInv /\ [Next]_vars => IInv'
  <2> SUFFICES ASSUME IInv, [Next]_vars PROVE IInv'
    OBVIOUS
  <2>1. ThreadInv
    BY DEF IInv, Structure
  <2>2. ASSUME NEW t \in Threads, Call(t) PROVE IInv'
    BY <2>1, <2>2, TypesCall, StructureCall, CountsCall DEF IInv
  <2>3. ASSUME NEW t \in Threads, Continue(t) PROVE IInv'
    BY <2>1, <2>3, TypesContinue, StructureContinue, CountsContinue DEF IInv
  <2>4. CASE UNCHANGED vars
    <3> USE <2>4 DEF IInv, vars, cells, knobs, objs, check, local
    <3>1. Types'
      BY DEF Types, CellTypes, SpaceTypes, ObjTypes, ThreadTypes
    <3>2. Structure'
      BY DEF Structure, ThreadInv, CellInv, ListMatchesCells, Listed, Inserting
    <3>3. Counts'
      BY CountsSame
    <3> QED BY <3>1, <3>2, <3>3
  <2> QED BY <2>2, <2>3, <2>4 DEF Next
<1> QED BY <1>1, <1>2, PTL DEF Spec

\* A cell is in the list exactly as long as it stores an object, and once,
\* whatever evictions, deletions and insertions interleave.
THEOREM ListCorrect == Spec => []ListMatchesCells
<1>1. IInv => ListMatchesCells
  BY DEF IInv, Structure
<1> QED BY <1>1, IInvHolds, PTL

\* The counter in the header of a stored object is the number of references to
\* it that callers, cells and releasing threads have.
THEOREM RefctrCorrect == Spec => []RefctrExact
<1>1. IInv => RefctrExact
  BY DEF IInv, Counts
<1> QED BY <1>1, IInvHolds, PTL

\* Every variable keeps its type and no reference count becomes negative.
THEOREM TypeCorrect == Spec => []TypeOK
<1>1. ASSUME IInv, NEW o \in Objs PROVE refctr[o] >= 0
  BY <1>1, CountsNow, HeldType DEF IInv
<1>2. IInv => TypeOK
  BY <1>1 DEF IInv, TypeOK
<1> QED BY <1>2, IInvHolds, PTL

\* A step of one thread leaves alone where the others are and their limits.
LEMMA OthersKept ==
    ASSUME Types, NEW t \in Threads, Call(t) \/ Continue(t)
    PROVE  \A u \in Threads \ {t} : pc'[u] = pc[u] /\ ret'[u] = ret[u] /\ limit'[u] = limit[u]
<1>1. SUFFICES ASSUME NEW u \in Threads \ {t}
               PROVE  pc'[u] = pc[u] /\ ret'[u] = ret[u] /\ limit'[u] = limit[u]
  OBVIOUS
<1>2. pc \in [Threads -> Places] /\ ret \in [Threads -> Places] /\ limit \in [Threads -> Offsets]
  BY DEF Types, ThreadTypes, SpaceTypes
<1> USE DEF cells, knobs, objs, check, local, EnterCheck, Resize, Return, Unlink
<1>3. CASE Call(t)
  <2>1. CASE \/ (\E o \in Objs : NewObj(t, o)) \/ DropObj(t)
             \/ \E v \in Threads, c \in CObjs : ShareCell(t, v, c)
             \/ \E c \in CObjs : CacheObjNew(t, c) \/ CacheObjGet(t, c) \/ UnrefCell(t, c)
    <3>1. pc'[u] = pc[u]
      BY ONLY <1>2, <2>1 DEF NewObj, DropObj, ShareCell, CacheObjNew, CacheObjGet, UnrefCell
    <3>2. ret'[u] = ret[u]
      BY ONLY <1>2, <2>1 DEF NewObj, DropObj, ShareCell, CacheObjNew, CacheObjGet, UnrefCell
    <3>3. limit'[u] = limit[u]
      BY ONLY <1>2, <2>1 DEF NewObj, DropObj, ShareCell, CacheObjNew, CacheObjGet, UnrefCell
    <3> QED BY <3>1, <3>2, <3>3
  <2>2. CASE \/ \E c \in CObjs, size \in Sizes, free \in FreeSpaces : CacheObjSetSize(t, c, size, free)
             \/ \E full \in BOOLEAN, free \in FreeSpaces \cup {0} : Checkspace(t, full, free)
             \/ Clear(t)
    <3>1. pc'[u] = pc[u]
      BY ONLY <1>2, <2>2 DEF CacheObjSetSize, Checkspace, Clear
    <3>2. ret'[u] = ret[u]
      BY ONLY <1>2, <2>2 DEF CacheObjSetSize, Checkspace, Clear
    <3>3. limit'[u] = limit[u]
      BY ONLY <1>2, <2>2 DEF CacheObjSetSize, Checkspace, Clear
    <3> QED BY <3>1, <3>2, <3>3
  <2>3. CASE \/ \E m \in Names, c \in CObjs : Cache2Set(t, m, c)
             \/ \E m \in Names : Cache2Get(t, m)
             \/ \E m \in Names, size \in Sizes, free \in FreeSpaces : Cache2SetSize(t, m, size, free)
             \/ SetOff(t) \/ Destroy(t)
    <3>1. pc'[u] = pc[u]
      BY ONLY <1>2, <2>3 DEF Cache2Set, Cache2Get, Cache2SetSize, SetOff, Destroy
    <3>2. ret'[u] = ret[u]
      BY ONLY <1>2, <2>3 DEF Cache2Set, Cache2Get, Cache2SetSize, SetOff, Destroy
    <3>3. limit'[u] = limit[u]
      BY ONLY <1>2, <2>3 DEF Cache2Set, Cache2Get, Cache2SetSize, SetOff, Destroy
    <3> QED BY <3>1, <3>2, <3>3
  <2> QED BY ONLY <1>3, <2>1, <2>2, <2>3 DEF Call
<1>4. CASE Continue(t)
  <2>1. pc'[u] = pc[u] /\ ret'[u] = ret[u]
    BY <1>2, <1>4 DEF Continue, DeleteListed, DeleteEvicted, LoopEvict, LoopExit,
       Release, ClearEvict, ClearExit, Cache2Insert, DestroyOne, DestroyExit
  <2>2. limit'[u] = limit[u]
    BY <1>2, <1>4 DEF Continue, DeleteListed, DeleteEvicted, LoopEvict, LoopExit,
       Release, ClearEvict, ClearExit, Cache2Insert, DestroyOne, DestroyExit
  <2> QED BY <2>1, <2>2
<1> QED BY <1>3, <1>4

\* cache_checkspace, called to make room for an entry whose size was set,
\* never evicts that entry.
THEOREM OwnEntryCorrect == Spec => OwnEntryKept
<1> DEFINE Kept == \A t \in Threads :
                       pc[t] = "loop" /\ pc'[t] = "free" /\ skip[t] # None
                           => obj'[skip[t]] = obj[skip[t]]
<1>1. ASSUME IInv, Next PROVE Kept
  <2> SUFFICES ASSUME NEW t \in Threads, pc[t] = "loop", pc'[t] = "free", skip[t] # None
               PROVE  obj'[skip[t]] = obj[skip[t]]
    OBVIOUS
  <2>1. pc \in [Threads -> Places] /\ obj \in [CObjs -> Objs \cup {None}] /\ skip[t] \in CObjs
    BY <1>1 DEF IInv, Types, ThreadTypes, CellTypes
  <2>2. ASSUME NEW u \in Threads, Call(u) \/ Continue(u), u # t PROVE pc'[t] = pc[t]
    <3>1. Types
      BY <1>1 DEF IInv
    <3> QED BY <2>2, <3>1, OthersKept
  <2>3. Call(t) \/ Continue(t)
    BY <1>1, <2>2 DEF Next
  <2>4. ~Call(t)
    BY DEF Call, Ready, NewObj, DropObj, ShareCell, CacheObjNew, CacheObjGet,
       UnrefCell, CacheObjSetSize, Checkspace, Clear, Cache2Set, Cache2Get, Cache2SetSize,
       SetOff, Destroy
  <2>5. LoopEvict(t)
    BY <2>1, <2>3, <2>4 DEF Continue, DeleteListed, DeleteEvicted, LoopExit, Return,
       Release, ClearEvict, ClearExit, Cache2Insert, DestroyOne, DestroyExit
  <2>6. Victim(skip[t]) \in CObjs /\ Victim(skip[t]) # skip[t]
    <3>1. NoDup(lru) /\ lru \in Seq(CObjs)
      BY <1>1 DEF IInv, Types, CellTypes, Structure, ListMatchesCells, NoDup
    <3> QED BY <2>5, <3>1, VictimProperties DEF LoopEvict
  <2> QED BY <2>1, <2>5, <2>6 DEF LoopEvict, Unlink
<1>2. IInv /\ [Next]_vars => [Kept]_vars
  BY <1>1
<1> QED BY <1>2, IInvHolds, PTL DEF Spec, OwnEntryKept

----------------------------------------------------------------------------
(* What a step does to the cells that are stored.                          *)

Stored == {c \in CObjs : obj[c] # None /\ kind[c] # "new"}

\* The stored cells are those of the list.
LEMMA StoredIsListed ==
    ASSUME Types, Structure
    PROVE  Listed(lru) = Stored /\ IsFiniteSet(Stored)
<1>1. Listed(lru) \subseteq CObjs
  BY DEF Types, CellTypes, Listed
<1>2. Listed(lru) = Stored
  BY <1>1, ListedCell DEF Stored
<1>3. Stored \subseteq CObjs
  BY DEF Stored
<1> QED BY <1>2, <1>3, FS_Subset, FiniteAssumption

\* Four things can happen: nothing; a cell that uses no disk yet is stored; one is
\* taken out, and so is what it uses from disk_usage; one changes its size.
SpaceKept == Stored' = Stored /\ UNCHANGED <<diskusage, disk_usage>>

Added(c) ==
    /\ c \notin Stored /\ kind[c] \in {"none", "new"} /\ Stored' = Stored \cup {c}
    /\ UNCHANGED <<diskusage, disk_usage>>

Removed(c) ==
    /\ c \in Stored /\ Stored' = Stored \ {c}
    /\ disk_usage' = disk_usage - diskusage[c] /\ UNCHANGED diskusage

Resized(t, c) ==
    /\ c \in Stored /\ UNCHANGED <<kind, obj>>
    /\ \E size \in Sizes, free \in FreeSpaces : Resize(t, c, size, free)

\* What taking a cacheobj out of the list changes.
LEMMA UnlinkEffect ==
    ASSUME Types, Structure, NEW t \in Threads, NEW c \in Listed(lru), NEW dies, NEW next,
           Unlink(t, c, dies, next), UNCHANGED diskusage
    PROVE  /\ c \in CObjs /\ Removed(c)
           /\ kind' = [kind EXCEPT ![c] = IF dies \/ kind[c] = "int" THEN "freed" ELSE @]
           /\ obj' = [obj EXCEPT ![c] = None]
<1>1. c \in Stored /\ c \in CObjs
  BY StoredIsListed DEF Stored
<1>2. /\ obj' = [obj EXCEPT ![c] = None] /\ disk_usage' = disk_usage - diskusage[c]
      /\ kind' = [kind EXCEPT ![c] = IF dies \/ kind[c] = "int" THEN "freed" ELSE @]
  BY DEF Unlink
<1>3. Stored' = Stored \ {c}
  BY <1>1, <1>2 DEF Stored, Types, CellTypes
<1> QED BY <1>1, <1>2, <1>3 DEF Removed

\* The four kinds of steps of an operation that has begun.
LEMMA ContinueEffect ==
    ASSUME Types, Structure, NEW t \in Threads, Continue(t)
    PROVE  /\ SpaceKept \/ (\E c \in CObjs : Added(c)) \/ (\E c \in CObjs : Removed(c))
           /\ \A c \in CObjs : kind'[c] \in {"none", "new"} => kind[c] \in {"none", "new"}
<1> USE DEF cells, knobs, objs, check, local
<1>0. ThreadInv /\ CellInv
  BY DEF Structure
<1>a. ASSUME NEW c \in Listed(lru), NEW dies, NEW next, Unlink(t, c, dies, next),
             UNCHANGED diskusage
      PROVE  /\ \E d \in CObjs : Removed(d)
             /\ \A d \in CObjs : kind'[d] \in {"none", "new"} => kind[d] \in {"none", "new"}
  <2>1. /\ c \in CObjs /\ Removed(c)
        /\ kind' = [kind EXCEPT ![c] = IF dies \/ kind[c] = "int" THEN "freed" ELSE @]
    BY <1>a, UnlinkEffect
  <2> QED BY <2>1 DEF Types, CellTypes
<1>1. CASE DeleteListed(t)
  <2>1. arg[t] \in CObjs /\ kind[arg[t]] = "ext" /\ obj[arg[t]] # None
    BY <1>0, <1>1 DEF DeleteListed, ThreadInv, Types, ThreadTypes
  <2>2. arg[t] \in Listed(lru)
    BY <2>1, ListedCell
  <2> QED BY <1>1, <1>a, <2>2 DEF DeleteListed
<1>2. CASE LoopEvict(t) \/ ClearEvict(t)
  <2>1. PICK v : v \in Listed(lru) /\ \E next : Unlink(t, v, FALSE, next)
    BY <1>2, VictimProperties DEF LoopEvict, ClearEvict, Types, CellTypes
  <2>2. UNCHANGED diskusage
    BY <1>2 DEF LoopEvict, ClearEvict
  <2> QED BY <1>a, <2>1, <2>2
<1>3. CASE DestroyOne(t)
  <2>1. PICK i \in DOMAIN lru : Unlink(t, lru[i], TRUE, "destroy")
    BY <1>3 DEF DestroyOne, Internal
  <2>2. lru[i] \in Listed(lru)
    BY DEF Listed
  <2> QED BY <1>3, <1>a, <2>1, <2>2 DEF DestroyOne
<1>4. CASE DeleteEvicted(t)
  <2>1. arg[t] \in CObjs /\ kind[arg[t]] = "ext" /\ obj[arg[t]] = None
    BY <1>0, <1>4 DEF DeleteEvicted, ThreadInv, Types, ThreadTypes
  <2>2. kind' = [kind EXCEPT ![arg[t]] = "freed"] /\ UNCHANGED <<obj, diskusage, disk_usage>>
    BY <1>4 DEF DeleteEvicted
  <2> QED BY <2>1, <2>2 DEF SpaceKept, Stored, Types, CellTypes
<1>5. CASE Cache2Insert(t)
  <2>1. arg[t] \in CObjs /\ kind[arg[t]] = "new" /\ obj[arg[t]] # None
    BY <1>0, <1>5 DEF Cache2Insert, ThreadInv, CellInv, Inserting, Types, ThreadTypes
  <2>2. kind' = [kind EXCEPT ![arg[t]] = "int"] /\ UNCHANGED <<obj, diskusage, disk_usage>>
    BY <1>5 DEF Cache2Insert
  <2>3. PICK c \in CObjs : c = arg[t]
    BY <2>1
  <2>4. c \notin Stored /\ Stored' = Stored \cup {c}
    BY <2>1, <2>2, <2>3 DEF Stored, Types, CellTypes
  <2>5. Added(c)
    BY <2>1, <2>2, <2>3, <2>4 DEF Added
  <2> QED BY <2>1, <2>2, <2>5 DEF Types, CellTypes
<1>6. CASE LoopExit(t) \/ Release(t) \/ ClearExit(t) \/ DestroyExit(t)
  <2>1. UNCHANGED <<kind, obj, diskusage, disk_usage>>
    BY <1>6 DEF LoopExit, Release, ClearExit, DestroyExit
  <2> QED BY <2>1 DEF SpaceKept, Stored
<1> QED BY <1>1, <1>2, <1>3, <1>4, <1>5, <1>6 DEF Continue

\* The four kinds of steps with which an operation begins.
LEMMA CallEffect ==
    ASSUME Types, Structure, NEW t \in Threads, Call(t)
    PROVE  /\ \/ SpaceKept \/ (\E c \in CObjs : Added(c)) \/ (\E c \in CObjs : Removed(c))
              \/ \E c \in CObjs : Resized(t, c)
           /\ \A c \in CObjs : kind'[c] \in {"none", "new"} => kind[c] \in {"none", "new"}
<1> USE DEF cells, knobs, objs, check, local
<1>0. ThreadInv /\ CellInv
  BY DEF Structure
<1>1. CASE \E c \in CObjs : CacheObjNew(t, c)
  <2>1. PICK c \in CObjs : CacheObjNew(t, c)
    BY <1>1
  <2>2. /\ kind[c] = "none" /\ kind' = [kind EXCEPT ![c] = "ext"]
        /\ hold[t] # None /\ obj' = [obj EXCEPT ![c] = hold[t]]
        /\ UNCHANGED <<diskusage, disk_usage>>
    BY <2>1 DEF CacheObjNew
  <2>3. obj[c] = None
    BY <1>0, <2>2 DEF CellInv
  <2>4. c \notin Stored /\ Stored' = Stored \cup {c}
    BY <2>2, <2>3 DEF Stored, Types, CellTypes
  <2>5. Added(c)
    BY <2>2, <2>4 DEF Added
  <2> QED BY <2>2, <2>5 DEF Types, CellTypes
<1>2. CASE \E c \in CObjs, size \in Sizes, free \in FreeSpaces : CacheObjSetSize(t, c, size, free)
  <2>1. PICK c \in CObjs, size \in Sizes, free \in FreeSpaces : CacheObjSetSize(t, c, size, free)
    BY <1>2
  <2>2. /\ kind[c] = "ext" /\ obj[c] # None /\ UNCHANGED <<kind, obj>>
        /\ Resize(t, c, size, free)
    BY <2>1 DEF CacheObjSetSize, Resize
  <2>3. c \in Stored
    BY <2>2 DEF Stored
  <2>4. Resized(t, c)
    BY <2>2, <2>3 DEF Resized
  <2> QED BY <2>2, <2>4
<1>3. CASE \E n \in Names, c \in CObjs : Cache2Set(t, n, c)
  <2>1. PICK n \in Names, c \in CObjs : Cache2Set(t, n, c)
    BY <1>3
  <2>2. kind[c] = "none" /\ hold[t] # None /\ UNCHANGED diskusage
    BY <2>1 DEF Cache2Set
  <2>3. obj[c] = None
    BY <1>0, <2>2 DEF CellInv
  <2>4. CASE Find(n) = None
    <3>1. /\ kind' = [kind EXCEPT ![c] = "int"] /\ obj' = [obj EXCEPT ![c] = hold[t]]
          /\ UNCHANGED disk_usage
      BY <2>1, <2>4 DEF Cache2Set
    <3>2. c \notin Stored /\ Stored' = Stored \cup {c}
      BY <2>2, <2>3, <3>1 DEF Stored, Types, CellTypes
    <3>3. Added(c)
      BY <2>2, <3>1, <3>2 DEF Added
    <3> QED BY <3>1, <3>3 DEF Types, CellTypes
  <2>5. CASE Find(n) # None
    <3>1. Find(n) \in CObjs /\ Find(n) \in Listed(lru) /\ kind[Find(n)] = "int"
      BY <2>5, FindProperties DEF Types, CellTypes
    <3>2. PICK e \in CObjs : e = Find(n)
      BY <3>1
    <3>3. /\ kind' = [kind EXCEPT ![c] = "new", ![e] = "freed"]
          /\ obj' = [obj EXCEPT ![c] = hold[t], ![e] = None]
          /\ disk_usage' = disk_usage - diskusage[e]
      BY <2>1, <2>5, <3>2 DEF Cache2Set
    <3>4. e \in Stored /\ kind[e] = "int" /\ c # e
      BY <2>2, <3>1, <3>2, StoredIsListed
    <3>5. Stored' = Stored \ {e}
      BY <2>2, <2>3, <3>3, <3>4 DEF Stored, Types, CellTypes
    <3>6. Removed(e)
      BY <2>2, <3>3, <3>4, <3>5 DEF Removed
    <3>7. \A d \in CObjs : kind'[d] \in {"none", "new"} => kind[d] \in {"none", "new"}
      BY <2>2, <3>3, <3>4 DEF Types, CellTypes
    <3> QED BY <3>6, <3>7
  <2> QED BY <2>4, <2>5
<1>4. CASE \E n \in Names, size \in Sizes, free \in FreeSpaces : Cache2SetSize(t, n, size, free)
  <2>1. PICK n \in Names, size \in Sizes, free \in FreeSpaces : Cache2SetSize(t, n, size, free)
    BY <1>4
  <2>2. UNCHANGED <<kind, obj>>
    BY <2>1 DEF Cache2SetSize
  <2>3. CASE Find(n) # None /\ Resize(t, Find(n), size, free)
    <3>1. Find(n) \in CObjs /\ Find(n) \in Listed(lru)
      BY <2>3, FindProperties DEF Types, CellTypes
    <3>2. PICK e \in CObjs : e = Find(n)
      BY <3>1
    <3>3. e \in Stored
      BY <3>1, <3>2, StoredIsListed
    <3>4. Resized(t, e)
      BY <2>2, <2>3, <3>2, <3>3 DEF Resized
    <3> QED BY <2>2, <3>4
  <2>4. CASE ~(Find(n) # None /\ Resize(t, Find(n), size, free))
    <3>1. UNCHANGED <<diskusage, disk_usage>>
      BY <2>1, <2>4 DEF Cache2SetSize
    <3> QED BY <2>2, <3>1 DEF SpaceKept, Stored
  <2> QED BY <2>3, <2>4
<1>5. CASE \/ \E o \in Objs : NewObj(t, o)
           \/ DropObj(t)
           \/ \E u \in Threads, c \in CObjs : ShareCell(t, u, c)
           \/ \E c \in CObjs : CacheObjGet(t, c) \/ UnrefCell(t, c)
           \/ \E full \in BOOLEAN, free \in FreeSpaces \cup {0} : Checkspace(t, full, free)
           \/ Clear(t)
           \/ \E n \in Names : Cache2Get(t, n)
           \/ SetOff(t)
           \/ Destroy(t)
  <2>1. UNCHANGED <<kind, obj, diskusage, disk_usage>>
    BY <1>5 DEF NewObj, DropObj, ShareCell, CacheObjGet, UnrefCell, Checkspace, Clear, Cache2Get,
       SetOff, Destroy
  <2> QED BY <2>1 DEF SpaceKept, Stored
<1> QED BY <1>1, <1>2, <1>3, <1>4, <1>5 DEF Call

----------------------------------------------------------------------------
(* The sum of what the cells use.                                          *)

\* The blocks of the cells in S, if f says how many each has.
BlocksOf(S, f) == UNION {{c} \X (1..f[c]) : c \in S}

\* Blocks of cells are finitely many, and a set of cells has those of one of them and
\* those of the rest.
LEMMA BlocksFinite ==
    ASSUME NEW S, IsFiniteSet(S), NEW f, \A c \in S : f[c] \in 0..MaxOff
    PROVE  IsFiniteSet(BlocksOf(S, f)) /\ Cardinality(BlocksOf(S, f)) \in Nat
<1>1. IsFiniteSet(S \X (1..MaxOff))
  <2>1. 1 \in Int /\ MaxOff \in Int
    BY SizeAssumption
  <2>2. IsFiniteSet(1..MaxOff)
    BY <2>1, FS_Interval
  <2> QED BY <2>2, FS_Product
<1>2. BlocksOf(S, f) \subseteq S \X (1..MaxOff)
  BY SizeAssumption DEF BlocksOf
<1> QED BY <1>1, <1>2, FS_Subset, FS_CardinalityType

\* The sum over a set is that over the rest and one.
LEMMA BlocksOfOne ==
    ASSUME NEW S, IsFiniteSet(S), NEW f, \A c \in S : f[c] \in 0..MaxOff, NEW c \in S
    PROVE  Cardinality(BlocksOf(S, f)) = Cardinality(BlocksOf(S \ {c}, f)) + f[c]
<1> DEFINE R == BlocksOf(S \ {c}, f)
           B == {c} \X (1..f[c])
<1>1. IsFiniteSet(R) /\ Cardinality(R) \in Nat
  <2>1. IsFiniteSet(S \ {c})
    BY FS_Subset
  <2> QED BY <2>1, BlocksFinite
<1>2. IsFiniteSet(B) /\ Cardinality(B) = f[c]
  <2>1. f[c] \in Nat
    BY SizeAssumption
  <2>2. IsFiniteSet(1..f[c]) /\ Cardinality(1..f[c]) = f[c]
    <3>1. PICK n \in Nat : n = f[c]
      BY <2>1
    <3>2. 1 \in Int /\ n \in Int /\ (IF 1 > n THEN 0 ELSE n - 1 + 1) = n
      OBVIOUS
    <3>3. IsFiniteSet(1..n) /\ Cardinality(1..n) = IF 1 > n THEN 0 ELSE n - 1 + 1
      BY ONLY <3>2, FS_Interval
    <3> QED BY <3>1, <3>2, <3>3
  <2>3. IsFiniteSet({c}) /\ Cardinality({c}) = 1
    BY FS_Singleton
  <2> QED BY <2>1, <2>2, <2>3, FS_Product
<1>3. R \cap B = {} /\ BlocksOf(S, f) = R \cup B
  BY DEF BlocksOf
<1>4. Cardinality(R \cup B) = Cardinality(R) + Cardinality(B) - Cardinality(R \cap B)
  BY <1>1, <1>2, FS_Union
<1>5. Cardinality(R \cap B) = 0
  BY <1>3, FS_EmptySet
<1> QED BY <1>1, <1>2, <1>3, <1>4, <1>5

\* The sum depends on the sizes of its members alone.
LEMMA BlocksSame ==
    ASSUME NEW S, NEW f, NEW g, \A c \in S : f[c] = g[c]
    PROVE  BlocksOf(S, f) = BlocksOf(S, g)
BY DEF BlocksOf

\* The sum is right, and a cell that is not stored yet uses nothing.
SumInv ==
    /\ disk_usage = Cardinality(BlocksOf(Stored, diskusage))
    /\ \A c \in CObjs : kind[c] \in {"none", "new"} => diskusage[c] = 0

\* The sum follows the four kinds of steps.
LEMMA SumStep ==
    ASSUME Types, Types', Structure, Structure', SumInv, NEW t \in Threads,
           \/ SpaceKept \/ (\E c \in CObjs : Added(c)) \/ (\E c \in CObjs : Removed(c))
           \/ \E c \in CObjs : Resized(t, c),
           \A c \in CObjs : kind'[c] \in {"none", "new"} => kind[c] \in {"none", "new"}
    PROVE  SumInv'
<1>1. /\ IsFiniteSet(Stored) /\ IsFiniteSet(Stored') /\ Stored \subseteq CObjs
      /\ Stored' \subseteq CObjs
  <2>1. Stored \subseteq CObjs /\ Stored' \subseteq CObjs
    BY DEF Stored
  <2> QED BY <2>1, FS_Subset, FiniteAssumption
<1>2. \A c \in CObjs : diskusage[c] \in 0..MaxOff /\ diskusage'[c] \in 0..MaxOff
  <2>1. Sizes \cup {0} \subseteq 0..MaxOff
    BY SizeAssumption
  <2>2. diskusage \in [CObjs -> Sizes \cup {0}] /\ diskusage' \in [CObjs -> Sizes \cup {0}]
    BY DEF Types, CellTypes
  <2> QED BY <2>1, <2>2
<1>3. CASE SpaceKept
  BY <1>3 DEF SpaceKept, SumInv
<1>4. ASSUME NEW c \in CObjs, Added(c) PROVE SumInv'
  <2>1. c \notin Stored /\ Stored' = Stored \cup {c} /\ UNCHANGED <<diskusage, disk_usage>>
        /\ diskusage[c] = 0
    BY <1>4 DEF Added, SumInv
  <2>2. PICK S : S = Stored'
    OBVIOUS
  <2>3. PICK f : f = diskusage
    OBVIOUS
  <2>4. IsFiniteSet(S) /\ c \in S /\ S \ {c} = Stored /\ \A d \in S : f[d] \in 0..MaxOff
    BY <1>1, <1>2, <2>1, <2>2, <2>3
  <2>5. Cardinality(BlocksOf(S, f)) = Cardinality(BlocksOf(S \ {c}, f)) + f[c]
    BY <2>4, BlocksOfOne
  <2>6. Cardinality(BlocksOf(Stored, f)) \in Nat
    BY <1>1, <1>2, <2>3, BlocksFinite
  <2>7. Cardinality(BlocksOf(S, f)) = Cardinality(BlocksOf(Stored, f))
    BY <2>1, <2>3, <2>4, <2>5, <2>6
  <2>8. Cardinality(BlocksOf(Stored', diskusage')) = Cardinality(BlocksOf(Stored, diskusage))
    BY <2>1, <2>2, <2>3, <2>7
  <2> QED BY <1>4, <2>1, <2>8 DEF SumInv
<1>5. ASSUME NEW c \in CObjs, Removed(c) PROVE SumInv'
  <2>1. c \in Stored /\ Stored' = Stored \ {c} /\ UNCHANGED diskusage
        /\ disk_usage' = disk_usage - diskusage[c]
    BY <1>5 DEF Removed
  <2>2. Cardinality(BlocksOf(Stored, diskusage)) =
            Cardinality(BlocksOf(Stored \ {c}, diskusage)) + diskusage[c]
    BY <1>1, <1>2, <2>1, BlocksOfOne
  <2>3. Cardinality(BlocksOf(Stored', diskusage)) \in Nat
    BY <1>1, <1>2, <2>1, BlocksFinite
  <2>4. disk_usage' = Cardinality(BlocksOf(Stored', diskusage))
    BY <1>2, <2>1, <2>2, <2>3 DEF SumInv
  <2> QED BY <2>1, <2>4 DEF SumInv
<1>6. ASSUME NEW c \in CObjs, Resized(t, c) PROVE SumInv'
  <2>1. PICK size \in Sizes, free \in FreeSpaces : Resize(t, c, size, free)
    BY <1>6 DEF Resized
  <2>2. /\ c \in Stored /\ UNCHANGED <<kind, obj>> /\ obj[c] # None
        /\ diskusage' = [diskusage EXCEPT ![c] = size]
        /\ disk_usage' = disk_usage - diskusage[c] + size
    BY <1>6, <2>1 DEF Resized, Resize
  <2>3. Stored' = Stored
    BY <2>2 DEF Stored
  <2>4. /\ diskusage'[c] = size /\ \A d \in Stored \ {c} : diskusage'[d] = diskusage[d]
        /\ \A d \in CObjs \ {c} : diskusage'[d] = diskusage[d]
    BY <1>1, <2>2 DEF Types, CellTypes
  <2>5. Cardinality(BlocksOf(Stored, diskusage)) =
            Cardinality(BlocksOf(Stored \ {c}, diskusage)) + diskusage[c]
    BY <1>1, <1>2, <2>2, BlocksOfOne
  <2>6. Cardinality(BlocksOf(Stored, diskusage')) =
            Cardinality(BlocksOf(Stored \ {c}, diskusage')) + diskusage'[c]
    BY <1>1, <1>2, <2>2, BlocksOfOne
  <2>7. BlocksOf(Stored \ {c}, diskusage') = BlocksOf(Stored \ {c}, diskusage)
    BY <2>4, BlocksSame
  <2>8. Cardinality(BlocksOf(Stored \ {c}, diskusage)) \in Nat
    <3>1. IsFiniteSet(Stored \ {c})
      BY <1>1, FS_Subset
    <3> QED BY <1>1, <1>2, <3>1, BlocksFinite
  <2>9. disk_usage' = Cardinality(BlocksOf(Stored, diskusage'))
    <3>1. diskusage[c] \in Int /\ size \in Int
      BY <1>2, <2>4
    <3> QED BY <2>2, <2>4, <2>5, <2>6, <2>7, <2>8, <3>1 DEF SumInv
  <2>10. kind[c] \notin {"none", "new"}
    BY <2>2 DEF Stored, Structure, CellInv
  <2> QED BY <2>2, <2>3, <2>4, <2>9, <2>10 DEF SumInv
<1> QED BY <1>3, <1>4, <1>5, <1>6

\* The invariant of the sum holds in every reachable state.
LEMMA SumHolds == Spec => []SumInv
<1>1. Init => SumInv
  <2> SUFFICES ASSUME Init PROVE SumInv
    OBVIOUS
  <2>1. Stored = {}
    BY DEF Init, Stored
  <2>2. BlocksOf(Stored, diskusage) = {}
    BY <2>1 DEF BlocksOf
  <2>3. Cardinality(BlocksOf(Stored, diskusage)) = 0
    BY <2>2, FS_EmptySet
  <2> QED BY <2>3 DEF Init, SumInv
<1>2. IInv /\ IInv' /\ SumInv /\ [Next]_vars => SumInv'
  <2> SUFFICES ASSUME IInv, IInv', SumInv, [Next]_vars PROVE SumInv'
    OBVIOUS
  <2>1. ASSUME NEW t \in Threads, Call(t) PROVE SumInv'
    BY <2>1, CallEffect, SumStep DEF IInv
  <2>2. ASSUME NEW t \in Threads, Continue(t) PROVE SumInv'
    BY <2>2, ContinueEffect, SumStep DEF IInv
  <2>3. CASE UNCHANGED vars
    BY <2>3 DEF vars, cells, SumInv, Stored
  <2> QED BY <2>1, <2>2, <2>3 DEF Next
<1> QED BY <1>1, <1>2, IInvHolds, PTL DEF Spec

\* disk_usage is the sum of what the cells in the list use, though six places add to
\* it and subtract from it while the lock is taken and dropped.
THEOREM UsageCorrect == Spec => []UsageIsSum
<1>1. IInv /\ SumInv => UsageIsSum
  BY StoredIsListed DEF IInv, SumInv, UsageIsSum, Blocks, BlocksOf
<1> QED BY <1>1, IInvHolds, SumHolds, PTL


----------------------------------------------------------------------------
(* A name finds one cell.                                                  *)

\* cacheobj2_find answers NULL only if no V2 cell of the list has that name.
LEMMA FindNothing ==
    ASSUME lru \in Seq(CObjs), NEW n, Find(n) = None, NEW c \in Listed(lru)
    PROVE  ~(kind[c] = "int" /\ name[c] = n)
<1> DEFINE hits == {i \in DOMAIN lru : kind[lru[i]] = "int" /\ name[lru[i]] = n}
           k == CHOOSE i \in hits : \A j \in hits : i <= j
<1>1. SUFFICES ASSUME hits # {} PROVE FALSE
  BY DEF Listed
<1>2. hits \subseteq Nat
  OBVIOUS
<1>3. k \in hits
  BY <1>1, <1>2, FirstPosition
<1>4. k \in DOMAIN lru
  BY <1>3
<1> HIDE DEF k
<1>5. lru[k] \in CObjs
  BY <1>4
<1>6. Find(n) = lru[k]
  BY <1>1 DEF Find, k
<1> QED BY <1>5, <1>6, NoneAssumption

\* The cells that have a name now or will be found by it soon.
Named == {c \in CObjs : kind[c] \in {"int", "new"}}

\* A V2 cell in the list stores an object; one that is not in the list yet belongs to
\* the thread that inserts it; and no two of them have one name, if the callers of
\* av_cache2_set see to it that they do not set one name twice at the same time.
KeyInv ==
    /\ \A c \in CObjs : kind[c] = "int" => obj[c] # None
    /\ \A c \in CObjs : kind[c] = "new" => \E t \in Threads : arg[t] = c
    /\ PerNameLock => \A c, d \in Named : name[c] = name[d] => c = d

\* Most steps name no cell.
LEMMA KeyStep ==
    ASSUME KeyInv,
           \A c \in CObjs : kind'[c] = "int" => obj'[c] # None,
           \A c \in CObjs : kind'[c] = "new" =>
               kind[c] = "new" /\ \A t \in Threads : arg[t] = c => arg'[t] = c,
           \A c \in Named' : c \in Named /\ name'[c] = name[c]
    PROVE  KeyInv'
BY DEF KeyInv

\* No step of an operation that has begun names a cell.
LEMMA KeyContinue ==
    ASSUME Types, Structure, KeyInv, NEW t \in Threads, Continue(t)
    PROVE  KeyInv'
<1> USE DEF cells, knobs, objs, check, local
<1>0. ThreadInv /\ CellInv
  BY DEF Structure
<1>a. ASSUME NEW c \in Listed(lru), NEW dies, NEW next, Unlink(t, c, dies, next),
             UNCHANGED <<diskusage, name>>, UNCHANGED arg \/ kind[arg[t]] # "new",
             \A u \in Threads \ {t} : arg'[u] = arg[u]
      PROVE  KeyInv'
  <2>1. /\ c \in Stored /\ c \in CObjs
        /\ kind' = [kind EXCEPT ![c] = IF dies \/ kind[c] = "int" THEN "freed" ELSE @]
        /\ obj' = [obj EXCEPT ![c] = None]
    BY <1>a, UnlinkEffect, StoredIsListed
  <2>2. \A d \in CObjs : kind'[d] \in {"int", "new"} =>
            d # c /\ kind'[d] = kind[d] /\ obj'[d] = obj[d]
    BY <2>1 DEF Stored, Types, CellTypes
  <2>3. \A d \in CObjs : kind'[d] = "int" => obj'[d] # None
    BY <2>2 DEF KeyInv
  <2>4. \A d \in CObjs : kind'[d] = "new" =>
            kind[d] = "new" /\ \A u \in Threads : arg[u] = d => arg'[u] = d
    BY <1>a, <2>2
  <2>5. \A d \in Named' : d \in Named /\ name'[d] = name[d]
    BY <1>a, <2>2 DEF Named
  <2> QED BY <2>3, <2>4, <2>5, KeyStep
<1>1. CASE DeleteListed(t)
  <2>1. arg[t] \in CObjs /\ kind[arg[t]] = "ext" /\ obj[arg[t]] # None
    BY <1>0, <1>1 DEF DeleteListed, ThreadInv, Types, ThreadTypes
  <2>2. arg[t] \in Listed(lru)
    BY <2>1, ListedCell
  <2>3. \A u \in Threads \ {t} : arg'[u] = arg[u]
    BY <1>1 DEF DeleteListed, Types, ThreadTypes
  <2> QED BY <1>1, <1>a, <2>1, <2>2, <2>3 DEF DeleteListed
<1>2. CASE LoopEvict(t) \/ ClearEvict(t)
  <2>1. PICK v : v \in Listed(lru) /\ \E next : Unlink(t, v, FALSE, next)
    BY <1>2, VictimProperties DEF LoopEvict, ClearEvict, Types, CellTypes
  <2>2. UNCHANGED <<diskusage, name, arg>>
    BY <1>2 DEF LoopEvict, ClearEvict
  <2> QED BY <1>a, <2>1, <2>2
<1>3. CASE DestroyOne(t)
  <2>1. PICK i \in DOMAIN lru : Unlink(t, lru[i], TRUE, "destroy")
    BY <1>3 DEF DestroyOne, Internal
  <2>2. lru[i] \in Listed(lru)
    BY DEF Listed
  <2> QED BY <1>3, <1>a, <2>1, <2>2 DEF DestroyOne
<1>4. CASE DeleteEvicted(t)
  <2>1. arg[t] \in CObjs /\ kind[arg[t]] = "ext"
    BY <1>0, <1>4 DEF DeleteEvicted, ThreadInv, Types, ThreadTypes
  <2>2. /\ kind' = [kind EXCEPT ![arg[t]] = "freed"] /\ UNCHANGED <<obj, name>>
        /\ arg' = [arg EXCEPT ![t] = None]
    BY <1>4 DEF DeleteEvicted, Return
  <2> QED BY <2>1, <2>2, KeyStep DEF KeyInv, Named, Types, CellTypes, ThreadTypes
<1>5. CASE Cache2Insert(t)
  <2>1. arg[t] \in CObjs /\ kind[arg[t]] = "new" /\ obj[arg[t]] # None
    BY <1>0, <1>5 DEF Cache2Insert, ThreadInv, CellInv, Inserting, Types, ThreadTypes
  <2>2. /\ kind' = [kind EXCEPT ![arg[t]] = "int"] /\ UNCHANGED <<obj, name>>
        /\ arg' = [arg EXCEPT ![t] = None]
    BY <1>5 DEF Cache2Insert, Return
  <2> QED BY <2>1, <2>2, KeyStep DEF KeyInv, Named, Types, CellTypes, ThreadTypes
<1>6. CASE LoopExit(t) \/ ClearExit(t) \/ DestroyExit(t)
  <2>1. UNCHANGED <<kind, obj, name>> /\ arg' = [arg EXCEPT ![t] = None]
    BY <1>6 DEF LoopExit, ClearExit, DestroyExit, Return
  <2>2. arg[t] = None
    BY <1>0, <1>6 DEF LoopExit, ClearExit, DestroyExit, ThreadInv, Inserting
  <2> QED BY <2>1, <2>2, KeyStep, NoneAssumption DEF KeyInv, Named, Types, ThreadTypes
<1>7. CASE Release(t)
  <2>1. UNCHANGED <<kind, obj, name, arg>>
    BY <1>7 DEF Release
  <2> QED BY <2>1, KeyStep DEF KeyInv, Named
<1> QED BY <1>1, <1>2, <1>3, <1>4, <1>5, <1>6, <1>7 DEF Continue

\* av_cache2_set names a cell, and frees the one that had the name.
LEMMA KeySet ==
    ASSUME Types, Structure, KeyInv, NEW t \in Threads, NEW n \in Names, NEW c \in CObjs,
           Cache2Set(t, n, c)
    PROVE  KeyInv'
<1>0. ThreadInv /\ CellInv
  BY DEF Structure
<1>1. /\ pc[t] = "idle" /\ hold[t] # None /\ kind[c] = "none"
      /\ name' = [name EXCEPT ![c] = n]
      /\ PerNameLock => ~NameBusy(n)
  BY DEF Cache2Set, Ready
<1>2. arg[t] = None
  BY <1>0, <1>1 DEF ThreadInv, Inserting
\* Who has the name is freed, and if callers serialise on it nobody is about to get it.
<1>3. ASSUME PerNameLock, NEW d \in CObjs, kind[d] = "new" PROVE name[d] # n
  <2>1. PICK u \in Threads : arg[u] = d
    BY <1>3 DEF KeyInv
  <2>2. ~NameBusy(n)
    BY <1>1, <1>3
  <2>3. arg[u] # None /\ kind[arg[u]] = "new"
    BY <1>3, <2>1, NoneAssumption
  <2> QED BY <2>1, <2>2, <2>3 DEF NameBusy
<1>4. ASSUME NEW d \in CObjs, kind[d] = "int" PROVE d \in Listed(lru)
  BY <1>4, ListedCell DEF KeyInv
<1>5. CASE Find(n) = None
  <2>1. /\ kind' = [kind EXCEPT ![c] = "int"] /\ obj' = [obj EXCEPT ![c] = hold[t]]
        /\ UNCHANGED arg
    BY <1>5 DEF Cache2Set
  <2>2. ASSUME PerNameLock, NEW d \in Named PROVE name[d] # n
    <3>1. CASE kind[d] = "new"
      BY <1>3, <2>2, <3>1 DEF Named
    <3>2. CASE kind[d] = "int"
      BY <1>4, <1>5, <2>2, <3>2, FindNothing DEF Named, Types, CellTypes
    <3> QED BY <3>1, <3>2 DEF Named
  <2>3. /\ Named' = Named \cup {c} /\ name'[c] = n
        /\ \A d \in Named : d # c /\ name'[d] = name[d]
    <3>1. Named' = Named \cup {c}
      BY <1>1, <2>1 DEF Named, Types, CellTypes
    <3>2. c \notin Named
      BY <1>1 DEF Named
    <3>3. name'[c] = n /\ \A d \in CObjs \ {c} : name'[d] = name[d]
      BY <1>1 DEF Types, CellTypes
    <3> QED BY <3>1, <3>2, <3>3 DEF Named
  <2>4. PerNameLock => \A d, e \in Named' : name'[d] = name'[e] => d = e
    BY <2>2, <2>3 DEF KeyInv
  <2>5. \A d \in CObjs : kind'[d] = "int" => obj'[d] # None
    BY <1>1, <2>1 DEF KeyInv, Types, CellTypes
  <2>6. \A d \in CObjs : kind'[d] = "new" => \E u \in Threads : arg'[u] = d
    BY <1>1, <2>1 DEF KeyInv, Types, CellTypes
  <2> QED BY <2>4, <2>5, <2>6 DEF KeyInv
<1>6. CASE Find(n) # None
  <2>1. Find(n) \in CObjs /\ kind[Find(n)] = "int" /\ name[Find(n)] = n
    BY <1>6, FindProperties DEF Types, CellTypes
  <2>2. PICK e \in CObjs : e = Find(n)
    BY <2>1
  <2>3. /\ kind' = [kind EXCEPT ![c] = "new", ![e] = "freed"]
        /\ obj' = [obj EXCEPT ![c] = hold[t], ![e] = None]
        /\ arg' = [arg EXCEPT ![t] = c]
    BY <1>6, <2>2 DEF Cache2Set
  <2>4. kind[e] = "int" /\ name[e] = n /\ c # e
    BY <1>1, <2>1, <2>2
  <2>5. ASSUME PerNameLock, NEW d \in Named \ {e} PROVE name[d] # n
    BY <2>4, <2>5 DEF KeyInv, Named
  <2>6. /\ Named' = (Named \ {e}) \cup {c} /\ name'[c] = n
        /\ \A d \in Named : d # c /\ name'[d] = name[d]
    <3>1. Named' = (Named \ {e}) \cup {c}
      BY <1>1, <2>3, <2>4 DEF Named, Types, CellTypes
    <3>2. c \notin Named
      BY <1>1 DEF Named
    <3>3. name'[c] = n /\ \A d \in CObjs \ {c} : name'[d] = name[d]
      BY <1>1 DEF Types, CellTypes
    <3> QED BY <3>1, <3>2, <3>3 DEF Named
  <2>7. PerNameLock => \A d, f \in Named' : name'[d] = name'[f] => d = f
    BY <2>5, <2>6 DEF KeyInv
  <2>8. \A d \in CObjs : kind'[d] = "int" => obj'[d] # None
    BY <1>1, <2>3, <2>4 DEF KeyInv, Types, CellTypes
  <2>9. ASSUME NEW d \in CObjs, kind'[d] = "new" PROVE \E u \in Threads : arg'[u] = d
    <3>1. CASE d = c
      BY <2>3, <3>1 DEF Types, ThreadTypes
    <3>2. CASE d # c
      <4>1. kind[d] = "new"
        BY <2>3, <2>4, <2>9, <3>2 DEF Types, CellTypes
      <4>2. PICK u \in Threads : arg[u] = d
        BY <4>1 DEF KeyInv
      <4>3. u # t
        BY <1>2, <4>2, NoneAssumption
      <4> QED BY <2>3, <4>2, <4>3 DEF Types, ThreadTypes
    <3> QED BY <3>1, <3>2
  <2> QED BY <2>7, <2>8, <2>9 DEF KeyInv
<1> QED BY <1>5, <1>6

\* A step that begins a call keeps the keys.
LEMMA KeyCall ==
    ASSUME Types, Structure, KeyInv, NEW t \in Threads, Call(t)
    PROVE  KeyInv'
<1> USE DEF cells, knobs, objs, check, local
<1>0. ThreadInv /\ CellInv
  BY DEF Structure
<1>1. CASE \E c \in CObjs : CacheObjNew(t, c)
  <2>1. PICK c \in CObjs : CacheObjNew(t, c)
    BY <1>1
  <2>2. /\ kind[c] = "none" /\ kind' = [kind EXCEPT ![c] = "ext"]
        /\ obj' = [obj EXCEPT ![c] = hold[t]] /\ UNCHANGED <<arg, name>>
    BY <2>1 DEF CacheObjNew
  <2>3. \A d \in CObjs : kind'[d] \in {"int", "new"} => kind'[d] = kind[d] /\ obj'[d] = obj[d]
    BY <2>2 DEF Types, CellTypes
  <2> QED BY <2>2, <2>3, KeyStep DEF KeyInv, Named
<1>2. CASE \E c \in CObjs : UnrefCell(t, c)
  <2>1. PICK c \in CObjs : UnrefCell(t, c)
    BY <1>2
  <2>2. UNCHANGED <<kind, obj, name>> /\ \A u \in Threads \ {t} : arg'[u] = arg[u]
    BY <2>1 DEF UnrefCell, Types, ThreadTypes
  <2>3. arg[t] = None
    BY <1>0, <2>1 DEF UnrefCell, Ready, ThreadInv, Inserting
  <2> QED BY <2>2, <2>3, KeyStep, NoneAssumption DEF KeyInv, Named
<1>3. CASE \E n \in Names, c \in CObjs : Cache2Set(t, n, c)
  BY <1>3, KeySet
<1>4. CASE \/ \E o \in Objs : NewObj(t, o)
           \/ DropObj(t)
           \/ \E u \in Threads, c \in CObjs : ShareCell(t, u, c)
           \/ \E c \in CObjs : CacheObjGet(t, c)
           \/ \E c \in CObjs, size \in Sizes, free \in FreeSpaces :
                 CacheObjSetSize(t, c, size, free)
           \/ \E full \in BOOLEAN, free \in FreeSpaces \cup {0} : Checkspace(t, full, free)
           \/ Clear(t)
           \/ \E n \in Names : Cache2Get(t, n)
           \/ \E n \in Names, size \in Sizes, free \in FreeSpaces :
                 Cache2SetSize(t, n, size, free)
           \/ SetOff(t)
           \/ Destroy(t)
  <2>1. UNCHANGED <<kind, obj, name, arg>>
    BY <1>4 DEF NewObj, DropObj, ShareCell, CacheObjGet, CacheObjSetSize, Checkspace, Clear,
       Cache2Get, Cache2SetSize, SetOff, Destroy
  <2> QED BY <2>1, KeyStep DEF KeyInv, Named
<1> QED BY <1>1, <1>2, <1>3, <1>4 DEF Call

\* The invariant of the keys holds in every reachable state.
LEMMA KeyHolds == Spec => []KeyInv
<1>1. Init => KeyInv
  BY DEF Init, KeyInv, Named
<1>2. IInv /\ KeyInv /\ [Next]_vars => KeyInv'
  <2> SUFFICES ASSUME IInv, KeyInv, [Next]_vars PROVE KeyInv'
    OBVIOUS
  <2>1. ASSUME NEW t \in Threads, Call(t) PROVE KeyInv'
    BY <2>1, KeyCall DEF IInv
  <2>2. ASSUME NEW t \in Threads, Continue(t) PROVE KeyInv'
    BY <2>2, KeyContinue DEF IInv
  <2>3. CASE UNCHANGED vars
    BY <2>3 DEF vars, cells, local, KeyInv, Named
  <2> QED BY <2>1, <2>2, <2>3 DEF Next
<1> QED BY <1>1, <1>2, IInvHolds, PTL DEF Spec

\* Where the callers of av_cache2_set serialise on the name they set, as extfs does, a
\* name finds at most one cell, though av_cache2_set drops the lock between the removal
\* of the old cell and the insertion of the new one.
THEOREM NameCorrect == ASSUME PerNameLock PROVE Spec => []NameIsKey
<1>1. IInv /\ KeyInv => NameIsKey
  <2> SUFFICES ASSUME IInv, KeyInv, NEW i \in DOMAIN lru, NEW j \in DOMAIN lru,
                      kind[lru[i]] = "int", kind[lru[j]] = "int", name[lru[i]] = name[lru[j]]
               PROVE  i = j
    BY DEF NameIsKey
  <2>1. lru[i] \in Named /\ lru[j] \in Named
    BY DEF Named, IInv, Types, CellTypes
  <2>2. lru[i] = lru[j]
    BY <2>1 DEF KeyInv
  <2> QED BY <2>2 DEF IInv, Structure, ListMatchesCells
<1> QED BY <1>1, IInvHolds, KeyHolds, PTL


----------------------------------------------------------------------------
(* The bound on what the cache uses.                                       *)

\* cache_free_one finds nothing only if all of the list is the cell to be skipped.
LEMMA VictimNothing ==
    ASSUME lru \in Seq(CObjs), NEW s, Victim(s) = None, NEW c \in Listed(lru)
    PROVE  c = s
<1> DEFINE n == Len(lru)
           k == IF n > 0 /\ lru[n] = s THEN n - 1 ELSE n
<1>1. n \in Nat /\ DOMAIN lru = 1..n
  OBVIOUS
<1>2. k = IF n > 0 /\ lru[n] = s THEN n - 1 ELSE n
  OBVIOUS
<1>3. k # 0 => Victim(s) = lru[k]
  BY DEF Victim
<1> HIDE DEF n, k
<1>4. k # 0 => k \in DOMAIN lru
  BY <1>1, <1>2
<1>5. k # 0 => lru[k] \in CObjs
  BY <1>4
<1>6. k = 0
  BY <1>3, <1>5, NoneAssumption
<1>7. n = 0 \/ (n = 1 /\ lru[n] = s)
  BY <1>1, <1>2, <1>6
<1>8. PICK i \in DOMAIN lru : c = lru[i]
  BY DEF Listed
<1> QED BY <1>1, <1>7, <1>8

\* The thread is in the loop of cache_checkspace, or releases an object the loop evicted.
Looping(t) == pc[t] = "loop" \/ (pc[t] = "free" /\ ret[t] = "loop")

AllLimits == Limits \cup {DefaultLimit}

\* The cache is within a limit it was given, or one cell uses all of it.
Within == \E l \in AllLimits : disk_usage <= l

Single == \A c, d \in Stored : diskusage[c] > 0 /\ diskusage[d] > 0 => c = d

\* A thread that makes room makes enough, and while none does the cache is bounded: only
\* a change of size makes it larger, and that begins the loop.
BoundInv ==
    /\ disk_cache_limit \in AllLimits
    /\ \A t \in Threads : Looping(t) => \E l \in AllLimits : limit[t] <= l
    /\ (\E t \in Threads : Looping(t)) \/ Within \/ Single

\* A limit is a size.
LEMMA LimitTypes == \A l \in AllLimits : l \in 0..MaxOff
BY SizeAssumption DEF AllLimits

\* Only a change of size makes the cache larger.
LEMMA BoundKept ==
    ASSUME Types, SumInv, Within \/ Single,
           SpaceKept \/ (\E c \in CObjs : Added(c)) \/ (\E c \in CObjs : Removed(c))
    PROVE  Within' \/ Single'
<1>1. /\ disk_usage \in Int
      /\ \A c \in CObjs : diskusage[c] \in Int /\ diskusage[c] >= 0
  <2>1. Sizes \cup {0} \subseteq 0..MaxOff
    BY SizeAssumption
  <2>2. diskusage \in [CObjs -> Sizes \cup {0}] /\ disk_usage \in Int
    BY DEF Types, CellTypes, SpaceTypes
  <2>3. \A c \in CObjs : diskusage[c] \in 0..MaxOff
    BY <2>1, <2>2
  <2> QED BY <2>2, <2>3, SizeAssumption
<1>2. CASE SpaceKept
  BY <1>2 DEF SpaceKept, Within, Single
<1>3. ASSUME NEW c \in CObjs, Added(c) PROVE Within' \/ Single'
  <2>1. /\ Stored' = Stored \cup {c} /\ UNCHANGED <<diskusage, disk_usage>>
        /\ diskusage[c] = 0
    BY <1>3 DEF Added, SumInv
  <2>2. Within => Within'
    BY <2>1 DEF Within
  <2>3. Single => Single'
    BY <2>1 DEF Single
  <2> QED BY <2>2, <2>3
<1>4. ASSUME NEW c \in CObjs, Removed(c) PROVE Within' \/ Single'
  <2>1. Stored' = Stored \ {c} /\ diskusage' = diskusage /\ disk_usage' = disk_usage - diskusage[c]
    BY <1>4 DEF Removed
  <2>2. ASSUME Within PROVE Within'
    <3>1. PICK l \in AllLimits : disk_usage <= l
      BY <2>2 DEF Within
    <3>2. l \in Int /\ disk_usage \in Int /\ diskusage[c] \in Int /\ diskusage[c] >= 0
      BY <1>1, LimitTypes, SizeAssumption
    <3>3. disk_usage' <= l
      BY <2>1, <3>1, <3>2
    <3>4. PICK k \in AllLimits : k = l
      OBVIOUS
    <3> QED BY <3>3, <3>4 DEF Within, AllLimits
  <2>3. Single => Single'
    BY <2>1 DEF Single
  <2> QED BY <2>2, <2>3
<1> QED BY <1>2, <1>3, <1>4

\* The limit of the loop is at most the limit of the cache when the loop began.
LEMMA EnterLimit ==
    ASSUME Types, NEW t \in Threads, NEW usage \in Int, NEW free \in -1..MaxOff, NEW s,
           EnterCheck(t, usage, free, s)
    PROVE  limit'[t] <= disk_cache_limit
<1>1. SpaceLimit(usage, free) \in Offsets /\ disk_cache_limit \in 0..MaxOff
  BY SpaceLimitType DEF Types, SpaceTypes
<1>2. SpaceLimit(usage, free) <= disk_cache_limit
  <2> DEFINE room == Wrap(usage - disk_keep_free + (IF free = -1 THEN MaxOff ELSE free))
  <2>1. SpaceLimit(usage, free) = IF disk_cache_limit < room THEN disk_cache_limit ELSE room
    BY DEF SpaceLimit
  <2>2. disk_cache_limit \in Int
    BY <1>1, SizeAssumption
  <2>3. ~(disk_cache_limit < room) => room \in Int
    BY <1>1, <2>1, SizeAssumption DEF Offsets
  <2> HIDE DEF room
  <2> QED BY <2>1, <2>2, <2>3
<1>3. limit'[t] = SpaceLimit(usage, free)
  BY DEF EnterCheck, Types, SpaceTypes
<1> QED BY <1>2, <1>3

\* An operation that begins the loop does so with such a limit; the others neither begin
\* nor interrupt it.
LEMMA CallLoops ==
    ASSUME Types, NEW t \in Threads, Call(t)
    PROVE  /\ ~Looping(t)
           /\ Looping(t)' => limit'[t] <= disk_cache_limit /\ UNCHANGED disk_cache_limit
           /\ \A c \in CObjs : Resized(t, c) => Looping(t)'
           /\ disk_cache_limit' \in Limits \cup {disk_cache_limit}
<1> USE DEF cells, knobs, objs, check, local
<1>0. pc \in [Threads -> Places] /\ ret \in [Threads -> Places]
  BY DEF Types, ThreadTypes
<1>1. pc[t] = "idle"
  BY DEF Call, NewObj, DropObj, ShareCell, CacheObjNew, CacheObjGet, UnrefCell, CacheObjSetSize,
     Checkspace, Clear, Cache2Set, Cache2Get, Cache2SetSize, SetOff, Destroy, Ready
<1>2. ASSUME NEW usage \in Int, NEW free \in -1..MaxOff, NEW s, EnterCheck(t, usage, free, s)
      PROVE  limit'[t] <= disk_cache_limit /\ Looping(t)'
  BY <1>0, <1>2, EnterLimit DEF EnterCheck, Looping
<1>3. ASSUME NEW c \in CObjs, NEW size \in Sizes, NEW free \in FreeSpaces, Resize(t, c, size, free)
      PROVE  limit'[t] <= disk_cache_limit /\ Looping(t)'
  <2>1. disk_usage' \in Int /\ free \in -1..MaxOff
    BY <1>3, ResizeTypes, TypeMembers
  <2>2. EnterCheck(t, disk_usage', free, c)
    BY <1>3 DEF Resize
  <2>3. PICK usage \in Int : usage = disk_usage'
    BY <2>1
  <2> QED BY <1>2, <2>1, <2>2, <2>3
<1>4. CASE \E c \in CObjs, size \in Sizes, free \in FreeSpaces : CacheObjSetSize(t, c, size, free)
  BY <1>1, <1>3, <1>4 DEF CacheObjSetSize, Looping
<1>5. CASE \E full \in BOOLEAN, free \in FreeSpaces \cup {0} : Checkspace(t, full, free)
  <2>1. PICK free \in FreeSpaces \cup {0} : EnterCheck(t, disk_usage, free, None)
    BY <1>5 DEF Checkspace
  <2>2. disk_usage \in Int /\ free \in -1..MaxOff
    BY TypeMembers DEF Types, SpaceTypes
  <2>3. PICK usage \in Int : usage = disk_usage
    BY <2>2
  <2> QED BY <1>1, <1>2, <1>5, <2>1, <2>2, <2>3 DEF Checkspace, Looping
<1>6. CASE \E n \in Names, size \in Sizes, free \in FreeSpaces : Cache2SetSize(t, n, size, free)
  <2>1. PICK n \in Names, size \in Sizes, free \in FreeSpaces : Cache2SetSize(t, n, size, free)
    BY <1>6
  <2>2. UNCHANGED <<disk_cache_limit, ret>>
    BY <2>1 DEF Cache2SetSize
  <2>3. CASE Find(n) # None /\ Resize(t, Find(n), size, free)
    <3>1. Find(n) \in CObjs
      BY <2>3, FindProperties DEF Types, CellTypes
    <3>2. PICK e \in CObjs : e = Find(n)
      BY <3>1
    <3> QED BY <1>1, <1>3, <2>2, <2>3, <3>2 DEF Looping
  <2>4. CASE ~(Find(n) # None /\ Resize(t, Find(n), size, free))
    <3>1. UNCHANGED pc
      BY <2>1, <2>4 DEF Cache2SetSize
    <3> QED BY <1>1, <1>3, <2>2, <3>1 DEF Looping, Resized
  <2> QED BY <2>3, <2>4
<1>7. CASE \/ \E o \in Objs : NewObj(t, o)
           \/ DropObj(t)
           \/ \E u \in Threads, c \in CObjs : ShareCell(t, u, c)
           \/ \E c \in CObjs : CacheObjNew(t, c) \/ CacheObjGet(t, c) \/ UnrefCell(t, c)
           \/ Clear(t)
           \/ \E n \in Names, c \in CObjs : Cache2Set(t, n, c)
           \/ \E n \in Names : Cache2Get(t, n)
           \/ SetOff(t)
           \/ Destroy(t)
  <2>1. /\ pc'[t] \in {"idle", "delete", "clear", "destroy", "free"}
        /\ pc'[t] = "free" => ret'[t] = "insert"
    BY <1>0, <1>1, <1>7 DEF NewObj, DropObj, ShareCell, CacheObjNew, CacheObjGet, UnrefCell,
       Clear, Cache2Set, Cache2Get, SetOff, Destroy
  <2>2. disk_cache_limit' \in Limits \cup {disk_cache_limit}
    BY <1>7 DEF NewObj, DropObj, ShareCell, CacheObjNew, CacheObjGet, UnrefCell,
       Clear, Cache2Set, Cache2Get, SetOff, Destroy
  <2>3. \A c \in CObjs : ~Resized(t, c)
    BY <1>3, <2>1 DEF Resized, Looping
  <2> QED BY <1>1, <2>1, <2>2, <2>3 DEF Looping
<1> QED BY <1>4, <1>5, <1>6, <1>7 DEF Call

\* The loop goes on with its limit until the cache is within it, or nothing is left
\* that it may evict.
LEMMA ContinueLoops ==
    ASSUME Types, Structure, NEW t \in Threads, Continue(t)
    PROVE  /\ UNCHANGED disk_cache_limit
           /\ Looping(t)' => Looping(t) /\ limit'[t] = limit[t]
           /\ Looping(t) /\ ~Looping(t)' =>
                 SpaceKept /\ (disk_usage <= limit[t] \/ Single)
<1> USE DEF cells, knobs, objs, check, local
<1>0. /\ ThreadInv /\ Listed(lru) = Stored /\ lru \in Seq(CObjs)
      /\ pc \in [Threads -> Places] /\ ret \in [Threads -> Places]
  BY StoredIsListed DEF Structure, Types, CellTypes, ThreadTypes
<1>1. CASE LoopExit(t)
  <2>1. /\ pc'[t] = "idle" /\ UNCHANGED <<disk_cache_limit, kind, obj, diskusage, disk_usage>>
        /\ disk_usage <= limit[t] \/ Victim(skip[t]) = None
    BY <1>0, <1>1 DEF LoopExit, LoopEnds, Return
  <2>2. Victim(skip[t]) = None => Single
    BY <1>0, VictimNothing DEF Single
  <2> QED BY <2>1, <2>2 DEF Looping, SpaceKept, Stored
<1>2. CASE LoopEvict(t)
  BY <1>0, <1>2 DEF LoopEvict, Unlink, Looping
<1>3. CASE Release(t)
  BY <1>0, <1>3 DEF Release, ThreadInv, Looping
<1>4. CASE \/ DeleteListed(t) \/ DeleteEvicted(t) \/ ClearEvict(t) \/ ClearExit(t)
           \/ Cache2Insert(t) \/ DestroyOne(t) \/ DestroyExit(t)
  <2>1. /\ ~Looping(t) /\ UNCHANGED disk_cache_limit
        /\ pc'[t] = "idle" \/ (pc'[t] = "free" /\ ret'[t] \in {"idle", "clear", "destroy"})
    BY <1>0, <1>4 DEF DeleteListed, DeleteEvicted, ClearEvict, ClearExit, Cache2Insert,
       DestroyOne, DestroyExit, Unlink, Return, Looping
  <2> QED BY <2>1 DEF Looping
<1> QED BY <1>1, <1>2, <1>3, <1>4 DEF Continue

\* A step that begins a call keeps the bound.
LEMMA BoundCall ==
    ASSUME Types, Structure, SumInv, BoundInv, NEW t \in Threads, Call(t)
    PROVE  BoundInv'
<1>1. disk_cache_limit' \in AllLimits
  BY CallLoops DEF BoundInv, AllLimits
<1>2. ASSUME NEW u \in Threads, Looping(u)' PROVE \E l \in AllLimits : limit'[u] <= l
  <2>1. CASE u = t
    BY <1>2, <2>1, CallLoops DEF BoundInv
  <2>2. CASE u # t
    BY <1>2, <2>2, OthersKept DEF BoundInv, Looping
  <2> QED BY <2>1, <2>2
<1>3. (\E u \in Threads : Looping(u)') \/ Within' \/ Single'
  <2>1. CASE \E c \in CObjs : Resized(t, c)
    BY <2>1, CallLoops
  <2>2. CASE \E u \in Threads : Looping(u)
    <3>1. PICK u \in Threads : Looping(u)
      BY <2>2
    <3>2. u # t
      BY <3>1, CallLoops
    <3> QED BY <3>1, <3>2, OthersKept DEF Looping
  <2>3. CASE ~(\E c \in CObjs : Resized(t, c)) /\ ~(\E u \in Threads : Looping(u))
    <3>1. Within \/ Single
      BY <2>3 DEF BoundInv
    <3>2. SpaceKept \/ (\E c \in CObjs : Added(c)) \/ (\E c \in CObjs : Removed(c))
      BY <2>3, CallEffect
    <3> QED BY <3>1, <3>2, BoundKept
  <2> QED BY <2>1, <2>2, <2>3
<1> QED BY <1>1, <1>2, <1>3 DEF BoundInv

\* A step of a call that goes on keeps the bound.
LEMMA BoundContinue ==
    ASSUME Types, Structure, SumInv, BoundInv, NEW t \in Threads, Continue(t)
    PROVE  BoundInv'
<1>1. disk_cache_limit' \in AllLimits
  BY ContinueLoops DEF BoundInv
<1>2. ASSUME NEW u \in Threads, Looping(u)' PROVE \E l \in AllLimits : limit'[u] <= l
  <2>1. CASE u = t
    BY <1>2, <2>1, ContinueLoops DEF BoundInv
  <2>2. CASE u # t
    BY <1>2, <2>2, OthersKept DEF BoundInv, Looping
  <2> QED BY <2>1, <2>2
<1>3. ASSUME ~(\E u \in Threads : Looping(u)') PROVE Within' \/ Single'
  <2>1. ASSUME NEW u \in Threads, Looping(u) PROVE u = t
    <3>1. ~Looping(u)'
      BY <1>3
    <3> QED BY <2>1, <3>1, OthersKept DEF Looping
  <2>2. CASE Looping(t)
    <3>1. ~Looping(t)'
      BY <1>3
    <3>2. SpaceKept /\ (disk_usage <= limit[t] \/ Single)
      BY <2>2, <3>1, ContinueLoops
    <3>3. PICK l \in AllLimits : limit[t] <= l
      BY <2>2 DEF BoundInv
    <3>4. disk_usage \in Int /\ limit[t] \in Int /\ l \in Int
      BY LimitTypes, SizeAssumption DEF Types, SpaceTypes, Offsets
    <3>5. Within \/ Single
      BY <3>2, <3>3, <3>4 DEF Within
    <3> QED BY <3>2, <3>5, BoundKept
  <2>3. CASE ~Looping(t)
    <3>1. Within \/ Single
      BY <2>1, <2>3 DEF BoundInv
    <3> QED BY <3>1, ContinueEffect, BoundKept
  <2> QED BY <2>2, <2>3
<1> QED BY <1>1, <1>2, <1>3 DEF BoundInv

\* The invariant of the bound holds in every reachable state.
LEMMA BoundHolds == Spec => []BoundInv
<1>1. Init => BoundInv
  <2> SUFFICES ASSUME Init PROVE BoundInv
    OBVIOUS
  <2>1. disk_cache_limit \in AllLimits
    BY DEF Init, AllLimits
  <2>2. \A t \in Threads : ~Looping(t)
    BY DEF Init, Looping
  <2>3. Single
    BY DEF Init, Single, Stored
  <2> QED BY <2>1, <2>2, <2>3 DEF BoundInv
<1>2. IInv /\ SumInv /\ BoundInv /\ [Next]_vars => BoundInv'
  <2> SUFFICES ASSUME IInv, SumInv, BoundInv, [Next]_vars PROVE BoundInv'
    OBVIOUS
  <2>1. ASSUME NEW t \in Threads, Call(t) PROVE BoundInv'
    BY <2>1, BoundCall DEF IInv
  <2>2. ASSUME NEW t \in Threads, Continue(t) PROVE BoundInv'
    BY <2>2, BoundContinue DEF IInv
  <2>3. CASE UNCHANGED vars
    BY <2>3 DEF vars, cells, knobs, local, check, BoundInv, Looping, Within, Single, Stored
  <2> QED BY <2>1, <2>2, <2>3 DEF Next
<1> QED BY <1>1, <1>2, IInvHolds, SumHolds, PTL DEF Spec

\* A set with no two different members has at most one.
LEMMA AtMostOne ==
    ASSUME NEW S, \A x, y \in S : x = y
    PROVE  Cardinality(S) <= 1
<1>1. CASE S = {}
  <2>1. Cardinality({}) = 0
    BY FS_EmptySet
  <2> QED BY <1>1, <2>1
<1>2. CASE S # {}
  <2>1. PICK x : S = {x}
    BY <1>2
  <2>2. Cardinality({x}) = 1
    BY FS_Singleton
  <2> QED BY <2>1, <2>2
<1> QED BY <1>1, <1>2

\* Between operations the cache is within the largest limit it was given, or all it uses
\* belongs to the one entry that was kept because its own size was set.
THEOREM BoundCorrect == Spec => []CacheBounded
<1>1. IInv /\ BoundInv => CacheBounded
  <2> SUFFICES ASSUME IInv, BoundInv, \A t \in Threads : pc[t] = "idle"
               PROVE  \/ Within
                      \/ Cardinality({i \in DOMAIN lru : diskusage[lru[i]] > 0}) <= 1
    BY DEF CacheBounded, Within, AllLimits
  <2>1. Within \/ Single
    BY DEF BoundInv, Looping
  <2>2. ASSUME Single PROVE Cardinality({i \in DOMAIN lru : diskusage[lru[i]] > 0}) <= 1
    <3>1. Listed(lru) = Stored
      BY StoredIsListed DEF IInv
    <3>2. \A i \in DOMAIN lru : lru[i] \in Stored
      BY <3>1 DEF Listed
    <3>3. \A i, j \in {k \in DOMAIN lru : diskusage[lru[k]] > 0} : i = j
      BY <2>2, <3>2 DEF Single, IInv, Structure, ListMatchesCells
    <3> QED BY <3>3, AtMostOne
  <2> QED BY <2>1, <2>2
<1> QED BY <1>1, IInvHolds, BoundHolds, PTL

============================================================================
