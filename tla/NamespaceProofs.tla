--------------------------- MODULE NamespaceProofs ---------------------------
(***************************************************************************)
(* Proofs about Namespace: the tables, the reference counts, the names and *)
(* the reading of directories, for any number of threads and entries; then *)
(* about OpenFiles: an open file is what POSIX says it is, for any contents*)
(* and any bound of their length; and, at the end, about Volatile: the     *)
(* links and the references of the files in memory, for any numbers of     *)
(* names, entries, nodes, users and open files.                            *)
(***************************************************************************)
EXTENDS MCNamespace, FiniteSetTheorems, SequenceTheorems, WellFoundedInduction, TLAPS

----------------------------------------------------------------------------
(* Counting: references are compared with the number of their holders.     *)

\* A condition as a number.
One(b) == IF b THEN 1 ELSE 0

\* A finite set has a number of elements, and none if it is empty.
LEMMA CountIsNat ==
    ASSUME NEW A, IsFiniteSet(A)
    PROVE  /\ Cardinality(A) \in Nat
           /\ Cardinality(A) = 0 <=> A = {}
BY FS_CardinalityType, FS_EmptySet

\* A and B differ at most in x.
LEMMA OneChanges ==
    ASSUME NEW A, NEW B, NEW x, IsFiniteSet(A), A \ {x} = B \ {x}
    PROVE  /\ IsFiniteSet(B)
           /\ Cardinality(A) \in Nat /\ Cardinality(B) \in Nat
           /\ Cardinality(B) = Cardinality(A) + One(x \in B) - One(x \in A)
           /\ x \in A => Cardinality(A) > 0
           /\ x \in B => Cardinality(B) > 0
<1> DEFINE R == A \ {x}
<1>1. IsFiniteSet(R) /\ Cardinality(R) \in Nat /\ x \notin R
  BY FS_RemoveElement, FS_CardinalityType
<1>2. IsFiniteSet(R \cup {x}) /\ Cardinality(R \cup {x}) = Cardinality(R) + 1
  BY <1>1, FS_AddElement
<1>3. A = IF x \in A THEN R \cup {x} ELSE R
  OBVIOUS
<1>4. B = IF x \in B THEN R \cup {x} ELSE R
  OBVIOUS
<1> HIDE DEF R
<1>5. Cardinality(A) = Cardinality(R) + One(x \in A)
  <2>1. CASE x \in A
    <3>1. A = R \cup {x} /\ One(x \in A) = 1
      BY <1>3, <2>1 DEF One
    <3> QED BY <1>2, <3>1
  <2>2. CASE x \notin A
    <3>1. A = R /\ One(x \in A) = 0
      BY <1>3, <2>2 DEF One
    <3> QED BY <1>1, <3>1
  <2> QED BY <2>1, <2>2
<1>6. IsFiniteSet(B) /\ Cardinality(B) = Cardinality(R) + One(x \in B)
  <2>1. CASE x \in B
    <3>1. B = R \cup {x} /\ One(x \in B) = 1
      BY <1>4, <2>1 DEF One
    <3> QED BY <1>2, <3>1
  <2>2. CASE x \notin B
    <3>1. B = R /\ One(x \in B) = 0
      BY <1>4, <2>2 DEF One
    <3> QED BY <1>1, <3>1
  <2> QED BY <2>1, <2>2
<1> QED BY <1>1, <1>5, <1>6 DEF One

\* A part of a finite set is one.
LEMMA PartIsFinite ==
    ASSUME NEW A, NEW B, IsFiniteSet(A), B \subseteq A
    PROVE  IsFiniteSet(B) /\ Cardinality(B) \in Nat /\ Cardinality(B) <= Cardinality(A)
BY FS_Subset, FS_CardinalityType

----------------------------------------------------------------------------
(* Lists of children: list_add_tail, list_del, av_namespace_nth and         *)
(* av_namespace_next.                                                      *)

NoDup(s) == \A i, j \in DOMAIN s : s[i] = s[j] => i = j

\* Where an entry of the shorter list was before c was taken out.
Back(s, c, j) == IF j < Position(s, c) THEN j ELSE j + 1

\* list_del takes out the entry and leaves the others in their order.
LEMMA WithoutPlaces ==
    ASSUME NEW S, NEW s \in Seq(S), NEW c \in Listed(s)
    PROVE  /\ Without(s, c) \in Seq(S)
           /\ \A j \in DOMAIN Without(s, c) :
                 Back(s, c, j) \in DOMAIN s /\ Without(s, c)[j] = s[Back(s, c, j)]
           /\ \A i, j \in DOMAIN Without(s, c) : i <= j <=> Back(s, c, i) <= Back(s, c, j)
<1> DEFINE n == Len(s)
           p == Position(s, c)
           w == Without(s, c)
<1>1. p \in 1..n /\ s[p] = c /\ n \in Nat
  BY DEF Position, Listed
<1>2. w = [j \in 1..(n - 1) |-> IF j < p THEN s[j] ELSE s[j + 1]]
  BY DEF Without
<1>3. \A j : Back(s, c, j) = IF j < p THEN j ELSE j + 1
  BY DEF Back
<1>4. \A j \in 1..n : s[j] \in S
  OBVIOUS
<1>5. DOMAIN s = 1..n
  OBVIOUS
<1> HIDE DEF n, p, w
<1>6. DOMAIN w = 1..(n - 1)
  BY <1>2
<1>7. \A j \in 1..(n - 1) : Back(s, c, j) \in 1..n /\ w[j] = s[Back(s, c, j)]
  BY <1>1, <1>2, <1>3
<1>8. n - 1 \in Nat
  BY <1>1
<1>9. \A j \in 1..(n - 1) : w[j] \in S
  BY <1>4, <1>7
<1>10. w \in [1..(n - 1) -> S]
  BY <1>2, <1>9
<1>11. w \in Seq(S)
  BY <1>8, <1>10
<1>12. \A i, j \in 1..(n - 1) : i <= j <=> Back(s, c, i) <= Back(s, c, j)
  BY <1>1, <1>3
<1> QED BY <1>5, <1>6, <1>7, <1>11, <1>12 DEF w

\* From a list without duplicates list_del takes that entry and no other.
LEMMA WithoutProperties ==
    ASSUME NEW S, NEW s \in Seq(S), NoDup(s), NEW c \in Listed(s)
    PROVE  /\ Without(s, c) \in Seq(S)
           /\ NoDup(Without(s, c))
           /\ Listed(Without(s, c)) = Listed(s) \ {c}
<1> DEFINE n == Len(s)
           p == Position(s, c)
           w == Without(s, c)
<1>1. p \in 1..n /\ s[p] = c /\ n \in Nat /\ DOMAIN s = 1..n
  BY DEF Position, Listed
<1>2. DOMAIN w = 1..(n - 1)
  BY DEF Without
<1>3. \A j : Back(s, c, j) = IF j < p THEN j ELSE j + 1
  BY DEF Back
<1>4. /\ \A j \in DOMAIN w : Back(s, c, j) \in DOMAIN s /\ w[j] = s[Back(s, c, j)]
      /\ \A i, j \in DOMAIN w : i <= j <=> Back(s, c, i) <= Back(s, c, j)
      /\ w \in Seq(S)
  BY WithoutPlaces
<1> HIDE DEF n, p, w
<1>5. NoDup(w)
  <2> SUFFICES ASSUME NEW i \in 1..(n - 1), NEW j \in 1..(n - 1), w[i] = w[j]
               PROVE  i = j
    BY <1>2 DEF NoDup
  <2>1. Back(s, c, i) = Back(s, c, j)
    BY <1>2, <1>4 DEF NoDup
  <2> QED BY <1>1, <1>3, <2>1
<1>6. ASSUME NEW x \in Listed(w) PROVE x \in Listed(s) \ {c}
  <2>1. PICK j \in 1..(n - 1) : w[j] = x
    BY <1>2, <1>6 DEF Listed
  <2>2. Back(s, c, j) \in DOMAIN s /\ x = s[Back(s, c, j)]
    BY <1>2, <1>4, <2>1
  <2>3. Back(s, c, j) # p
    BY <1>1, <1>3
  <2>4. x # c
    BY <1>1, <2>2, <2>3 DEF NoDup
  <2> QED BY <2>2, <2>4 DEF Listed
<1>7. ASSUME NEW x \in Listed(s) \ {c} PROVE x \in Listed(w)
  <2>1. PICK i \in 1..n : s[i] = x
    BY <1>1, <1>7 DEF Listed
  <2>2. i # p
    BY <1>1, <1>7, <2>1
  <2>3. PICK j \in 1..(n - 1) : Back(s, c, j) = i
    <3>1. CASE i < p
      <4>1. i \in 1..(n - 1) /\ Back(s, c, i) = i
        BY <1>1, <1>3, <3>1
      <4> QED BY <4>1
    <3>2. CASE i > p
      <4>1. i - 1 \in 1..(n - 1) /\ Back(s, c, i - 1) = i
        BY <1>1, <1>3, <3>2
      <4> QED BY <4>1
    <3> QED BY <1>1, <2>2, <3>1, <3>2
  <2>4. w[j] = x
    BY <1>2, <1>4, <2>1, <2>3
  <2> QED BY <1>2, <2>4 DEF Listed
<1> QED BY <1>4, <1>5, <1>6, <1>7 DEF w

\* A new entry goes to the end of its directory.
LEMMA Appending ==
    ASSUME NEW S, NEW s \in Seq(S), NoDup(s), NEW e \in S, e \notin Listed(s)
    PROVE  /\ Append(s, e) \in Seq(S)
           /\ NoDup(Append(s, e))
           /\ Listed(Append(s, e)) = Listed(s) \cup {e}
<1> DEFINE n == Len(s)
           w == Append(s, e)
<1>1. n \in Nat /\ DOMAIN s = 1..n /\ w \in Seq(S)
  OBVIOUS
<1>2. DOMAIN w = 1..(n + 1) /\ w[n + 1] = e /\ \A j \in 1..n : w[j] = s[j]
  OBVIOUS
<1>3. \A i \in 1..n : s[i] # e
  BY <1>1 DEF Listed
<1> HIDE DEF n, w
<1>4. NoDup(w)
  <2> SUFFICES ASSUME NEW i \in 1..(n + 1), NEW j \in 1..(n + 1), w[i] = w[j] PROVE i = j
    BY <1>2 DEF NoDup
  <2>1. CASE i = n + 1 \/ j = n + 1
    BY <1>1, <1>2, <1>3, <2>1
  <2>2. CASE i \in 1..n /\ j \in 1..n
    BY <1>1, <1>2, <2>2 DEF NoDup
  <2> QED BY <1>1, <2>1, <2>2
<1>5. ASSUME NEW x \in Listed(w) PROVE x \in Listed(s) \cup {e}
  <2>1. PICK j \in 1..(n + 1) : w[j] = x
    BY <1>2, <1>5 DEF Listed
  <2>2. CASE j = n + 1
    BY <1>2, <2>1, <2>2
  <2>3. CASE j \in 1..n
    BY <1>1, <1>2, <2>1, <2>3 DEF Listed
  <2> QED BY <1>1, <2>1, <2>2, <2>3
<1>6. ASSUME NEW x \in Listed(s) \cup {e} PROVE x \in Listed(w)
  <2>1. CASE x = e
    <3>1. n + 1 \in 1..(n + 1)
      BY <1>1
    <3> QED BY <1>2, <2>1, <3>1 DEF Listed
  <2>2. CASE x \in Listed(s)
    <3>1. PICK j \in 1..n : s[j] = x
      BY <1>1, <2>2 DEF Listed
    <3>2. j \in 1..(n + 1)
      BY <1>1
    <3> QED BY <1>2, <3>1, <3>2 DEF Listed
  <2> QED BY <1>6, <2>1, <2>2
<1> QED BY <1>1, <1>4, <1>5, <1>6 DEF w

----------------------------------------------------------------------------
(* A reader of list s that has come to c has seen, of what was there all    *)
(* the time, all up to c.                                                  *)

Scan(s, c, st, sn) ==
    /\ st \subseteq Listed(s)
    /\ \A i, j \in DOMAIN s : i <= j /\ s[j] = c /\ s[i] \in st => s[i] \in sn

\* An entry that is added at the end leaves the scan as it is.
LEMMA ScanAppended ==
    ASSUME NEW S, NEW s \in Seq(S), NEW e, NEW c, c # e, NEW st, NEW sn, Scan(s, c, st, sn)
    PROVE  Scan(Append(s, e), c, st, sn)
<1> DEFINE n == Len(s)
           w == Append(s, e)
<1>1. n \in Nat /\ DOMAIN s = 1..n
  OBVIOUS
<1>2. DOMAIN w = 1..(n + 1) /\ w[n + 1] = e /\ \A j \in 1..n : w[j] = s[j]
  OBVIOUS
<1> HIDE DEF n, w
<1>3. ASSUME NEW x \in st PROVE x \in Listed(w)
  <2>1. PICK j \in 1..n : s[j] = x
    BY <1>1, <1>3 DEF Scan, Listed
  <2>2. j \in 1..(n + 1)
    BY <1>1
  <2> QED BY <1>2, <2>1, <2>2 DEF Listed
<1>4. ASSUME NEW i \in 1..(n + 1), NEW j \in 1..(n + 1), i <= j, w[j] = c, w[i] \in st
      PROVE  w[i] \in sn
  <2>1. j # n + 1
    BY <1>2, <1>4
  <2>2. i \in 1..n /\ j \in 1..n
    BY <1>1, <1>4, <2>1
  <2> QED BY <1>1, <1>2, <1>4, <2>2 DEF Scan
<1> QED BY <1>2, <1>3, <1>4 DEF Scan, w

\* An entry that goes is no longer one the scan must meet.
LEMMA ScanWithout ==
    ASSUME NEW S, NEW s \in Seq(S), NoDup(s), NEW e \in Listed(s), NEW c, NEW st, NEW sn,
           Scan(s, c, st, sn)
    PROVE  Scan(Without(s, e), c, st \ {e}, sn)
<1> DEFINE w == Without(s, e)
<1>1. Listed(w) = Listed(s) \ {e}
  BY WithoutProperties
<1>2. /\ \A j \in DOMAIN w : Back(s, e, j) \in DOMAIN s /\ w[j] = s[Back(s, e, j)]
      /\ \A i, j \in DOMAIN w : i <= j <=> Back(s, e, i) <= Back(s, e, j)
  BY WithoutPlaces
<1> HIDE DEF w
<1>3. ASSUME NEW i \in DOMAIN w, NEW j \in DOMAIN w, i <= j, w[j] = c, w[i] \in st \ {e}
      PROVE  w[i] \in sn
  BY <1>2, <1>3 DEF Scan
<1> QED BY <1>1, <1>3 DEF Scan, w

\* A scan begins at the first entry.
LEMMA ScanFirst ==
    ASSUME NEW S, NEW s \in Seq(S), NoDup(s), s # <<>>
    PROVE  Scan(s, s[1], Listed(s), {s[1]})
<1>1. DOMAIN s = 1..Len(s) /\ Len(s) \in Nat /\ 1 \in DOMAIN s
  OBVIOUS
<1>2. ASSUME NEW i \in DOMAIN s, NEW j \in DOMAIN s, i <= j, s[j] = s[1] PROVE s[i] = s[1]
  <2>1. j = 1
    BY <1>1, <1>2 DEF NoDup
  <2> QED BY <1>1, <1>2, <2>1
<1> QED BY <1>2 DEF Scan

\* The entry after c is one of the list, or c was the last.
LEMMA AfterProperties ==
    ASSUME NEW S, NEW s \in Seq(S), NoDup(s), NEW c \in Listed(s), None \notin S
    PROVE  \E p \in DOMAIN s :
               /\ s[p] = c
               /\ After(s, c) # None => p + 1 \in DOMAIN s /\ After(s, c) = s[p + 1]
               /\ After(s, c) = None => p = Len(s)
<1> DEFINE n == Len(s)
           p == Position(s, c)
<1>1. p \in 1..n /\ s[p] = c /\ n \in Nat /\ DOMAIN s = 1..n
  BY DEF Position, Listed
<1>2. After(s, c) = IF p < n THEN s[p + 1] ELSE None
  BY DEF After
<1>3. \A j \in 1..n : s[j] # None
  OBVIOUS
<1> HIDE DEF n, p
<1>4. p < n => p + 1 \in 1..n /\ s[p + 1] # None
  BY <1>1, <1>3
<1>5. ~(p < n) => p = n
  BY <1>1
<1>6. After(s, c) # None => p < n /\ After(s, c) = s[p + 1]
  BY <1>2
<1>7. After(s, c) = None => ~(p < n)
  BY <1>2, <1>4
<1>8. n = Len(s)
  BY DEF n
<1> QED BY <1>1, <1>4, <1>5, <1>6, <1>7, <1>8

\* A scan goes to the next entry, and at the end has met all that stayed.
LEMMA ScanNext ==
    ASSUME NEW S, NEW s \in Seq(S), NoDup(s), NEW c \in Listed(s), None \notin S, NEW st, NEW sn,
           Scan(s, c, st, sn)
    PROVE  /\ After(s, c) # None =>
                 /\ After(s, c) \in Listed(s)
                 /\ Scan(s, After(s, c), st, sn \cup {After(s, c)})
           /\ After(s, c) = None => st \subseteq sn
<1>1. PICK p \in DOMAIN s :
         /\ s[p] = c
         /\ After(s, c) # None => p + 1 \in DOMAIN s /\ After(s, c) = s[p + 1]
         /\ After(s, c) = None => p = Len(s)
  BY AfterProperties
<1>2. DOMAIN s = 1..Len(s) /\ Len(s) \in Nat /\ p \in Nat
  OBVIOUS
<1>3. ASSUME After(s, c) # None
      PROVE  /\ After(s, c) \in Listed(s)
             /\ Scan(s, After(s, c), st, sn \cup {After(s, c)})
  <2>1. p + 1 \in DOMAIN s /\ After(s, c) = s[p + 1]
    BY <1>1, <1>3
  <2>2. ASSUME NEW i \in DOMAIN s, NEW j \in DOMAIN s, i <= j, s[j] = s[p + 1], s[i] \in st
        PROVE  s[i] \in sn \cup {s[p + 1]}
    <3>1. j = p + 1
      BY <2>1, <2>2 DEF NoDup
    <3>2. i = p + 1 \/ i <= p
      BY <1>2, <2>2, <3>1
    <3> QED BY <1>1, <2>2, <3>2 DEF Scan
  <2> QED BY <2>1, <2>2 DEF Scan, Listed
<1>4. ASSUME After(s, c) = None, NEW x \in st PROVE x \in sn
  <2>1. PICK i \in DOMAIN s : s[i] = x
    BY <1>4 DEF Scan, Listed
  <2>2. i <= p
    BY <1>1, <1>2, <1>4, <2>1
  <2> QED BY <1>1, <1>4, <2>1, <2>2 DEF Scan
<1> QED BY <1>3, <1>4


----------------------------------------------------------------------------
(* Counting references.                                                    *)

\* The references to x that threads are about to drop, if td says which they drop.
Drops(td, x) == UNION {{<<t, i>> : i \in HeldBy(td[t], x)} : t \in Threads}

\* What a reference to be dropped is.
LEMMA DropsMember ==
    ASSUME NEW td, NEW x
    PROVE  /\ \A t, i : <<t, i>> \in Drops(td, x) <=>
                  t \in Threads /\ i \in DOMAIN td[t] /\ td[t][i] = x
           /\ \A p \in Drops(td, x) : \E t \in Threads : \E i \in DOMAIN td[t] : p = <<t, i>>
BY DEF Drops, HeldBy

\* The references to be dropped can be counted.
LEMMA DropsFinite ==
    ASSUME NEW td \in [Threads -> Seq(Objects)], NEW x
    PROVE  IsFiniteSet(Drops(td, x)) /\ Cardinality(Drops(td, x)) \in Nat
<1> DEFINE F == [t \in Threads |-> {<<t, i>> : i \in HeldBy(td[t], x)}]
           All == {{<<t, i>> : i \in HeldBy(td[t], x)} : t \in Threads}
<1> DEFINE Of(t) == {<<t, i>> : i \in HeldBy(td[t], x)}
<1>1. F \in Surjection(Threads, All)
  <2>1. F = [t \in Threads |-> Of(t)] /\ All = {Of(t) : t \in Threads}
    OBVIOUS
  <2> HIDE DEF F, All, Of
  <2>2. F \in [Threads -> All] /\ \A a \in All : \E t \in Threads : F[t] = a
    BY <2>1
  <2> QED BY <2>2 DEF Surjection
<1>2. IsFiniteSet(All)
  <2> HIDE DEF F, All
  <2> QED BY <1>1, FS_Surjection, FiniteAssumption
<1>3. ASSUME NEW t \in Threads PROVE IsFiniteSet({<<t, i>> : i \in HeldBy(td[t], x)})
  <2>1. 1 \in Int /\ Len(td[t]) \in Int
    OBVIOUS
  <2>2. IsFiniteSet({t} \X (1..Len(td[t])))
    BY <2>1, FS_Interval, FS_Singleton, FS_Product
  <2>3. {<<t, i>> : i \in HeldBy(td[t], x)} \subseteq {t} \X (1..Len(td[t]))
    BY DEF HeldBy
  <2> QED BY <2>2, <2>3, FS_Subset
<1>4. IsFiniteSet(UNION All)
  BY <1>2, <1>3, FS_UNION
<1> QED BY <1>4, FS_CardinalityType DEF Drops

\* One more reference to drop.
Longer(td, td2, t, n, y) ==
    /\ DOMAIN td[t] = 1..n /\ DOMAIN td2[t] = 1..(n + 1) /\ td2[t][n + 1] = y
    /\ \A j \in 1..n : td2[t][j] = td[t][j]
    /\ \A u \in Threads \ {t} : td2[u] = td[u]

\* One more reference is to be dropped.
LEMMA DropsAdded ==
    ASSUME NEW td \in [Threads -> Seq(Objects)], NEW t \in Threads, NEW y, NEW x, NEW td2,
           NEW n \in Nat, Longer(td, td2, t, n, y)
    PROVE  /\ Cardinality(Drops(td2, x)) = Cardinality(Drops(td, x)) + One(y = x)
           /\ Cardinality(Drops(td, x)) \in Nat
<1>0. /\ DOMAIN td[t] = 1..n /\ DOMAIN td2[t] = 1..(n + 1) /\ td2[t][n + 1] = y
      /\ \A j \in 1..n : td2[t][j] = td[t][j]
      /\ \A u \in Threads \ {t} : td2[u] = td[u]
  BY DEF Longer
<1> DEFINE p == <<t, n + 1>>
<1>1. p \notin Drops(td, x)
  BY <1>0, DropsMember
<1>2. p \in Drops(td2, x) <=> y = x
  BY <1>0, DropsMember
<1>3. ASSUME NEW u \in Threads, NEW i, <<u, i>> # p
      PROVE  <<u, i>> \in Drops(td2, x) <=> <<u, i>> \in Drops(td, x)
  <2>1. CASE u = t
    <3>1. i \in 1..(n + 1) <=> i \in 1..n \/ i = n + 1
      BY <1>0
    <3> QED BY <1>0, <1>3, <2>1, <3>1, DropsMember
  <2>2. CASE u # t
    BY <1>0, <2>2, DropsMember
  <2> QED BY <2>1, <2>2
<1>4. Drops(td, x) \ {p} = Drops(td2, x) \ {p}
  BY <1>3, DropsMember
<1>5. IsFiniteSet(Drops(td, x))
  BY DropsFinite
<1> HIDE DEF p
<1>6. /\ Cardinality(Drops(td, x)) \in Nat
      /\ Cardinality(Drops(td2, x)) =
             Cardinality(Drops(td, x)) + One(p \in Drops(td2, x)) - One(p \in Drops(td, x))
  BY <1>4, <1>5, OneChanges
<1> QED BY <1>1, <1>2, <1>6 DEF One

Pushed(td, t, y) == [td EXCEPT ![t] = Append(td[t], y)]

\* The same at the end of the list.
LEMMA DropsPushed ==
    ASSUME NEW td \in [Threads -> Seq(Objects)], NEW t \in Threads, NEW y \in Objects, NEW x
    PROVE  /\ Pushed(td, t, y) \in [Threads -> Seq(Objects)]
           /\ Cardinality(Drops(Pushed(td, t, y), x)) = Cardinality(Drops(td, x)) + One(y = x)
           /\ Cardinality(Drops(td, x)) \in Nat
<1> DEFINE n == Len(td[t])
           ap == Append(td[t], y)
<1>1. /\ DOMAIN td[t] = 1..n /\ n \in Nat /\ ap \in Seq(Objects)
      /\ DOMAIN ap = 1..(n + 1) /\ ap[n + 1] = y /\ \A j \in 1..n : ap[j] = td[t][j]
  OBVIOUS
<1>2. PICK td2 : td2 = Pushed(td, t, y)
  OBVIOUS
<1>3. td2 = [td EXCEPT ![t] = ap]
  BY <1>2 DEF Pushed
<1> HIDE DEF n, ap
<1>4. td2 \in [Threads -> Seq(Objects)]
  BY <1>1, <1>3
<1>5. /\ DOMAIN td2[t] = 1..(n + 1) /\ td2[t][n + 1] = y
      /\ \A j \in 1..n : td2[t][j] = td[t][j]
      /\ \A u \in Threads \ {t} : td2[u] = td[u]
  BY <1>1, <1>3
<1>6. PICK m \in Nat : m = n
  BY <1>1
<1>7. Longer(td, td2, t, m, y)
  BY <1>1, <1>5, <1>6 DEF Longer
<1>8. /\ Cardinality(Drops(td2, x)) = Cardinality(Drops(td, x)) + One(y = x)
      /\ Cardinality(Drops(td, x)) \in Nat
  BY <1>7, DropsAdded
<1> QED BY <1>2, <1>4, <1>8

\* The last one is dropped.
Popped(td, t) == [td EXCEPT ![t] = SubSeq(td[t], 1, Len(td[t]) - 1)]

\* One less reference is to be dropped.
LEMMA DropsPopped ==
    ASSUME NEW td \in [Threads -> Seq(Objects)], NEW t \in Threads, td[t] # <<>>, NEW x
    PROVE  /\ td[t][Len(td[t])] \in Objects
           /\ Popped(td, t) \in [Threads -> Seq(Objects)]
           /\ Cardinality(Drops(td, x)) =
                  Cardinality(Drops(Popped(td, t), x)) + One(td[t][Len(td[t])] = x)
           /\ Cardinality(Drops(Popped(td, t), x)) \in Nat
<1>1. td[t] \in Seq(Objects) /\ Len(td[t]) \in Nat /\ Len(td[t]) # 0
  OBVIOUS
<1>2. PICK y \in Objects : y = td[t][Len(td[t])]
  BY <1>1
<1>3. PICK rest : rest = SubSeq(td[t], 1, Len(td[t]) - 1)
  OBVIOUS
<1>4. rest \in Seq(Objects) /\ td[t] = Append(rest, y)
  BY <1>1, <1>2, <1>3
<1>5. PICK td0 : td0 = [td EXCEPT ![t] = rest]
  OBVIOUS
<1>6. td0 = Popped(td, t)
  BY <1>3, <1>5 DEF Popped
<1>7. td0 \in [Threads -> Seq(Objects)]
  BY <1>4, <1>5
<1>8. td = Pushed(td0, t, y)
  <2>1. td0[t] = rest /\ \A u \in Threads \ {t} : td0[u] = td[u]
    BY <1>5
  <2>2. \A u \in Threads : td[u] = IF u = t THEN Append(td0[t], y) ELSE td0[u]
    BY <1>4, <2>1
  <2>3. Pushed(td0, t, y) = [u \in Threads |-> IF u = t THEN Append(td0[t], y) ELSE td0[u]]
    BY <1>7 DEF Pushed
  <2> QED BY <2>2, <2>3
<1>9. /\ Cardinality(Drops(Pushed(td0, t, y), x)) = Cardinality(Drops(td0, x)) + One(y = x)
      /\ Cardinality(Drops(td0, x)) \in Nat
  BY <1>7, DropsPushed
<1> QED BY <1>2, <1>6, <1>7, <1>8, <1>9

\* A thread exchanges one reference for another.
Moved(f, t, v) == [f EXCEPT ![t] = v]

\* The holders of an entry when a thread goes to another.
LEMMA HeldMoves ==
    ASSUME NEW f \in [Threads -> Entries \cup {None}], NEW t \in Threads, NEW v, NEW x
    PROVE  /\ Cardinality(HeldBy(f, x)) \in Nat
           /\ Cardinality(HeldBy(Moved(f, t, v), x)) =
                  Cardinality(HeldBy(f, x)) + One(v = x) - One(f[t] = x)
<1> DEFINE A == HeldBy(f, x)
           B == HeldBy(Moved(f, t, v), x)
<1>1. A \subseteq Threads /\ A \ {t} = B \ {t}
  BY DEF HeldBy, Moved
<1>2. (t \in A <=> f[t] = x) /\ (t \in B <=> v = x)
  BY DEF HeldBy, Moved
<1>3. IsFiniteSet(A)
  BY <1>1, PartIsFinite, FiniteAssumption
<1> HIDE DEF A, B
<1>4. /\ Cardinality(A) \in Nat
      /\ Cardinality(B) = Cardinality(A) + One(t \in B) - One(t \in A)
  BY <1>1, <1>3, OneChanges
<1> QED BY <1>2, <1>4 DEF One, A, B

\* What a thread holds counts.
LEMMA HeldCounts ==
    ASSUME NEW V, NEW f \in [Threads -> V], NEW x
    PROVE  /\ Cardinality(HeldBy(f, x)) \in Nat
           /\ \A t \in Threads : f[t] = x => Cardinality(HeldBy(f, x)) > 0
<1>1. HeldBy(f, x) \subseteq Threads
  BY DEF HeldBy
<1>2. IsFiniteSet(HeldBy(f, x))
  BY <1>1, PartIsFinite, FiniteAssumption
<1>3. \A t \in Threads : f[t] = x => HeldBy(f, x) # {}
  BY DEF HeldBy
<1> QED BY <1>2, <1>3, CountIsNat


----------------------------------------------------------------------------
(* The inductive invariant.                                                *)

\* No entry is its own parent.
ParentInv == \A e \in hash : parent[e] # e

\* The position of a reader is an entry of its directory, and of what was there all the
\* time it has seen all up to that position.
Reading(t) ==
    /\ curr[t] # None => at[t] # None /\ parent[curr[t]] = at[t]
    /\ reading[t] # "no" => at[t] # None
    /\ reading[t] = "yes" => curr[t] # None /\ Scan(subdir[at[t]], curr[t], steady[t], seen[t])
    /\ reading[t] = "done" => steady[t] \subseteq seen[t]

ReadInv == \A t \in Threads : Reading(t)

IInv ==
    /\ TypeOK /\ TableIsLive /\ RefctrExact
    /\ ParentInv /\ OneEntryPerName /\ ReadInv

Counted == TypeOK /\ TableIsLive /\ RefctrExact

\* No object is none, and the namespace is no entry.
LEMMA NoneIsNothing == None \notin Objects /\ Ns \in Objects /\ Entries \subseteq Objects /\ Ns \notin Entries
BY NoneAssumption DEF Objects

\* The four kinds of references are finitely many.
LEMMA Countable ==
    ASSUME TypeOK, NEW x \in Objects
    PROVE  /\ Cardinality(HeldBy(at, x)) \in Nat /\ Cardinality(HeldBy(curr, x)) \in Nat
           /\ IsFiniteSet(Holders(x)) /\ Cardinality(Holders(x)) \in Nat
           /\ Cardinality(Dropping(x)) \in Nat
<1>1. Cardinality(HeldBy(at, x)) \in Nat /\ Cardinality(HeldBy(curr, x)) \in Nat
  BY HeldCounts DEF TypeOK
<1>2. IsFiniteSet(Holders(x))
  <2>1. Holders(x) \subseteq Entries \cup {Ns, x}
    BY DEF Holders, TypeOK
  <2>2. IsFiniteSet(Entries \cup {Ns}) /\ IsFiniteSet((Entries \cup {Ns}) \cup {x})
    BY FiniteAssumption, FS_AddElement
  <2>3. Entries \cup {Ns, x} = (Entries \cup {Ns}) \cup {x}
    OBVIOUS
  <2> QED BY <2>1, <2>2, <2>3, FS_Subset
<1>3. Cardinality(Holders(x)) \in Nat
  BY <1>2, FS_CardinalityType
<1>4. Cardinality(Dropping(x)) \in Nat
  <2>1. Dropping(x) = Drops(todo, x)
    BY DEF Dropping, Drops
  <2>2. todo \in [Threads -> Seq(Objects)]
    BY DEF TypeOK
  <2> QED BY <2>1, <2>2, DropsFinite
<1> QED BY <1>1, <1>2, <1>3, <1>4

\* Whoever is referred to is alive.
LEMMA Referred ==
    ASSUME Counted, NEW x \in Objects,
           \/ \E t \in Threads : at[t] = x \/ curr[t] = x
           \/ Holders(x) # {}
           \/ Dropping(x) # {}
    PROVE  refctr[x] > 0
<1> DEFINE a == Cardinality(HeldBy(at, x))
           c == Cardinality(HeldBy(curr, x))
           h == Cardinality(Holders(x))
           d == Cardinality(Dropping(x))
<1>1. refctr[x] = a + c + h + d /\ a \in Nat /\ c \in Nat /\ h \in Nat /\ d \in Nat
  BY Countable DEF Counted, RefctrExact
<1>2. (\E t \in Threads : at[t] = x) => a > 0
  BY HeldCounts DEF Counted, TypeOK
<1>3. (\E t \in Threads : curr[t] = x) => c > 0
  BY HeldCounts DEF Counted, TypeOK
<1>4. Holders(x) # {} => h > 0
  BY Countable, CountIsNat DEF Counted
<1>5. Dropping(x) # {} => d > 0
  <2>1. Dropping(x) = Drops(todo, x) /\ todo \in [Threads -> Seq(Objects)]
    BY DEF Dropping, Drops, Counted, TypeOK
  <2>2. IsFiniteSet(Dropping(x))
    BY <2>1, DropsFinite
  <2> QED BY <2>2, CountIsNat
<1> HIDE DEF a, c, h, d
<1> QED BY <1>1, <1>2, <1>3, <1>4, <1>5

\* What threads, nodes, children and the owner of the namespace refer to is there.
LEMMA Alive ==
    ASSUME Counted
    PROVE  /\ \A t \in Threads : at[t] # None => at[t] \in hash
           /\ \A t \in Threads : curr[t] # None => curr[t] \in hash
           /\ \A e \in hash : e \in Entries /\ refctr[e] > 0 /\ refctr[Ns] > 0
           /\ \A e \in hash : parent[e] # None => parent[e] \in hash
           /\ \A e \in Entries : data[e] => e \in hash
           /\ owner => refctr[Ns] > 0
<1>0. /\ hash \subseteq Entries /\ \A e \in Entries : e \in hash <=> refctr[e] > 0
      /\ \A t \in Threads : at[t] # None => at[t] \in Entries
      /\ \A t \in Threads : curr[t] # None => curr[t] \in Entries
      /\ \A e \in Entries : parent[e] # None => parent[e] \in Entries
  BY DEF Counted, TableIsLive, TypeOK
<1>1. ASSUME NEW t \in Threads, at[t] # None PROVE at[t] \in hash
  <2>1. PICK x \in Entries : at[t] = x
    BY <1>0, <1>1
  <2> QED BY <1>0, <2>1, Referred, NoneIsNothing
<1>2. ASSUME NEW t \in Threads, curr[t] # None PROVE curr[t] \in hash
  <2>1. PICK x \in Entries : curr[t] = x
    BY <1>0, <1>2
  <2> QED BY <1>0, <2>1, Referred, NoneIsNothing
<1>3. ASSUME NEW e \in hash PROVE e \in Entries /\ refctr[e] > 0 /\ refctr[Ns] > 0
  <2>1. Holders(Ns) # {}
    BY <1>3 DEF Holders
  <2> QED BY <1>0, <1>3, <2>1, Referred, NoneIsNothing
<1>4. ASSUME NEW e \in hash, parent[e] # None PROVE parent[e] \in hash
  <2>1. PICK x \in Entries : parent[e] = x
    BY <1>0, <1>4
  <2>2. Holders(x) # {}
    BY <2>1, NoneIsNothing DEF Holders
  <2> QED BY <1>0, <2>1, <2>2, Referred, NoneIsNothing
<1>5. ASSUME NEW e \in Entries, data[e] PROVE e \in hash
  <2>1. Holders(e) # {}
    BY <1>5, NoneIsNothing DEF Holders
  <2> QED BY <1>0, <2>1, Referred, NoneIsNothing
<1>6. ASSUME owner PROVE refctr[Ns] > 0
  <2>1. Holders(Ns) # {}
    BY <1>6 DEF Holders
  <2> QED BY <2>1, Referred, NoneIsNothing
<1> QED BY <1>1, <1>2, <1>3, <1>4, <1>5, <1>6

\* The children of a directory are listed in it.
LEMMA Children ==
    ASSUME Counted
    PROVE  /\ \A p \in Entries \cup {None} : subdir[p] \in Seq(Entries) /\ NoDup(subdir[p])
           /\ \A p \in Entries \cup {None} : Listed(subdir[p]) = {e \in hash : parent[e] = p}
           /\ \A e \in hash : e \in Listed(subdir[parent[e]]) /\ parent[e] \in Entries \cup {None}
<1>1. \A p \in Entries \cup {None} : subdir[p] \in Seq(Entries) /\ NoDup(subdir[p])
  BY DEF Counted, TableIsLive, NoDup, TypeOK
<1>2. \A p \in Entries \cup {None} : Listed(subdir[p]) = {e \in hash : parent[e] = p}
  BY DEF Counted, TableIsLive
<1>3. \A e \in hash : parent[e] \in Entries \cup {None}
  BY DEF Counted, TypeOK
<1> QED BY <1>1, <1>2, <1>3

\* A thread that is ready plans to drop v.
LEMMA LaterTypes ==
    ASSUME TypeOK, NEW t \in Threads, NEW v \in Objects \cup {None}, Ready(t), Later(t, v)
    PROVE  todo' \in [Threads -> Seq(Objects)]
<1>1. v \in Objects => <<v>> \in Seq(Objects)
  OBVIOUS
<1> QED BY <1>1 DEF Later, TypeOK

\* What Later adds to the references to be dropped.
LEMMA LaterDrops ==
    ASSUME TypeOK, NEW t \in Threads, NEW v \in Objects \cup {None}, Ready(t), Later(t, v),
           NEW x \in Objects
    PROVE  Cardinality(Dropping(x)') = Cardinality(Dropping(x)) + One(v = x)
<1>1. /\ Dropping(x) = Drops(todo, x) /\ Dropping(x)' = Drops(todo', x)
      /\ todo \in [Threads -> Seq(Objects)]
  BY DEF Dropping, Drops, TypeOK
<1>2. Cardinality(Dropping(x)) \in Nat
  BY Countable
<1>3. CASE v = None
  <2>1. todo' = todo /\ One(v = x) = 0
    BY <1>3, NoneIsNothing DEF Later, One
  <2> QED BY <1>1, <1>2, <2>1
<1>4. CASE v \in Objects
  <2>1. todo' = [todo EXCEPT ![t] = <<v>>]
    BY <1>4, NoneIsNothing DEF Later
  <2>2. Append(todo[t], v) = <<v>>
    BY <1>4 DEF Ready
  <2>3. todo' = Pushed(todo, t, v)
    BY <2>1, <2>2 DEF Pushed
  <2>4. PICK td \in [Threads -> Seq(Objects)] : td = todo
    BY <1>1
  <2>5. Cardinality(Drops(Pushed(td, t, v), x)) = Cardinality(Drops(td, x)) + One(v = x)
    BY <1>4, DropsPushed
  <2> QED BY <1>1, <2>3, <2>4, <2>5
<1> QED BY <1>3, <1>4


----------------------------------------------------------------------------
(* The steps that leave the tables alone.                                  *)

\* A thread moves on, takes a reference to r and plans to drop v: the counts follow if
\* what it held and the new reference are what it holds and what it drops.
Balanced(t, a, c, v, r) ==
    \A x \in Objects : One(a = x) + One(c = x) + One(v = x) =
                           One(at[t] = x) + One(curr[t] = x) + One(r = x)

\* A reference is taken to r, which is alive, and v will be dropped.
Holding(t, r, v) ==
    /\ r # None => refctr[r] > 0
    /\ Ready(t) /\ Later(t, v) /\ refctr' = Refd(r)
    /\ UNCHANGED <<tables, data, owner>>

\* A step that moves references from one holder to another keeps the counts.
LEMMA CountsKept ==
    ASSUME TypeOK, RefctrExact, NEW t \in Threads, NEW a \in Entries \cup {None},
           NEW c \in Entries \cup {None}, NEW v \in Objects \cup {None},
           NEW r \in Entries \cup {None}, Holding(t, r, v), Balanced(t, a, c, v, r),
           at' = Moved(at, t, a), curr' = Moved(curr, t, c)
    PROVE  RefctrExact'
<1> SUFFICES ASSUME NEW x \in Objects
             PROVE  refctr'[x] = Cardinality(HeldBy(at', x)) + Cardinality(HeldBy(curr', x))
                                 + Cardinality(Holders(x)') + Cardinality(Dropping(x)')
  BY DEF RefctrExact
<1>0. /\ r # None => refctr[r] > 0
      /\ Ready(t) /\ Later(t, v) /\ refctr' = Refd(r)
      /\ UNCHANGED <<hash, parent, data, owner>>
  BY DEF Holding, tables
<1> DEFINE na == Cardinality(HeldBy(at, x))
           nc == Cardinality(HeldBy(curr, x))
           nh == Cardinality(Holders(x))
           nd == Cardinality(Dropping(x))
<1>1. /\ refctr[x] = na + nc + nh + nd
      /\ na \in Nat /\ nc \in Nat /\ nh \in Nat /\ nd \in Nat
  BY Countable DEF RefctrExact
<1>2. Cardinality(HeldBy(at', x)) = na + One(a = x) - One(at[t] = x)
  <2>1. PICK f \in [Threads -> Entries \cup {None}] : f = at
    BY DEF TypeOK
  <2>2. Cardinality(HeldBy(Moved(f, t, a), x)) =
            Cardinality(HeldBy(f, x)) + One(a = x) - One(f[t] = x)
    BY HeldMoves
  <2>3. at' = Moved(f, t, a)
    BY <2>1
  <2> QED BY <2>1, <2>2, <2>3
<1>3. Cardinality(HeldBy(curr', x)) = nc + One(c = x) - One(curr[t] = x)
  <2>1. PICK f \in [Threads -> Entries \cup {None}] : f = curr
    BY DEF TypeOK
  <2>2. Cardinality(HeldBy(Moved(f, t, c), x)) =
            Cardinality(HeldBy(f, x)) + One(c = x) - One(f[t] = x)
    BY HeldMoves
  <2>3. curr' = Moved(f, t, c)
    BY <2>1
  <2> QED BY <2>1, <2>2, <2>3
<1>4. Cardinality(Holders(x)') = nh
  <2>1. Holders(x)' = Holders(x)
    BY <1>0 DEF Holders
  <2> QED BY <2>1
<1>5. Cardinality(Dropping(x)') = nd + One(v = x)
  BY <1>0, LaterDrops
<1>6. refctr'[x] = refctr[x] + One(r = x)
  <2>1. refctr[x] \in Nat /\ x # None
    BY NoneIsNothing DEF TypeOK
  <2>2. refctr'[x] = IF x = r /\ refctr[x] > 0 THEN refctr[x] + 1 ELSE refctr[x]
    BY <1>0 DEF Refd
  <2> QED BY <1>0, <2>1, <2>2 DEF One
<1>7. One(a = x) + One(c = x) + One(v = x) = One(at[t] = x) + One(curr[t] = x) + One(r = x)
  BY DEF Balanced
<1>8. /\ One(a = x) \in Nat /\ One(c = x) \in Nat /\ One(v = x) \in Nat
      /\ One(at[t] = x) \in Nat /\ One(curr[t] = x) \in Nat /\ One(r = x) \in Nat
  BY DEF One
<1> HIDE DEF na, nc, nh, nd
<1> QED BY <1>1, <1>2, <1>3, <1>4, <1>5, <1>6, <1>7, <1>8

\* A step that changes counts alone keeps the tables.
LEMMA TablesKept ==
    ASSUME TypeOK, TableIsLive, ParentInv, OneEntryPerName, NEW r, refctr' = Refd(r),
           UNCHANGED <<hash, name, parent, subdir>>
    PROVE  TableIsLive' /\ ParentInv' /\ OneEntryPerName' /\ refctr' \in [Objects -> Nat]
<1>1. refctr' \in [Objects -> Nat]
  BY DEF Refd, TypeOK
<1>2. \A e \in Entries : refctr'[e] > 0 <=> refctr[e] > 0
  BY DEF Refd, TypeOK, Objects
<1>3. TableIsLive'
  BY <1>2 DEF TableIsLive
<1> QED BY <1>1, <1>3 DEF ParentInv, OneEntryPerName

\* A thread that does not read goes to another entry.
LEMMA WalkSafe ==
    ASSUME IInv, NEW t \in Threads, NEW a \in Entries \cup {None}, NEW v \in Objects \cup {None},
           NEW r \in Entries \cup {None}, Holding(t, r, v), reading[t] = "no", curr[t] = None,
           at' = Moved(at, t, a), UNCHANGED walk,
           \A x \in Objects : One(a = x) + One(v = x) = One(at[t] = x) + One(r = x)
    PROVE  IInv'
<1> USE DEF tables, walk
<1>1. Ready(t) /\ Later(t, v) /\ refctr' = Refd(r) /\ UNCHANGED <<tables, data, owner>>
  BY DEF Holding
<1>2. curr' = Moved(curr, t, None)
  BY DEF Moved, IInv, TypeOK
<1>3. RefctrExact'
  <2>1. \A x \in Objects : One(None = x) = 0 /\ One(curr[t] = x) = 0
    BY NoneIsNothing DEF One
  <2>2. \A x \in Objects : /\ One(a = x) \in Nat /\ One(v = x) \in Nat
                           /\ One(at[t] = x) \in Nat /\ One(r = x) \in Nat
    BY DEF One
  <2>3. Balanced(t, a, None, v, r)
    BY <2>1, <2>2 DEF Balanced
  <2>4. PICK c \in Entries \cup {None} : c = None
    OBVIOUS
  <2>5. TypeOK /\ RefctrExact
    BY DEF IInv
  <2>6. Balanced(t, a, c, v, r) /\ curr' = Moved(curr, t, c)
    BY ONLY <1>2, <2>3, <2>4
  <2>7. t \in Threads /\ a \in Entries \cup {None} /\ v \in Objects \cup {None} /\ r \in Entries \cup {None}
        /\ Holding(t, r, v) /\ at' = Moved(at, t, a)
    OBVIOUS
  <2> QED BY ONLY <2>4, <2>5, <2>6, <2>7, CountsKept
<1>4. TableIsLive' /\ ParentInv' /\ OneEntryPerName' /\ refctr' \in [Objects -> Nat]
  BY <1>1, TablesKept DEF IInv
<1>5. TypeOK'
  <2>1. todo' \in [Threads -> Seq(Objects)]
    BY <1>1, LaterTypes DEF IInv
  <2>2. at' \in [Threads -> Entries \cup {None}]
    BY DEF Moved, IInv, TypeOK
  <2> QED BY <1>1, <1>4, <2>1, <2>2 DEF IInv, TypeOK
<1>6. ReadInv'
  <2> SUFFICES ASSUME NEW u \in Threads PROVE Reading(u)'
    BY DEF ReadInv
  <2>1. Reading(u)
    BY DEF IInv, ReadInv
  <2>2. CASE u = t
    BY <2>2 DEF Reading
  <2>3. CASE u # t
    <3>1. at'[u] = at[u]
      BY <2>3 DEF Moved, IInv, TypeOK
    <3> QED BY <1>1, <2>1, <3>1 DEF Reading
  <2> QED BY <2>2, <2>3
<1> QED BY <1>3, <1>4, <1>5, <1>6 DEF IInv

\* A thread reads on in its directory.
LEMMA ReadSafe ==
    ASSUME IInv, NEW t \in Threads, NEW c \in Entries \cup {None},
           Holding(t, c, curr[t]), curr' = Moved(curr, t, c), UNCHANGED at,
           Reading(t)', \A u \in Threads \ {t} : reading'[u] = reading[u]
               /\ steady'[u] = steady[u] /\ seen'[u] = seen[u],
           reading' \in [Threads -> {"no", "yes", "done"}],
           steady' \in [Threads -> SUBSET Entries], seen' \in [Threads -> SUBSET Entries]
    PROVE  IInv'
<1> USE DEF tables, walk
<1>1. /\ Ready(t) /\ Later(t, curr[t]) /\ refctr' = Refd(c)
      /\ UNCHANGED <<tables, data, owner>>
  BY DEF Holding
<1>2. PICK v \in Objects \cup {None} : v = curr[t]
  BY NoneIsNothing DEF IInv, TypeOK
<1>3. PICK a \in Entries \cup {None} : a = at[t]
  BY DEF IInv, TypeOK
<1>4. at' = Moved(at, t, a)
  BY <1>3 DEF Moved, IInv, TypeOK
<1>5. RefctrExact'
  <2>1. \A x \in Objects : One(a = x) = One(at[t] = x) /\ One(v = x) = One(curr[t] = x)
    BY <1>2, <1>3
  <2>2. \A x \in Objects : /\ One(a = x) \in Nat /\ One(v = x) \in Nat /\ One(c = x) \in Nat
    BY DEF One
  <2>3. Balanced(t, a, c, v, c)
    BY <2>1, <2>2 DEF Balanced
  <2>4. Holding(t, c, v)
    BY <1>2
  <2> QED BY <1>4, <2>3, <2>4, CountsKept DEF IInv
<1>6. TableIsLive' /\ ParentInv' /\ OneEntryPerName' /\ refctr' \in [Objects -> Nat]
  BY <1>1, TablesKept DEF IInv
<1>7. TypeOK'
  <2>1. todo' \in [Threads -> Seq(Objects)]
    BY <1>1, <1>2, LaterTypes DEF IInv
  <2>2. curr' \in [Threads -> Entries \cup {None}]
    BY DEF Moved, IInv, TypeOK
  <2> QED BY <1>1, <1>6, <2>1, <2>2 DEF IInv, TypeOK
<1>8. ReadInv'
  <2> SUFFICES ASSUME NEW u \in Threads \ {t} PROVE Reading(u)'
    BY DEF ReadInv
  <2>1. Reading(u)
    BY DEF IInv, ReadInv
  <2>2. curr'[u] = curr[u]
    BY DEF Moved, IInv, TypeOK
  <2> QED BY <1>1, <2>1, <2>2 DEF Reading
<1> QED BY <1>5, <1>6, <1>7, <1>8 DEF IInv


\* The steps of a walk keep the invariant.
LEMMA SafeWalking ==
    ASSUME IInv, NEW t \in Threads,
           \/ \E n \in Names : LookupFound(t, n)
           \/ Up(t) \/ Put(t)
           \/ \E u \in Threads : Copy(t, u)
    PROVE  IInv'
<1>0. Counted /\ \A u \in Threads : at[u] \in Entries \cup {None}
  BY DEF IInv, Counted, TypeOK
<1>a. \A v \in Entries \cup {None} : v \in Objects \cup {None}
  BY NoneIsNothing
<1>b. refctr = Refd(None)
  BY NoneIsNothing DEF Refd, IInv, TypeOK
<1>c. \A x \in Objects : One(None = x) = 0
  BY NoneIsNothing DEF One
<1>1. CASE \E n \in Names : LookupFound(t, n)
  <2>1. PICK n \in Names : LookupFound(t, n)
    BY <1>1
  <2>2. PICK e \in hash : refctr' = Refd(e) /\ at' = [at EXCEPT ![t] = e]
    BY <2>1 DEF LookupFound, Found
  <2>3. e \in Entries /\ refctr[e] > 0
    BY <1>0, Alive
  <2>4. PICK v \in Entries \cup {None} : v = at[t]
    BY <1>0
  <2>5. /\ Holding(t, e, v) /\ reading[t] = "no" /\ curr[t] = None
        /\ at' = Moved(at, t, e) /\ UNCHANGED walk
    BY <2>1, <2>2, <2>3, <2>4 DEF LookupFound, MayWalk, Holding, Moved
  <2>6. \A x \in Objects : One(e = x) + One(v = x) = One(at[t] = x) + One(e = x)
    BY <2>4 DEF One
  <2> QED BY <1>a, <2>3, <2>5, <2>6, WalkSafe
<1>2. CASE Up(t)
  <2>1. PICK v \in Entries : v = at[t]
    BY <1>0, <1>2 DEF Up
  <2>2. PICK p \in Entries \cup {None} : p = parent[v]
    BY DEF IInv, TypeOK
  <2>3. p # None => refctr[p] > 0
    <3>1. v \in hash
      BY <1>0, <2>1, Alive, NoneAssumption
    <3> QED BY <1>0, <2>2, <3>1, Alive
  <2>4. /\ Holding(t, p, v) /\ reading[t] = "no" /\ curr[t] = None
        /\ at' = Moved(at, t, p) /\ UNCHANGED walk
    BY <1>2, <2>1, <2>2, <2>3 DEF Up, MayWalk, Holding, Moved
  <2>5. \A x \in Objects : One(p = x) + One(v = x) = One(at[t] = x) + One(p = x)
    BY <2>1 DEF One
  <2> QED BY <1>a, <2>4, <2>5, WalkSafe
<1>3. CASE Put(t)
  <2>1. PICK v \in Entries : v = at[t]
    BY <1>0, <1>3 DEF Put
  <2>2. /\ Holding(t, None, v) /\ reading[t] = "no" /\ curr[t] = None
        /\ at' = Moved(at, t, None) /\ UNCHANGED walk
    BY <1>3, <1>b, <2>1 DEF Put, MayWalk, Holding, Moved
  <2>3. \A x \in Objects : One(None = x) + One(v = x) = One(at[t] = x) + One(None = x)
    BY <1>c, <2>1 DEF One
  <2>4. PICK a \in Entries \cup {None} : a = None
    OBVIOUS
  <2> QED BY <1>a, <2>2, <2>3, <2>4, WalkSafe
<1>4. CASE \E u \in Threads : Copy(t, u)
  <2>1. PICK u \in Threads : Copy(t, u)
    BY <1>4
  <2>2. PICK v \in Entries : v = at[t]
    BY <1>0, <2>1 DEF Copy
  <2>3. refctr[v] > 0
    BY <1>0, <2>2, Alive, NoneAssumption
  <2>4. /\ Holding(u, v, None) /\ reading[u] = "no" /\ curr[u] = None
        /\ at' = Moved(at, u, v) /\ UNCHANGED walk /\ at[u] = None
    BY <2>1, <2>2, <2>3 DEF Copy, MayWalk, Holding, Moved, Later
  <2>5. \A x \in Objects : One(v = x) + One(None = x) = One(at[u] = x) + One(v = x)
    BY <1>c, <2>4 DEF One
  <2>6. PICK a \in Objects \cup {None} : a = None
    OBVIOUS
  <2> QED BY <1>a, <2>4, <2>5, <2>6, WalkSafe
<1> QED BY <1>1, <1>2, <1>3, <1>4

\* The entry a directory has at a position is one of its children.
LEMMA NthProperties ==
    ASSUME NEW S, NEW s \in Seq(S), None \notin S, NEW n \in Nat
    PROVE  /\ Nth(s, n) # None => Nth(s, n) \in Listed(s) /\ s # <<>>
           /\ n = 0 => IF s = <<>> THEN Nth(s, n) = None ELSE Nth(s, n) = s[1] /\ s[1] # None
<1>1. CASE n < Len(s)
  <2>1. n + 1 \in DOMAIN s /\ s # <<>> /\ Nth(s, n) = s[n + 1]
    BY <1>1 DEF Nth
  <2>2. s[n + 1] \in S
    BY <2>1
  <2> QED BY <2>1, <2>2 DEF Listed
<1>2. CASE ~(n < Len(s))
  <2>1. Nth(s, n) = None
    BY <1>2 DEF Nth
  <2>2. n = 0 => s = <<>>
    BY <1>2
  <2> QED BY <2>1, <2>2
<1> QED BY <1>1, <1>2

\* ReadNth keeps the invariant.
LEMMA SafeReadNth ==
    ASSUME IInv, NEW t \in Threads, NEW n \in 0..MaxSeek, ReadNth(t, n)
    PROVE  IInv'
<1>0. Counted
  BY DEF IInv, Counted
<1>1. PICK a \in Entries : a = at[t]
  BY DEF ReadNth, IInv, TypeOK
<1>2. PICK s \in Seq(Entries) : s = subdir[a]
  BY <1>0, Children
<1>3. NoDup(s) /\ Listed(s) = {e \in hash : parent[e] = a} /\ n \in Nat
  BY <1>0, <1>2, Children
<1>4. PICK e : e = Nth(s, n)
  OBVIOUS
<1>5. /\ e # None => e \in Listed(s) /\ s # <<>>
      /\ n = 0 => IF s = <<>> THEN e = None ELSE e = s[1] /\ s[1] # None
  BY <1>3, <1>4, NthProperties, NoneAssumption
<1>6. e \in Entries \cup {None} /\ (e # None => e \in hash /\ parent[e] = a /\ refctr[e] > 0)
  BY <1>0, <1>3, <1>5, Alive
<1>7. /\ Ready(t) /\ reading[t] = "no" /\ a # None
      /\ refctr' = Refd(e) /\ curr' = [curr EXCEPT ![t] = e]
      /\ reading' = [reading EXCEPT ![t] = IF n # 0 THEN "no"
                                           ELSE IF e = None THEN "done" ELSE "yes"]
      /\ steady' = [steady EXCEPT ![t] = IF n = 0 THEN Listed(s) ELSE {}]
      /\ seen' = [seen EXCEPT ![t] = IF n = 0 THEN {e} \ {None} ELSE {}]
      /\ Later(t, curr[t])
      /\ UNCHANGED <<tables, data, owner, at>>
  BY <1>1, <1>2, <1>4, NoneAssumption DEF ReadNth
<1>8. Holding(t, e, curr[t]) /\ curr' = Moved(curr, t, e) /\ UNCHANGED at
  BY <1>6, <1>7 DEF Holding, Moved
<1>9. /\ reading' \in [Threads -> {"no", "yes", "done"}]
      /\ steady' \in [Threads -> SUBSET Entries] /\ seen' \in [Threads -> SUBSET Entries]
  BY <1>2, <1>6, <1>7 DEF IInv, TypeOK, Listed
<1>10. \A u \in Threads \ {t} : reading'[u] = reading[u] /\ steady'[u] = steady[u] /\ seen'[u] = seen[u]
  BY <1>7
<1>11. /\ curr'[t] = e /\ at'[t] = a /\ subdir' = subdir /\ parent' = parent
       /\ reading'[t] = IF n # 0 THEN "no" ELSE IF e = None THEN "done" ELSE "yes"
       /\ steady'[t] = IF n = 0 THEN Listed(s) ELSE {}
       /\ seen'[t] = IF n = 0 THEN {e} \ {None} ELSE {}
  BY <1>1, <1>7 DEF IInv, TypeOK, tables
<1>12. Reading(t)'
  <2>1. CASE n = 0 /\ e # None
    <3>1. Scan(s, e, Listed(s), {e})
      BY <1>3, <1>5, <2>1, ScanFirst
    <3>2. {e} \ {None} = {e}
      BY <2>1
    <3>3. reading'[t] = "yes" /\ steady'[t] = Listed(s) /\ seen'[t] = {e}
      BY <1>11, <2>1, <3>2
    <3> QED BY <1>2, <1>6, <1>7, <1>11, <2>1, <3>1, <3>3 DEF Reading
  <2>2. CASE n = 0 /\ e = None
    <3>1. Listed(s) = {}
      BY <1>5, <2>2 DEF Listed
    <3> QED BY <1>7, <1>11, <2>2, <3>1 DEF Reading
  <2>3. CASE n # 0
    BY <1>6, <1>7, <1>11, <2>3 DEF Reading
  <2> QED BY <2>1, <2>2, <2>3
<1> QED BY <1>6, <1>8, <1>9, <1>10, <1>12, ReadSafe

\* ReadNext keeps the invariant.
LEMMA SafeReadNext ==
    ASSUME IInv, NEW t \in Threads, ReadNext(t)
    PROVE  IInv'
<1>0. Counted /\ Reading(t)
  BY DEF IInv, Counted, ReadInv
<1>1. PICK c \in Entries : c = curr[t]
  BY DEF ReadNext, IInv, TypeOK
<1>2. PICK a \in Entries : a = at[t]
  BY <1>0, <1>1, NoneAssumption DEF Reading, IInv, TypeOK
<1>3. PICK s \in Seq(Entries) : s = subdir[a]
  BY <1>0, Children
<1>4. c \in hash /\ parent[c] = a
  BY <1>0, <1>1, <1>2, Alive, NoneAssumption DEF Reading
<1>5. NoDup(s) /\ Listed(s) = {e \in hash : parent[e] = a} /\ c \in Listed(s)
  BY <1>0, <1>3, <1>4, Children
<1>6. PICK e : e = After(s, c)
  OBVIOUS
<1>7. e # None => e \in Listed(s)
  BY <1>5, <1>6, AfterProperties, NoneAssumption DEF Listed
<1>8. e \in Entries \cup {None} /\ (e # None => e \in hash /\ parent[e] = a /\ refctr[e] > 0)
  BY <1>0, <1>5, <1>7, Alive
<1>9. /\ Ready(t) /\ refctr' = Refd(e) /\ curr' = [curr EXCEPT ![t] = e]
      /\ IF reading[t] = "yes"
         THEN /\ reading' = [reading EXCEPT ![t] = IF e = None THEN "done" ELSE "yes"]
              /\ seen' = [seen EXCEPT ![t] = seen[t] \cup ({e} \ {None})]
         ELSE UNCHANGED <<reading, seen>>
      /\ Later(t, curr[t])
      /\ UNCHANGED <<tables, data, owner, at, steady>>
  BY <1>1, <1>2, <1>3, <1>6 DEF ReadNext
<1>10. Holding(t, e, curr[t]) /\ curr' = Moved(curr, t, e) /\ UNCHANGED at
  BY <1>8, <1>9 DEF Holding, Moved
<1>11. /\ reading' \in [Threads -> {"no", "yes", "done"}]
       /\ steady' \in [Threads -> SUBSET Entries] /\ seen' \in [Threads -> SUBSET Entries]
  <2>1. /\ reading \in [Threads -> {"no", "yes", "done"}]
        /\ steady \in [Threads -> SUBSET Entries] /\ seen \in [Threads -> SUBSET Entries]
        /\ {e} \ {None} \subseteq Entries
    BY <1>8 DEF IInv, TypeOK
  <2>2. CASE reading[t] = "yes"
    BY <1>9, <2>1, <2>2
  <2>3. CASE reading[t] # "yes"
    BY <1>9, <2>1, <2>3
  <2> QED BY <2>2, <2>3
<1>12. \A u \in Threads \ {t} : reading'[u] = reading[u] /\ steady'[u] = steady[u] /\ seen'[u] = seen[u]
  <2>1. reading \in [Threads -> {"no", "yes", "done"}] /\ seen \in [Threads -> SUBSET Entries]
    BY DEF IInv, TypeOK
  <2>2. CASE reading[t] = "yes"
    BY <1>9, <2>1, <2>2
  <2>3. CASE reading[t] # "yes"
    BY <1>9, <2>3
  <2> QED BY <2>2, <2>3
<1>13. /\ curr'[t] = e /\ at'[t] = a /\ a # None /\ subdir' = subdir /\ parent' = parent
       /\ steady'[t] = steady[t]
  BY <1>2, <1>9, NoneAssumption DEF IInv, TypeOK, tables
<1>14. Reading(t)'
  <2>1. CASE reading[t] = "yes"
    <3>1. /\ reading'[t] = IF e = None THEN "done" ELSE "yes"
          /\ seen'[t] = seen[t] \cup ({e} \ {None})
      BY <1>9, <2>1 DEF IInv, TypeOK
    <3>2. PICK st, sn : st = steady[t] /\ sn = seen[t]
      OBVIOUS
    <3>3. Scan(s, c, st, sn)
      BY <1>0, <1>1, <1>2, <1>3, <2>1, <3>2 DEF Reading
    <3>4. /\ e # None => Scan(s, e, st, sn \cup {e})
          /\ e = None => st \subseteq sn
      BY <1>5, <1>6, <3>3, ScanNext, NoneAssumption
    <3>5. CASE e # None
      <4>1. reading'[t] = "yes" /\ seen'[t] = sn \cup {e} /\ steady'[t] = st
        BY <1>13, <3>1, <3>2, <3>5
      <4> QED BY <1>3, <1>8, <1>13, <3>4, <3>5, <4>1 DEF Reading
    <3>6. CASE e = None
      <4>1. reading'[t] = "done" /\ steady'[t] \subseteq seen'[t]
        BY <1>13, <3>1, <3>2, <3>4, <3>6
      <4> QED BY <1>13, <3>6, <4>1 DEF Reading
    <3> QED BY <3>5, <3>6
  <2>2. CASE reading[t] # "yes"
    <3>1. reading'[t] = reading[t] /\ seen'[t] = seen[t]
      BY <1>9, <2>2
    <3> QED BY <1>0, <1>8, <1>13, <2>2, <3>1 DEF Reading
  <2> QED BY <2>1, <2>2
<1> QED BY <1>8, <1>10, <1>11, <1>12, <1>14, ReadSafe

\* CloseDir keeps the invariant.
LEMMA SafeCloseDir ==
    ASSUME IInv, NEW t \in Threads, CloseDir(t)
    PROVE  IInv'
<1>1. /\ Ready(t) /\ Later(t, curr[t]) /\ UNCHANGED <<refctr, tables, data, owner, at>>
      /\ curr' = [curr EXCEPT ![t] = None] /\ reading' = [reading EXCEPT ![t] = "no"]
      /\ steady' = [steady EXCEPT ![t] = {}] /\ seen' = [seen EXCEPT ![t] = {}]
  BY DEF CloseDir
<1>2. refctr' = Refd(None)
  BY <1>1, NoneIsNothing DEF Refd, IInv, TypeOK
<1>3. Holding(t, None, curr[t]) /\ curr' = Moved(curr, t, None) /\ UNCHANGED at
  BY <1>1, <1>2 DEF Holding, Moved
<1>4. /\ reading' \in [Threads -> {"no", "yes", "done"}]
      /\ steady' \in [Threads -> SUBSET Entries] /\ seen' \in [Threads -> SUBSET Entries]
  BY <1>1 DEF IInv, TypeOK
<1>5. \A u \in Threads \ {t} : reading'[u] = reading[u] /\ steady'[u] = steady[u] /\ seen'[u] = seen[u]
  BY <1>1
<1>6. curr'[t] = None /\ reading'[t] = "no"
  BY <1>1 DEF IInv, TypeOK
<1>7. Reading(t)'
  BY <1>6 DEF Reading
<1>8. PICK c \in Entries \cup {None} : c = None
  OBVIOUS
<1> QED BY <1>3, <1>4, <1>5, <1>7, <1>8, ReadSafe


----------------------------------------------------------------------------
(* Nodes, and the end of the namespace: who refers to an entry changes.    *)

\* The holders of an object when one of them changes.
LEMMA HoldersChange ==
    ASSUME TypeOK, NEW x \in Objects, NEW h, Holders(x)' \ {h} = Holders(x) \ {h}
    PROVE  /\ Cardinality(Holders(x)') =
                  Cardinality(Holders(x)) + One(h \in Holders(x)') - One(h \in Holders(x))
           /\ Cardinality(Holders(x)) \in Nat
<1>1. PICK A, B : A = Holders(x) /\ B = Holders(x)'
  OBVIOUS
<1>2. IsFiniteSet(A) /\ A \ {h} = B \ {h}
  BY <1>1, Countable
<1>3. /\ Cardinality(B) = Cardinality(A) + One(h \in B) - One(h \in A)
      /\ Cardinality(A) \in Nat
  BY <1>2, OneChanges
<1> QED BY <1>1, <1>3

\* The threads stay where they are.
LEMMA StandStill ==
    ASSUME IInv, UNCHANGED <<at, curr, subdir, parent, walk>>
    PROVE  ReadInv'
BY DEF IInv, ReadInv, Reading, walk

\* SetNode keeps the invariant.
LEMMA SafeSetNode ==
    ASSUME IInv, NEW t \in Threads, SetNode(t)
    PROVE  IInv'
<1> USE DEF tables, walk
<1>0. Counted
  BY DEF IInv, Counted
<1>1. PICK e \in Entries : e = at[t]
  BY DEF SetNode, IInv, TypeOK
<1>2. /\ ~data[e] /\ data' = [data EXCEPT ![e] = TRUE] /\ refctr' = Refd(e)
      /\ UNCHANGED <<tables, owner, at, todo, walk>>
  BY <1>1 DEF SetNode
<1>3. e \in hash /\ refctr[e] > 0 /\ parent[e] # e
  BY <1>0, <1>1, Alive, NoneAssumption DEF IInv, ParentInv
<1>4. TableIsLive' /\ ParentInv' /\ OneEntryPerName' /\ refctr' \in [Objects -> Nat]
  BY <1>2, TablesKept DEF IInv
<1>5. TypeOK'
  <2>1. data' \in [Entries -> BOOLEAN]
    BY <1>2 DEF IInv, TypeOK
  <2> QED BY <1>2, <1>4, <2>1 DEF IInv, TypeOK
<1>6. RefctrExact'
  <2> SUFFICES ASSUME NEW x \in Objects
               PROVE  refctr'[x] = Cardinality(HeldBy(at, x)) + Cardinality(HeldBy(curr, x))
                                   + Cardinality(Holders(x)') + Cardinality(Dropping(x))
    BY <1>2 DEF RefctrExact, Dropping
  <2>1. refctr[x] = Cardinality(HeldBy(at, x)) + Cardinality(HeldBy(curr, x))
                    + Cardinality(Holders(x)) + Cardinality(Dropping(x))
    BY DEF IInv, RefctrExact
  <2>2. /\ Cardinality(HeldBy(at, x)) \in Nat /\ Cardinality(HeldBy(curr, x)) \in Nat
        /\ Cardinality(Holders(x)) \in Nat /\ Cardinality(Dropping(x)) \in Nat
    BY Countable DEF IInv
  <2>3. /\ Holders(x)' \ {e} = Holders(x) \ {e}
        /\ (x = e => e \notin Holders(x) /\ e \in Holders(x)')
        /\ (x # e => Holders(x)' = Holders(x))
    <3>1. \A f \in Entries \ {e} : data'[f] = data[f]
      BY <1>2 DEF IInv, TypeOK
    <3>2. data'[e]
      BY <1>2 DEF IInv, TypeOK
    <3>3. e # Ns
      BY NoneIsNothing
    <3> QED BY <1>2, <1>3, <3>1, <3>2, <3>3 DEF Holders, Objects
  <2>4. Cardinality(Holders(x)') = Cardinality(Holders(x)) + One(x = e)
    <3>1. CASE x = e
      <4>1. Cardinality(Holders(x)') =
                Cardinality(Holders(x)) + One(e \in Holders(x)') - One(e \in Holders(x))
        BY <2>3, HoldersChange DEF IInv
      <4> QED BY <2>2, <2>3, <3>1, <4>1 DEF One
    <3>2. CASE x # e
      BY <2>2, <2>3, <3>2 DEF One
    <3> QED BY <3>1, <3>2
  <2>5. refctr'[x] = refctr[x] + One(x = e)
    <3>1. refctr[x] \in Nat
      BY DEF IInv, TypeOK
    <3>2. refctr'[x] = IF x = e /\ refctr[x] > 0 THEN refctr[x] + 1 ELSE refctr[x]
      BY <1>2 DEF Refd
    <3> QED BY <1>3, <3>1, <3>2 DEF One
  <2>6. One(x = e) \in Nat
    BY DEF One
  <2> QED BY <2>1, <2>2, <2>4, <2>5, <2>6
<1>7. ReadInv'
  BY <1>2, StandStill
<1> QED BY <1>4, <1>5, <1>6, <1>7 DEF IInv

\* A holder of v gives up its reference, and the thread will drop it.
LEMMA GivenUp ==
    ASSUME IInv, NEW t \in Threads, NEW v \in Objects, Ready(t), Later(t, v),
           UNCHANGED <<refctr, tables, at, walk>>,
           data' \in [Entries -> BOOLEAN], owner' \in BOOLEAN,
           v \in Holders(v), v \notin Holders(v)', Holders(v)' \ {v} = Holders(v) \ {v},
           \A x \in Objects \ {v} : Holders(x)' = Holders(x)
    PROVE  IInv'
<1> USE DEF tables, walk
<1>1. TypeOK'
  <2>1. todo' \in [Threads -> Seq(Objects)]
    BY LaterTypes DEF IInv
  <2> QED BY <2>1 DEF IInv, TypeOK
<1>2. RefctrExact'
  <2> SUFFICES ASSUME NEW x \in Objects
               PROVE  refctr[x] = Cardinality(HeldBy(at, x)) + Cardinality(HeldBy(curr, x))
                                   + Cardinality(Holders(x)') + Cardinality(Dropping(x)')
    BY DEF RefctrExact
  <2>1. refctr[x] = Cardinality(HeldBy(at, x)) + Cardinality(HeldBy(curr, x))
                    + Cardinality(Holders(x)) + Cardinality(Dropping(x))
    BY DEF IInv, RefctrExact
  <2>2. /\ Cardinality(HeldBy(at, x)) \in Nat /\ Cardinality(HeldBy(curr, x)) \in Nat
        /\ Cardinality(Holders(x)) \in Nat /\ Cardinality(Dropping(x)) \in Nat
    BY Countable DEF IInv
  <2>3. Cardinality(Holders(x)') = Cardinality(Holders(x)) - One(v = x)
    <3>1. CASE x = v
      <4>1. Cardinality(Holders(x)') =
                Cardinality(Holders(x)) + One(v \in Holders(x)') - One(v \in Holders(x))
        BY <3>1, HoldersChange DEF IInv
      <4> QED BY <2>2, <3>1, <4>1 DEF One
    <3>2. CASE x # v
      BY <2>2, <3>2 DEF One
    <3> QED BY <3>1, <3>2
  <2>4. Cardinality(Dropping(x)') = Cardinality(Dropping(x)) + One(v = x)
    BY LaterDrops DEF IInv
  <2>5. One(v = x) \in Nat
    BY DEF One
  <2> QED BY <2>1, <2>2, <2>3, <2>4, <2>5
<1>3. TableIsLive' /\ ParentInv' /\ OneEntryPerName'
  BY DEF IInv, TableIsLive, ParentInv, OneEntryPerName
<1>4. ReadInv'
  BY StandStill
<1> QED BY <1>1, <1>2, <1>3, <1>4 DEF IInv

\* DelNode keeps the invariant.
LEMMA SafeDelNode ==
    ASSUME IInv, NEW t \in Threads, DelNode(t)
    PROVE  IInv'
<1> USE DEF tables, walk
<1>0. Counted
  BY DEF IInv, Counted
<1>1. PICK e \in Entries : e = at[t]
  BY DEF DelNode, IInv, TypeOK
<1>2. /\ Ready(t) /\ data[e] /\ data' = [data EXCEPT ![e] = FALSE] /\ Later(t, e)
      /\ UNCHANGED <<refctr, tables, owner, at, walk>>
  BY <1>1 DEF DelNode
<1>3. e \in hash /\ parent[e] # e /\ e \in Objects /\ e # Ns
  BY <1>0, <1>1, Alive, NoneAssumption, NoneIsNothing DEF IInv, ParentInv
<1>4. /\ data' \in [Entries -> BOOLEAN] /\ ~data'[e]
      /\ \A f \in Entries \ {e} : data'[f] = data[f]
  BY <1>2 DEF IInv, TypeOK
<1>5. /\ e \in Holders(e) /\ e \notin Holders(e)' /\ Holders(e)' \ {e} = Holders(e) \ {e}
      /\ \A x \in Objects \ {e} : Holders(x)' = Holders(x)
  BY <1>2, <1>3, <1>4 DEF Holders, Objects
<1>6. owner' \in BOOLEAN
  BY <1>2 DEF IInv, TypeOK
<1> QED BY <1>2, <1>3, <1>4, <1>5, <1>6, GivenUp

\* PutNs keeps the invariant.
LEMMA SafePutNs ==
    ASSUME IInv, NEW t \in Threads, PutNs(t)
    PROVE  IInv'
<1> USE DEF tables, walk
<1>1. /\ Ready(t) /\ owner /\ owner' = FALSE /\ Later(t, Ns)
      /\ UNCHANGED <<refctr, tables, data, at, walk>>
  BY DEF PutNs
<1>2. Ns \in Objects /\ Ns \notin hash
  BY NoneIsNothing DEF IInv, TypeOK
<1>3. /\ Ns \in Holders(Ns) /\ Ns \notin Holders(Ns)'
      /\ Holders(Ns)' \ {Ns} = Holders(Ns) \ {Ns}
      /\ \A x \in Objects \ {Ns} : Holders(x)' = Holders(x)
  BY <1>1, <1>2 DEF Holders
<1>4. data' \in [Entries -> BOOLEAN] /\ owner' \in BOOLEAN
  BY <1>1 DEF IInv, TypeOK
<1> QED BY <1>1, <1>2, <1>3, <1>4, GivenUp


----------------------------------------------------------------------------
(* A new entry.                                                            *)

\* LookupNew keeps the invariant.
LEMMA SafeLookupNew ==
    ASSUME IInv, NEW t \in Threads, NEW n \in Names, NEW e \in Entries, LookupNew(t, n, e)
    PROVE  IInv'
<1> USE DEF walk
<1>0. Counted
  BY DEF IInv, Counted
<1>1. PICK p \in Entries \cup {None} : p = at[t]
  BY DEF IInv, TypeOK
<1>2. /\ Ready(t) /\ reading[t] = "no" /\ curr[t] = None /\ (p = None => owner)
      /\ Found(p, n) = {} /\ e \notin made
      /\ made' = made \cup {e} /\ name' = [name EXCEPT ![e] = n]
      /\ parent' = [parent EXCEPT ![e] = p]
      /\ subdir' = [subdir EXCEPT ![p] = Append(subdir[p], e)]
      /\ hash' = hash \cup {e} /\ refctr' = Created(e, p)
      /\ at' = [at EXCEPT ![t] = e] /\ Later(t, p)
      /\ UNCHANGED <<data, owner, walk>>
  BY <1>1 DEF LookupNew, MayWalk
<1>3. /\ e \notin hash /\ refctr[e] = 0 /\ ~data[e] /\ e \in Objects /\ e # Ns
      /\ \A f \in hash : parent[f] # e /\ f # e
      /\ \A u \in Threads : at[u] # e /\ curr[u] # e
      /\ p # e /\ (p # None => p \in hash /\ p \in Objects /\ p # Ns /\ refctr[p] > 0)
      /\ refctr[Ns] > 0
  <2>1. e \notin hash /\ e \in Objects /\ e # Ns /\ e # None /\ hash \subseteq Entries
    BY <1>2, NoneAssumption, NoneIsNothing DEF IInv, TypeOK
  <2>2. refctr[e] \in Nat /\ (e \in hash <=> refctr[e] > 0)
    BY <2>1 DEF IInv, TypeOK, TableIsLive
  <2>3. refctr[e] = 0
    BY <2>1, <2>2
  <2> QED BY <1>0, <1>1, <1>2, <2>1, <2>3, Alive, NoneIsNothing
<1>4. subdir[p] \in Seq(Entries) /\ NoDup(subdir[p]) /\ e \notin Listed(subdir[p])
  BY <1>0, <1>3, Children
<1>5. PICK w : w = Append(subdir[p], e)
  OBVIOUS
<1>6. w \in Seq(Entries) /\ NoDup(w) /\ Listed(w) = Listed(subdir[p]) \cup {e}
  BY <1>4, <1>5, Appending
<1>7. /\ \A f \in Entries \ {e} : parent'[f] = parent[f] /\ name'[f] = name[f]
      /\ parent'[e] = p /\ name'[e] = n
      /\ subdir'[p] = w /\ \A q \in (Entries \cup {None}) \ {p} : subdir'[q] = subdir[q]
      /\ at'[t] = e /\ \A u \in Threads \ {t} : at'[u] = at[u]
  BY <1>2, <1>5 DEF IInv, TypeOK
<1>8. \A x \in Objects : refctr'[x] = IF x = e THEN 1
                                      ELSE IF x = Ns \/ x = p THEN refctr[x] + 1 ELSE refctr[x]
  <2> TAKE x \in Objects
  <2>1. x # None
    BY NoneIsNothing
  <2>2. refctr'[x] = IF x = e THEN 1 ELSE IF x \in {Ns, p} /\ refctr[x] > 0
                                         THEN refctr[x] + 1 ELSE refctr[x]
    BY <1>2 DEF Created
  <2>3. x \in {Ns, p} => refctr[x] > 0
    BY <1>3, <2>1
  <2> QED BY <2>2, <2>3
<1>9. hash \subseteq Entries /\ hash' \subseteq Entries /\ refctr \in [Objects -> Nat]
  BY <1>2 DEF IInv, TypeOK
<1>10. TypeOK'
  <2>1. refctr' \in [Objects -> Nat]
    <3>1. \A x \in Objects : refctr[x] + 1 \in Nat /\ refctr[x] \in Nat
      BY <1>9
    <3> QED BY <1>2, <3>1 DEF Created
  <2>2. todo' \in [Threads -> Seq(Objects)]
    BY <1>2, <1>3, LaterTypes DEF IInv
  <2>3. /\ subdir' \in [Entries \cup {None} -> Seq(Entries)]
        /\ name' \in [Entries -> Names \cup {None}]
        /\ parent' \in [Entries -> Entries \cup {None}]
        /\ at' \in [Threads -> Entries \cup {None}]
    BY <1>2, <1>5, <1>6 DEF IInv, TypeOK
  <2> QED BY <1>2, <2>1, <2>2, <2>3 DEF IInv, TypeOK
<1>11. TableIsLive'
  <2>1. ASSUME NEW f \in Entries PROVE f \in hash' <=> refctr'[f] > 0
    <3>1. f \in hash <=> refctr[f] > 0
      BY DEF IInv, TableIsLive
    <3>2. refctr[f] \in Nat /\ f \in Objects
      BY <1>9, NoneIsNothing
    <3>3. f \in hash' <=> f \in hash \/ f = e
      BY <1>2
    <3>4. refctr'[f] > 0 <=> f = e \/ f = p \/ refctr[f] > 0
      BY <1>3, <1>8, <3>2
    <3>5. f = p => f \in hash
      BY <1>3, NoneAssumption
    <3> QED BY <3>1, <3>3, <3>4, <3>5
  <2>2. ASSUME NEW q \in Entries \cup {None}
        PROVE  Listed(subdir'[q]) = {f \in hash' : parent'[f] = q} /\ NoDup(subdir'[q])
    <3>1. Listed(subdir[q]) = {f \in hash : parent[f] = q} /\ NoDup(subdir[q])
      BY <1>0, Children
    <3>2. CASE q = p
      <4>1. {f \in hash' : parent'[f] = p} = {f \in hash : parent[f] = p} \cup {e}
        BY <1>2, <1>3, <1>7, <1>9
      <4>2. subdir'[q] = w
        BY <1>7, <3>2
      <4> QED BY <1>6, <3>1, <3>2, <4>1, <4>2
    <3>3. CASE q # p
      <4>1. {f \in hash' : parent'[f] = q} = {f \in hash : parent[f] = q}
        BY <1>2, <1>3, <1>7, <1>9, <3>3
      <4> QED BY <1>7, <3>1, <3>3, <4>1
    <3> QED BY <3>2, <3>3
  <2> QED BY <2>1, <2>2 DEF TableIsLive, NoDup, Listed
<1>12. ParentInv'
  BY <1>2, <1>3, <1>7, <1>9 DEF IInv, ParentInv
<1>13. OneEntryPerName'
  <2>1. \A f \in hash : ~(parent[f] = p /\ name[f] = n)
    BY <1>2 DEF Found
  <2> QED BY <1>2, <1>3, <1>7, <1>9, <2>1 DEF IInv, OneEntryPerName
<1>14. RefctrExact'
  <2> SUFFICES ASSUME NEW x \in Objects
               PROVE  refctr'[x] = Cardinality(HeldBy(at', x)) + Cardinality(HeldBy(curr, x))
                                   + Cardinality(Holders(x)') + Cardinality(Dropping(x)')
    BY <1>2 DEF RefctrExact
  <2>1. refctr[x] = Cardinality(HeldBy(at, x)) + Cardinality(HeldBy(curr, x))
                    + Cardinality(Holders(x)) + Cardinality(Dropping(x))
    BY DEF IInv, RefctrExact
  <2>2. /\ Cardinality(HeldBy(at, x)) \in Nat /\ Cardinality(HeldBy(curr, x)) \in Nat
        /\ Cardinality(Holders(x)) \in Nat /\ Cardinality(Dropping(x)) \in Nat
    BY Countable DEF IInv
  <2>3. Cardinality(HeldBy(at', x)) = Cardinality(HeldBy(at, x)) + One(e = x) - One(p = x)
    <3>1. PICK f \in [Threads -> Entries \cup {None}] : f = at
      BY DEF IInv, TypeOK
    <3>2. Cardinality(HeldBy(Moved(f, t, e), x)) =
              Cardinality(HeldBy(f, x)) + One(e = x) - One(f[t] = x)
      BY HeldMoves
    <3>3. at' = Moved(f, t, e)
      BY <1>2, <3>1 DEF Moved
    <3> QED BY <1>1, <3>1, <3>2, <3>3
  <2>4. Cardinality(Dropping(x)') = Cardinality(Dropping(x)) + One(p = x)
    BY <1>2, <1>3, LaterDrops DEF IInv
  <2>5. Cardinality(Holders(x)') = Cardinality(Holders(x)) + One(x = Ns \/ x = p)
    <3>1. e \notin Holders(x) /\ Holders(x)' \ {e} = Holders(x) \ {e}
      BY <1>2, <1>3, <1>7, <1>9 DEF Holders, Objects
    <3>2. e \in Holders(x)' <=> x = Ns \/ x = p
      BY <1>2, <1>3, <1>7 DEF Holders, Objects
    <3>3. Cardinality(Holders(x)') =
              Cardinality(Holders(x)) + One(e \in Holders(x)') - One(e \in Holders(x))
      BY <3>1, HoldersChange DEF IInv
    <3> QED BY <2>2, <3>1, <3>2, <3>3 DEF One
  <2>6. refctr'[x] = refctr[x] + One(e = x) + One(x = Ns \/ x = p)
    <3>1. refctr[x] \in Nat
      BY <1>9
    <3> QED BY <1>3, <1>8, <3>1 DEF One
  <2>7. One(p = x) \in Nat /\ One(e = x) \in Nat /\ One(x = Ns \/ x = p) \in Nat
    BY DEF One
  <2> QED BY <2>1, <2>2, <2>3, <2>4, <2>5, <2>6, <2>7
<1>15. ReadInv'
  <2> SUFFICES ASSUME NEW u \in Threads PROVE Reading(u)'
    BY DEF ReadInv
  <2>1. Reading(u) /\ at[u] \in Entries \cup {None} /\ curr[u] \in Entries \cup {None}
    BY DEF IInv, ReadInv, TypeOK
  <2>2. CASE u = t
    BY <1>2, <2>2 DEF Reading
  <2>3. CASE u # t
    <3>1. at'[u] = at[u] /\ (curr[u] # None => parent'[curr[u]] = parent[curr[u]])
      BY <1>3, <1>7, <2>1, <2>3
    <3>2. ASSUME reading[u] = "yes"
          PROVE  Scan(subdir'[at[u]], curr[u], steady[u], seen[u])
      <4>1. PICK s, c, st, sn : s = subdir[at[u]] /\ c = curr[u] /\ st = steady[u] /\ sn = seen[u]
        OBVIOUS
      <4>2. Scan(s, c, st, sn) /\ c # e
        BY <1>3, <2>1, <3>2, <4>1 DEF Reading
      <4>3. CASE at[u] = p
        <5>1. s \in Seq(Entries) /\ subdir'[at[u]] = Append(s, e)
          BY <1>4, <1>5, <1>7, <4>1, <4>3
        <5>2. Scan(Append(s, e), c, st, sn)
          BY <4>2, <5>1, ScanAppended
        <5> QED BY <4>1, <5>1, <5>2
      <4>4. CASE at[u] # p
        BY <1>7, <2>1, <4>1, <4>2, <4>4
      <4> QED BY <4>3, <4>4
    <3> QED BY <1>2, <2>1, <3>1, <3>2 DEF Reading
  <2> QED BY <2>2, <2>3
<1> QED BY <1>10, <1>11, <1>12, <1>13, <1>14, <1>15 DEF IInv


----------------------------------------------------------------------------
(* References are dropped.                                                 *)

\* The next reference a thread drops is to something alive.
LEMMA NextDropped ==
    ASSUME Counted, NEW t \in Threads, ~Ready(t)
    PROVE  /\ todo[t][Len(todo[t])] \in Objects
           /\ refctr[todo[t][Len(todo[t])]] > 0
           /\ Popped(todo, t) \in [Threads -> Seq(Objects)]
           /\ \A x \in Objects :
                 /\ Cardinality(Dropping(x)) = Cardinality(Drops(Popped(todo, t), x))
                                               + One(todo[t][Len(todo[t])] = x)
                 /\ Cardinality(Drops(Popped(todo, t), x)) \in Nat
<1>1. PICK td \in [Threads -> Seq(Objects)] : td = todo
  BY DEF Counted, TypeOK
<1>2. td[t] # <<>>
  BY <1>1 DEF Ready
<1>3. td[t][Len(td[t])] \in Objects /\ Popped(td, t) \in [Threads -> Seq(Objects)]
  BY <1>2, DropsPopped
<1>4. \A x \in Objects : Dropping(x) = Drops(td, x)
  BY <1>1 DEF Dropping, Drops
<1>5. ASSUME NEW x \in Objects
      PROVE  /\ Cardinality(Dropping(x)) = Cardinality(Drops(Popped(td, t), x))
                                           + One(td[t][Len(td[t])] = x)
             /\ Cardinality(Drops(Popped(td, t), x)) \in Nat
  BY <1>2, <1>4, DropsPopped
<1>6. refctr[td[t][Len(td[t])]] > 0
  <2>1. PICK x \in Objects : x = td[t][Len(td[t])]
    BY <1>3
  <2>2. Len(td[t]) \in DOMAIN td[t]
    BY <1>2
  <2>3. <<t, Len(td[t])>> \in Drops(td, x)
    BY <2>1, <2>2, DropsMember
  <2>4. Dropping(x) # {}
    BY <1>4, <2>3
  <2> QED BY <2>1, <2>4, Referred
<1> QED BY <1>1, <1>3, <1>5, <1>6

\* It was not the last one, or the namespace.
LEMMA UnrefKeeps ==
    ASSUME IInv, NEW t \in Threads, Unref(t), NEW x \in Objects, x = todo[t][Len(todo[t])],
           ~(refctr[x] = 1 /\ x # Ns)
    PROVE  IInv'
<1> USE DEF tables, walk
<1>0. Counted
  BY DEF IInv, Counted
<1>1. /\ ~Ready(t) /\ refctr' = [refctr EXCEPT ![x] = IF @ >= 0 THEN @ - 1 ELSE @]
      /\ todo' = Popped(todo, t)
      /\ UNCHANGED <<tables, data, owner, at, walk>>
  BY DEF Unref, Popped
<1>2. /\ refctr[x] > 0 /\ todo' \in [Threads -> Seq(Objects)]
      /\ \A y \in Objects :
            /\ Cardinality(Dropping(y)) = Cardinality(Drops(todo', y)) + One(x = y)
            /\ Cardinality(Drops(todo', y)) \in Nat
  BY <1>0, <1>1, NextDropped
<1>3. /\ refctr' \in [Objects -> Nat] /\ refctr'[x] = refctr[x] - 1
      /\ \A y \in Objects \ {x} : refctr'[y] = refctr[y]
  BY <1>1, <1>2 DEF IInv, TypeOK
<1>4. TypeOK'
  BY <1>1, <1>2, <1>3 DEF IInv, TypeOK
<1>5. RefctrExact'
  <2> SUFFICES ASSUME NEW y \in Objects
               PROVE  refctr'[y] = Cardinality(HeldBy(at, y)) + Cardinality(HeldBy(curr, y))
                                   + Cardinality(Holders(y)) + Cardinality(Dropping(y)')
    BY <1>1 DEF RefctrExact, Holders
  <2>1. refctr[y] = Cardinality(HeldBy(at, y)) + Cardinality(HeldBy(curr, y))
                    + Cardinality(Holders(y)) + Cardinality(Dropping(y))
    BY DEF IInv, RefctrExact
  <2>2. /\ Cardinality(HeldBy(at, y)) \in Nat /\ Cardinality(HeldBy(curr, y)) \in Nat
        /\ Cardinality(Holders(y)) \in Nat
    BY Countable DEF IInv
  <2>3. Dropping(y)' = Drops(todo', y)
    BY DEF Dropping, Drops
  <2>4. Cardinality(Dropping(y)) = Cardinality(Dropping(y)') + One(x = y)
        /\ Cardinality(Dropping(y)') \in Nat
    BY <1>2, <2>3
  <2>5. refctr'[y] = refctr[y] - One(x = y) /\ refctr[y] \in Nat
    BY <1>3 DEF One, IInv, TypeOK
  <2>6. One(x = y) \in Nat
    BY DEF One
  <2> QED BY <2>1, <2>2, <2>4, <2>5, <2>6
<1>6. TableIsLive'
  <2>1. \A e \in Entries : refctr'[e] > 0 <=> refctr[e] > 0
    <3> TAKE e \in Entries
    <3>1. refctr[e] \in Nat /\ e \in Objects /\ e # Ns
      BY NoneIsNothing DEF IInv, TypeOK
    <3> QED BY <1>2, <1>3, <3>1
  <2> QED BY <1>1, <2>1 DEF IInv, TableIsLive
<1>7. ParentInv' /\ OneEntryPerName'
  BY <1>1 DEF IInv, ParentInv, OneEntryPerName
<1>8. ReadInv'
  BY <1>1, StandStill
<1> QED BY <1>4, <1>5, <1>6, <1>7, <1>8 DEF IInv


\* What the destructor of an entry in directory p leaves to be dropped: td is todo without
\* the reference that is being dropped.
Freed(td, t, p) == IF p = None THEN Pushed(td, t, Ns) ELSE Pushed(Pushed(td, t, Ns), t, p)

\* The references of a freed entry are dropped next.
LEMMA FreedIsPushed ==
    ASSUME NEW td \in [Threads -> Seq(Objects)], NEW t \in Threads, td[t] # <<>>,
           NEW p \in Entries \cup {None}
    PROVE  [td EXCEPT ![t] = SubSeq(td[t], 1, Len(td[t]) - 1)
                                 \o IF p = None THEN <<Ns>> ELSE <<Ns, p>>]
               = Freed(Popped(td, t), t, p)
<1>1. PICK rest : rest = SubSeq(td[t], 1, Len(td[t]) - 1)
  OBVIOUS
<1>2. rest \in Seq(Objects) /\ Ns \in Objects /\ (p # None => p \in Objects)
  <2>1. td[t] \in Seq(Objects) /\ Len(td[t]) \in Nat
    OBVIOUS
  <2> QED BY <1>1, <2>1, NoneIsNothing
<1>3. PICK td1 : td1 = Popped(td, t)
  OBVIOUS
<1>4. td1 = [td EXCEPT ![t] = rest]
  BY <1>1, <1>3 DEF Popped
<1>5. PICK td2 : td2 = Pushed(td1, t, Ns)
  OBVIOUS
<1>6. td2 = [td EXCEPT ![t] = Append(rest, Ns)]
  BY <1>4, <1>5 DEF Pushed
<1>7. Pushed(td2, t, p) = [td EXCEPT ![t] = Append(Append(rest, Ns), p)]
  BY <1>6 DEF Pushed
<1>8. rest \o <<Ns>> = Append(rest, Ns)
  BY <1>2
<1>9. p # None => rest \o <<Ns, p>> = Append(Append(rest, Ns), p)
  BY <1>2
<1>10. CASE p = None
  <2>1. Freed(td1, t, p) = td2
    BY <1>5, <1>10 DEF Freed
  <2> QED BY <1>1, <1>3, <1>6, <1>8, <1>10, <2>1
<1>11. CASE p # None
  <2>1. Freed(td1, t, p) = Pushed(td2, t, p)
    BY <1>5, <1>11 DEF Freed
  <2> QED BY <1>1, <1>3, <1>7, <1>9, <1>11, <2>1
<1> QED BY <1>10, <1>11

\* How many more references are to be dropped then.
LEMMA DropsFreed ==
    ASSUME NEW td \in [Threads -> Seq(Objects)], NEW t \in Threads,
           NEW p \in Entries \cup {None}, NEW y \in Objects
    PROVE  /\ Freed(td, t, p) \in [Threads -> Seq(Objects)]
           /\ Cardinality(Drops(Freed(td, t, p), y)) =
                  Cardinality(Drops(td, y)) + One(Ns = y) + One(p = y)
           /\ Cardinality(Drops(td, y)) \in Nat
<1>0. ASSUME NEW d \in [Threads -> Seq(Objects)], NEW q \in Objects
      PROVE  /\ Pushed(d, t, q) \in [Threads -> Seq(Objects)]
             /\ Cardinality(Drops(Pushed(d, t, q), y)) = Cardinality(Drops(d, y)) + One(q = y)
             /\ Cardinality(Drops(d, y)) \in Nat
  BY DropsPushed
<1>1. PICK td1 : td1 = Pushed(td, t, Ns)
  OBVIOUS
<1>2. /\ td1 \in [Threads -> Seq(Objects)]
      /\ Cardinality(Drops(td1, y)) = Cardinality(Drops(td, y)) + One(Ns = y)
      /\ Cardinality(Drops(td, y)) \in Nat
  BY <1>0, <1>1, NoneIsNothing
<1>3. CASE p = None
  <2>1. Freed(td, t, p) = td1
    BY <1>1, <1>3 DEF Freed
  <2>2. PICK a, b, c, d : /\ a = Cardinality(Drops(td1, y)) /\ b = Cardinality(Drops(td, y))
                          /\ c = One(Ns = y) /\ d = One(p = y)
    OBVIOUS
  <2>3. d = 0 /\ c \in Nat
    BY <1>3, <2>2, NoneIsNothing DEF One
  <2>4. a = b + c /\ b \in Nat
    BY <1>2, <2>2
  <2>5. a = b + c + d
    BY <2>3, <2>4
  <2> QED BY <1>2, <2>1, <2>2, <2>5
<1>4. CASE p # None
  <2>1. Freed(td, t, p) = Pushed(td1, t, p) /\ p \in Objects
    BY <1>1, <1>4, NoneIsNothing DEF Freed
  <2>2. PICK q \in Objects : q = p
    BY <2>1
  <2>3. PICK td3 \in [Threads -> Seq(Objects)] : td3 = td1
    BY <1>2
  <2>4. /\ Pushed(td3, t, q) \in [Threads -> Seq(Objects)]
        /\ Cardinality(Drops(Pushed(td3, t, q), y)) = Cardinality(Drops(td3, y)) + One(q = y)
    BY <1>0
  <2> QED BY <1>2, <2>1, <2>2, <2>3, <2>4
<1> QED BY <1>3, <1>4

\* Nobody uses an entry whose last reference is being dropped.
LEMMA LastOne ==
    ASSUME Counted, NEW x \in Entries, refctr[x] = 1, Dropping(x) # {}
    PROVE  /\ \A u \in Threads : at[u] # x /\ curr[u] # x
           /\ \A e \in hash : parent[e] # x
           /\ ~data[x]
           /\ Cardinality(HeldBy(at, x)) = 0 /\ Cardinality(HeldBy(curr, x)) = 0
           /\ Holders(x) = {} /\ Cardinality(Dropping(x)) = 1
<1> DEFINE a == Cardinality(HeldBy(at, x))
           c == Cardinality(HeldBy(curr, x))
           h == Cardinality(Holders(x))
           d == Cardinality(Dropping(x))
<1>0. x \in Objects /\ x # Ns
  BY NoneIsNothing
<1>1. refctr[x] = a + c + h + d /\ a \in Nat /\ c \in Nat /\ h \in Nat /\ d \in Nat
  BY <1>0, Countable DEF Counted, RefctrExact
<1>2. d > 0
  <2>1. Dropping(x) = Drops(todo, x) /\ todo \in [Threads -> Seq(Objects)]
    BY DEF Dropping, Drops, Counted, TypeOK
  <2>2. IsFiniteSet(Dropping(x))
    BY <2>1, DropsFinite
  <2> QED BY <2>2, CountIsNat
<1>3. (\A u \in Threads : at[u] # x) \/ a > 0
  BY HeldCounts DEF Counted, TypeOK
<1>4. (\A u \in Threads : curr[u] # x) \/ c > 0
  BY HeldCounts DEF Counted, TypeOK
<1>5. Holders(x) = {} \/ h > 0
  BY <1>0, Countable, CountIsNat DEF Counted
<1> HIDE DEF a, c, h, d
<1>6. a = 0 /\ c = 0 /\ h = 0 /\ d = 1
  BY <1>1, <1>2
<1>7. Holders(x) = {}
  BY <1>5, <1>6
<1>8. (\A e \in hash : parent[e] # x) /\ ~data[x]
  BY <1>0, <1>7 DEF Holders
<1>9. \A u \in Threads : at[u] # x /\ curr[u] # x
  BY <1>3, <1>4, <1>6
<1> QED BY <1>6, <1>7, <1>8, <1>9 DEF a, c, h, d


\* It was the last one of an entry, which leaves the tables.
LEMMA UnrefFrees ==
    ASSUME IInv, NEW t \in Threads, Unref(t), NEW x \in Entries, x = todo[t][Len(todo[t])],
           refctr[x] = 1
    PROVE  IInv'
<1>0. Counted
  BY DEF IInv, Counted
<1>1. PICK p \in Entries \cup {None} : p = parent[x]
  BY DEF IInv, TypeOK
<1>2. PICK td \in [Threads -> Seq(Objects)] : td = Popped(todo, t)
  BY <1>0, NextDropped DEF Unref
<1>3. /\ ~Ready(t) /\ x \in Objects /\ x # Ns
      /\ refctr' = [refctr EXCEPT ![x] = IF @ >= 0 THEN @ - 1 ELSE @]
      /\ hash' = hash \ {x} /\ subdir' = [subdir EXCEPT ![p] = Without(subdir[p], x)]
      /\ steady' = [u \in Threads |-> steady[u] \ {x}]
      /\ todo' = [todo EXCEPT ![t] = SubSeq(todo[t], 1, Len(todo[t]) - 1)
                                         \o IF p = None THEN <<Ns>> ELSE <<Ns, p>>]
      /\ UNCHANGED <<made, name, parent, data, owner, at, curr, reading, seen>>
  BY <1>1, NoneIsNothing DEF Unref, FreeEntryLocked
<1>4. todo' = Freed(td, t, p)
  <2>1. PICK d \in [Threads -> Seq(Objects)] : d = todo
    BY DEF IInv, TypeOK
  <2>2. d[t] # <<>>
    BY <1>3, <2>1 DEF Ready
  <2>3. [d EXCEPT ![t] = SubSeq(d[t], 1, Len(d[t]) - 1)
                             \o IF p = None THEN <<Ns>> ELSE <<Ns, p>>]
            = Freed(Popped(d, t), t, p)
    BY <2>2, FreedIsPushed
  <2> QED BY <1>2, <1>3, <2>1, <2>3
<1>5. \A y \in Objects : /\ Cardinality(Dropping(y)) = Cardinality(Drops(td, y)) + One(x = y)
                         /\ Cardinality(Drops(td, y)) \in Nat
  BY <1>0, <1>2, <1>3, NextDropped
<1>6. todo' \in [Threads -> Seq(Objects)]
  <2>1. PICK y \in Objects : y = x
    BY <1>3
  <2>2. Freed(td, t, p) \in [Threads -> Seq(Objects)]
    BY DropsFreed
  <2> QED BY <1>4, <2>2
<1>7. \A y \in Objects : Cardinality(Dropping(y)') =
                             Cardinality(Drops(td, y)) + One(Ns = y) + One(p = y)
  <2> TAKE y \in Objects
  <2>1. Dropping(y)' = Drops(todo', y)
    BY DEF Dropping, Drops
  <2>2. Cardinality(Drops(Freed(td, t, p), y)) =
            Cardinality(Drops(td, y)) + One(Ns = y) + One(p = y)
    BY DropsFreed
  <2> QED BY <1>4, <2>1, <2>2
<1>8. /\ \A u \in Threads : at[u] # x /\ curr[u] # x
      /\ \A e \in hash : parent[e] # x
      /\ ~data[x]
      /\ Cardinality(HeldBy(at, x)) = 0 /\ Cardinality(HeldBy(curr, x)) = 0
      /\ Holders(x) = {} /\ Cardinality(Dropping(x)) = 1
  <2>1. Cardinality(Dropping(x)) = Cardinality(Drops(td, x)) + 1
    BY <1>3, <1>5 DEF One
  <2>2. Cardinality(Drops(td, x)) \in Nat
    BY <1>3, <1>5
  <2>3. Cardinality(Dropping(x)) # 0
    BY <2>1, <2>2
  <2>4. Dropping(x) # {}
    BY <2>3, FS_EmptySet
  <2> QED BY <1>0, <2>4, LastOne
<1>9. x \in hash /\ p # x /\ hash \subseteq Entries
  <2>1. x \in hash /\ hash \subseteq Entries
    BY DEF IInv, TypeOK, TableIsLive
  <2> QED BY <1>1, <1>8, <2>1
<1>10. /\ refctr' \in [Objects -> Nat] /\ refctr'[x] = 0
       /\ \A y \in Objects \ {x} : refctr'[y] = refctr[y]
  BY <1>3 DEF IInv, TypeOK
<1>11. PICK s \in Seq(Entries) : s = subdir[p]
  BY DEF IInv, TypeOK
<1>12. NoDup(s) /\ x \in Listed(s) /\ Listed(s) = {e \in hash : parent[e] = p}
  BY <1>0, <1>1, <1>9, <1>11, Children
<1>13. PICK w : w = Without(s, x)
  OBVIOUS
<1>14. w \in Seq(Entries) /\ NoDup(w) /\ Listed(w) = Listed(s) \ {x}
  BY <1>12, <1>13, WithoutProperties
<1>15. subdir'[p] = w /\ \A q \in (Entries \cup {None}) \ {p} : subdir'[q] = subdir[q]
  BY <1>3, <1>11, <1>13 DEF IInv, TypeOK
<1>16. TypeOK'
  <2>1. subdir' \in [Entries \cup {None} -> Seq(Entries)]
    BY <1>3, <1>11, <1>13, <1>14 DEF IInv, TypeOK
  <2>2. steady' \in [Threads -> SUBSET Entries]
    BY <1>3 DEF IInv, TypeOK
  <2> QED BY <1>3, <1>6, <1>10, <2>1, <2>2 DEF IInv, TypeOK
<1>17. TableIsLive'
  <2>1. ASSUME NEW f \in Entries PROVE f \in hash' <=> refctr'[f] > 0
    <3>1. f \in hash <=> refctr[f] > 0
      BY DEF IInv, TableIsLive
    <3>2. f \in Objects
      BY NoneIsNothing
    <3>3. f # x => refctr'[f] = refctr[f]
      BY <1>10, <3>2
    <3> QED BY <1>3, <1>10, <3>1, <3>3
  <2>2. ASSUME NEW q \in Entries \cup {None}
        PROVE  Listed(subdir'[q]) = {f \in hash' : parent'[f] = q} /\ NoDup(subdir'[q])
    <3>1. CASE q = p
      <4>1. {f \in hash' : parent'[f] = p} = {f \in hash : parent[f] = p} \ {x}
        BY <1>3
      <4>2. subdir'[q] = w
        BY <1>15, <3>1
      <4> QED BY <1>12, <1>14, <3>1, <4>1, <4>2
    <3>2. CASE q # p
      <4>1. Listed(subdir[q]) = {f \in hash : parent[f] = q} /\ NoDup(subdir[q])
        BY <1>0, Children
      <4>2. {f \in hash' : parent'[f] = q} = {f \in hash : parent[f] = q}
        BY <1>1, <1>3, <3>2
      <4> QED BY <1>15, <3>2, <4>1, <4>2
    <3> QED BY <3>1, <3>2
  <2> QED BY <2>1, <2>2 DEF TableIsLive, NoDup, Listed
<1>18. ParentInv' /\ OneEntryPerName'
  BY <1>3 DEF IInv, ParentInv, OneEntryPerName
<1>19. RefctrExact'
  <2> SUFFICES ASSUME NEW y \in Objects
               PROVE  refctr'[y] = Cardinality(HeldBy(at, y)) + Cardinality(HeldBy(curr, y))
                                   + Cardinality(Holders(y)') + Cardinality(Dropping(y)')
    BY <1>3 DEF RefctrExact
  <2>1. refctr[y] = Cardinality(HeldBy(at, y)) + Cardinality(HeldBy(curr, y))
                    + Cardinality(Holders(y)) + Cardinality(Dropping(y))
    BY DEF IInv, RefctrExact
  <2>2. /\ Cardinality(HeldBy(at, y)) \in Nat /\ Cardinality(HeldBy(curr, y)) \in Nat
        /\ Cardinality(Holders(y)) \in Nat
    BY Countable DEF IInv
  <2>3. Cardinality(Holders(y)') = Cardinality(Holders(y)) - One(y = Ns \/ y = p)
    <3>1. x \notin Holders(y)' /\ Holders(y)' \ {x} = Holders(y) \ {x}
      <4>1. CASE y = Ns
        BY <1>3, <4>1 DEF Holders
      <4>2. CASE y # Ns
        <5>1. y \in Entries
          BY <4>2 DEF Objects
        <5>2. y # x => x \notin (IF data[y] THEN {y} ELSE {})
          OBVIOUS
        <5>3. y = x => ~data[y]
          BY <1>8
        <5> QED BY <1>3, <4>2, <5>1, <5>2, <5>3 DEF Holders
      <4> QED BY <4>1, <4>2
    <3>2. x \in Holders(y) <=> y = Ns \/ y = p
      <4>1. CASE y = Ns
        BY <1>9, <4>1 DEF Holders
      <4>2. CASE y # Ns
        <5>1. x \in {e \in hash : parent[e] = y} <=> y = p
          BY <1>1, <1>9
        <5>2. x \notin (IF data[y] THEN {y} ELSE {})
          BY <1>8
        <5> QED BY <4>2, <5>1, <5>2 DEF Holders
      <4> QED BY <4>1, <4>2
    <3>3. Cardinality(Holders(y)') =
              Cardinality(Holders(y)) + One(x \in Holders(y)') - One(x \in Holders(y))
      BY <3>1, HoldersChange DEF IInv
    <3> QED BY <2>2, <3>1, <3>2, <3>3 DEF One
  <2>4. One(y = Ns \/ y = p) = One(Ns = y) + One(p = y)
    BY <1>1, NoneAssumption DEF One
  <2>5. refctr'[y] = refctr[y] - One(x = y) /\ refctr[y] \in Nat
    BY <1>3, <1>10 DEF One, IInv, TypeOK
  <2>6. One(x = y) \in Nat /\ One(Ns = y) \in Nat /\ One(p = y) \in Nat
    BY DEF One
  <2>7. PICK a, c, h, d, o1, o2, o3 :
            /\ a = Cardinality(HeldBy(at, y)) /\ c = Cardinality(HeldBy(curr, y))
            /\ h = Cardinality(Holders(y)) /\ d = Cardinality(Drops(td, y))
            /\ o1 = One(x = y) /\ o2 = One(Ns = y) /\ o3 = One(p = y)
    OBVIOUS
  <2>8. refctr[y] = a + c + h + (d + o1) /\ refctr'[y] = refctr[y] - o1
    BY <1>5, <2>1, <2>5, <2>7
  <2>9. Cardinality(Holders(y)') = h - (o2 + o3) /\ Cardinality(Dropping(y)') = d + o2 + o3
    BY <1>7, <2>3, <2>4, <2>7
  <2>10. a \in Nat /\ c \in Nat /\ h \in Nat /\ d \in Nat /\ o1 \in Nat /\ o2 \in Nat /\ o3 \in Nat
    BY <1>5, <2>2, <2>6, <2>7
  <2>11. refctr'[y] = a + c + (h - (o2 + o3)) + (d + o2 + o3)
    BY <2>8, <2>10
  <2> QED BY <2>7, <2>9, <2>11
<1>20. ReadInv'
  <2> SUFFICES ASSUME NEW u \in Threads PROVE Reading(u)'
    BY DEF ReadInv
  <2>1. /\ Reading(u) /\ at[u] \in Entries \cup {None} /\ curr[u] # x
        /\ steady'[u] = steady[u] \ {x}
    BY <1>3, <1>8 DEF IInv, ReadInv, TypeOK
  <2>2. ASSUME reading[u] = "yes"
        PROVE  Scan(subdir'[at[u]], curr[u], steady[u] \ {x}, seen[u])
    <3>1. PICK l, c, st, sn : l = subdir[at[u]] /\ c = curr[u] /\ st = steady[u] /\ sn = seen[u]
      OBVIOUS
    <3>2. Scan(l, c, st, sn)
      BY <2>1, <2>2, <3>1 DEF Reading
    <3>3. CASE at[u] = p
      <4>1. l = s /\ subdir'[at[u]] = Without(s, x)
        BY <1>11, <1>13, <1>15, <3>1, <3>3
      <4>2. Scan(Without(s, x), c, st \ {x}, sn)
        BY <1>12, <3>2, <4>1, ScanWithout
      <4> QED BY <3>1, <4>1, <4>2
    <3>4. CASE at[u] # p
      <4>1. subdir'[at[u]] = l
        BY <1>15, <2>1, <3>1, <3>4
      <4>2. Scan(l, c, st \ {x}, sn)
        BY <3>2 DEF Scan
      <4> QED BY <3>1, <4>1, <4>2
    <3> QED BY <3>3, <3>4
  <2> QED BY <1>3, <2>1, <2>2 DEF Reading
<1> QED BY <1>16, <1>17, <1>18, <1>19, <1>20 DEF IInv

\* Unref keeps the invariant.
LEMMA SafeUnref ==
    ASSUME IInv, NEW t \in Threads, Unref(t)
    PROVE  IInv'
<1>1. PICK x : x = todo[t][Len(todo[t])]
  OBVIOUS
<1>2. x \in Objects
  BY <1>1, NextDropped DEF IInv, Counted, Unref
<1>3. CASE refctr[x] = 1 /\ x # Ns
  <2>1. x \in Entries
    BY <1>2, <1>3 DEF Objects
  <2> QED BY <1>1, <1>3, <2>1, UnrefFrees
<1>4. CASE ~(refctr[x] = 1 /\ x # Ns)
  BY <1>1, <1>2, <1>4, UnrefKeeps
<1> QED BY <1>3, <1>4


----------------------------------------------------------------------------
(* The invariant holds.                                                    *)

\* The invariant holds at the start.
LEMMA Starts ==
    ASSUME Init
    PROVE  IInv
<1>1. TypeOK
  <2>1. Ns \in Objects
    BY NoneIsNothing
  <2> QED BY <2>1 DEF Init, TypeOK
<1>2. TableIsLive
  <2>1. \A e \in Entries : e \notin hash /\ refctr[e] = 0
    BY NoneIsNothing DEF Init
  <2>2. ASSUME NEW p \in Entries \cup {None}
        PROVE  DOMAIN subdir[p] = {}
    <3>1. subdir[p] = <<>>
      BY DEF Init
    <3> QED BY <3>1
  <2>3. hash = {}
    BY DEF Init
  <2> QED BY <2>1, <2>2, <2>3 DEF TableIsLive, Listed
<1>3. RefctrExact
  <2> SUFFICES ASSUME NEW x \in Objects
               PROVE  refctr[x] = Cardinality(HeldBy(at, x)) + Cardinality(HeldBy(curr, x))
                                  + Cardinality(Holders(x)) + Cardinality(Dropping(x))
    BY DEF RefctrExact
  <2>1. HeldBy(at, x) = {} /\ HeldBy(curr, x) = {}
    BY NoneIsNothing DEF Init, HeldBy
  <2>2. Dropping(x) = {}
    <3>1. \A t \in Threads : DOMAIN todo[t] = {}
      <4> TAKE t \in Threads
      <4>1. todo[t] = <<>>
        BY DEF Init
      <4> QED BY <4>1
    <3>2. Dropping(x) = Drops(todo, x)
      BY DEF Dropping, Drops
    <3> QED BY <3>1, <3>2, DropsMember
  <2>3. Holders(x) = IF x = Ns THEN {Ns} ELSE {}
    BY DEF Init, Holders, Objects
  <2>4. Cardinality(Holders(x)) = refctr[x]
    BY <2>3, FS_EmptySet, FS_Singleton DEF Init
  <2>5. refctr[x] \in Nat
    BY DEF Init
  <2> QED BY <2>1, <2>2, <2>4, <2>5, FS_EmptySet
<1>4. ParentInv /\ OneEntryPerName
  BY DEF Init, ParentInv, OneEntryPerName
<1>5. ReadInv
  BY DEF Init, ReadInv, Reading
<1> QED BY <1>1, <1>2, <1>3, <1>4, <1>5 DEF IInv

\* Every step keeps the invariant.
LEMMA Steps ==
    ASSUME IInv, [Next]_vars
    PROVE  IInv'
<1>1. ASSUME NEW t \in Threads, NEW n \in Names, LookupFound(t, n) PROVE IInv'
  BY <1>1, SafeWalking
<1>2. ASSUME NEW t \in Threads, NEW n \in Names, NEW e \in Entries, LookupNew(t, n, e) PROVE IInv'
  BY <1>2, SafeLookupNew
<1>3. ASSUME NEW t \in Threads, Up(t) \/ Put(t) PROVE IInv'
  BY <1>3, SafeWalking
<1>4. ASSUME NEW t \in Threads, NEW u \in Threads, Copy(t, u) PROVE IInv'
  BY <1>4, SafeWalking
<1>5. ASSUME NEW t \in Threads, SetNode(t) PROVE IInv'
  BY <1>5, SafeSetNode
<1>6. ASSUME NEW t \in Threads, DelNode(t) PROVE IInv'
  BY <1>6, SafeDelNode
<1>7. ASSUME NEW t \in Threads, NEW n \in 0..MaxSeek, ReadNth(t, n) PROVE IInv'
  BY <1>7, SafeReadNth
<1>8. ASSUME NEW t \in Threads, ReadNext(t) PROVE IInv'
  BY <1>8, SafeReadNext
<1>9. ASSUME NEW t \in Threads, CloseDir(t) PROVE IInv'
  BY <1>9, SafeCloseDir
<1>10. ASSUME NEW t \in Threads, PutNs(t) PROVE IInv'
  BY <1>10, SafePutNs
<1>11. ASSUME NEW t \in Threads, Unref(t) PROVE IInv'
  BY <1>11, SafeUnref
<1>12. CASE UNCHANGED vars
  <2>1. TypeOK' /\ TableIsLive' /\ ParentInv' /\ OneEntryPerName' /\ ReadInv'
    BY <1>12 DEF IInv, TypeOK, TableIsLive, ParentInv, OneEntryPerName, ReadInv, Reading,
                 vars, tables, walk
  <2>2. RefctrExact'
    <3>1. UNCHANGED <<refctr, at, curr, todo, hash, parent, data, owner>>
      BY <1>12 DEF vars, tables, walk
    <3>2. \A x \in Objects : Holders(x)' = Holders(x) /\ Dropping(x)' = Dropping(x)
      BY <3>1 DEF Holders, Dropping
    <3> QED BY <3>1, <3>2 DEF IInv, RefctrExact
  <2> QED BY <2>1, <2>2 DEF IInv
<1> QED BY <1>1, <1>2, <1>3, <1>4, <1>5, <1>6, <1>7, <1>8, <1>9, <1>10, <1>11, <1>12 DEF Next

\* The inductive invariant holds in every reachable state.
LEMMA Invariant == Spec => []IInv
<1>1. Init => IInv
  BY Starts
<1>2. IInv /\ [Next]_vars => IInv'
  BY Steps
<1> QED BY <1>1, <1>2, PTL DEF Spec

\* The counts are exact, so that no entry is freed that a thread, a child or a node
\* refers to, nor kept when nobody does (av_unref_obj, free_entry, av_namespace_lookup).
THEOREM RefctrCorrect == Spec => []RefctrExact
<1>1. IInv => RefctrExact
  BY DEF IInv
<1> QED BY <1>1, Invariant, PTL

\* A name has one entry in its directory, however many threads look it up and drop it
\* at a time (av_namespace_lookup, free_entry).
THEOREM NamesCorrect == Spec => []OneEntryPerName
<1>1. IInv => OneEntryPerName
  BY DEF IInv
<1> QED BY <1>1, Invariant, PTL

\* Who has read a directory to its end has seen what was there all the time, although
\* others add and remove entries meanwhile (av_namespace_subdir, av_namespace_next).
THEOREM WalkCorrect == Spec => []WalkComplete
<1>1. IInv => WalkComplete
  BY DEF IInv, ReadInv, Reading, WalkComplete
<1> QED BY <1>1, Invariant, PTL

\* The hash table and the lists of children hold the entries that are alive, each once
\* (namespace.c:182: a dead entry cannot be looked up).
THEOREM TablesCorrect == Spec => []TableIsLive
<1>1. IInv => TableIsLive
  BY DEF IInv
<1> QED BY <1>1, Invariant, PTL

\* The directories above an entry live as long as the entry, and so does the namespace
\* (av_namespace_parent and getpath follow these pointers without a check).
THEOREM PathCorrect == Spec => []PathAlive
<1>1. IInv => PathAlive
  BY Alive DEF IInv, Counted, PathAlive
<1> QED BY <1>1, Invariant, PTL

\* The types of the state: no count is ever negative.
THEOREM TypeCorrect == Spec => []TypeOK
<1>1. IInv => TypeOK
  BY DEF IInv
<1> QED BY <1>1, Invariant, PTL

----------------------------------------------------------------------------
(* OpenFiles: state.c and local.c.                                          *)

\* A set of positions has a first.
LEMMA FirstPosition ==
    ASSUME NEW T, T \subseteq Nat, T # {}
    PROVE  \E i \in T : \A j \in T : i <= j
<1>1. PICK i \in T : \A j \in T : <<j, i>> \notin OpToRel(<, Nat)
  BY NatLessThanWellFounded, WFMin
<1>2. \A j \in T : ~(j < i)
  BY <1>1 DEF OpToRel
<1> QED BY <1>2

\* The bytes there are, and what is made of them.
FileBytes == {"a", "b", "nul", "?"} \cup UNION {Range(v) : v \in FileValues}
Contents == Seq(FileBytes)

\* There is a NUL in the memory of a state file.
Ended(b) == b \in Contents /\ \E n \in DOMAIN b : b[n] = "nul"

\* Where the string in a buffer ends.
LEMMA StringEnds ==
    ASSUME NEW b, Ended(b)
    PROVE  /\ StrLen(b) \in Nat /\ StrLen(b) + 1 \in 1 .. Len(b)
           /\ b[StrLen(b) + 1] = "nul" /\ \A k \in 1 .. StrLen(b) : b[k] # "nul"
<1>1. PICK len \in Nat : len = Len(b) /\ DOMAIN b = 1 .. len
  BY LenProperties DEF Ended, Contents
<1> DEFINE Nuls == {n \in 1 .. len : b[n] = "nul"}
           P(n) == b[n] = "nul" /\ \A k \in 1 .. n - 1 : b[k] # "nul"
<1>2. \E n \in DOMAIN b : P(n)
  <2>1. Nuls \subseteq Nat /\ Nuls # {}
    BY <1>1 DEF Ended
  <2>2. PICK i \in Nuls : \A j \in Nuls : i <= j
    BY <2>1, FirstPosition
  <2>3. \A k \in 1 .. i - 1 : k \in 1 .. len /\ ~(i <= k)
    BY <2>1, <2>2
  <2>4. \A k \in 1 .. i - 1 : b[k] # "nul"
    BY <2>2, <2>3
  <2> QED BY <1>1, <2>2, <2>4
<1>3. PICK m : m = CHOOSE n \in DOMAIN b : P(n)
  OBVIOUS
<1>4. m \in 1 .. len /\ P(m)
  BY <1>1, <1>2, <1>3
<1>5. StrLen(b) = m - 1
  BY <1>3 DEF StrLen
<1>6. m - 1 \in Nat /\ m - 1 + 1 = m
  BY <1>4
<1> QED BY <1>1, <1>4, <1>5, <1>6

\* The last of a string is known by the first NUL.
LEMMA EndsAt ==
    ASSUME NEW b, Ended(b), NEW n \in Nat, n + 1 \in 1 .. Len(b),
           b[n + 1] = "nul", \A k \in 1 .. n : b[k] # "nul"
    PROVE  StrLen(b) = n
<1>1. PICK l \in Nat : l = StrLen(b)
  BY StringEnds
<1>2. b[l + 1] = "nul" /\ \A k \in 1 .. l : b[k] # "nul"
  BY <1>1, StringEnds
<1>3. ~(l < n)
  <2>1. l < n => l + 1 \in 1 .. n
    OBVIOUS
  <2> QED BY <1>2, <2>1
<1>4. ~(n < l)
  <2>1. n < l => n + 1 \in 1 .. l
    OBVIOUS
  <2> QED BY <1>2, <2>1
<1> QED BY <1>1, <1>3, <1>4

\* The string is what is before it.
LEMMA StringIs ==
    ASSUME NEW b, Ended(b)
    PROVE  /\ String(b) \in Contents /\ Len(String(b)) = StrLen(b)
           /\ \A k \in 1 .. StrLen(b) : String(b)[k] = b[k]
<1>1. PICK l \in Nat : l = StrLen(b) /\ l + 1 \in 1 .. Len(b)
  BY StringEnds
<1>2. \A k \in 1 .. l : b[k] \in FileBytes
  <2>1. \A k \in 1 .. Len(b) : b[k] \in FileBytes
    BY ElementOfSeq DEF Ended, Contents
  <2>2. Len(b) \in Nat
    BY LenProperties DEF Ended, Contents
  <2> QED BY <1>1, <2>1, <2>2
<1>3. /\ SubSeq(b, 1, l) \in Seq(FileBytes)
      /\ Len(SubSeq(b, 1, l)) = IF 1 <= l THEN l - 1 + 1 ELSE 0
      /\ \A k \in 1 .. l - 1 + 1 : SubSeq(b, 1, l)[k] = b[1 + k - 1]
  BY <1>2, SubSeqProperties
<1>4. Len(SubSeq(b, 1, l)) = l /\ \A k \in 1 .. l : SubSeq(b, 1, l)[k] = b[k]
  BY <1>3
<1>5. String(b) = SubSeq(b, 1, l)
  BY <1>1 DEF String
<1> QED BY <1>1, <1>3, <1>4, <1>5 DEF Contents

\* A function on positions is a sequence.
LEMMA IsContents ==
    ASSUME NEW n \in Nat, NEW f, f = [k \in 1 .. n |-> f[k]], \A k \in 1 .. n : f[k] \in FileBytes
    PROVE  f \in Contents /\ Len(f) = n
<1>1. f \in [1 .. n -> FileBytes]
  OBVIOUS
<1>2. f \in Seq(FileBytes)
  BY <1>1, SeqDef
<1> QED BY <1>1, <1>2, LenProperties DEF Contents

\* The bytes of a write go to their positions and no others.
LEMMA PutAt ==
    ASSUME NEW s \in Contents, NEW pos \in Nat, NEW c \in FileBytes, NEW n \in Nat
    PROVE  /\ PutBytes(s, pos, c, n) \in Contents /\ Len(PutBytes(s, pos, c, n)) = Len(s)
           /\ \A k \in 1 .. Len(s) : PutBytes(s, pos, c, n)[k] = IF k > pos /\ k <= pos + n THEN c ELSE s[k]
<1>1. PICK len \in Nat : len = Len(s)
  BY LenProperties DEF Contents
<1>2. \A k \in 1 .. len : s[k] \in FileBytes
  BY <1>1, ElementOfSeq DEF Contents
<1>3. PICK f : f = [k \in 1 .. len |-> IF k > pos /\ k <= pos + n THEN c ELSE s[k]]
  OBVIOUS
<1>4. \A k \in 1 .. len : f[k] = (IF k > pos /\ k <= pos + n THEN c ELSE s[k]) /\ f[k] \in FileBytes
  BY <1>2, <1>3
<1>5. f \in Contents /\ Len(f) = len
  BY <1>3, <1>4, IsContents
<1> QED BY <1>1, <1>3, <1>4, <1>5 DEF PutBytes

\* What is resized keeps what was there; the system adds NULs, realloc anything.
LEMMA Grown ==
    ASSUME NEW s \in Contents, NEW n \in Nat
    PROVE  /\ Resized(s, n) \in Contents /\ Len(Resized(s, n)) = n
           /\ \A k \in 1 .. n : Resized(s, n)[k] = IF k <= Len(s) THEN s[k] ELSE "nul"
           /\ Realloc(s, n) \in Contents /\ Len(Realloc(s, n)) = n
           /\ \A k \in 1 .. n : Realloc(s, n)[k] = IF k <= Len(s) THEN s[k] ELSE "?"
<1>1. PICK len \in Nat : len = Len(s)
  BY LenProperties DEF Contents
<1>2. \A k \in 1 .. len : s[k] \in FileBytes
  BY <1>1, ElementOfSeq DEF Contents
<1>3. ASSUME NEW e \in {"nul", "?"}, NEW f, f = [k \in 1 .. n |-> IF k <= len THEN s[k] ELSE e]
      PROVE  f \in Contents /\ Len(f) = n /\ \A k \in 1 .. n : f[k] = IF k <= len THEN s[k] ELSE e
  <2>1. \A k \in 1 .. n : f[k] = (IF k <= len THEN s[k] ELSE e)
    BY <1>3
  <2>2. \A k \in 1 .. n : f[k] \in FileBytes
    BY <1>2, <2>1 DEF FileBytes
  <2> QED BY <1>3, <2>1, <2>2, IsContents
<1> QED BY <1>1, <1>3 DEF Resized, Realloc

\* A file is bytes after a write of POSIX.
LEMMA Posix ==
    ASSUME NEW s \in Contents, NEW pos \in Nat, NEW c \in FileBytes, NEW n \in Nat
    PROVE  PosixWrite(s, pos, c, n) \in Contents
<1>1. PICK m \in Nat : m = IF pos + n > Len(s) THEN pos + n ELSE Len(s)
  BY LenProperties DEF Contents
<1>2. Resized(s, m) \in Contents
  BY Grown
<1> QED BY <1>1, <1>2, PutAt DEF PosixWrite

\* A write that ends after the string.
LEMMA WrittenPast ==
    ASSUME NEW b, Ended(b), NEW pos \in Nat, NEW n \in Nat \ {0}, NEW c \in FileBytes \ {"nul"},
           pos + n > StrLen(b)
    PROVE  /\ Ended(StateBuf(b, pos, c, n))
           /\ pos <= StrLen(b) => String(StateBuf(b, pos, c, n)) = PosixWrite(String(b), pos, c, n)
<1>1. PICK l \in Nat : l = StrLen(b) /\ l + 1 \in 1 .. Len(b)
  BY StringEnds
<1>2. PICK m \in Nat : m = pos + n
  OBVIOUS
<1>3. b \in Contents /\ Len(b) \in Nat
  BY LenProperties DEF Ended, Contents
<1>4. PICK r : r = Realloc(b, m + 1)
  OBVIOUS
<1>5. /\ r \in Contents /\ Len(r) = m + 1
      /\ \A k \in 1 .. m + 1 : r[k] = IF k <= Len(b) THEN b[k] ELSE "?"
  <2>1. PICK q \in Nat : q = m + 1
    OBVIOUS
  <2>2. PICK s \in Contents : s = b
    BY <1>3
  <2>3. /\ Realloc(s, q) \in Contents /\ Len(Realloc(s, q)) = q
        /\ \A k \in 1 .. q : Realloc(s, q)[k] = IF k <= Len(s) THEN s[k] ELSE "?"
    BY Grown
  <2> QED BY <1>4, <2>1, <2>2, <2>3
<1>6. PICK e : e = [r EXCEPT ![m + 1] = "nul"]
  OBVIOUS
<1>7. e \in Contents /\ Len(e) = m + 1 /\ e[m + 1] = "nul" /\ \A k \in 1 .. m : e[k] = r[k]
  <2>1. r \in Seq(FileBytes) /\ m + 1 \in 1 .. Len(r) /\ "nul" \in FileBytes
    BY <1>5 DEF Contents, FileBytes
  <2>2. /\ e \in Seq(FileBytes) /\ Len(e) = Len(r) /\ e[m + 1] = "nul"
        /\ \A k \in 1 .. Len(r) : k # m + 1 => e[k] = r[k]
    BY <1>6, <2>1, ExceptSeq
  <2>3. \A k \in 1 .. m : k \in 1 .. m + 1 /\ k # m + 1
    OBVIOUS
  <2> QED BY <1>5, <2>2, <2>3 DEF Contents
<1>8. PICK w : w = PutBytes(e, pos, c, n)
  OBVIOUS
<1>9. /\ w \in Contents /\ Len(w) = m + 1
      /\ \A k \in 1 .. m + 1 : w[k] = IF k > pos /\ k <= m THEN c ELSE e[k]
  BY <1>2, <1>7, <1>8, PutAt
<1>10. w = StateBuf(b, pos, c, n)
  BY <1>2, <1>4, <1>6, <1>8 DEF StateBuf
<1>11. w[m + 1] = "nul"
  <2>1. m + 1 \in 1 .. m + 1 /\ ~(m + 1 <= m)
    OBVIOUS
  <2> QED BY <1>7, <1>9, <2>1
<1>12. Ended(w)
  <2>1. m + 1 \in DOMAIN w
    BY <1>9, LenProperties DEF Contents
  <2> QED BY <1>9, <1>11, <2>1 DEF Ended
<1>13. ASSUME pos <= l PROVE String(w) = PosixWrite(String(b), pos, c, n)
  <2>1. /\ String(b) \in Contents /\ Len(String(b)) = l
        /\ \A k \in 1 .. l : String(b)[k] = b[k] /\ b[k] # "nul"
    BY <1>1, StringIs, StringEnds
  <2>2. \A k \in 1 .. m : w[k] = IF k > pos THEN c ELSE b[k]
    <3>1. \A k \in 1 .. m : k \in 1 .. m + 1 /\ k <= m
      OBVIOUS
    <3>2. \A k \in 1 .. m : ~(k > pos) => k <= Len(b)
      BY <1>1, <1>3, <1>13
    <3> QED BY <1>5, <1>7, <1>9, <3>1, <3>2
  <2>3. \A k \in 1 .. m : w[k] # "nul"
    <3>1. \A k \in 1 .. m : ~(k > pos) => k \in 1 .. l
      BY <1>13
    <3> QED BY <2>1, <2>2, <3>1
  <2>4. StrLen(w) = m
    <3>1. m + 1 \in 1 .. Len(w)
      BY <1>9
    <3> QED BY <1>11, <1>12, <2>3, <3>1, EndsAt
  <2>5. String(w) \in Contents /\ Len(String(w)) = m /\ \A k \in 1 .. m : String(w)[k] = w[k]
    BY <1>12, <2>4, StringIs
  <2>6. PICK p : p = PosixWrite(String(b), pos, c, n)
    OBVIOUS
  <2>7. p \in Contents /\ Len(p) = m /\ \A k \in 1 .. m : p[k] = IF k > pos THEN c ELSE b[k]
    <3>1. PICK g : g = Resized(String(b), m)
      OBVIOUS
    <3>2. g \in Contents /\ Len(g) = m /\ \A k \in 1 .. m : g[k] = IF k <= l THEN String(b)[k] ELSE "nul"
      <4>1. PICK s \in Contents : s = String(b)
        BY <2>1
      <4>2. g = Resized(s, m) /\ Len(s) = l
        BY <2>1, <3>1, <4>1
      <4>3. /\ Resized(s, m) \in Contents /\ Len(Resized(s, m)) = m
            /\ \A k \in 1 .. m : Resized(s, m)[k] = IF k <= Len(s) THEN s[k] ELSE "nul"
        BY Grown
      <4> QED BY <4>1, <4>2, <4>3
    <3>3. p = PutBytes(g, pos, c, n)
      BY <1>1, <1>2, <2>1, <2>6, <3>1 DEF PosixWrite
    <3>4. p \in Contents /\ Len(p) = m /\ \A k \in 1 .. m : p[k] = IF k > pos /\ k <= m THEN c ELSE g[k]
      BY <1>2, <3>2, <3>3, PutAt
    <3>5. \A k \in 1 .. m : k <= m /\ (~(k > pos) => k <= l /\ k \in 1 .. l)
      BY <1>13
    <3> QED BY <2>1, <3>2, <3>4, <3>5
  <2>8. \A k \in 1 .. m : String(w)[k] = p[k]
    BY <2>2, <2>5, <2>7
  <2> QED BY <2>5, <2>6, <2>7, <2>8, SeqEqual DEF Contents
<1> QED BY <1>1, <1>10, <1>12, <1>13

\* A write within the string.
LEMMA WrittenWithin ==
    ASSUME NEW b, Ended(b), NEW pos \in Nat, NEW n \in Nat \ {0}, NEW c \in FileBytes \ {"nul"},
           ~(pos + n > StrLen(b))
    PROVE  /\ Ended(StateBuf(b, pos, c, n))
           /\ String(StateBuf(b, pos, c, n)) = PosixWrite(String(b), pos, c, n)
<1>1. PICK l \in Nat : l = StrLen(b) /\ l + 1 \in 1 .. Len(b)
  BY StringEnds
<1>2. b[l + 1] = "nul" /\ \A k \in 1 .. l : b[k] # "nul"
  BY <1>1, StringEnds
<1>3. PICK len \in Nat : len = Len(b) /\ DOMAIN b = 1 .. len
  BY LenProperties DEF Ended, Contents
<1>4. b \in Contents
  BY DEF Ended
<1>5. PICK w : w = PutBytes(b, pos, c, n)
  OBVIOUS
<1>6. w \in Contents /\ Len(w) = len /\ \A k \in 1 .. len : w[k] = IF k > pos /\ k <= pos + n THEN c ELSE b[k]
  BY <1>3, <1>4, <1>5, PutAt
<1>7. w = StateBuf(b, pos, c, n)
  BY <1>5 DEF StateBuf
<1>8. \A k \in 1 .. l : k \in 1 .. len
  BY <1>1, <1>3
<1>9. w[l + 1] = "nul" /\ \A k \in 1 .. l : w[k] # "nul"
  <2>1. l + 1 \in 1 .. len /\ ~(l + 1 <= pos + n)
    BY <1>1, <1>3
  <2> QED BY <1>2, <1>6, <1>8, <2>1
<1>10. Ended(w)
  <2>1. l + 1 \in DOMAIN w
    BY <1>1, <1>3, <1>6, LenProperties DEF Contents
  <2> QED BY <1>6, <1>9, <2>1 DEF Ended
<1>11. StrLen(w) = l
  <2>1. l + 1 \in 1 .. Len(w)
    BY <1>1, <1>3, <1>6
  <2> QED BY <1>9, <1>10, <2>1, EndsAt
<1>12. String(w) \in Contents /\ Len(String(w)) = l /\ \A k \in 1 .. l : String(w)[k] = w[k]
  BY <1>10, <1>11, StringIs
<1>13. PICK s \in Contents : s = String(b)
  BY StringIs
<1>14. Len(s) = l /\ \A k \in 1 .. l : s[k] = b[k]
  BY <1>1, <1>13, StringIs
<1>15. PICK g : g = Resized(s, l)
  OBVIOUS
<1>16. g \in Contents /\ Len(g) = l /\ \A k \in 1 .. l : g[k] = b[k]
  <2>1. /\ Resized(s, l) \in Contents /\ Len(Resized(s, l)) = l
        /\ \A k \in 1 .. l : Resized(s, l)[k] = IF k <= Len(s) THEN s[k] ELSE "nul"
    BY Grown
  <2> QED BY <1>14, <1>15, <2>1
<1>17. PICK p : p = PutBytes(g, pos, c, n)
  OBVIOUS
<1>18. p \in Contents /\ Len(p) = l /\ \A k \in 1 .. l : p[k] = IF k > pos /\ k <= pos + n THEN c ELSE g[k]
  BY <1>16, <1>17, PutAt
<1>19. p = PosixWrite(s, pos, c, n)
  BY <1>1, <1>14, <1>15, <1>17 DEF PosixWrite
<1>20. \A k \in 1 .. l : String(w)[k] = p[k]
  BY <1>6, <1>8, <1>12, <1>16, <1>18
<1>21. String(w) = p
  BY <1>12, <1>18, <1>20, SeqEqual DEF Contents
<1> QED BY <1>7, <1>10, <1>13, <1>19, <1>21

\* Cutting a state file.
LEMMA CutOff ==
    ASSUME NEW b, Ended(b), NEW n \in Nat
    PROVE  /\ Ended(StateCut(b, n))
           /\ n <= StrLen(b) => String(StateCut(b, n)) = Resized(String(b), n)
<1>1. PICK l \in Nat : l = StrLen(b) /\ l + 1 \in 1 .. Len(b)
  BY StringEnds
<1>2. \A k \in 1 .. l : b[k] # "nul"
  BY <1>1, StringEnds
<1>3. PICK s \in Contents : s = String(b)
  BY StringIs
<1>4. Len(s) = l /\ \A k \in 1 .. l : s[k] = b[k]
  BY <1>1, <1>3, StringIs
<1>5. PICK r : r = Resized(s, n)
  OBVIOUS
<1>6. r \in Contents /\ Len(r) = n /\ \A k \in 1 .. n : r[k] = IF k <= l THEN s[k] ELSE "nul"
  <2>1. s \in Contents /\ n \in Nat
    OBVIOUS
  <2>2. /\ Resized(s, n) \in Contents /\ Len(Resized(s, n)) = n
        /\ \A k \in 1 .. n : Resized(s, n)[k] = IF k <= Len(s) THEN s[k] ELSE "nul"
    BY ONLY <2>1, Grown
  <2> QED BY ONLY <1>4, <1>5, <2>2
<1>7. CASE n < l
  <2>1. PICK w : w = [b EXCEPT ![n + 1] = "nul"]
    OBVIOUS
  <2>2. w = StateCut(b, n)
    BY <1>1, <1>7, <2>1 DEF StateCut
  <2>3. /\ w \in Contents /\ Len(w) = Len(b) /\ w[n + 1] = "nul"
        /\ \A k \in 1 .. Len(b) : k # n + 1 => w[k] = b[k]
    <3>1. b \in Seq(FileBytes) /\ "nul" \in FileBytes /\ Len(b) \in Nat
      BY LenProperties DEF Ended, Contents, FileBytes
    <3>2. n + 1 \in 1 .. Len(b)
      BY <1>1, <1>7, <3>1
    <3> QED BY <2>1, <3>1, <3>2, ExceptSeq DEF Contents
  <2>4. n + 1 \in 1 .. Len(w) /\ Len(b) \in Nat
    BY <1>1, <1>7, <2>3, LenProperties DEF Contents
  <2>5. Ended(w)
    BY <2>3, <2>4, LenProperties DEF Ended, Contents
  <2>6. \A k \in 1 .. n : k \in 1 .. l /\ k \in 1 .. Len(b) /\ k # n + 1 /\ k <= l
    BY <1>7, <2>3, <2>4
  <2>7. \A k \in 1 .. n : w[k] = b[k] /\ w[k] # "nul" /\ r[k] = b[k]
    BY <1>2, <1>4, <1>6, <2>3, <2>6
  <2>8. StrLen(w) = n
    BY <2>3, <2>4, <2>5, <2>7, EndsAt
  <2>9. String(w) \in Contents /\ Len(String(w)) = n /\ \A k \in 1 .. n : String(w)[k] = w[k]
    BY <2>5, <2>8, StringIs
  <2>10. String(w) = r
    BY <1>6, <2>7, <2>9, SeqEqual DEF Contents
  <2> QED BY <1>3, <1>5, <2>2, <2>5, <2>10
<1>8. CASE ~(n < l)
  <2>1. StateCut(b, n) = b
    BY <1>1, <1>8 DEF StateCut
  <2>2. ASSUME n <= l PROVE s = r
    <3>1. n = l
      BY <1>8, <2>2
    <3>2. \A k \in 1 .. n : r[k] = s[k]
      BY <1>6, <3>1
    <3> QED BY <1>4, <1>6, <3>1, <3>2, SeqEqual DEF Contents
  <2> QED BY <1>1, <1>3, <1>5, <2>1, <2>2
<1> QED BY <1>7, <1>8

\* A state file that has just been opened.
LEMMA Fresh ==
    ASSUME NEW s \in Contents, \A k \in 1 .. Len(s) : s[k] # "nul"
    PROVE  Ended(Append(s, "nul")) /\ String(Append(s, "nul")) = s
<1>1. PICK len \in Nat : len = Len(s)
  BY LenProperties DEF Contents
<1>2. PICK b : b = Append(s, "nul")
  OBVIOUS
<1>3. /\ b \in Contents /\ Len(b) = len + 1
      /\ b[len + 1] = "nul" /\ \A k \in 1 .. len : b[k] = s[k]
  <2>1. "nul" \in FileBytes
    BY DEF FileBytes
  <2> QED BY <1>1, <1>2, <2>1, AppendProperties DEF Contents
<1>4. Ended(b)
  <2>1. len + 1 \in DOMAIN b
    BY <1>3, LenProperties DEF Contents
  <2> QED BY <1>3, <2>1 DEF Ended
<1>5. StrLen(b) = len
  <2>1. len + 1 \in 1 .. Len(b)
    BY <1>3
  <2> QED BY <1>1, <1>3, <1>4, <2>1, EndsAt
<1>6. String(b) \in Contents /\ Len(String(b)) = len /\ \A k \in 1 .. len : String(b)[k] = b[k]
  BY <1>4, <1>5, StringIs
<1>7. String(b) = s
  BY <1>1, <1>3, <1>6, SeqEqual DEF Contents
<1> QED BY <1>2, <1>4, <1>7

\* What the record of an open file can have in it.
DirLists == Seq(Range(DirEntries))
FileRecords ==
    [st : {"open", "closed"}, kind : File \cup Dir, write : BOOLEAN, append : BOOLEAN,
     buf : Contents, koff : Nat, ptr : Nat, modif : BOOLEAN, want : Contents, gap : BOOLEAN,
     set : Seq(Contents), pos : Nat, entctr : Nat, got : Contents \cup DirLists]

\* A file that is open: the string is what POSIX has unless there is a gap, a local file that
\* is not appended to is where its pointer is, and an entry is the one at its position.
StringTrue(f) == f.kind = "state" => Ended(f.buf) /\ (~f.gap => String(f.buf) = f.want)
LocalTrue(f)  == f.kind = "local" /\ ~f.append => f.koff = f.ptr /\ f.buf = f.want
EntryTrue(f)  == f.kind \in Dir => f.got = <<>> \/ f.got = <<DirEntries[f.pos + 1]>>
OpenTrue(f)   == /\ f \in FileRecords /\ f.st = "open"
                 /\ StringTrue(f) /\ LocalTrue(f) /\ EntryTrue(f)
SetTrue(f)    == f \in FileRecords /\ f.st = "closed" /\ (f.set # <<>> /\ ~f.gap => f.set = <<f.want>>)

\* The kinds of files and directories.
LEMMA FileKinds == /\ File = {"state", "local"} /\ Dir = {"statedir", "localdir"}
BY DEF File, Dir

\* What is empty has its type.
LEMMA Empty == /\ <<>> \in Contents /\ <<>> \in DirLists /\ <<>> \in Seq(Contents)
               /\ "a" \in FileBytes \ {"nul"} /\ "b" \in FileBytes \ {"nul"}
BY DEF Contents, DirLists, FileBytes

\* An open file begins as what it had, or with nothing.
LEMMA Opened ==
    ASSUME NEW kind \in File \cup Dir, NEW write \in BOOLEAN, NEW append \in BOOLEAN, NEW trunc \in BOOLEAN,
           NEW v \in FileValues \cup {<<>>}
    PROVE  OpenTrue(NewlyOpened(kind, write, append, trunc, v))
<1>1. PICK s : s = IF trunc THEN <<>> ELSE v
  OBVIOUS
<1>2. s \in Contents /\ \A k \in 1 .. Len(s) : s[k] # "nul"
  <2>1. CASE s = <<>>
    BY <2>1, Empty
  <2>2. CASE s \in FileValues
    <3>1. s \in Seq(Range(s) \ {"nul"})
      BY <2>2, FileAssumption
    <3>2. (Range(s) \ {"nul"}) \subseteq FileBytes
      BY <2>2 DEF FileBytes
    <3>3. \A k \in 1 .. Len(s) : s[k] \in Range(s) \ {"nul"}
      BY <3>1, ElementOfSeq
    <3>4. s \in Seq(FileBytes)
      BY <3>1, <3>2
    <3> QED BY <3>3, <3>4 DEF Contents
  <2> QED BY <1>1, <2>1, <2>2
<1>3. PICK b : b = IF kind = "state" THEN Append(s, "nul") ELSE s
  OBVIOUS
<1>4. Ended(Append(s, "nul")) /\ String(Append(s, "nul")) = s
  BY <1>2, Fresh
<1>5. b \in Contents /\ (kind = "state" => Ended(b) /\ String(b) = s)
  BY <1>2, <1>3, <1>4 DEF Ended
<1>6. PICK f : f = NewlyOpened(kind, write, append, trunc, v)
  OBVIOUS
<1>7. f = [st |-> "open", kind |-> kind, write |-> write, append |-> append,
           buf |-> b, koff |-> 0, ptr |-> 0, modif |-> trunc, want |-> s, gap |-> FALSE, set |-> <<>>,
           pos |-> 0, entctr |-> 0, got |-> <<>>]
  BY <1>1, <1>3, <1>6 DEF NewlyOpened
<1>8. f \in FileRecords /\ f.st = "open"
  BY <1>2, <1>5, <1>7, Empty DEF FileRecords
<1>9. StringTrue(f)
  BY <1>5, <1>7 DEF StringTrue
<1>10. LocalTrue(f)
  BY <1>3, <1>7 DEF LocalTrue
<1>11. EntryTrue(f)
  BY <1>7 DEF EntryTrue
<1> QED BY <1>6, <1>8, <1>9, <1>10, <1>11 DEF OpenTrue

\* A file ends within its memory.
LEMMA SizeIs ==
    ASSUME NEW f, OpenTrue(f)
    PROVE  Size(f) \in Nat /\ Size(f) <= Len(f.buf) /\ Len(f.buf) \in Nat
<1>1. PICK b \in Contents : b = f.buf
  BY DEF OpenTrue, FileRecords
<1>2. Len(b) \in Nat
  BY LenProperties DEF Contents
<1>3. CASE f.kind = "state"
  <2>1. Ended(b)
    BY <1>1, <1>3 DEF OpenTrue, StringTrue
  <2>2. StrLen(b) \in Nat /\ StrLen(b) + 1 \in 1 .. Len(b)
    BY <2>1, StringEnds
  <2> QED BY <1>1, <1>2, <1>3, <2>2 DEF Size
<1> QED BY <1>1, <1>2, <1>3 DEF Size

\* default_lseek and local_lseek.
LEMMA Seeking ==
    ASSUME NEW f, OpenTrue(f), NEW p \in Nat
    PROVE  /\ OpenTrue(Sought(f, p)) /\ Sought(f, p).ptr = p
           /\ \A x \in {"kind", "buf", "append"} : Sought(f, p)[x] = f[x]
<1>1. f \in FileRecords
  BY DEF OpenTrue
<1>2. PICK g : g = Sought(f, p)
  OBVIOUS
<1>3. g = [f EXCEPT !.ptr = p, !.koff = IF f.kind = "local" THEN p ELSE f.koff]
  BY <1>2 DEF Sought
<1>4. /\ g \in FileRecords /\ g.ptr = p /\ g.st = f.st /\ g.kind = f.kind /\ g.append = f.append
      /\ g.buf = f.buf /\ g.want = f.want /\ g.gap = f.gap /\ g.got = f.got /\ g.pos = f.pos
      /\ (f.kind = "local" => g.koff = p)
  BY <1>1, <1>3 DEF FileRecords
<1> QED BY <1>2, <1>4 DEF OpenTrue, StringTrue, LocalTrue, EntryTrue

\* state_read and local_read.
LEMMA ReadOpen ==
    ASSUME NEW f, OpenTrue(f), f.kind \in File, NEW n \in Nat
    PROVE  OpenTrue(Read(f, n))
<1>1. f \in FileRecords
  BY DEF OpenTrue
<1>2. PICK size \in Nat : size = Size(f) /\ size <= Len(f.buf)
  BY SizeIs
<1>3. PICK place \in Nat : place = IF f.kind = "local" THEN f.koff ELSE f.ptr
  BY <1>1 DEF FileRecords
<1>4. PICK last \in Nat : last = IF place + n < Size(f) THEN place + n ELSE Size(f)
  BY <1>2
<1>5. PICK res \in Nat : res = (IF place >= Size(f) THEN 0 ELSE last - place) /\ (place + res <= size \/ res = 0)
  BY <1>2, <1>4
<1>6. PICK g : g = Read(f, n)
  OBVIOUS
<1>7. SubSeq(f.buf, place + 1, place + res) \in Contents
  <2>1. PICK b \in Contents : b = f.buf
    BY <1>1 DEF FileRecords
  <2>2. \A k \in 1 .. Len(b) : b[k] \in FileBytes
    BY ElementOfSeq DEF Contents
  <2>3. PICK lo \in Nat : lo = place + 1
    OBVIOUS
  <2>4. PICK hi \in Nat : hi = place + res
    OBVIOUS
  <2>5. Len(b) \in Nat
    BY LenProperties DEF Contents
  <2>6. \A k \in lo .. hi : b[k] \in FileBytes
    <3>1. \A k \in lo .. hi : k \in 1 .. Len(b)
      BY <1>2, <1>5, <2>1, <2>3, <2>4, <2>5
    <3> QED BY <2>2, <3>1
  <2>7. SubSeq(b, lo, hi) \in Seq(FileBytes)
    BY <2>6, SubSeqProperties
  <2> QED BY <2>1, <2>3, <2>4, <2>7 DEF Contents
<1>8. PICK ptr \in Nat, koff \in Nat, got \in Contents :
        /\ ptr = f.ptr + res /\ koff = IF f.kind = "local" THEN f.koff + res ELSE f.koff
        /\ got = SubSeq(f.buf, place + 1, place + res)
  <2>1. f.ptr + res \in Nat /\ f.koff + res \in Nat /\ f.koff \in Nat
    BY <1>1 DEF FileRecords
  <2> QED BY <1>7, <2>1
<1>9. /\ g \in FileRecords /\ g.ptr = f.ptr + res /\ g.st = f.st /\ g.kind = f.kind /\ g.append = f.append
      /\ g.buf = f.buf /\ g.want = f.want /\ g.gap = f.gap
      /\ (f.kind = "local" => g.koff = f.koff + res)
  <2>1. g = [f EXCEPT !.ptr = ptr, !.koff = koff, !.got = got, !.pos = place]
    BY <1>3, <1>4, <1>5, <1>6, <1>8 DEF Read
  <2>2. /\ g \in FileRecords /\ g.ptr = ptr /\ g.st = f.st /\ g.kind = f.kind /\ g.append = f.append
        /\ g.buf = f.buf /\ g.want = f.want /\ g.gap = f.gap /\ g.koff = koff
    BY <1>1, <2>1 DEF FileRecords
  <2> QED BY <1>8, <2>2
<1>10. g.kind \notin Dir
  BY <1>9, FileKinds
<1> QED BY <1>6, <1>9, <1>10 DEF OpenTrue, StringTrue, LocalTrue, EntryTrue

\* state_write: at the pointer, or at the end of the string.
LEMMA WritingState ==
    ASSUME NEW f, OpenTrue(f), f.kind = "state", NEW c \in FileBytes \ {"nul"}, NEW n \in Nat \ {0}
    PROVE  OpenTrue(StateWrite(f, c, n))
<1>1. f \in FileRecords
  BY DEF OpenTrue
<1>2. PICK b \in Contents : b = f.buf
  BY <1>1 DEF FileRecords
<1>3. Ended(b) /\ (~f.gap => String(b) = f.want)
  BY <1>2 DEF OpenTrue, StringTrue
<1>4. PICK l \in Nat : l = StrLen(b)
  BY <1>3, StringEnds
<1>5. PICK place \in Nat : place = IF f.append THEN StrLen(f.buf) ELSE f.ptr
  BY <1>1, <1>2, <1>4 DEF FileRecords
<1>6. PICK w : w = StateBuf(b, place, c, n)
  OBVIOUS
<1>7. Ended(w) /\ (place <= l => String(w) = PosixWrite(String(b), place, c, n))
  <2>1. CASE place + n > StrLen(b)
    BY <1>3, <1>4, <1>6, <2>1, WrittenPast
  <2>2. CASE ~(place + n > StrLen(b))
    BY <1>3, <1>6, <2>2, WrittenWithin
  <2> QED BY <2>1, <2>2
<1>8. PICK want \in Contents : want = f.want
  BY <1>1 DEF FileRecords
<1>9. PICK p \in Contents : p = PosixWrite(want, place, c, n)
  BY Posix
<1>10. PICK gap \in BOOLEAN : gap = (f.gap \/ place > l)
  BY <1>1 DEF FileRecords
<1>11. PICK g : g = StateWrite(f, c, n)
  OBVIOUS
<1>12. PICK ptr \in Nat : ptr = place + n
  OBVIOUS
<1>13. g = [f EXCEPT !.buf = w, !.ptr = ptr, !.modif = TRUE, !.gap = gap, !.want = p]
  BY <1>2, <1>4, <1>5, <1>6, <1>8, <1>9, <1>10, <1>11, <1>12 DEF StateWrite
<1>14. w \in Contents
  BY <1>7 DEF Ended
<1>15. /\ g \in FileRecords /\ g.st = f.st /\ g.kind = "state" /\ g.buf = w /\ g.want = p /\ g.gap = gap
  BY <1>1, <1>13, <1>14 DEF FileRecords
<1>16. ~gap => String(w) = p
  <2>1. ~gap => ~f.gap /\ place <= l
    <3>1. ~gap => ~(f.gap \/ place > l)
      BY <1>10, Zenon
    <3>2. ~(place > l) => place <= l
      OBVIOUS
    <3> QED BY <3>1, <3>2, Zenon
  <2>2. ~gap => String(b) = want
    BY <1>3, <1>8, <2>1
  <2> QED BY <1>7, <1>9, <2>1, <2>2
<1>17. g.kind \notin Dir
  BY <1>15, FileKinds
<1> QED BY <1>7, <1>11, <1>15, <1>16, <1>17 DEF OpenTrue, StringTrue, LocalTrue, EntryTrue

\* local_write.
LEMMA WritingLocal ==
    ASSUME NEW f, OpenTrue(f), f.kind = "local", NEW c \in FileBytes \ {"nul"}, NEW n \in Nat \ {0}
    PROVE  OpenTrue(LocalWrite(f, c, n))
<1>1. f \in FileRecords
  BY DEF OpenTrue
<1>2. PICK b \in Contents : b = f.buf
  BY <1>1 DEF FileRecords
<1>3. PICK want \in Contents : want = f.want
  BY <1>1 DEF FileRecords
<1>4. PICK place \in Nat : place = IF f.append THEN Len(f.buf) ELSE f.koff
  BY <1>1, <1>2, LenProperties DEF FileRecords, Contents
<1>5. PICK wat \in Nat : wat = IF f.append THEN Len(f.want) ELSE f.ptr
  BY <1>1, <1>3, LenProperties DEF FileRecords, Contents
<1>6. PICK w \in Contents : w = PosixWrite(b, place, c, n)
  BY Posix
<1>7. PICK p \in Contents : p = PosixWrite(want, wat, c, n)
  BY Posix
<1>8. PICK g : g = LocalWrite(f, c, n)
  OBVIOUS
<1>9. PICK ptr \in Nat : ptr = f.ptr + n
  BY <1>1 DEF FileRecords
<1>10. PICK koff \in Nat : koff = place + n
  OBVIOUS
<1>11. g = [f EXCEPT !.buf = w, !.koff = koff, !.ptr = ptr, !.want = p]
  BY <1>2, <1>3, <1>4, <1>5, <1>6, <1>7, <1>8, <1>9, <1>10 DEF LocalWrite
<1>12. /\ g \in FileRecords /\ g.st = f.st /\ g.kind = "local" /\ g.buf = w /\ g.want = p
       /\ g.append = f.append /\ g.koff = koff /\ g.ptr = ptr
  BY <1>1, <1>11 DEF FileRecords
<1>13. ASSUME ~f.append PROVE koff = ptr /\ w = p
  <2>1. place = wat /\ place = f.ptr /\ b = want
    BY <1>2, <1>3, <1>4, <1>5, <1>13 DEF OpenTrue, LocalTrue
  <2> QED BY <1>6, <1>7, <1>9, <1>10, <2>1
<1>14. g.kind \notin Dir
  BY <1>12, FileKinds
<1> QED BY <1>8, <1>12, <1>13, <1>14 DEF OpenTrue, StringTrue, LocalTrue, EntryTrue

\* state_truncate and local_truncate.
LEMMA Truncating ==
    ASSUME NEW f, OpenTrue(f), f.kind \in File, NEW n \in Nat, NEW g,
           g = [f EXCEPT !.buf = IF f.kind = "state" THEN StateCut(@, n) ELSE Resized(@, n),
                         !.modif = TRUE, !.gap = @ \/ n > Len(f.want), !.want = Resized(@, n)]
    PROVE  OpenTrue(g)
<1>1. f \in FileRecords
  BY DEF OpenTrue
<1>2. PICK b \in Contents : b = f.buf
  BY <1>1 DEF FileRecords
<1>3. PICK s \in Contents : s = f.want
  BY <1>1 DEF FileRecords
<1>4. PICK p \in Contents : p = Resized(s, n)
  BY Grown
<1>5. PICK q \in Contents : q = Resized(b, n)
  BY Grown
<1>6. PICK len \in Nat : len = Len(s)
  BY LenProperties DEF Contents
<1>7. PICK gap \in BOOLEAN : gap = (f.gap \/ n > len)
  BY <1>1 DEF FileRecords
<1>8. PICK w : w = IF f.kind = "state" THEN StateCut(b, n) ELSE q
  OBVIOUS
<1>9. f.kind = "state" => Ended(w) /\ (~gap => String(w) = p)
  <2> SUFFICES ASSUME f.kind = "state" PROVE Ended(w) /\ (~gap => String(w) = p)
    OBVIOUS
  <2>1. w = StateCut(b, n)
    BY <1>8
  <2>2. Ended(b) /\ (~f.gap => String(b) = s)
    BY <1>2, <1>3 DEF OpenTrue, StringTrue
  <2>3. Ended(w) /\ (n <= StrLen(b) => String(w) = Resized(String(b), n))
    BY <2>1, <2>2, CutOff
  <2>4. ~gap => ~f.gap /\ n <= len
    <3>1. ~gap => ~(f.gap \/ n > len)
      BY <1>7, Zenon
    <3>2. ~(n > len) => n <= len
      OBVIOUS
    <3> QED BY <3>1, <3>2, Zenon
  <2>5. ASSUME ~gap PROVE String(w) = p
    <3>1. String(b) = s
      BY <2>2, <2>4, <2>5
    <3>2. StrLen(b) = len
      BY <1>6, <2>2, <3>1, StringIs
    <3> QED BY <1>4, <2>3, <2>4, <2>5, <3>1, <3>2
  <2> QED BY <2>3, <2>5
<1>10. w \in Contents
  BY <1>5, <1>8, <1>9 DEF Ended
<1>11. g = [f EXCEPT !.buf = w, !.modif = TRUE, !.gap = gap, !.want = p]
  BY <1>2, <1>3, <1>4, <1>5, <1>6, <1>7, <1>8
<1>12. /\ g \in FileRecords /\ g.st = f.st /\ g.kind = f.kind /\ g.buf = w /\ g.want = p
       /\ g.gap = gap /\ g.append = f.append /\ g.koff = f.koff /\ g.ptr = f.ptr
  <2>1. f \in FileRecords /\ w \in Contents /\ p \in Contents /\ gap \in BOOLEAN
    BY <1>1, <1>4, <1>10
  <2> QED BY ONLY <1>11, <2>1 DEF FileRecords
<1>13. ASSUME f.kind = "local", ~f.append PROVE w = p /\ f.koff = f.ptr
  <2>1. b = s /\ f.koff = f.ptr
    BY <1>2, <1>3, <1>13 DEF OpenTrue, LocalTrue
  <2> QED BY <1>4, <1>5, <1>8, <1>13, <2>1
<1>14. g.kind \notin Dir
  BY <1>12, FileKinds
<1> QED BY <1>9, <1>12, <1>13, <1>14 DEF OpenTrue, StringTrue, LocalTrue, EntryTrue

\* state_close sets the string, which is what POSIX has.
LEMMA Closing ==
    ASSUME NEW f, OpenTrue(f), NEW g,
           g = [f EXCEPT !.st = "closed",
                         !.set = IF f.kind = "state" /\ f.modif THEN <<String(f.buf)>> ELSE <<>>]
    PROVE  SetTrue(g)
<1>1. f \in FileRecords
  BY DEF OpenTrue
<1>2. PICK set : set = IF f.kind = "state" /\ f.modif THEN <<String(f.buf)>> ELSE <<>>
  OBVIOUS
<1>3. set \in Seq(Contents) /\ (set # <<>> /\ ~f.gap => set = <<f.want>>)
  <2>1. CASE f.kind = "state" /\ f.modif
    <3>1. Ended(f.buf) /\ (~f.gap => String(f.buf) = f.want)
      BY <2>1 DEF OpenTrue, StringTrue
    <3>2. String(f.buf) \in Contents
      BY <3>1, StringIs
    <3>3. PICK s \in Contents : s = String(f.buf)
      BY <3>2
    <3>4. set = <<s>>
      BY <1>2, <2>1, <3>3
    <3>5. <<s>> \in Seq(Contents)
      OBVIOUS
    <3> QED BY <3>1, <3>3, <3>4, <3>5
  <2>2. CASE ~(f.kind = "state" /\ f.modif)
    BY <1>2, <2>2, Empty
  <2> QED BY <2>1, <2>2
<1>4. g = [f EXCEPT !.st = "closed", !.set = set]
  BY <1>2
<1>5. /\ g \in FileRecords /\ g.st = "closed" /\ g.set = set /\ g.gap = f.gap /\ g.want = f.want
  BY <1>1, <1>3, <1>4 DEF FileRecords
<1> QED BY <1>3, <1>5 DEF SetTrue

\* The entry that is read is the one the pointer is place: local_readdir never begins behind it.
LEMMA ReadingEntry ==
    ASSUME OpenTrue(of), av_file_readdir
    PROVE  OpenTrue(of')
<1>1. of \in FileRecords /\ of.st = "open" /\ of.kind \in Dir
  BY DEF OpenTrue, av_file_readdir, Is
<1>2. PICK ptr \in Nat, entctr \in Nat, len \in Nat : ptr = of.ptr /\ entctr = of.entctr /\ len = Len(DirEntries)
  BY <1>1, FileAssumption, LenProperties DEF FileRecords
<1>3. PICK read \in Nat : read = ptr + 1
  OBVIOUS
<1>4. (IF of.ptr < Rewound(of) THEN Rewound(of) + 1 ELSE of.ptr + 1) = read
  BY <1>2, <1>3 DEF Rewound
<1>5. \/ of' = [of EXCEPT !.got = <<>>, !.pos = @]
      \/ read <= len /\ of' = [of EXCEPT !.got = <<DirEntries[read]>>, !.pos = ptr, !.ptr = read]
      \/ of' = [of EXCEPT !.got = <<>>, !.entctr = len]
      \/ read <= len /\ of' = [of EXCEPT !.got = <<DirEntries[read]>>, !.pos = ptr, !.entctr = read, !.ptr = read]
  <2>1. CASE of.ptr >= Len(DirEntries) /\ of.kind = "statedir"
    BY <2>1 DEF av_file_readdir
  <2>2. CASE ~(of.ptr >= Len(DirEntries)) /\ of.kind = "statedir"
    <3>1. of' = [of EXCEPT !.got = <<DirEntries[of.ptr + 1]>>, !.pos = of.ptr, !.ptr = of.ptr + 1]
      BY <2>2 DEF av_file_readdir
    <3>2. read <= len
      BY <1>2, <1>3, <2>2
    <3> QED BY <1>2, <1>3, <3>1, <3>2
  <2>3. CASE of.kind # "statedir"
    <3>1. of' = IF read > Len(DirEntries) THEN [of EXCEPT !.got = <<>>, !.entctr = Len(DirEntries)]
                ELSE [of EXCEPT !.got = <<DirEntries[read]>>, !.pos = of.ptr, !.entctr = read, !.ptr = of.ptr + 1]
      BY <1>4, <2>3 DEF av_file_readdir
    <3>2. read > len \/ read <= len
      OBVIOUS
    <3> QED BY <1>2, <1>3, <3>1, <3>2
  <2> QED BY <2>1, <2>2, <2>3
<1>6. read <= len => <<DirEntries[read]>> \in DirLists
  <2> SUFFICES ASSUME read <= len PROVE <<DirEntries[read]>> \in DirLists
    OBVIOUS
  <2>1. read \in 1 .. len
    BY <1>3
  <2>2. DirEntries[read] \in Range(DirEntries)
    BY <1>2, <2>1, FileAssumption, ElementOfSeq
  <2> QED BY <2>2 DEF DirLists
<1>7. PICK g : g = of'
  OBVIOUS
<1>8. of.kind \notin {"state", "local"}
  BY <1>1, FileKinds
<1>9. CASE g = [of EXCEPT !.got = <<>>, !.pos = @]
  <2>1. g \in FileRecords /\ g.st = "open" /\ g.kind = of.kind /\ g.got = <<>>
    BY <1>1, <1>9, Empty DEF FileRecords
  <2> QED BY <1>7, <1>8, <2>1 DEF OpenTrue, StringTrue, LocalTrue, EntryTrue
<1>10. CASE g = [of EXCEPT !.got = <<>>, !.entctr = len]
  <2>1. g \in FileRecords /\ g.st = "open" /\ g.kind = of.kind /\ g.got = <<>>
    BY <1>1, <1>10, Empty DEF FileRecords
  <2> QED BY <1>7, <1>8, <2>1 DEF OpenTrue, StringTrue, LocalTrue, EntryTrue
<1>11. CASE read <= len /\ g = [of EXCEPT !.got = <<DirEntries[read]>>, !.pos = ptr, !.ptr = read]
  <2>1. PICK e \in DirLists : e = <<DirEntries[read]>>
    BY <1>6, <1>11
  <2>2. g \in FileRecords /\ g.st = "open" /\ g.kind = of.kind /\ g.got = e /\ g.pos = ptr
    BY <1>1, <1>11, <2>1 DEF FileRecords
  <2> QED BY <1>3, <1>7, <1>8, <2>1, <2>2 DEF OpenTrue, StringTrue, LocalTrue, EntryTrue
<1>12. CASE read <= len /\ g = [of EXCEPT !.got = <<DirEntries[read]>>, !.pos = ptr, !.entctr = read, !.ptr = read]
  <2>1. PICK e \in DirLists : e = <<DirEntries[read]>>
    BY <1>6, <1>12
  <2>2. g \in FileRecords /\ g.st = "open" /\ g.kind = of.kind /\ g.got = e /\ g.pos = ptr
    BY <1>1, <1>12, <2>1 DEF FileRecords
  <2> QED BY <1>3, <1>7, <1>8, <2>1, <2>2 DEF OpenTrue, StringTrue, LocalTrue, EntryTrue
<1> QED BY <1>5, <1>7, <1>9, <1>10, <1>11, <1>12

\* The inductive invariant.
OpenFilesInv == OpenTrue(of) \/ SetTrue(of)

\* The invariant of the open files holds at the start.
LEMMA FilesStart == ASSUME FilesInit PROVE OpenFilesInv
<1>1. PICK f : f = NewlyOpened("state", FALSE, FALSE, FALSE, <<>>)
  OBVIOUS
<1>2. "state" \in File \cup Dir
  BY FileKinds
<1>3. OpenTrue(f)
  BY <1>1, <1>2, Opened
<1>4. of = [f EXCEPT !.st = "closed"] /\ f.set = <<>>
  BY <1>1 DEF FilesInit, NewlyOpened
<1>5. of \in FileRecords /\ of.st = "closed" /\ of.set = <<>>
  BY <1>3, <1>4 DEF OpenTrue, FileRecords
<1> QED BY <1>5 DEF OpenFilesInv, SetTrue

\* Every step keeps the invariant of the open files.
LEMMA FilesStep == ASSUME OpenFilesInv, [FilesNext]_of PROVE OpenFilesInv'
<1>1. ASSUME of' = of PROVE OpenFilesInv'
  <2>1. OpenTrue(of) => OpenTrue(of')
    BY <1>1
  <2>2. SetTrue(of) => SetTrue(of')
    BY <1>1
  <2> QED BY <2>1, <2>2 DEF OpenFilesInv
<1>2. ASSUME OpenTrue(of') PROVE OpenFilesInv'
  BY <1>2 DEF OpenFilesInv
<1>3. of.st = "open" => OpenTrue(of)
  BY DEF OpenFilesInv, SetTrue
<1>4. "a" \in FileBytes \ {"nul"} /\ "b" \in FileBytes \ {"nul"}
  BY Empty
<1>5. ASSUME OpenTrue(of), NEW f \in Moves(of)
      PROVE  OpenTrue(f) /\ f.kind = of.kind
  <2>1. CASE f = of
    BY <1>5, <2>1
  <2>2. ASSUME NEW p \in 0 .. MaxFileLen, f = Sought(of, p) PROVE OpenTrue(f) /\ f.kind = of.kind
    <3>1. p \in Nat
      BY FileAssumption
    <3>2. \A x \in {"kind", "buf", "append"} : Sought(of, p)[x] = of[x]
      BY <1>5, <3>1, Seeking
    <3>3. OpenTrue(Sought(of, p))
      BY <1>5, <3>1, Seeking
    <3>4. Sought(of, p)["kind"] = of["kind"]
      BY <3>2
    <3> QED BY <2>2, <3>3, <3>4
  <2> QED BY <1>5, <2>1, <2>2 DEF Moves
<1>6. ASSUME AvOpen PROVE OpenTrue(of')
  <2>1. PICK kind \in {"state", "local"}, write \in BOOLEAN, append \in BOOLEAN, trunc \in BOOLEAN, v \in FileValues :
          of' = NewlyOpened(kind, write, append, trunc, v)
    BY <1>6 DEF AvOpen
  <2>2. kind \in File \cup Dir /\ v \in FileValues \cup {<<>>}
    BY FileKinds
  <2> QED BY <2>1, <2>2, Opened
<1>7. ASSUME OpenDir PROVE OpenTrue(of')
  <2>1. PICK kind \in {"statedir", "localdir"} : of' = NewlyOpened(kind, FALSE, FALSE, FALSE, <<>>)
    BY <1>7 DEF OpenDir
  <2>2. kind \in File \cup Dir
    BY FileKinds
  <2> QED BY <2>1, <2>2, Opened
<1>8. ASSUME av_file_read PROVE OpenTrue(of')
  <2>1. PICK f \in Moves(of), n \in 1 .. 2 : of' = Read(f, n)
    BY <1>8 DEF av_file_read
  <2>2. OpenTrue(of) /\ of.kind \in File
    BY <1>3, <1>8 DEF av_file_read, Is
  <2>3. OpenTrue(f) /\ f.kind \in File /\ n \in Nat
    BY <1>5, <2>2
  <2> QED BY <2>1, <2>3, ReadOpen
<1>9. ASSUME av_file_write PROVE OpenTrue(of')
  <2>1. PICK f \in Moves(of), c \in {"a", "b"}, n \in 1 .. 2 :
          of' = IF f.kind = "state" THEN StateWrite(f, c, n) ELSE LocalWrite(f, c, n)
    BY <1>9 DEF av_file_write
  <2>2. OpenTrue(of) /\ of.kind \in File
    BY <1>3, <1>9 DEF av_file_write, Is
  <2>3. OpenTrue(f) /\ f.kind \in {"state", "local"}
    BY <1>5, <2>2, FileKinds
  <2>4. c \in FileBytes \ {"nul"} /\ n \in Nat \ {0}
    BY <1>4
  <2>5. CASE f.kind = "state"
    BY <2>1, <2>3, <2>4, <2>5, WritingState
  <2>6. CASE f.kind = "local"
    BY <2>1, <2>3, <2>4, <2>6, WritingLocal
  <2> QED BY <2>3, <2>5, <2>6
<1>10. ASSUME av_file_truncate PROVE OpenTrue(of')
  <2>1. PICK n \in 0 .. MaxFileLen :
          of' = [of EXCEPT !.buf = IF of.kind = "state" THEN StateCut(@, n) ELSE Resized(@, n),
                           !.modif = TRUE, !.gap = @ \/ n > Len(of.want), !.want = Resized(@, n)]
    BY <1>10 DEF av_file_truncate
  <2>2. OpenTrue(of) /\ of.kind \in File
    BY <1>3, <1>10 DEF av_file_truncate, Is
  <2>3. n \in Nat
    BY FileAssumption
  <2> QED BY <2>1, <2>2, <2>3, Truncating
<1>11. ASSUME av_file_lseek PROVE OpenTrue(of')
  <2>1. OpenTrue(of)
    BY <1>3, <1>11 DEF av_file_lseek, Is
  <2>2. PICK off \in -MaxFileLen .. MaxFileLen, from \in {0, of.ptr, Size(of)} :
          from + off \in 0 .. MaxFileLen /\ of' = Sought(of, from + off)
    BY <1>11 DEF av_file_lseek
  <2>3. PICK p \in Nat : p = from + off
    BY <2>2, FileAssumption
  <2> QED BY <2>1, <2>2, <2>3, Seeking
<1>12. ASSUME AvClose PROVE SetTrue(of')
  <2>1. OpenTrue(of)
    BY <1>3, <1>12 DEF AvClose, Is
  <2>2. of' = [of EXCEPT !.st = "closed",
                         !.set = IF of.kind = "state" /\ of.modif THEN <<String(of.buf)>> ELSE <<>>]
    BY <1>12 DEF AvClose
  <2> QED BY <2>1, <2>2, Closing
<1>13. ASSUME av_file_readdir PROVE OpenTrue(of')
  <2>1. OpenTrue(of)
    BY <1>3, <1>13 DEF av_file_readdir, Is
  <2> QED BY <1>13, <2>1, ReadingEntry
<1>14. ASSUME SeekDir PROVE OpenTrue(of')
  <2>1. OpenTrue(of) /\ of.kind \in Dir /\ of \in FileRecords
    BY <1>3, <1>14 DEF SeekDir, Is, OpenTrue
  <2>2. PICK p \in 0 .. Len(DirEntries) + 1 : of' = [of EXCEPT !.ptr = p, !.got = <<>>]
    BY <1>14 DEF SeekDir
  <2>3. p \in Nat
    BY FileAssumption, LenProperties
  <2>4. PICK g : g = of'
    OBVIOUS
  <2>5. g \in FileRecords /\ g.st = of.st /\ g.kind = of.kind /\ g.got = <<>>
    BY <2>1, <2>2, <2>3, <2>4, Empty DEF FileRecords
  <2> QED BY <2>1, <2>4, <2>5, FileKinds DEF OpenTrue, StringTrue, LocalTrue, EntryTrue
<1>15. ASSUME SetTrue(of') PROVE OpenFilesInv'
  BY <1>15 DEF OpenFilesInv
<1> QED BY <1>1, <1>2, <1>6, <1>7, <1>8, <1>9, <1>10, <1>11, <1>12, <1>13, <1>14, <1>15 DEF FilesNext

\* The invariant of the open files implies what is read and written.
LEMMA FilesHold == ASSUME OpenFilesInv PROVE OpenFileTrue
<1>1. CASE SetTrue(of)
  BY <1>1 DEF SetTrue, OpenFileTrue
<1>2. CASE OpenTrue(of)
  <2>1. of.kind = "state" => (\E n \in DOMAIN of.buf : of.buf[n] = "nul") /\ (~of.gap => String(of.buf) = of.want)
    BY <1>2 DEF OpenTrue, StringTrue, Ended
  <2> QED BY <1>2, <2>1 DEF OpenTrue, LocalTrue, EntryTrue, OpenFileTrue
<1> QED BY <1>1, <1>2 DEF OpenFilesInv

\* Whatever is read, written, appended, truncated and sought in whatever order by state.c and
\* local.c, the file is what POSIX has after the same calls as long as nothing was written behind
\* its end, the value that state_close sets is all of it, and a directory is read entry by entry.
THEOREM OpenFilesCorrect == FilesInit /\ [][FilesNext]_of => []OpenFileTrue
<1>1. FilesInit => OpenFilesInv
  BY FilesStart
<1>2. OpenFilesInv /\ [FilesNext]_of => OpenFilesInv'
  BY FilesStep
<1>3. OpenFilesInv => OpenFileTrue
  BY FilesHold
<1> QED BY <1>1, <1>2, <1>3, PTL

----------------------------------------------------------------------------
(* The volatile files: volatile.c.  A step first takes a reference, changes *)
(* the entries and the nodes, and then drops one: between its parts the     *)
(* counts are those that there are and one more, of entry x or of node m.   *)

VEntryNames == VolNames \cup {"", "/"}
VEntryType == [refs : Nat, name : VEntryNames, node : 0 .. MaxVolNodes, parent : 0 .. MaxVolEntries]
VNodeType == [refs : Nat, kind : {"none", "file", "dir", "link"}, nlink : Int, size : Nat,
              subdir : Seq(VEntries), parent : 0 .. MaxVolEntries]
VolWorlds == [e : [VEntries -> VEntryType], n : [VNodes -> VNodeType], crash : BOOLEAN]

\* Those who refer to an entry or to a node.
HandsOn(h, x) == {u \in VolHands : h[u] = x}
Below(e, x) == {y \in VEntries : e[y].parent = x}
NamesOf(e, k) == {y \in VEntries : e[y].node = k}
OpensOf(f, k) == {g \in VolFiles : f[g].node = k}

\* The counts of the entries e and the nodes n are right, when the users hold h, and f is
\* open; but that x, if it is an entry, has one reference more, and so has the node m.
EntryCounts(e, h, x) ==
    \A y \in VEntries : e[y].refs = Cardinality(HandsOn(h, y)) + Cardinality(Below(e, y))
                                      + One(e[y].node # 0) + One(y = VRoot) + One(y = x)
NodeCounts(e, n, f, m) ==
    \A k \in VNodes : n[k].refs = Cardinality(NamesOf(e, k)) + Cardinality(OpensOf(f, k)) + One(k = m)
LinkCounts(e, n) ==
    \A k \in VNodes : n[k].kind \in {"file", "link"} => n[k].nlink = Cardinality(NamesOf(e, k))
FreeIsBare(e) == \A y \in VEntries : e[y].refs = 0 => e[y].parent = 0

VolSafe(w, h, f, x, m) ==
    /\ w \in VolWorlds
    /\ EntryCounts(w.e, h, x) /\ FreeIsBare(w.e) /\ NodeCounts(w.e, w.n, f, m) /\ LinkCounts(w.e, w.n)

----
\* The entries and the nodes are finitely many numbers, and the root is one.
LEMMA VolFinite ==
    /\ IsFiniteSet(VEntries) /\ IsFiniteSet(VNodes) /\ VRoot \in VEntries /\ 1 \in VNodes
    /\ VEntries \subseteq Nat \ {0} /\ VNodes \subseteq Nat \ {0}
    /\ VEntries \cup {0} = 0 .. MaxVolEntries /\ VNodes \cup {0} = 0 .. MaxVolNodes
<1>1. MaxVolEntries \in Nat \ {0} /\ MaxVolNodes \in Nat \ {0}
  BY VolatileAssumption
<1>2. IsFiniteSet(1 .. MaxVolEntries) /\ IsFiniteSet(1 .. MaxVolNodes)
  BY <1>1, FS_Interval
<1> QED BY <1>1, <1>2 DEF VEntries, VNodes, VRoot

\* The least of numbers is one of them.
LEMMA LeastIs ==
    ASSUME NEW S \in SUBSET Nat, S # {}
    PROVE  VLeast(S) \in S
<1>1. \E x \in S : \A y \in S : x <= y
  BY FirstPosition
<1> QED BY <1>1 DEF VLeast

\* What refers to an entry or a node is counted, and the count follows one change.
LEMMA BelowCount ==
    ASSUME NEW e, NEW x
    PROVE  /\ IsFiniteSet(Below(e, x)) /\ Cardinality(Below(e, x)) \in Nat
           /\ (\E y \in VEntries : e[y].parent = x) => Cardinality(Below(e, x)) > 0
<1>1. Below(e, x) \subseteq VEntries
  BY DEF Below
<1>2. IsFiniteSet(Below(e, x))
  BY <1>1, VolFinite, PartIsFinite
<1>3. (\E y \in VEntries : e[y].parent = x) => Below(e, x) # {}
  BY DEF Below
<1> QED BY <1>2, <1>3, CountIsNat

\* One entry has another parent: the counts of those below an entry follow.
LEMMA BelowChanges ==
    ASSUME NEW d, NEW e, NEW z \in VEntries, \A y \in VEntries : y # z => e[y].parent = d[y].parent, NEW x
    PROVE  Cardinality(Below(e, x)) = Cardinality(Below(d, x)) + One(e[z].parent = x) - One(d[z].parent = x)
<1> DEFINE A == Below(d, x)
           B == Below(e, x)
<1>1. A \ {z} = B \ {z}
  BY DEF Below
<1>2. (z \in A <=> d[z].parent = x) /\ (z \in B <=> e[z].parent = x)
  BY DEF Below
<1>3. IsFiniteSet(A)
  BY BelowCount
<1> HIDE DEF A, B
<1>4. Cardinality(B) = Cardinality(A) + One(z \in B) - One(z \in A)
  BY <1>1, <1>3, OneChanges
<1> QED BY <1>2, <1>4 DEF One, A, B

\* The names of a node are finitely many.
LEMMA NamesCount ==
    ASSUME NEW e, NEW k
    PROVE  /\ IsFiniteSet(NamesOf(e, k)) /\ Cardinality(NamesOf(e, k)) \in Nat
           /\ \A y \in VEntries : e[y].node = k => Cardinality(NamesOf(e, k)) > 0
<1>1. NamesOf(e, k) \subseteq VEntries
  BY DEF NamesOf
<1>2. IsFiniteSet(NamesOf(e, k))
  BY <1>1, VolFinite, PartIsFinite
<1>3. \A y \in VEntries : e[y].node = k => NamesOf(e, k) # {}
  BY DEF NamesOf
<1> QED BY <1>2, <1>3, CountIsNat

\* One entry names another node: the counts of names follow.
LEMMA NamesChange ==
    ASSUME NEW d, NEW e, NEW z \in VEntries, \A y \in VEntries : y # z => e[y].node = d[y].node, NEW k
    PROVE  Cardinality(NamesOf(e, k)) = Cardinality(NamesOf(d, k)) + One(e[z].node = k) - One(d[z].node = k)
<1> DEFINE A == NamesOf(d, k)
           B == NamesOf(e, k)
<1>1. A \ {z} = B \ {z}
  BY DEF NamesOf
<1>2. (z \in A <=> d[z].node = k) /\ (z \in B <=> e[z].node = k)
  BY DEF NamesOf
<1>3. IsFiniteSet(A)
  BY NamesCount
<1> HIDE DEF A, B
<1>4. Cardinality(B) = Cardinality(A) + One(z \in B) - One(z \in A)
  BY <1>1, <1>3, OneChanges
<1> QED BY <1>2, <1>4 DEF One, A, B

\* The hands on an entry are finitely many.
LEMMA HandsCount ==
    ASSUME NEW h, NEW x
    PROVE  /\ IsFiniteSet(HandsOn(h, x)) /\ Cardinality(HandsOn(h, x)) \in Nat
           /\ \A u \in VolHands : h[u] = x => Cardinality(HandsOn(h, x)) > 0
<1>1. HandsOn(h, x) \subseteq VolHands
  BY DEF HandsOn
<1>2. IsFiniteSet(HandsOn(h, x))
  BY <1>1, VolatileAssumption, PartIsFinite
<1>3. \A u \in VolHands : h[u] = x => HandsOn(h, x) # {}
  BY DEF HandsOn
<1> QED BY <1>2, <1>3, CountIsNat

\* A user takes another entry in hand.
Handed(h, u, z) == [h EXCEPT ![u] = z]

\* One hand takes something else: the counts of hands follow.
LEMMA HandsChange ==
    ASSUME NEW h \in [VolHands -> VEntries \cup {0}], NEW u \in VolHands, NEW z, NEW x
    PROVE  Cardinality(HandsOn(Handed(h, u, z), x)) = Cardinality(HandsOn(h, x)) + One(z = x) - One(h[u] = x)
<1> DEFINE A == HandsOn(h, x)
           B == HandsOn(Handed(h, u, z), x)
<1>1. A \ {u} = B \ {u}
  BY DEF HandsOn, Handed
<1>2. (u \in A <=> h[u] = x) /\ (u \in B <=> z = x)
  BY DEF HandsOn, Handed
<1>3. IsFiniteSet(A)
  BY HandsCount
<1> HIDE DEF A, B
<1>4. Cardinality(B) = Cardinality(A) + One(u \in B) - One(u \in A)
  BY <1>1, <1>3, OneChanges
<1> QED BY <1>2, <1>4 DEF One, A, B

\* The open files of a node are finitely many.
LEMMA OpensCount ==
    ASSUME NEW f, NEW k
    PROVE  /\ IsFiniteSet(OpensOf(f, k)) /\ Cardinality(OpensOf(f, k)) \in Nat
           /\ \A g \in VolFiles : f[g].node = k => Cardinality(OpensOf(f, k)) > 0
<1>1. OpensOf(f, k) \subseteq VolFiles
  BY DEF OpensOf
<1>2. IsFiniteSet(OpensOf(f, k))
  BY <1>1, VolatileAssumption, PartIsFinite
<1>3. \A g \in VolFiles : f[g].node = k => OpensOf(f, k) # {}
  BY DEF OpensOf
<1> QED BY <1>2, <1>3, CountIsNat

\* Only the file g may have another node.
OthersOpen(f, b, g) == \A a \in VolFiles : a # g => b[a].node = f[a].node

\* One file is of another node: the counts of open files follow.
LEMMA OpensChange ==
    ASSUME NEW f, NEW b, NEW g \in VolFiles, OthersOpen(f, b, g), NEW k
    PROVE  Cardinality(OpensOf(b, k)) = Cardinality(OpensOf(f, k)) + One(b[g].node = k) - One(f[g].node = k)
<1> DEFINE A == OpensOf(f, k)
           B == OpensOf(b, k)
<1>1. A \ {g} = B \ {g}
  BY DEF OpensOf, OthersOpen
<1>2. (g \in A <=> f[g].node = k) /\ (g \in B <=> b[g].node = k)
  BY DEF OpensOf
<1>3. IsFiniteSet(A)
  BY OpensCount
<1> HIDE DEF A, B
<1>4. Cardinality(B) = Cardinality(A) + One(g \in B) - One(g \in A)
  BY <1>1, <1>3, OneChanges
<1> QED BY <1>2, <1>4 DEF One, A, B

----
\* A list without some entries is a list.
LEMMA UnlistedType ==
    ASSUME NEW S, NEW list \in Seq(S), NEW G
    PROVE  vol_unlisted(list, G) \in Seq(S)
<1> DEFINE K == {i \in DOMAIN list : list[i] \notin G}
           Rank(i) == Cardinality({k \in K : k =< i})
           c == Cardinality(K)
           F == [i \in K |-> Rank(i)]
<1>1. K \subseteq 1 .. Len(list) /\ Len(list) \in Nat
  OBVIOUS
<1>2. IsFiniteSet(K) /\ c \in Nat
  <2> HIDE DEF K
  <2>1. IsFiniteSet(1 .. Len(list))
    BY <1>1, FS_Interval
  <2> QED BY <1>1, <2>1, FS_Subset, FS_CardinalityType
<1>3. ASSUME NEW i \in K
      PROVE  /\ IsFiniteSet({k \in K : k =< i}) /\ Rank(i) \in 1 .. c
  <2> DEFINE L == {k \in K : k =< i}
  <2>1. L \subseteq K /\ i \in L
    BY <1>1, <1>3
  <2> HIDE DEF L
  <2>2. IsFiniteSet(L) /\ Cardinality(L) \in Nat /\ Cardinality(L) =< c /\ Cardinality(L) # 0
    BY <1>2, <2>1, FS_Subset, FS_CardinalityType, FS_EmptySet
  <2> QED BY <1>2, <2>2 DEF L
<1>4. ASSUME NEW i \in K, NEW j \in K, i < j PROVE Rank(i) < Rank(j)
  <2> DEFINE L == {k \in K : k =< i}
             M == {k \in K : k =< j}
  <2>1. L \subseteq M /\ j \in M /\ j \notin L
    BY <1>1, <1>4
  <2>2. IsFiniteSet(M)
    BY <1>3
  <2> HIDE DEF L, M
  <2>3. L \subseteq M \ {j}
    BY <2>1
  <2>4. IsFiniteSet(M \ {j}) /\ Cardinality(M \ {j}) = Cardinality(M) - 1
    BY <2>1, <2>2, FS_RemoveElement
  <2>5. Cardinality(L) =< Cardinality(M \ {j}) /\ Cardinality(L) \in Nat /\ Cardinality(M) \in Nat
    BY <2>2, <2>3, <2>4, FS_Subset, FS_CardinalityType
  <2>6. Cardinality(L) < Cardinality(M)
    BY <2>4, <2>5
  <2> QED BY <2>6 DEF L, M
<1> HIDE DEF Rank, c, K
<1>5. F \in Injection(K, 1 .. c)
  <2>1. F \in [K -> 1 .. c]
    BY <1>3
  <2>2. ASSUME NEW i \in K, NEW j \in K, F[i] = F[j] PROVE i = j
    <3>1. i \in Nat /\ j \in Nat /\ Rank(i) = Rank(j)
      BY <1>1, <2>2
    <3>2. Rank(i) \in 1 .. c /\ Rank(j) \in 1 .. c
      BY <1>3
    <3>4. Rank(i) \in Nat /\ Rank(j) \in Nat
      BY <1>2, <3>2
    <3>5. ~(i < j) /\ ~(j < i)
      BY <1>4, <3>1, <3>4
    <3> QED BY <3>1, <3>5
  <2> HIDE DEF F
  <2> QED BY <2>1, <2>2 DEF Injection, IsInjective
<1>6. \A j \in 1 .. c : \E i \in K : Rank(i) = j
  <2>1. IsFiniteSet(1 .. c) /\ Cardinality(1 .. c) = c
    BY <1>2, FS_Interval
  <2>2. Cardinality(K) = Cardinality(1 .. c)
    BY <2>1 DEF c
  <2> HIDE DEF F
  <2>3. F \in Surjection(K, 1 .. c)
    BY <1>5, <2>1, <2>2, FS_Injection
  <2>4. \A j \in 1 .. c : \E i \in K : F[i] = j
    BY <2>3 DEF Surjection
  <2> QED BY <2>4 DEF F
<1> DEFINE At(j) == list[CHOOSE i \in K : Rank(i) = j]
<1>7. ASSUME NEW j \in 1 .. c PROVE At(j) \in S
  <2>1. (CHOOSE i \in K : Rank(i) = j) \in K
    BY <1>6, <1>7
  <2>2. PICK i : i = CHOOSE a \in K : Rank(a) = j
    OBVIOUS
  <2>3. i \in 1 .. Len(list)
    BY <1>1, <2>1, <2>2
  <2>4. list[i] \in S
    BY <2>3
  <2> QED BY <2>2, <2>4
<1>8. vol_unlisted(list, G) = [j \in 1 .. c |-> At(j)]
  BY DEF vol_unlisted, c, Rank, K
<1> HIDE DEF At
<1>9. [j \in 1 .. c |-> At(j)] \in Seq(S)
  BY <1>2, <1>7
<1> QED BY <1>8, <1>9

\* What goes with a reference of x: the least of the sets that are closed upwards.
LEMMA GoneIsLeast ==
    ASSUME NEW w \in VolWorlds, NEW x \in VEntries
    PROVE  /\ Gone(w, x) \subseteq VEntries
           /\ GoesUp(w, x, Gone(w, x))
           /\ \A s \in SUBSET VEntries : GoesUp(w, x, s) => Gone(w, x) \subseteq s
<1>1. Gone(w, x) \subseteq VEntries /\ \A s \in SUBSET VEntries : GoesUp(w, x, s) => Gone(w, x) \subseteq s
  BY DEF Gone
<1>2. LastRef(w, x) => x \in Gone(w, x)
  BY DEF Gone, GoesUp
<1>3. ASSUME NEW y \in Gone(w, x), w.e[y].parent # 0, LastRef(w, w.e[y].parent)
      PROVE  w.e[y].parent \in Gone(w, x)
  <2>1. PICK p : p = w.e[y].parent
    OBVIOUS
  <2>2. y \in VEntries /\ w.e[y] \in VEntryType
    BY <1>1, <1>3 DEF VolWorlds
  <2>3. p \in VEntries
    BY <1>3, <2>1, <2>2, VolFinite DEF VEntryType
  <2>4. ASSUME NEW s \in SUBSET VEntries, GoesUp(w, x, s) PROVE p \in s
    <3>1. y \in s
      BY <1>1, <1>3, <2>4
    <3> QED BY <1>3, <2>1, <2>4, <3>1 DEF GoesUp
  <2> QED BY <2>1, <2>3, <2>4 DEF Gone
<1> QED BY <1>1, <1>2, <1>3 DEF GoesUp

\* What is gone are entries with one reference at most; each but x is the parent of a gone one.
LEMMA GoneFacts ==
    ASSUME NEW w \in VolWorlds, NEW x \in VEntries, NEW G, G = Gone(w, x)
    PROVE  /\ G \subseteq VEntries
           /\ x \in G <=> w.e[x].refs =< 1
           /\ x \notin G => G = {}
           /\ \A y \in G : w.e[y].refs =< 1 /\ (y # x => \E z \in G : w.e[z].parent = y)
           /\ \A y \in G : w.e[y].parent # 0 /\ w.e[w.e[y].parent].refs =< 1 => w.e[y].parent \in G
<1>1. /\ G \subseteq VEntries /\ GoesUp(w, x, G)
      /\ \A s \in SUBSET VEntries : GoesUp(w, x, s) => G \subseteq s
  BY GoneIsLeast
<1>2. \A y \in G : w.e[y].refs =< 1
  <2> DEFINE s == {y \in VEntries : w.e[y].refs =< 1}
  <2>1. ASSUME NEW y \in s, w.e[y].parent # 0, w.e[w.e[y].parent].refs =< 1
        PROVE  w.e[y].parent \in VEntries
    <3>1. w.e[y] \in VEntryType
      BY DEF VolWorlds
    <3> QED BY <2>1, <3>1, VolFinite DEF VEntryType
  <2>2. GoesUp(w, x, s)
    BY <2>1 DEF GoesUp, LastRef
  <2>3. s \in SUBSET VEntries
    OBVIOUS
  <2>4. G \subseteq s
    BY <1>1, <2>2, <2>3
  <2> QED BY <2>4
<1>3. x \in G <=> w.e[x].refs =< 1
  BY <1>1, <1>2 DEF GoesUp, LastRef
<1>4. x \notin G => G = {}
  <2>1. x \notin G => GoesUp(w, x, {})
    BY <1>1 DEF GoesUp
  <2>2. x \notin G => G \subseteq {}
    BY <1>1, <2>1
  <2> QED BY <2>2
<1>5. ASSUME NEW y \in G, y # x PROVE \E z \in G : w.e[z].parent = y
  <2> SUFFICES ASSUME \A z \in G : w.e[z].parent # y PROVE FALSE
    OBVIOUS
  <2>1. GoesUp(w, x, G \ {y})
    BY <1>1, <1>5 DEF GoesUp
  <2>2. G \ {y} \in SUBSET VEntries
    BY <1>1
  <2>3. G \subseteq G \ {y}
    BY <1>1, <2>1, <2>2
  <2> QED BY <1>5, <2>3
<1>6. \A y \in G : w.e[y].parent # 0 /\ w.e[w.e[y].parent].refs =< 1 => w.e[y].parent \in G
  BY <1>1 DEF GoesUp, LastRef
<1> QED BY <1>1, <1>2, <1>3, <1>4, <1>5, <1>6

\* What goes is held by nobody and has no node, and nothing below it stays; and
\* the parent of only one of those that go stays.
LEMMA GoneSafe ==
    ASSUME NEW w, NEW h, NEW f, NEW x \in VEntries, NEW m, VolSafe(w, h, f, x, m), NEW G, G = Gone(w, x)
    PROVE  /\ \A y \in G : w.e[y].node = 0
           /\ \A y \in G : y # VRoot
           /\ \A y \in G : Cardinality(HandsOn(h, y)) = 0
           /\ \A y \in G : Below(w.e, y) \subseteq G
           /\ \A y, z \in G : w.e[y].parent \notin G /\ w.e[z].parent \notin G => y = z
<1>1. w \in VolWorlds /\ EntryCounts(w.e, h, x)
  BY DEF VolSafe
<1>2. /\ G \subseteq VEntries
      /\ x \in G <=> w.e[x].refs =< 1
      /\ x \notin G => G = {}
      /\ \A y \in G : w.e[y].refs =< 1 /\ (y # x => \E z \in G : w.e[z].parent = y)
  BY <1>1, GoneFacts
<1>3. ASSUME NEW y \in G
      PROVE  /\ y \in VEntries /\ w.e[y].node = 0 /\ y # VRoot
             /\ Cardinality(HandsOn(h, y)) = 0 /\ Below(w.e, y) \subseteq G
  <2>1. PICK a, b, c, r, o :
          /\ a = Cardinality(HandsOn(h, y)) /\ b = Cardinality(Below(w.e, y))
          /\ c = One(w.e[y].node # 0) /\ r = One(y = VRoot) /\ o = One(y = x)
    OBVIOUS
  <2>2. y \in VEntries /\ w.e[y].refs = a + b + c + r + o /\ w.e[y].refs =< 1
    BY <1>1, <1>2, <1>3, <2>1 DEF EntryCounts
  <2>3. a \in Nat /\ b \in Nat /\ c \in {0, 1} /\ r \in {0, 1} /\ o \in {0, 1}
    BY <2>1, HandsCount, BelowCount DEF One
  <2>4. CASE y = x
    <3>1. o = 1
      BY <2>1, <2>4 DEF One
    <3>2. a = 0 /\ b = 0 /\ c = 0 /\ r = 0
      BY <2>2, <2>3, <3>1
    <3>3. w.e[y].node = 0 /\ y # VRoot
      BY <2>1, <3>2 DEF One
    <3>4. Below(w.e, y) = {}
      BY <2>1, <3>2, BelowCount, FS_EmptySet
    <3> QED BY <2>1, <2>2, <3>2, <3>3, <3>4
  <2>5. CASE y # x
    <3>1. PICK z \in G : w.e[z].parent = y
      BY <1>2, <2>5
    <3>2. z \in Below(w.e, y)
      BY <1>2, <3>1 DEF Below
    <3>3. b > 0
      BY <1>2, <2>1, <3>1, BelowCount
    <3>4. a = 0 /\ b = 1 /\ c = 0 /\ r = 0
      BY <2>2, <2>3, <3>3
    <3>5. w.e[y].node = 0 /\ y # VRoot
      BY <2>1, <3>4 DEF One
    <3>6. \E v : Below(w.e, y) = {v}
      BY <2>1, <3>4, BelowCount, FS_Singleton
    <3>7. Below(w.e, y) \subseteq G
      BY <3>1, <3>2, <3>6
    <3> QED BY <2>1, <2>2, <3>4, <3>5, <3>7
  <2> QED BY <2>4, <2>5
<1>4. ASSUME NEW y \in G, NEW z \in G, w.e[y].parent \notin G, w.e[z].parent \notin G PROVE y = z
  <2> DEFINE U == {v \in G : w.e[v].parent \in G}
             V == G \ {x}
             P == [v \in U |-> w.e[v].parent]
  <2>1. IsFiniteSet(G) /\ x \in G
    BY <1>2, <1>4, VolFinite, FS_Subset
  <2>2. IsFiniteSet(U) /\ Cardinality(U) \in Nat /\ IsFiniteSet(V) /\ Cardinality(V) = Cardinality(G) - 1
    BY <2>1, FS_Subset, FS_RemoveElement, FS_CardinalityType
  <2>3. \A v \in U : w.e[v].parent \in V
    <3>1. x \in G => Below(w.e, x) = {}
      <4>1. PICK a, b, c, r : a = Cardinality(HandsOn(h, x)) /\ b = Cardinality(Below(w.e, x))
                              /\ c = One(w.e[x].node # 0) /\ r = One(x = VRoot)
        OBVIOUS
      <4>2. a \in Nat /\ b \in Nat /\ c \in {0, 1} /\ r \in {0, 1} /\ One(x = x) = 1
        BY <4>1, HandsCount, BelowCount DEF One
      <4>3. w.e[x].refs = a + b + c + r + 1
        BY <1>1, <4>1, <4>2 DEF EntryCounts
      <4>4. x \in G => b = 0
        BY <1>2, <4>2, <4>3
      <4> QED BY <4>1, <4>4, BelowCount, FS_EmptySet
    <3>2. \A v \in U : v \in VEntries /\ w.e[v].parent \in G
      BY <1>2
    <3>3. \A v \in U : w.e[v].parent # x
      BY <3>1, <3>2, <2>1 DEF Below
    <3> QED BY <3>2, <3>3
  <2>4. \A v \in V : \E u \in U : w.e[u].parent = v
    BY <1>2
  <2>5. P \in Surjection(U, V)
    <3>1. P \in [U -> V] /\ \A v \in V : \E u \in U : P[u] = v
      BY <2>3, <2>4
    <3> HIDE DEF P, U, V
    <3> QED BY <3>1 DEF Surjection
  <2>6. Cardinality(V) =< Cardinality(U)
    <3> HIDE DEF P, U, V
    <3> QED BY <2>2, <2>5, FS_Surjection
  <2> SUFFICES ASSUME y # z PROVE FALSE
    OBVIOUS
  <2>7. U \subseteq (G \ {y}) \ {z}
    BY <1>4
  <2>8. /\ IsFiniteSet(G \ {y}) /\ Cardinality(G \ {y}) = Cardinality(G) - 1
        /\ IsFiniteSet((G \ {y}) \ {z}) /\ Cardinality((G \ {y}) \ {z}) = Cardinality(G) - 2
    <3>1. IsFiniteSet(G \ {y}) /\ Cardinality(G \ {y}) = Cardinality(G) - 1
      BY <2>1, FS_RemoveElement
    <3>2. z \in G \ {y}
      OBVIOUS
    <3>3. IsFiniteSet((G \ {y}) \ {z}) /\ Cardinality((G \ {y}) \ {z}) = Cardinality(G \ {y}) - 1
      BY <3>1, <3>2, FS_RemoveElement
    <3>4. Cardinality(G) \in Nat
      BY <2>1, FS_CardinalityType
    <3> QED BY <3>1, <3>3, <3>4
  <2>9. Cardinality(U) =< Cardinality((G \ {y}) \ {z})
    <3> HIDE DEF U
    <3> QED BY <2>7, <2>8, FS_Subset
  <2>10. Cardinality(G) \in Nat
    BY <2>1, FS_CardinalityType
  <2> HIDE DEF U, V, P
  <2> QED BY <2>2, <2>6, <2>8, <2>9, <2>10
<1> QED BY <1>3, <1>4

NodesLike(v, w) ==
    \A k \in VNodes : v[k].refs = w[k].refs /\ v[k].kind = w[k].kind /\ v[k].nlink = w[k].nlink

\* An entry that somebody holds has what it had.
HeldKept(v, w, h) ==
    \A y \in VEntries : Cardinality(HandsOn(h, y)) # 0 => v[y].node = w[y].node /\ v[y].parent = w[y].parent

\* When a reference of x is dropped that nobody has, all the references are right.
LEMMA UnlinkEntrySafe ==
    ASSUME NEW w, NEW h, NEW f, NEW x \in VEntries, NEW m, VolSafe(w, h, f, x, m),
           NEW v, v = vol_unlink_entry(w, x)
    PROVE  /\ VolSafe(v, h, f, 0, m) /\ v.crash = w.crash
           /\ HeldKept(v.e, w.e, h) /\ NodesLike(v.n, w.n)
<1> DEFINE G == Gone(w, x)
           L == {x} \cup {w.e[y].parent : y \in G}
           e == [y \in VEntries |-> IF y \in G THEN NoVEntry
                   ELSE IF y \in L THEN [w.e[y] EXCEPT !.refs = @ - 1] ELSE w.e[y]]
           n == [k \in VNodes |-> [w.n[k] EXCEPT !.subdir = vol_unlisted(@, G)]]
<1>1. /\ w \in VolWorlds /\ EntryCounts(w.e, h, x) /\ FreeIsBare(w.e)
      /\ NodeCounts(w.e, w.n, f, m) /\ LinkCounts(w.e, w.n)
  BY DEF VolSafe
<1>2. v = [w EXCEPT !.e = e, !.n = n]
  BY DEF vol_unlink_entry
<1> HIDE DEF e, n
<1>3. v.e = e /\ v.n = n /\ v.crash = w.crash /\ v = [e |-> e, n |-> n, crash |-> w.crash]
  BY <1>1, <1>2 DEF VolWorlds
<1>0. G = Gone(w, x)
  OBVIOUS
<1> HIDE DEF G
<1>4. /\ G \subseteq VEntries /\ (x \notin G => G = {}) /\ (x \in G <=> w.e[x].refs =< 1)
      /\ \A y \in G : w.e[y].parent # 0 /\ w.e[w.e[y].parent].refs =< 1 => w.e[y].parent \in G
  BY <1>0, <1>1, GoneFacts
<1>5. /\ \A y \in G : /\ w.e[y].node = 0 /\ y # VRoot /\ Cardinality(HandsOn(h, y)) = 0
                      /\ Below(w.e, y) \subseteq G
      /\ \A y, z \in G : w.e[y].parent \notin G /\ w.e[z].parent \notin G => y = z
  <2>1. \A y \in G : w.e[y].node = 0 /\ y # VRoot
    BY <1>0, GoneSafe
  <2>3. \A y \in G : Cardinality(HandsOn(h, y)) = 0 /\ Below(w.e, y) \subseteq G
    BY <1>0, GoneSafe
  <2>2. \A y, z \in G : w.e[y].parent \notin G /\ w.e[z].parent \notin G => y = z
    BY <1>0, GoneSafe
  <2> QED BY <2>1, <2>2, <2>3
<1>6. \A y \in VEntries : w.e[y] \in VEntryType /\ w.e[y].refs \in Nat
  BY <1>1 DEF VolWorlds, VEntryType
<1>7. \A y \in VEntries : y \in L /\ y \notin G => w.e[y].refs > 1
  <2> SUFFICES ASSUME NEW y \in VEntries, y \in L, y \notin G PROVE w.e[y].refs > 1
    OBVIOUS
  <2>1. w.e[y].refs \in Nat
    BY <1>6
  <2>2. CASE y = x
    BY <1>4, <2>1, <2>2
  <2>3. CASE y # x
    <3>1. PICK z \in G : w.e[z].parent = y
      BY <2>3
    <3>2. y # 0
      BY VolFinite
    <3> QED BY <1>4, <2>1, <3>1, <3>2
  <2> QED BY <2>2, <2>3
<1> HIDE DEF L
<1>8. \A y \in VEntries :
        /\ y \in G => e[y] = NoVEntry
        /\ y \notin G /\ y \in L => e[y] = [w.e[y] EXCEPT !.refs = w.e[y].refs - 1]
        /\ y \notin G /\ y \notin L => e[y] = w.e[y]
  BY DEF e
<1>9. \A y \in VEntries :
        /\ e[y] \in VEntryType
        /\ y \in G => e[y].refs = 0 /\ e[y].node = 0 /\ e[y].parent = 0
        /\ y \notin G => e[y].node = w.e[y].node /\ e[y].parent = w.e[y].parent
        /\ y \notin G /\ y \in L => e[y].refs = w.e[y].refs - 1
        /\ y \notin G /\ y \notin L => e[y].refs = w.e[y].refs
  <2> SUFFICES ASSUME NEW y \in VEntries
               PROVE  /\ e[y] \in VEntryType
                      /\ y \in G => e[y].refs = 0 /\ e[y].node = 0 /\ e[y].parent = 0
                      /\ y \notin G => e[y].node = w.e[y].node /\ e[y].parent = w.e[y].parent
                      /\ y \notin G /\ y \in L => e[y].refs = w.e[y].refs - 1
                      /\ y \notin G /\ y \notin L => e[y].refs = w.e[y].refs
    OBVIOUS
  <2>1. PICK a : a = w.e[y]
    OBVIOUS
  <2>2. a \in VEntryType
    BY <1>6, <2>1
  <2>3. CASE y \in G
    <3>1. e[y] = [refs |-> 0, name |-> "", node |-> 0, parent |-> 0]
      BY <1>8, <2>3 DEF NoVEntry
    <3>2. PICK b : b = e[y]
      OBVIOUS
    <3>3. 0 \in 0 .. MaxVolEntries /\ 0 \in 0 .. MaxVolNodes /\ "" \in VEntryNames
      BY VolatileAssumption DEF VEntryNames
    <3>5. b = [refs |-> 0, name |-> "", node |-> 0, parent |-> 0]
      BY <3>1, <3>2
    <3>6. b \in VEntryType
      BY <3>3, <3>5 DEF VEntryType
    <3>4. b \in VEntryType /\ b.refs = 0 /\ b.node = 0 /\ b.parent = 0
      BY <3>5, <3>6
    <3> QED BY <2>3, <3>2, <3>4
  <2>4. CASE y \notin G /\ y \in L
    <3>1. e[y] = [a EXCEPT !.refs = a.refs - 1] /\ a.refs > 1
      BY <1>7, <1>8, <2>1, <2>4
    <3>2. PICK r : r = a.refs - 1
      OBVIOUS
    <3>3. a.refs \in Nat /\ r \in Nat
      <4>1. a.refs \in Nat
        BY <2>2 DEF VEntryType
      <4> QED BY <3>1, <3>2, <4>1
    <3>4. e[y] = [a EXCEPT !.refs = r]
      BY <3>1, <3>2
    <3>5. e[y] \in VEntryType /\ e[y].refs = r /\ e[y].node = a.node /\ e[y].parent = a.parent
      BY <2>2, <3>3, <3>4 DEF VEntryType
    <3> QED BY <2>1, <2>4, <3>2, <3>5
  <2>5. CASE y \notin G /\ y \notin L
    BY <1>8, <2>1, <2>2, <2>5
  <2> QED BY <2>3, <2>4, <2>5
<1>10. \A k \in VNodes : n[k] \in VNodeType /\ n[k].refs = w.n[k].refs /\ n[k].kind = w.n[k].kind
                         /\ n[k].nlink = w.n[k].nlink
  <2> SUFFICES ASSUME NEW k \in VNodes
               PROVE  n[k] \in VNodeType /\ n[k].refs = w.n[k].refs /\ n[k].kind = w.n[k].kind
                      /\ n[k].nlink = w.n[k].nlink
    OBVIOUS
  <2>1. PICK a, s : a = w.n[k] /\ s = vol_unlisted(a.subdir, G)
    OBVIOUS
  <2>2. a \in VNodeType
    BY <1>1, <2>1 DEF VolWorlds
  <2>3. s \in Seq(VEntries)
    BY <2>1, <2>2, UnlistedType DEF VNodeType
  <2>4. n[k] = [a EXCEPT !.subdir = s]
    BY <2>1 DEF n
  <2> QED BY <2>1, <2>2, <2>3, <2>4 DEF VNodeType
<1>11. v \in VolWorlds
  <2>1. e \in [VEntries -> VEntryType] /\ n \in [VNodes -> VNodeType]
    BY <1>9, <1>10 DEF e, n
  <2> QED BY <1>1, <1>3, <2>1 DEF VolWorlds
<1>12. \A k \in VNodes : NamesOf(e, k) = NamesOf(w.e, k)
  <2>1. \A k \in VNodes : k # 0
    BY VolFinite
  <2>2. \A y \in VEntries : e[y].node = w.e[y].node
    BY <1>5, <1>9
  <2> QED BY <2>2 DEF NamesOf
<1>13. NodeCounts(e, n, f, m) /\ LinkCounts(e, n)
  BY <1>1, <1>10, <1>12 DEF NodeCounts, LinkCounts
<1>14. FreeIsBare(e)
  <2> SUFFICES ASSUME NEW y \in VEntries, e[y].refs = 0 PROVE e[y].parent = 0
    BY DEF FreeIsBare
  <2>1. w.e[y].refs \in Nat
    BY <1>6
  <2>2. y \notin G /\ y \in L => FALSE
    BY <1>7, <1>9, <2>1
  <2> QED BY <1>1, <1>9, <2>2 DEF FreeIsBare
<1>15. EntryCounts(e, h, 0)
  <2> SUFFICES ASSUME NEW y \in VEntries
               PROVE  e[y].refs = Cardinality(HandsOn(h, y)) + Cardinality(Below(e, y))
                                    + One(e[y].node # 0) + One(y = VRoot) + One(y = 0)
    BY DEF EntryCounts
  <2>1. PICK a, b, c, d, r, o : /\ a = Cardinality(HandsOn(h, y)) /\ b = Cardinality(Below(w.e, y))
                                /\ c = One(w.e[y].node # 0) /\ d = Cardinality(Below(e, y))
                                /\ r = One(y = VRoot) /\ o = One(y = x)
    OBVIOUS
  <2>2. /\ a \in Nat /\ b \in Nat /\ c \in {0, 1} /\ d \in Nat /\ r \in {0, 1} /\ o \in {0, 1}
        /\ y # 0 /\ One(y = 0) = 0
    BY <2>1, HandsCount, BelowCount, VolFinite DEF One
  <2>3. w.e[y].refs = a + b + c + r + o
    BY <1>1, <2>1 DEF EntryCounts
  <2>4. CASE y \in G
    <3>1. Below(e, y) = {}
      BY <1>5, <1>9, <2>2, <2>4 DEF Below
    <3>2. d = 0
      BY <2>1, <3>1, FS_EmptySet
    <3>3. a = 0 /\ r = 0 /\ One(e[y].node # 0) = 0 /\ e[y].refs = 0
      BY <1>5, <1>9, <2>1, <2>4 DEF One
    <3> QED BY <2>1, <2>2, <3>2, <3>3
  <2>5. CASE y \notin G
    <3>1. One(e[y].node # 0) = c
      BY <1>9, <2>1, <2>5
    <3>2. Below(e, y) = Below(w.e, y) \ G
      BY <1>9, <2>2 DEF Below
    <3>3. CASE y = x
      <4>1. G = {}
        BY <1>4, <2>5, <3>3
      <4>2. d = b /\ o = 1 /\ y \in L
        BY <2>1, <3>2, <3>3, <4>1 DEF One, L
      <4>3. e[y].refs = w.e[y].refs - 1
        BY <1>9, <2>5, <4>2
      <4> QED BY <2>1, <2>2, <2>3, <3>1, <4>2, <4>3
    <3>4. CASE y # x /\ \E z \in G : w.e[z].parent = y
      <4>1. PICK z \in G : w.e[z].parent = y
        BY <3>4
      <4>2. y \in L /\ o = 0
        BY <2>1, <3>4, <4>1 DEF L, One
      <4>3. Below(e, y) = Below(w.e, y) \ {z} /\ z \in Below(w.e, y)
        BY <1>4, <1>5, <2>5, <3>2, <4>1 DEF Below
      <4>4. d = b - 1
        <5>1. IsFiniteSet(Below(w.e, y)) /\ Cardinality(Below(w.e, y)) \in Nat
          BY BelowCount
        <5>2. Cardinality(Below(w.e, y) \ {z}) = Cardinality(Below(w.e, y)) - 1
          BY ONLY <4>3, <5>1, FS_RemoveElement
        <5> QED BY ONLY <2>1, <4>3, <5>2
      <4>5. e[y].refs = w.e[y].refs - 1
        BY <1>9, <2>5, <4>2
      <4> QED BY <2>1, <2>2, <2>3, <3>1, <4>2, <4>4, <4>5
    <3>5. CASE y # x /\ ~\E z \in G : w.e[z].parent = y
      <4>1. y \notin L /\ o = 0
        BY <2>1, <3>5 DEF L, One
      <4>2. Below(e, y) = Below(w.e, y)
        BY <3>2, <3>5 DEF Below
      <4>3. e[y].refs = w.e[y].refs
        BY <1>9, <2>5, <4>1
      <4> QED BY <2>1, <2>2, <2>3, <3>1, <4>1, <4>2, <4>3
    <3> QED BY <3>3, <3>4, <3>5
  <2> QED BY <2>4, <2>5
<1>16. HeldKept(e, w.e, h)
  BY <1>5, <1>9 DEF HeldKept
<1>17. NodesLike(n, w.n)
  BY <1>10 DEF NodesLike
<1> QED BY <1>3, <1>11, <1>13, <1>14, <1>15, <1>16, <1>17 DEF VolSafe

\* A world with another entry, and with another node.
WithEntry(w, x, a) == [w EXCEPT !.e[x] = a]
WithNode(w, k, a) == [w EXCEPT !.n[k] = a]

\* A world with another entry is a world, with the other entries as they were.
LEMMA EntrySet ==
    ASSUME NEW w \in VolWorlds, NEW x \in VEntries, NEW a \in VEntryType, NEW v, v = WithEntry(w, x, a)
    PROVE  /\ v \in VolWorlds /\ v.n = w.n /\ v.crash = w.crash
           /\ v.e[x] = a /\ \A y \in VEntries : y # x => v.e[y] = w.e[y]
<1>1. PICK e : e = [w.e EXCEPT ![x] = a]
  OBVIOUS
<1>2. w.e \in [VEntries -> VEntryType]
  BY DEF VolWorlds
<1>3. e \in [VEntries -> VEntryType] /\ e[x] = a /\ \A y \in VEntries : y # x => e[y] = w.e[y]
  BY <1>1, <1>2
<1>4. v = [w EXCEPT !.e = e]
  BY <1>1 DEF WithEntry
<1>5. v.e = e /\ v.n = w.n /\ v.crash = w.crash /\ v \in VolWorlds
  BY <1>3, <1>4 DEF VolWorlds
<1> QED BY <1>3, <1>5

\* A world with another node is a world, with the other nodes as they were.
LEMMA NodeSet ==
    ASSUME NEW w \in VolWorlds, NEW k \in VNodes, NEW a \in VNodeType, NEW v, v = WithNode(w, k, a)
    PROVE  /\ v \in VolWorlds /\ v.e = w.e /\ v.crash = w.crash
           /\ v.n[k] = a /\ \A j \in VNodes : j # k => v.n[j] = w.n[j]
<1>1. PICK n : n = [w.n EXCEPT ![k] = a]
  OBVIOUS
<1>2. w.n \in [VNodes -> VNodeType]
  BY DEF VolWorlds
<1>3. n \in [VNodes -> VNodeType] /\ n[k] = a /\ \A j \in VNodes : j # k => n[j] = w.n[j]
  BY <1>1, <1>2
<1>4. v = [w EXCEPT !.n = n]
  BY <1>1 DEF WithNode
<1>5. v.n = n /\ v.e = w.e /\ v.crash = w.crash /\ v \in VolWorlds
  BY <1>3, <1>4 DEF VolWorlds
<1> QED BY <1>3, <1>5

\* A crash changes nothing else.
LEMMA VolCrashed ==
    ASSUME NEW w \in VolWorlds, NEW v, v = VCrash(w)
    PROVE  v \in VolWorlds /\ v.e = w.e /\ v.n = w.n /\ v.crash
BY DEF VCrash, VolWorlds

\* An entry is referred to once more.
LEMMA RefEntrySafe ==
    ASSUME NEW w, NEW h, NEW f, NEW m, VolSafe(w, h, f, 0, m), NEW x \in VEntries, NEW v, v = VRefEntry(w, x)
    PROVE  /\ VolSafe(v, h, f, x, m) /\ v.n = w.n /\ v.crash = w.crash
           /\ \A y \in VEntries : v.e[y].node = w.e[y].node /\ v.e[y].parent = w.e[y].parent
                                  /\ v.e[y].name = w.e[y].name /\ v.e[y].refs >= w.e[y].refs
<1>1. /\ w \in VolWorlds /\ EntryCounts(w.e, h, 0) /\ FreeIsBare(w.e)
      /\ NodeCounts(w.e, w.n, f, m) /\ LinkCounts(w.e, w.n)
  BY DEF VolSafe
<1>2. PICK a, r : a = w.e[x] /\ r = a.refs + 1
  OBVIOUS
<1>3. \A y \in VEntries : w.e[y] \in VEntryType /\ w.e[y].refs \in Nat
  BY <1>1 DEF VolWorlds, VEntryType
<1>4. a \in VEntryType /\ r \in Nat /\ r > 0 /\ a.refs \in Nat
  BY <1>2, <1>3
<1>5. PICK b : b = [a EXCEPT !.refs = r]
  OBVIOUS
<1>6. b \in VEntryType /\ b.refs = r /\ b.node = a.node /\ b.parent = a.parent /\ b.name = a.name
  BY <1>4, <1>5 DEF VEntryType
<1>7. v = WithEntry(w, x, b)
  BY <1>2, <1>5 DEF VRefEntry, WithEntry
<1>8. /\ v \in VolWorlds /\ v.n = w.n /\ v.crash = w.crash
      /\ v.e[x] = b /\ \A y \in VEntries : y # x => v.e[y] = w.e[y]
  BY <1>1, <1>6, <1>7, EntrySet
<1>9. \A y \in VEntries : v.e[y].node = w.e[y].node /\ v.e[y].parent = w.e[y].parent
                          /\ v.e[y].name = w.e[y].name
  BY <1>2, <1>6, <1>8
<1>10. \A y : Below(v.e, y) = Below(w.e, y) /\ NamesOf(v.e, y) = NamesOf(w.e, y)
  BY <1>9 DEF Below, NamesOf
<1>11. NodeCounts(v.e, v.n, f, m) /\ LinkCounts(v.e, v.n)
  BY <1>1, <1>8, <1>10 DEF NodeCounts, LinkCounts
<1>12. FreeIsBare(v.e)
  BY <1>1, <1>4, <1>6, <1>8 DEF FreeIsBare
<1>13. EntryCounts(v.e, h, x)
  <2> SUFFICES ASSUME NEW y \in VEntries
               PROVE  v.e[y].refs = Cardinality(HandsOn(h, y)) + Cardinality(Below(v.e, y))
                                      + One(v.e[y].node # 0) + One(y = VRoot) + One(y = x)
    BY DEF EntryCounts
  <2>1. PICK i, b2, c, d : /\ i = Cardinality(HandsOn(h, y)) /\ b2 = Cardinality(Below(w.e, y))
                           /\ c = One(w.e[y].node # 0) /\ d = One(y = VRoot)
    OBVIOUS
  <2>2. i \in Nat /\ b2 \in Nat /\ c \in {0, 1} /\ d \in {0, 1} /\ One(y = 0) = 0
    BY <2>1, HandsCount, BelowCount, VolFinite DEF One
  <2>3. w.e[y].refs = i + b2 + c + d
    BY <1>1, <2>1, <2>2 DEF EntryCounts
  <2>4. v.e[y].refs = i + b2 + c + d + One(y = x)
    BY <1>2, <1>6, <1>8, <2>2, <2>3 DEF One
  <2> QED BY <1>9, <1>10, <2>1, <2>4
<1>14. \A y \in VEntries : v.e[y].refs >= w.e[y].refs
  BY <1>2, <1>3, <1>4, <1>6, <1>8
<1> QED BY <1>8, <1>9, <1>11, <1>12, <1>13, <1>14 DEF VolSafe

\* A user gives the entry in hand for another that has a reference more.
LEMMA HandMoves ==
    ASSUME NEW w, NEW h \in [VolHands -> VEntries \cup {0}], NEW f, NEW m, NEW x, VolSafe(w, h, f, x, m),
           NEW u \in VolHands, NEW p, p = h[u], NEW g, g = Handed(h, u, x)
    PROVE  VolSafe(w, g, f, p, m)
<1>1. EntryCounts(w.e, h, x)
  BY DEF VolSafe
<1>2. EntryCounts(w.e, g, p)
  <2> SUFFICES ASSUME NEW y \in VEntries
               PROVE  w.e[y].refs = Cardinality(HandsOn(g, y)) + Cardinality(Below(w.e, y))
                                      + One(w.e[y].node # 0) + One(y = VRoot) + One(y = p)
    BY DEF EntryCounts
  <2>1. PICK i, j, b, c, d : /\ i = Cardinality(HandsOn(h, y)) /\ b = Cardinality(Below(w.e, y))
                             /\ c = One(w.e[y].node # 0) /\ d = One(y = VRoot)
                             /\ j = Cardinality(HandsOn(g, y))
    OBVIOUS
  <2>2. i \in Nat /\ j \in Nat /\ b \in Nat /\ c \in {0, 1} /\ d \in {0, 1}
    BY <2>1, HandsCount, BelowCount DEF One
  <2>3. w.e[y].refs = i + b + c + d + One(y = x)
    BY <1>1, <2>1 DEF EntryCounts
  <2>4. j = i + One(x = y) - One(p = y)
    BY <2>1, HandsChange
  <2>5. One(x = y) = One(y = x) /\ One(p = y) = One(y = p) /\ One(y = x) \in {0, 1} /\ One(y = p) \in {0, 1}
    BY DEF One
  <2>6. w.e[y].refs = j + b + c + d + One(y = p)
    BY <2>2, <2>3, <2>4, <2>5
  <2> QED BY <2>1, <2>6
<1> QED BY <1>2 DEF VolSafe

\* A reference of a node is dropped that nobody has.
LEMMA FreeNodeSafe ==
    ASSUME NEW w, NEW h, NEW f, NEW x, NEW m \in VNodes, VolSafe(w, h, f, x, m), NEW v, v = vol_free_node(w, m)
    PROVE  VolSafe(v, h, f, x, 0) /\ v.e = w.e /\ v.crash = w.crash
<1>1. /\ w \in VolWorlds /\ EntryCounts(w.e, h, x) /\ FreeIsBare(w.e)
      /\ NodeCounts(w.e, w.n, f, m) /\ LinkCounts(w.e, w.n)
  BY DEF VolSafe
<1>2. PICK a, c, o : /\ a = w.n[m] /\ c = Cardinality(NamesOf(w.e, m)) /\ o = Cardinality(OpensOf(f, m))
  OBVIOUS
<1>3. a \in VNodeType /\ a.refs \in Nat /\ c \in Nat /\ o \in Nat /\ One(m = m) = 1 /\ One(m = 0) = 0
  BY <1>1, <1>2, NamesCount, OpensCount, VolFinite DEF VolWorlds, VNodeType, One
<1>4. a.refs = c + o + 1
  BY <1>1, <1>2, <1>3 DEF NodeCounts
<1>5. PICK b : b = IF a.refs > 1 THEN [a EXCEPT !.refs = c + o] ELSE NoVNode
  OBVIOUS
<1>6. b \in VNodeType /\ b.refs = c + o /\ ((b.kind = a.kind /\ b.nlink = a.nlink) \/ b.kind = "none")
  <2>1. CASE a.refs > 1
    <3>1. PICK r : r = c + o
      OBVIOUS
    <3>2. r \in Nat /\ b = [a EXCEPT !.refs = r]
      BY <1>3, <1>5, <2>1, <3>1
    <3> QED BY <1>3, <3>1, <3>2 DEF VNodeType
  <2>2. CASE ~(a.refs > 1)
    <3>1. b = [refs |-> 0, kind |-> "none", nlink |-> 0, size |-> 0, subdir |-> <<>>, parent |-> 0]
      BY <1>5, <2>2 DEF NoVNode
    <3>2. <<>> \in Seq(VEntries) /\ 0 \in 0 .. MaxVolEntries
      BY VolatileAssumption
    <3>3. b \in VNodeType
      BY <3>1, <3>2 DEF VNodeType
    <3>4. c + o = 0
      BY <1>3, <1>4, <2>2
    <3> QED BY <3>1, <3>3, <3>4
  <2> QED BY <2>1, <2>2
<1>7. v = WithNode(w, m, b)
  <2>1. a.refs - 1 = c + o
    BY <1>3, <1>4
  <2> QED BY <1>2, <1>5, <2>1 DEF vol_free_node, WithNode
<1>8. /\ v \in VolWorlds /\ v.e = w.e /\ v.crash = w.crash
      /\ v.n[m] = b /\ \A j \in VNodes : j # m => v.n[j] = w.n[j]
  BY <1>1, <1>6, <1>7, NodeSet
<1>9. NodeCounts(v.e, v.n, f, 0)
  <2> SUFFICES ASSUME NEW k \in VNodes
               PROVE  v.n[k].refs = Cardinality(NamesOf(w.e, k)) + Cardinality(OpensOf(f, k)) + One(k = 0)
    BY <1>8 DEF NodeCounts
  <2>1. Cardinality(NamesOf(w.e, k)) \in Nat /\ Cardinality(OpensOf(f, k)) \in Nat /\ One(k = 0) = 0
    BY NamesCount, OpensCount, VolFinite DEF One
  <2>2. CASE k = m
    BY <1>2, <1>3, <1>6, <1>8, <2>1, <2>2
  <2>3. CASE k # m
    <3>1. One(k = m) = 0
      BY <2>3 DEF One
    <3>2. v.n[k].refs = Cardinality(NamesOf(w.e, k)) + Cardinality(OpensOf(f, k)) + One(k = m)
      BY <1>1, <1>8, <2>3 DEF NodeCounts
    <3> QED BY <2>1, <3>1, <3>2
  <2> QED BY <2>2, <2>3
<1>10. LinkCounts(v.e, v.n)
  BY <1>1, <1>2, <1>6, <1>8 DEF LinkCounts
<1> QED BY <1>1, <1>8, <1>9, <1>10 DEF VolSafe

\* An entry of a world, and a node, with the fields that the counts are about.
LEMMA VolFields ==
    ASSUME NEW w \in VolWorlds
    PROVE  /\ \A y \in VEntries : /\ w.e[y] \in VEntryType /\ w.e[y].refs \in Nat
                                  /\ w.e[y].node \in VNodes \cup {0} /\ w.e[y].parent \in VEntries \cup {0}
           /\ \A k \in VNodes : /\ w.n[k] \in VNodeType /\ w.n[k].refs \in Nat /\ w.n[k].nlink \in Int
                                /\ w.n[k].subdir \in Seq(VEntries)
<1>1. \A y \in VEntries : w.e[y] \in VEntryType
  BY DEF VolWorlds
<1>2. \A k \in VNodes : w.n[k] \in VNodeType
  BY DEF VolWorlds
<1> QED BY <1>1, <1>2, VolFinite DEF VEntryType, VNodeType

\* A world with another node, and then another entry.
LEMMA BothSet ==
    ASSUME NEW w \in VolWorlds, NEW k \in VNodes, NEW b \in VNodeType, NEW x \in VEntries, NEW a \in VEntryType,
           NEW u, u = WithNode(w, k, b), NEW v, v = WithEntry(u, x, a)
    PROVE  /\ u \in VolWorlds /\ u.e = w.e /\ u.crash = w.crash
           /\ u.n[k] = b /\ \A j \in VNodes : j # k => u.n[j] = w.n[j]
           /\ v \in VolWorlds /\ v.n = u.n /\ v.crash = w.crash
           /\ v.e[x] = a /\ \A y \in VEntries : y # x => v.e[y] = w.e[y]
<1>1. /\ u \in VolWorlds /\ u.e = w.e /\ u.crash = w.crash
      /\ u.n[k] = b /\ \A j \in VNodes : j # k => u.n[j] = w.n[j]
  BY NodeSet
<1>2. /\ v \in VolWorlds /\ v.n = u.n /\ v.crash = u.crash
      /\ v.e[x] = a /\ \A y \in VEntries : y # x => v.e[y] = u.e[y]
  BY <1>1, EntrySet
<1>3. v.crash = w.crash /\ \A y \in VEntries : y # x => v.e[y] = w.e[y]
  BY <1>1, <1>2
<1> QED BY <1>1, <1>2, <1>3

\* The name of a node is taken from it: the entry and the node have a reference too many.
LEMMA NameTaken ==
    ASSUME NEW w, NEW h, NEW f, VolSafe(w, h, f, 0, 0), NEW x \in VEntries, NEW k \in VNodes, w.e[x].node = k,
           NEW a \in VEntryType, a = [w.e[x] EXCEPT !.node = 0],
           NEW l \in Int, l = IF w.n[k].kind = "dir" THEN w.n[k].nlink ELSE w.n[k].nlink - 1,
           NEW b \in VNodeType, b = [w.n[k] EXCEPT !.nlink = l],
           NEW u, u = WithNode(w, k, b), NEW v, v = WithEntry(u, x, a)
    PROVE  /\ VolSafe(v, h, f, x, k) /\ v.crash = w.crash
           /\ \A y \in VEntries : y # x => v.e[y] = w.e[y]
           /\ v.e[x].node = 0 /\ v.e[x].parent = w.e[x].parent
<1>1. /\ w \in VolWorlds /\ EntryCounts(w.e, h, 0) /\ FreeIsBare(w.e)
      /\ NodeCounts(w.e, w.n, f, 0) /\ LinkCounts(w.e, w.n)
  BY DEF VolSafe
<1>3. /\ u \in VolWorlds /\ u.e = w.e /\ u.crash = w.crash
      /\ u.n[k] = b /\ \A j \in VNodes : j # k => u.n[j] = w.n[j]
  BY <1>1, BothSet
<1>5. /\ v \in VolWorlds /\ v.n = u.n /\ v.crash = w.crash
      /\ v.e[x] = a /\ \A y \in VEntries : y # x => v.e[y] = w.e[y]
  BY <1>1, BothSet
<1>6. /\ \A y \in VEntries : w.e[y] \in VEntryType /\ w.e[y].refs \in Nat
      /\ w.n[k] \in VNodeType
  BY <1>1, VolFields
<1>7. a.refs = w.e[x].refs /\ a.parent = w.e[x].parent /\ a.node = 0
  BY <1>6 DEF VEntryType
<1>8. b.refs = w.n[k].refs /\ b.kind = w.n[k].kind /\ b.nlink = l
  BY <1>6 DEF VNodeType
<1>17. v.n[k] = b
  <2>1. v.n = u.n /\ u.n[k] = b
    BY <1>3, <1>5
  <2> QED BY <2>1
<1>9. \A y \in VEntries : v.e[y].refs = w.e[y].refs /\ v.e[y].parent = w.e[y].parent
  <2>1. v.e[x].refs = w.e[x].refs /\ v.e[x].parent = w.e[x].parent
    BY <1>5, <1>7
  <2>2. \A y \in VEntries : y # x => v.e[y].refs = w.e[y].refs /\ v.e[y].parent = w.e[y].parent
    BY <1>5
  <2> QED BY <2>1, <2>2
<1>10. \A y : Below(v.e, y) = Below(w.e, y)
  BY <1>9 DEF Below
<1>11. FreeIsBare(v.e)
  <2>1. FreeIsBare(w.e)
    BY <1>1
  <2> QED BY ONLY <1>9, <2>1 DEF FreeIsBare
<1>12. EntryCounts(v.e, h, x)
  <2> SUFFICES ASSUME NEW y \in VEntries
               PROVE  v.e[y].refs = Cardinality(HandsOn(h, y)) + Cardinality(Below(v.e, y))
                                      + One(v.e[y].node # 0) + One(y = VRoot) + One(y = x)
    BY DEF EntryCounts
  <2>1. PICK i, d, r : /\ i = Cardinality(HandsOn(h, y)) /\ d = Cardinality(Below(w.e, y)) /\ r = One(y = VRoot)
    OBVIOUS
  <2>2. i \in Nat /\ d \in Nat /\ r \in {0, 1} /\ One(y = 0) = 0 /\ k # 0
    BY <2>1, HandsCount, BelowCount, VolFinite DEF One
  <2>3. w.e[y].refs = i + d + One(w.e[y].node # 0) + r
    BY <1>1, <2>1, <2>2 DEF EntryCounts, One
  <2>4. One(v.e[y].node # 0) + One(y = x) = One(w.e[y].node # 0)
    <3>1. CASE y = x
      <4>1. v.e[y].node = 0 /\ w.e[y].node # 0
        BY <1>5, <1>7, <2>2, <3>1
      <4> QED BY <3>1, <4>1 DEF One
    <3>2. CASE y # x
      <4>1. v.e[y].node = w.e[y].node
        BY <1>5, <3>2
      <4> QED BY <3>2, <4>1 DEF One
    <3> QED BY <3>1, <3>2
  <2>5. One(v.e[y].node # 0) \in Nat /\ One(y = x) \in Nat
    BY DEF One
  <2>6. w.e[y].refs = i + d + One(v.e[y].node # 0) + r + One(y = x)
    BY ONLY <2>2, <2>3, <2>4, <2>5
  <2>7. v.e[y].refs = w.e[y].refs /\ Below(v.e, y) = Below(w.e, y)
    BY <1>9, <1>10
  <2> QED BY ONLY <2>1, <2>6, <2>7
<1>13. ASSUME NEW j \in VNodes
       PROVE  /\ Cardinality(NamesOf(v.e, j)) = Cardinality(NamesOf(w.e, j)) - One(j = k)
              /\ Cardinality(NamesOf(w.e, j)) \in Nat /\ One(j = k) \in {0, 1}
  <2>1. Cardinality(NamesOf(v.e, j)) = Cardinality(NamesOf(w.e, j)) + One(v.e[x].node = j) - One(w.e[x].node = j)
    <3>1. PICK d, e : d = w.e /\ e = v.e
      OBVIOUS
    <3>2. \A y \in VEntries : y # x => e[y].node = d[y].node
      BY <1>5, <3>1
    <3>3. Cardinality(NamesOf(e, j)) = Cardinality(NamesOf(d, j)) + One(e[x].node = j) - One(d[x].node = j)
      BY <3>2, NamesChange DEF One
    <3> QED BY <3>1, <3>3
  <2>2. One(v.e[x].node = j) = 0 /\ One(w.e[x].node = j) = One(j = k) /\ One(j = k) \in {0, 1}
    <3>1. v.e[x].node = 0 /\ j # 0
      <4>1. v.e[x] = a /\ a.node = 0
        BY <1>5, <1>7
      <4>2. VNodes \subseteq Nat \ {0} /\ j \in VNodes
        BY VolFinite
      <4> QED BY ONLY <4>1, <4>2
    <3>2. w.e[x].node = j <=> j = k
      OBVIOUS
    <3> QED BY <3>1, <3>2 DEF One
  <2>3. Cardinality(NamesOf(w.e, j)) \in Nat
    BY NamesCount
  <2> QED BY <2>1, <2>2, <2>3
<1>14. \A j \in VNodes : v.n[j].refs = w.n[j].refs /\ v.n[j].kind = w.n[j].kind
  <2>1. v.n[k].refs = w.n[k].refs /\ v.n[k].kind = w.n[k].kind
    BY <1>8, <1>17
  <2>2. \A j \in VNodes : j # k => v.n[j].refs = w.n[j].refs /\ v.n[j].kind = w.n[j].kind
    <3>1. v.n = u.n /\ \A j \in VNodes : j # k => u.n[j] = w.n[j]
      BY <1>3, <1>5
    <3> QED BY ONLY <3>1
  <2> QED BY <2>1, <2>2
<1>15. NodeCounts(v.e, v.n, f, k)
  <2> SUFFICES ASSUME NEW j \in VNodes
               PROVE  v.n[j].refs = Cardinality(NamesOf(v.e, j)) + Cardinality(OpensOf(f, j)) + One(j = k)
    BY DEF NodeCounts
  <2>1. w.n[j].refs = Cardinality(NamesOf(w.e, j)) + Cardinality(OpensOf(f, j)) + One(j = 0)
    BY <1>1 DEF NodeCounts
  <2>2. One(j = 0) = 0 /\ Cardinality(OpensOf(f, j)) \in Nat
    BY OpensCount, VolFinite DEF One
  <2>3. v.n[j].refs = w.n[j].refs
    BY <1>14
  <2> QED BY ONLY <1>13, <2>1, <2>2, <2>3
<1>16. LinkCounts(v.e, v.n)
  <2> SUFFICES ASSUME NEW j \in VNodes, v.n[j].kind \in {"file", "link"}
               PROVE  v.n[j].nlink = Cardinality(NamesOf(v.e, j))
    BY DEF LinkCounts
  <2>1. w.n[j].nlink = Cardinality(NamesOf(w.e, j))
    BY <1>1, <1>14 DEF LinkCounts
  <2>2. CASE j = k
    <3>1. v.n[j].nlink = w.n[j].nlink - 1
      <4>1. v.n[k].nlink = l
        BY <1>8, <1>17
      <4>2. w.n[k].kind # "dir"
        BY <1>14, <2>2
      <4> QED BY <2>2, <4>1, <4>2
    <3>2. One(j = k) = 1
      BY <2>2 DEF One
    <3> QED BY ONLY <1>13, <2>1, <3>1, <3>2
  <2>3. CASE j # k
    <3>1. v.n[j].nlink = w.n[j].nlink
      <4>1. v.n = u.n /\ u.n[j] = w.n[j]
        BY <1>3, <1>5, <2>3
      <4> QED BY ONLY <4>1
    <3>2. One(j = k) = 0
      BY <2>3 DEF One
    <3> QED BY ONLY <1>13, <2>1, <3>1, <3>2
  <2> QED BY <2>2, <2>3
<1> QED BY <1>5, <1>7, <1>11, <1>12, <1>15, <1>16 DEF VolSafe

\* InDir only ever marks that the process has used what is not there.
LEMMA InDirIs ==
    ASSUME NEW w \in VolWorlds, NEW p, NEW v, v = InDir(w, p)
    PROVE  v \in VolWorlds /\ v.e = w.e /\ v.n = w.n /\ (v.crash \/ v = w) /\ (w.crash => v.crash)
BY VolCrashed DEF InDir

\* vol_unlink_node: the node loses its name, and the entry its node.
LEMMA UnlinkNodeSafe ==
    ASSUME NEW w, NEW h, NEW f, VolSafe(w, h, f, 0, 0), NEW x \in VEntries, w.e[x].node # 0,
           NEW v, v = vol_unlink_node(w, x), ~v.crash
    PROVE  /\ VolSafe(v, h, f, 0, 0)
           /\ \A y \in VEntries : Cardinality(HandsOn(h, y)) # 0 =>
                 v.e[y].node = IF y = x THEN 0 ELSE w.e[y].node
<1>1. w \in VolWorlds
  BY DEF VolSafe
<1>2. PICK k : k = w.e[x].node
  OBVIOUS
<1>3. k \in VNodes /\ w.e[x] \in VEntryType /\ w.n[k] \in VNodeType /\ w.n[k].nlink \in Int
  BY <1>1, <1>2, VolFields
<1>4. PICK l : l = IF w.n[k].kind = "dir" THEN w.n[k].nlink ELSE w.n[k].nlink - 1
  OBVIOUS
<1>5. PICK b : b = [w.n[k] EXCEPT !.nlink = l]
  OBVIOUS
<1>6. PICK a : a = [w.e[x] EXCEPT !.node = 0]
  OBVIOUS
<1>7. l \in Int /\ b \in VNodeType
  <2>1. l \in Int
    BY <1>3, <1>4
  <2> QED BY <1>3, <1>5, <2>1 DEF VNodeType
<1>8. a \in VEntryType
  <2>1. 0 \in 0 .. MaxVolNodes
    BY VolatileAssumption
  <2> QED BY <1>3, <1>6, <2>1 DEF VEntryType
<1>9. PICK n : n = WithNode(w, k, b)
  OBVIOUS
<1>10. n \in VolWorlds /\ n.e = w.e /\ n.crash = w.crash
  BY <1>1, <1>3, <1>7, <1>9, NodeSet
<1>11. n = [w EXCEPT !.n[k].nlink = IF w.n[k].kind = "dir" THEN @ ELSE @ - 1]
  BY <1>4, <1>5, <1>9 DEF WithNode
<1>12. PICK u : u = WithEntry(n, x, a)
  OBVIOUS
<1>13. v = vol_unlink_entry(vol_free_node(u, k), x)
  <2> DEFINE dir == w.n[k].kind = "dir"
             lost == dir /\ w.n[k].parent # 0 /\ w.e[w.n[k].parent].refs = 0
             c == IF lost THEN VCrash(n)
                  ELSE InDir(IF dir THEN InDir(n, w.n[k].parent) ELSE n, w.e[x].parent)
  <2>1. v = IF c.crash THEN c ELSE vol_unlink_entry(vol_free_node([c EXCEPT !.e[x].node = 0], k), x)
    <3> DEFINE NameLess(m) == [w EXCEPT !.n[m].nlink = IF w.n[m].kind = "dir" THEN @ ELSE @ - 1]
               DirLost(m) == w.n[m].kind = "dir" /\ w.n[m].parent # 0 /\ w.e[w.n[m].parent].refs = 0
               DirsSeen(m, z) == IF DirLost(m) THEN VCrash(z)
                                 ELSE InDir(IF w.n[m].kind = "dir" THEN InDir(z, w.n[m].parent) ELSE z, w.e[x].parent)
               NodeGone(m, z) == IF DirsSeen(m, z).crash THEN DirsSeen(m, z)
                                 ELSE vol_unlink_entry(vol_free_node([DirsSeen(m, z) EXCEPT !.e[x].node = 0], m), x)
    <3>1. v = NodeGone(w.e[x].node, NameLess(w.e[x].node))
      BY ZenonT(60) DEF vol_unlink_node
    <3>2. NameLess(k) = n
      BY <1>11
    <3>3. NodeGone(k, n) = IF c.crash THEN c ELSE vol_unlink_entry(vol_free_node([c EXCEPT !.e[x].node = 0], k), x)
      OBVIOUS
    <3> HIDE DEF NameLess, NodeGone
    <3> QED BY ONLY <1>2, <3>1, <3>2, <3>3, Zenon
  <2>2. PICK d : d = IF dir THEN InDir(n, w.n[k].parent) ELSE n
    OBVIOUS
  <2>3. d \in VolWorlds /\ (d.crash \/ d = n)
    BY <1>10, <2>2, InDirIs
  <2>4. c.crash \/ c = n
    <3>1. CASE lost
      BY <1>10, <3>1, VolCrashed
    <3>2. CASE ~lost
      <4>1. c = InDir(d, w.e[x].parent)
        BY <2>2, <3>2
      <4> HIDE DEF c
      <4>2. (c.crash \/ c = d) /\ (d.crash => c.crash)
        BY <2>3, <4>1, InDirIs
      <4> QED BY <2>3, <4>2
    <3> QED BY <3>1, <3>2
  <2> HIDE DEF c
  <2>5. c = n /\ v = vol_unlink_entry(vol_free_node([n EXCEPT !.e[x].node = 0], k), x)
    BY <2>1, <2>4
  <2>6. [n EXCEPT !.e[x].node = 0] = u
    BY <1>6, <1>10, <1>12 DEF WithEntry
  <2> QED BY <2>5, <2>6
<1>15. /\ VolSafe(u, h, f, x, k) /\ u.crash = w.crash
       /\ \A y \in VEntries : y # x => u.e[y] = w.e[y]
       /\ u.e[x].node = 0
  <2>1. w.e[x].node = k
    BY <1>2
  <2>2. VolSafe(w, h, f, 0, 0) /\ x \in VEntries /\ k \in VNodes /\ a \in VEntryType /\ l \in Int /\ b \in VNodeType
    BY <1>3, <1>7, <1>8
  <2> QED BY ONLY <1>4, <1>5, <1>6, <1>9, <1>12, <2>1, <2>2, NameTaken
<1>16. PICK o : o = vol_free_node(u, k)
  OBVIOUS
<1>17. VolSafe(o, h, f, x, 0) /\ o.e = u.e
  BY <1>3, <1>15, <1>16, FreeNodeSafe
<1>18. v = vol_unlink_entry(o, x)
  BY <1>13, <1>16
<1>19. VolSafe(v, h, f, 0, 0) /\ HeldKept(v.e, o.e, h)
  BY <1>17, <1>18, UnlinkEntrySafe
<1> QED BY <1>15, <1>17, <1>19 DEF HeldKept

\* A node is given a name: the entry has a reference for its node, and the node for its name.
LEMMA NameGiven ==
    ASSUME NEW w, NEW h, NEW f, VolSafe(w, h, f, 0, 0), NEW x \in VEntries, w.e[x].node = 0, NEW k \in VNodes,
           NEW a \in VEntryType, a.refs = w.e[x].refs + 1, a.node = k, a.parent = w.e[x].parent,
           NEW b \in VNodeType, b.refs = w.n[k].refs + 1, b.kind = w.n[k].kind,
           b.kind # "dir" => b.nlink = w.n[k].nlink + 1,
           NEW u, u = WithNode(w, k, b), NEW v, v = WithEntry(u, x, a)
    PROVE  /\ VolSafe(v, h, f, 0, 0) /\ v.crash = w.crash
           /\ \A y \in VEntries : y # x => v.e[y] = w.e[y]
           /\ v.e[x].node = k /\ v.e[x].parent = w.e[x].parent
<1>1. /\ w \in VolWorlds /\ EntryCounts(w.e, h, 0) /\ FreeIsBare(w.e)
      /\ NodeCounts(w.e, w.n, f, 0) /\ LinkCounts(w.e, w.n)
  BY DEF VolSafe
<1>3. /\ u \in VolWorlds /\ u.e = w.e /\ u.crash = w.crash
      /\ u.n[k] = b /\ \A j \in VNodes : j # k => u.n[j] = w.n[j]
  BY <1>1, NodeSet
<1>5. /\ v \in VolWorlds /\ v.n = u.n /\ v.crash = w.crash
      /\ v.e[x] = a /\ \A y \in VEntries : y # x => v.e[y] = w.e[y]
  <2>1. u \in VolWorlds
    BY <1>3
  <2>2. /\ v \in VolWorlds /\ v.n = u.n /\ v.crash = u.crash
        /\ v.e[x] = a /\ \A y \in VEntries : y # x => v.e[y] = u.e[y]
    BY <2>1, EntrySet
  <2> QED BY <1>3, <2>2
<1>6. v.n[k] = b
  <2>1. v.n = u.n /\ u.n[k] = b
    BY <1>3, <1>5
  <2> QED BY <2>1
<1>7. /\ \A y \in VEntries : w.e[y].refs \in Nat
      /\ \A j \in VNodes : w.n[j].refs \in Nat /\ w.n[j].nlink \in Int
  BY <1>1, VolFields
<1>8. \A y \in VEntries : v.e[y].parent = w.e[y].parent
  <2>1. v.e[x].parent = w.e[x].parent
    BY <1>5
  <2>2. \A y \in VEntries : y # x => v.e[y].parent = w.e[y].parent
    BY <1>5
  <2> QED BY <2>1, <2>2
<1>9. \A y \in VEntries : v.e[y].refs = w.e[y].refs + One(y = x)
  <2> SUFFICES ASSUME NEW y \in VEntries PROVE v.e[y].refs = w.e[y].refs + One(y = x)
    OBVIOUS
  <2>1. CASE y = x
    BY <1>5, <2>1 DEF One
  <2>2. CASE y # x
    BY <1>5, <1>7, <2>2 DEF One
  <2> QED BY <2>1, <2>2
<1>10. \A y : Below(v.e, y) = Below(w.e, y)
  BY <1>8 DEF Below
<1>11. FreeIsBare(v.e)
  <2> SUFFICES ASSUME NEW y \in VEntries, v.e[y].refs = 0 PROVE v.e[y].parent = 0
    BY DEF FreeIsBare
  <2>1. v.e[y].refs = w.e[y].refs + One(y = x) /\ w.e[y].refs \in Nat /\ One(y = x) \in Nat
    BY <1>7, <1>9 DEF One
  <2>2. w.e[y].refs = 0
    BY <2>1
  <2> QED BY <1>1, <1>8, <2>2 DEF FreeIsBare
<1>12. EntryCounts(v.e, h, 0)
  <2> SUFFICES ASSUME NEW y \in VEntries
               PROVE  v.e[y].refs = Cardinality(HandsOn(h, y)) + Cardinality(Below(v.e, y))
                                      + One(v.e[y].node # 0) + One(y = VRoot) + One(y = 0)
    BY DEF EntryCounts
  <2>1. PICK i, d, r : /\ i = Cardinality(HandsOn(h, y)) /\ d = Cardinality(Below(w.e, y)) /\ r = One(y = VRoot)
    OBVIOUS
  <2>2. i \in Nat /\ d \in Nat /\ r \in {0, 1} /\ One(y = 0) = 0 /\ k # 0
    BY <2>1, HandsCount, BelowCount, VolFinite DEF One
  <2>3. w.e[y].refs = i + d + One(w.e[y].node # 0) + r + One(y = 0)
    BY <1>1, <2>1 DEF EntryCounts
  <2>4. One(v.e[y].node # 0) = One(w.e[y].node # 0) + One(y = x)
    <3>1. CASE y = x
      <4>1. v.e[y].node # 0 /\ w.e[y].node = 0
        BY <1>5, <2>2, <3>1
      <4> QED BY <3>1, <4>1 DEF One
    <3>2. CASE y # x
      <4>1. v.e[y].node = w.e[y].node
        BY <1>5, <3>2
      <4> QED BY <3>2, <4>1 DEF One
    <3> QED BY <3>1, <3>2
  <2>5. One(w.e[y].node # 0) \in Nat /\ One(y = x) \in Nat
    BY DEF One
  <2>6. v.e[y].refs = i + d + One(v.e[y].node # 0) + r + One(y = 0)
    <3>1. v.e[y].refs = w.e[y].refs + One(y = x)
      BY <1>9
    <3> QED BY <2>2, <2>3, <2>4, <2>5, <3>1
  <2> QED BY <1>10, <2>1, <2>6
<1>13. ASSUME NEW j \in VNodes
       PROVE  /\ Cardinality(NamesOf(v.e, j)) = Cardinality(NamesOf(w.e, j)) + One(j = k)
              /\ Cardinality(NamesOf(w.e, j)) \in Nat /\ One(j = k) \in {0, 1}
  <2>1. Cardinality(NamesOf(v.e, j)) = Cardinality(NamesOf(w.e, j)) + One(v.e[x].node = j) - One(w.e[x].node = j)
    <3>1. PICK d, e : d = w.e /\ e = v.e
      OBVIOUS
    <3>2. \A y \in VEntries : y # x => e[y].node = d[y].node
      BY <1>5, <3>1
    <3>3. Cardinality(NamesOf(e, j)) = Cardinality(NamesOf(d, j)) + One(e[x].node = j) - One(d[x].node = j)
      BY <3>2, NamesChange DEF One
    <3> QED BY <3>1, <3>3
  <2>2. One(v.e[x].node = j) = One(j = k) /\ One(w.e[x].node = j) = 0 /\ One(j = k) \in {0, 1}
    <3>1. v.e[x].node = k /\ j # 0
      BY <1>5, VolFinite
    <3> QED BY <3>1 DEF One
  <2>3. Cardinality(NamesOf(w.e, j)) \in Nat
    BY NamesCount
  <2> QED BY <2>1, <2>2, <2>3
<1>14. \A j \in VNodes : v.n[j].refs = w.n[j].refs + One(j = k) /\ v.n[j].kind = w.n[j].kind
  <2>1. v.n[k].refs = w.n[k].refs + 1 /\ v.n[k].kind = w.n[k].kind
    BY <1>6
  <2>2. \A j \in VNodes : j # k => v.n[j].refs = w.n[j].refs /\ v.n[j].kind = w.n[j].kind
    BY <1>3, <1>5
  <2> QED BY <1>7, <2>1, <2>2 DEF One
<1>15. NodeCounts(v.e, v.n, f, 0)
  <2> SUFFICES ASSUME NEW j \in VNodes
               PROVE  v.n[j].refs = Cardinality(NamesOf(v.e, j)) + Cardinality(OpensOf(f, j)) + One(j = 0)
    BY DEF NodeCounts
  <2>1. w.n[j].refs = Cardinality(NamesOf(w.e, j)) + Cardinality(OpensOf(f, j)) + One(j = 0)
    BY <1>1 DEF NodeCounts
  <2>2. One(j = 0) = 0 /\ Cardinality(OpensOf(f, j)) \in Nat
    BY OpensCount, VolFinite DEF One
  <2> QED BY <1>13, <1>14, <2>1, <2>2
<1>16. LinkCounts(v.e, v.n)
  <2> SUFFICES ASSUME NEW j \in VNodes, v.n[j].kind \in {"file", "link"}
               PROVE  v.n[j].nlink = Cardinality(NamesOf(v.e, j))
    BY DEF LinkCounts
  <2>1. w.n[j].nlink = Cardinality(NamesOf(w.e, j))
    BY <1>1, <1>14 DEF LinkCounts
  <2>2. CASE j = k
    <3>1. v.n[j].nlink = w.n[j].nlink + 1
      <4>1. v.n[j] = b /\ b.kind # "dir"
        BY <1>6, <2>2
      <4> QED BY <2>2, <4>1
    <3>2. One(j = k) = 1
      BY <2>2 DEF One
    <3> QED BY <1>13, <2>1, <3>1, <3>2
  <2>3. CASE j # k
    <3>1. v.n[j].nlink = w.n[j].nlink
      BY <1>3, <1>5, <2>3
    <3>2. One(j = k) = 0
      BY <2>3 DEF One
    <3> QED BY <1>13, <2>1, <3>1, <3>2
  <2> QED BY <2>2, <2>3
<1> QED BY <1>5, <1>11, <1>12, <1>15, <1>16 DEF VolSafe

\* vol_link_node.
LEMMA LinkNodeSafe ==
    ASSUME NEW w, NEW h, NEW f, VolSafe(w, h, f, 0, 0), NEW x \in VEntries, w.e[x].node = 0, NEW k \in VNodes,
           NEW v, v = vol_link_node(w, x, k)
    PROVE  /\ VolSafe(v, h, f, 0, 0)
           /\ \A y \in VEntries : y # x => v.e[y] = w.e[y]
           /\ v.e[x].node = k
<1>1. w \in VolWorlds
  BY DEF VolSafe
<1>2. PICK c, d : c = w.e[x] /\ d = w.n[k]
  OBVIOUS
<1>3. c \in VEntryType /\ c.refs \in Nat /\ c.parent \in VEntries \cup {0} /\ d \in VNodeType /\ d.refs \in Nat
      /\ d.nlink \in Int
  BY <1>1, <1>2, VolFields
<1>4. PICK r, s, l, q : /\ r = c.refs + 1 /\ s = d.refs + 1
                        /\ l = IF d.kind = "dir" THEN d.nlink ELSE d.nlink + 1
                        /\ q = IF ~(d.kind = "dir") THEN d.parent ELSE IF c.parent = 0 THEN x ELSE c.parent
  OBVIOUS
<1>5. r \in Nat /\ s \in Nat /\ l \in Int /\ q \in 0 .. MaxVolEntries
  <2>1. d.parent \in 0 .. MaxVolEntries
    BY <1>3 DEF VNodeType
  <2>2. VEntries \cup {0} = 0 .. MaxVolEntries
    BY VolFinite
  <2>3. q = d.parent \/ q = x \/ q = c.parent
    BY <1>4
  <2>4. q \in 0 .. MaxVolEntries
    BY <1>3, <2>1, <2>2, <2>3
  <2> QED BY <1>3, <1>4, <2>4
<1>6. PICK a : a = [c EXCEPT !.refs = r, !.node = k]
  OBVIOUS
<1>7. PICK b : b = [d EXCEPT !.refs = s, !.nlink = l, !.parent = q]
  OBVIOUS
<1>8. a \in VEntryType /\ a.refs = w.e[x].refs + 1 /\ a.node = k /\ a.parent = w.e[x].parent
  <2>1. k \in 0 .. MaxVolNodes
    BY VolFinite
  <2>2. a \in VEntryType /\ a.refs = r /\ a.node = k /\ a.parent = c.parent
    BY <1>3, <1>5, <1>6, <2>1 DEF VEntryType
  <2> QED BY <1>2, <1>4, <2>2
<1>9. b \in VNodeType /\ b.refs = w.n[k].refs + 1 /\ b.kind = w.n[k].kind
      /\ (b.kind # "dir" => b.nlink = w.n[k].nlink + 1)
  <2>1. b \in VNodeType /\ b.refs = s /\ b.kind = d.kind /\ b.nlink = l
    BY <1>3, <1>5, <1>7 DEF VNodeType
  <2> QED BY <1>2, <1>4, <2>1
<1>10. PICK n : n = WithNode(w, k, b)
  OBVIOUS
<1>11. PICK u : u = WithEntry(n, x, a)
  OBVIOUS
<1>12. /\ VolSafe(u, h, f, 0, 0) /\ u.crash = w.crash
       /\ \A y \in VEntries : y # x => u.e[y] = w.e[y]
       /\ u.e[x].node = k
  BY <1>8, <1>9, <1>10, <1>11, NameGiven
<1>13. v = InDir(u, c.parent)
  <2>1. a = [c EXCEPT !.refs = @ + 1, !.node = k]
    BY <1>4, <1>6
  <2>2. b = [d EXCEPT !.refs = @ + 1, !.nlink = IF d.kind = "dir" THEN @ ELSE @ + 1,
                      !.parent = IF ~(d.kind = "dir") THEN @ ELSE IF c.parent = 0 THEN x ELSE c.parent]
    BY <1>4, <1>7
  <2>3. u = [w EXCEPT !.e[x] = a, !.n[k] = b]
    BY <1>1, <1>10, <1>11 DEF WithNode, WithEntry, VolWorlds
  <2> QED BY <1>2, <2>1, <2>2, <2>3 DEF vol_link_node
<1>14. u \in VolWorlds
  BY <1>12 DEF VolSafe
<1>15. v \in VolWorlds /\ v.e = u.e /\ v.n = u.n
  BY <1>13, <1>14, InDirIs
<1>16. VolSafe(v, h, f, 0, 0)
  BY <1>12, <1>15 DEF VolSafe
<1> QED BY <1>12, <1>15, <1>16

\* A node that is not there is made; it has no name yet.
LEMMA NewNodeSafe ==
    ASSUME NEW w, NEW h, NEW f, VolSafe(w, h, f, 0, 0), FreeNodes(w) # {}, NEW kind \in {"file", "dir", "link"},
           NEW v, v = vol_new_node(w, kind)
    PROVE  /\ VolSafe(v, h, f, 0, 0) /\ v.e = w.e /\ VLeast(FreeNodes(w)) \in VNodes
           /\ Cardinality(OpensOf(f, VLeast(FreeNodes(w)))) = 0
<1>1. /\ w \in VolWorlds /\ EntryCounts(w.e, h, 0) /\ FreeIsBare(w.e)
      /\ NodeCounts(w.e, w.n, f, 0) /\ LinkCounts(w.e, w.n)
  BY DEF VolSafe
<1>2. PICK k : k = VLeast(FreeNodes(w))
  OBVIOUS
<1>3. k \in VNodes /\ w.n[k].refs = 0
  <2>1. FreeNodes(w) \in SUBSET Nat
    BY VolFinite DEF FreeNodes
  <2>2. k \in FreeNodes(w)
    BY <1>2, <2>1, LeastIs
  <2> QED BY <2>2 DEF FreeNodes
<1>4. PICK b : b = [NoVNode EXCEPT !.kind = kind]
  OBVIOUS
<1>5. b \in VNodeType /\ b.refs = 0 /\ b.nlink = 0
  <2>1. b = [refs |-> 0, kind |-> kind, nlink |-> 0, size |-> 0, subdir |-> <<>>, parent |-> 0]
    BY <1>4 DEF NoVNode
  <2>2. <<>> \in Seq(VEntries) /\ 0 \in 0 .. MaxVolEntries
    BY VolatileAssumption
  <2>3. b \in VNodeType
    BY <2>1, <2>2 DEF VNodeType
  <2> QED BY <2>1, <2>3
<1>6. v = WithNode(w, k, b)
  BY <1>2, <1>4 DEF vol_new_node, WithNode
<1>7. /\ v \in VolWorlds /\ v.e = w.e /\ v.crash = w.crash
      /\ v.n[k] = b /\ \A j \in VNodes : j # k => v.n[j] = w.n[j]
  BY <1>1, <1>3, <1>5, <1>6, NodeSet
<1>8. Cardinality(NamesOf(w.e, k)) = 0 /\ Cardinality(OpensOf(f, k)) = 0
  <2>1. PICK c, o : c = Cardinality(NamesOf(w.e, k)) /\ o = Cardinality(OpensOf(f, k))
    OBVIOUS
  <2>2. c \in Nat /\ o \in Nat /\ One(k = 0) = 0
    BY <1>3, <2>1, NamesCount, OpensCount, VolFinite DEF One
  <2>3. w.n[k].refs = c + o + One(k = 0)
    BY <1>1, <1>3, <2>1 DEF NodeCounts
  <2> QED BY <1>3, <2>1, <2>2, <2>3
<1>9. \A j \in VNodes : v.n[j].refs = w.n[j].refs
  BY <1>3, <1>5, <1>7
<1>10. NodeCounts(v.e, v.n, f, 0)
  BY <1>1, <1>7, <1>9 DEF NodeCounts
<1>11. LinkCounts(v.e, v.n)
  BY <1>1, <1>5, <1>7, <1>8 DEF LinkCounts
<1> QED BY <1>1, <1>2, <1>3, <1>7, <1>8, <1>10, <1>11 DEF VolSafe

\* vol_make_node.
LEMMA MakeNodeSafe ==
    ASSUME NEW w, NEW h, NEW f, VolSafe(w, h, f, 0, 0), NEW x \in VEntries, w.e[x].node = 0,
           FreeNodes(w) # {}, NEW kind \in {"file", "dir", "link"}, NEW v, v = vol_make_node(w, x, kind)
    PROVE  VolSafe(v, h, f, 0, 0) /\ v.e[x].node \in VNodes
<1>1. PICK u : u = vol_new_node(w, kind)
  OBVIOUS
<1>2. PICK k : k = VLeast(FreeNodes(w))
  OBVIOUS
<1>3. VolSafe(u, h, f, 0, 0) /\ u.e = w.e /\ k \in VNodes
  BY <1>1, <1>2, NewNodeSafe
<1>4. v = vol_link_node(u, x, k)
  BY <1>1, <1>2 DEF vol_make_node
<1>5. VolSafe(v, h, f, 0, 0) /\ v.e[x].node = k
  BY <1>3, <1>4, LinkNodeSafe
<1> QED BY <1>3, <1>5

\* A new entry: it has one reference, for who has looked it up, and one of its parent.
LEMMA NewEntrySafe ==
    ASSUME NEW w, NEW h, NEW f, NEW p \in VEntries, VolSafe(w, h, f, p, 0),
           NEW x \in VEntries, x # p, w.e[x].refs = 0,
           NEW a \in VEntryType, a.refs = 1, a.node = 0, a.parent = p,
           NEW k \in VNodes, NEW b \in VNodeType,
           b.refs = w.n[k].refs, b.kind = w.n[k].kind, b.nlink = w.n[k].nlink,
           NEW u, u = WithNode(w, k, b), NEW v, v = WithEntry(u, x, a)
    PROVE  VolSafe(v, h, f, x, 0) /\ v.crash = w.crash
<1>1. /\ w \in VolWorlds /\ EntryCounts(w.e, h, p) /\ FreeIsBare(w.e)
      /\ NodeCounts(w.e, w.n, f, 0) /\ LinkCounts(w.e, w.n)
  BY DEF VolSafe
<1>3. /\ u \in VolWorlds /\ u.e = w.e /\ u.crash = w.crash
      /\ u.n[k] = b /\ \A j \in VNodes : j # k => u.n[j] = w.n[j]
  BY <1>1, NodeSet
<1>5. /\ v \in VolWorlds /\ v.n = u.n /\ v.crash = w.crash
      /\ v.e[x] = a /\ \A y \in VEntries : y # x => v.e[y] = w.e[y]
  <2>1. u \in VolWorlds
    BY <1>3
  <2>2. /\ v \in VolWorlds /\ v.n = u.n /\ v.crash = u.crash
        /\ v.e[x] = a /\ \A y \in VEntries : y # x => v.e[y] = u.e[y]
    BY <2>1, EntrySet
  <2> QED BY <1>3, <2>2
<1>6. v.n[k] = b
  <2>1. v.n = u.n /\ u.n[k] = b
    BY <1>3, <1>5
  <2> QED BY <2>1
<1>7. /\ Cardinality(HandsOn(h, x)) = 0 /\ Cardinality(Below(w.e, x)) = 0
      /\ w.e[x].node = 0 /\ x # VRoot /\ w.e[x].parent = 0
  <2>1. PICK i, d, c, r : /\ i = Cardinality(HandsOn(h, x)) /\ d = Cardinality(Below(w.e, x))
                          /\ c = One(w.e[x].node # 0) /\ r = One(x = VRoot)
    OBVIOUS
  <2>2. i \in Nat /\ d \in Nat /\ c \in {0, 1} /\ r \in {0, 1} /\ One(x = p) = 0
    BY <2>1, HandsCount, BelowCount DEF One
  <2>3. w.e[x].refs = i + d + c + r + One(x = p)
    BY <1>1, <2>1 DEF EntryCounts
  <2>4. i = 0 /\ d = 0 /\ c = 0 /\ r = 0
    BY <2>2, <2>3
  <2>5. w.e[x].node = 0 /\ x # VRoot
    BY <2>1, <2>4 DEF One
  <2> QED BY <1>1, <2>1, <2>4, <2>5 DEF FreeIsBare
<1>8. \A j : NamesOf(v.e, j) = NamesOf(w.e, j)
  <2>1. \A y \in VEntries : v.e[y].node = w.e[y].node
    <3>1. v.e[x].node = w.e[x].node
      BY <1>5, <1>7
    <3>2. \A y \in VEntries : y # x => v.e[y].node = w.e[y].node
      BY <1>5
    <3> QED BY <3>1, <3>2
  <2> QED BY <2>1 DEF NamesOf
<1>9. \A j \in VNodes : v.n[j].refs = w.n[j].refs /\ v.n[j].kind = w.n[j].kind /\ v.n[j].nlink = w.n[j].nlink
  <2>1. v.n[k].refs = w.n[k].refs /\ v.n[k].kind = w.n[k].kind /\ v.n[k].nlink = w.n[k].nlink
    BY <1>6
  <2>2. \A j \in VNodes : j # k => v.n[j] = w.n[j]
    BY <1>3, <1>5
  <2> QED BY <2>1, <2>2
<1>10. NodeCounts(v.e, v.n, f, 0) /\ LinkCounts(v.e, v.n)
  BY <1>1, <1>8, <1>9 DEF NodeCounts, LinkCounts
<1>11. FreeIsBare(v.e)
  <2>1. v.e[x].refs # 0
    BY <1>5
  <2>2. \A y \in VEntries : y # x => v.e[y] = w.e[y]
    BY <1>5
  <2> QED BY <1>1, <2>1, <2>2 DEF FreeIsBare
<1>12. EntryCounts(v.e, h, x)
  <2> SUFFICES ASSUME NEW y \in VEntries
               PROVE  v.e[y].refs = Cardinality(HandsOn(h, y)) + Cardinality(Below(v.e, y))
                                      + One(v.e[y].node # 0) + One(y = VRoot) + One(y = x)
    BY DEF EntryCounts
  <2>1. PICK i, d, c, r : /\ i = Cardinality(HandsOn(h, y)) /\ d = Cardinality(Below(w.e, y))
                          /\ c = One(w.e[y].node # 0) /\ r = One(y = VRoot)
    OBVIOUS
  <2>2. i \in Nat /\ d \in Nat /\ c \in {0, 1} /\ r \in {0, 1}
    BY <2>1, HandsCount, BelowCount DEF One
  <2>3. Cardinality(Below(v.e, y)) = d + One(y = p)
    <3>1. PICK e, g : g = w.e /\ e = v.e
      OBVIOUS
    <3>2. \A z \in VEntries : z # x => e[z].parent = g[z].parent
      BY <1>5, <3>1
    <3>3. Cardinality(Below(e, y)) = Cardinality(Below(g, y)) + One(e[x].parent = y) - One(g[x].parent = y)
      BY <3>2, BelowChanges DEF One
    <3>4. e[x].parent = p /\ g[x].parent = 0 /\ y # 0
      BY <1>5, <1>7, <3>1, VolFinite
    <3>5. One(e[x].parent = y) = One(y = p) /\ One(g[x].parent = y) = 0 /\ One(y = p) \in {0, 1}
      BY <3>4 DEF One
    <3> QED BY <2>1, <2>2, <3>1, <3>3, <3>5
  <2>4. CASE y = x
    <3>1. i = 0 /\ d = 0 /\ r = 0 /\ One(y = p) = 0 /\ One(y = x) = 1
      BY <1>7, <2>1, <2>4 DEF One
    <3>2. v.e[y].refs = 1 /\ One(v.e[y].node # 0) = 0
      BY <1>5, <2>4 DEF One
    <3> QED BY <2>1, <2>3, <3>1, <3>2
  <2>5. CASE y # x
    <3>1. v.e[y] = w.e[y] /\ One(y = x) = 0
      BY <1>5, <2>5 DEF One
    <3>2. w.e[y].refs = i + d + c + r + One(y = p)
      BY <1>1, <2>1 DEF EntryCounts
    <3>3. One(y = p) \in {0, 1}
      BY DEF One
    <3>4. w.e[y].refs = i + (d + One(y = p)) + c + r + One(y = x)
      BY <2>2, <3>1, <3>2, <3>3
    <3> QED BY <2>1, <2>3, <3>1, <3>4
  <2> QED BY <2>4, <2>5
<1> QED BY <1>5, <1>10, <1>11, <1>12 DEF VolSafe

\* vol_get_entry, of a name in a directory: the entry has a reference for who asks.
LEMMA GetEntrySafe ==
    ASSUME NEW w, NEW h, NEW f, VolSafe(w, h, f, 0, 0), NEW p \in VEntries, w.e[p].node # 0, NEW word \in VolNames,
           NEW r \in vol_get_entry(w, p, word)
    PROVE  r.x \in VEntries /\ VolSafe(r.w, h, f, r.x, 0)
<1>1. w \in VolWorlds /\ EntryCounts(w.e, h, 0)
  BY DEF VolSafe
<1>2. PICK k : k = w.e[p].node
  OBVIOUS
<1>3. /\ k \in VNodes /\ w.n[k] \in VNodeType /\ w.n[k].subdir \in Seq(VEntries)
      /\ \A y \in VEntries : w.e[y].refs \in Nat
  BY <1>1, <1>2, VolFields
<1>4. PICK s : s = w.n[k].subdir
  OBVIOUS
<1> DEFINE there == {x \in ToSet(s) : w.e[x].name = word}
<1>5. CASE there # {}
  <2>1. there \subseteq VEntries
    BY <1>3, <1>4 DEF ToSet
  <2>2. PICK x : x = VLeast(there)
    OBVIOUS
  <2>3. there \in SUBSET Nat
    BY <2>1, VolFinite
  <2>4. x \in VEntries
    BY <1>5, <2>1, <2>2, <2>3, LeastIs
  <2>5. r = [w |-> VRefEntry(w, x), x |-> x]
    BY <1>2, <1>4, <1>5, <2>2 DEF vol_get_entry, NodeOf
  <2>6. PICK v : v = VRefEntry(w, x)
    OBVIOUS
  <2>7. VolSafe(v, h, f, x, 0)
    BY <2>4, <2>6, RefEntrySafe
  <2> QED BY <2>4, <2>5, <2>6, <2>7
<1>6. CASE there = {}
  <2>1. PICK x : x = VLeast(FreeEntries(w))
    OBVIOUS
  <2>2. PICK z : z = VRefEntry(w, p)
    OBVIOUS
  <2>3. PICK a : a = [NoVEntry EXCEPT !.refs = 1, !.name = word, !.parent = p]
    OBVIOUS
  <2>4. PICK t : t = Append(s, x)
    OBVIOUS
  <2>5. /\ FreeEntries(w) # {}
        /\ r = [w |-> [z EXCEPT !.e[x] = a, !.n[k].subdir = Append(@, x)], x |-> x]
    BY <1>2, <1>4, <1>6, <2>1, <2>2, <2>3 DEF vol_get_entry, NodeOf
  <2>6. x \in VEntries /\ w.e[x].refs = 0
    <3>1. FreeEntries(w) \in SUBSET Nat
      BY VolFinite DEF FreeEntries
    <3>2. x \in FreeEntries(w)
      BY <2>1, <2>5, <3>1, LeastIs
    <3> QED BY <3>2 DEF FreeEntries
  <2>7. x # p
    <3>1. PICK i, d, q : i = Cardinality(HandsOn(h, p)) /\ d = Cardinality(Below(w.e, p)) /\ q = One(p = VRoot)
      OBVIOUS
    <3>2. i \in Nat /\ d \in Nat /\ q \in {0, 1} /\ One(w.e[p].node # 0) = 1 /\ One(p = 0) = 0
      BY <3>1, HandsCount, BelowCount, VolFinite DEF One
    <3>3. w.e[p].refs = i + d + One(w.e[p].node # 0) + q + One(p = 0)
      BY <1>1, <3>1 DEF EntryCounts
    <3> QED BY <2>6, <3>2, <3>3
  <2>8. /\ VolSafe(z, h, f, p, 0) /\ z.n = w.n /\ z \in VolWorlds
        /\ \A y \in VEntries : y # p => z.e[y].refs = w.e[y].refs
    <3>1. VolSafe(z, h, f, p, 0) /\ z.n = w.n
      BY <2>2, RefEntrySafe
    <3>2. z.e = [w.e EXCEPT ![p].refs = @ + 1]
      BY <1>1, <2>2 DEF VRefEntry, VolWorlds
    <3>3. \A y \in VEntries : y # p => z.e[y] = w.e[y]
      BY <1>1, <3>2 DEF VolWorlds
    <3> QED BY <3>1, <3>3 DEF VolSafe
  <2>9. a \in VEntryType /\ a.refs = 1 /\ a.node = 0 /\ a.parent = p
    <3>1. a = [refs |-> 1, name |-> word, node |-> 0, parent |-> p]
      BY <2>3 DEF NoVEntry
    <3>2. word \in VEntryNames /\ 0 \in 0 .. MaxVolNodes /\ p \in 0 .. MaxVolEntries
      BY VolatileAssumption, VolFinite DEF VEntryNames
    <3>3. a \in VEntryType
      BY <3>1, <3>2 DEF VEntryType
    <3> QED BY <3>1, <3>3
  <2>10. t \in Seq(VEntries)
    BY <1>3, <1>4, <2>4, <2>6
  <2>11. PICK b : b = [w.n[k] EXCEPT !.subdir = t]
    OBVIOUS
  <2>12. b \in VNodeType /\ b.refs = z.n[k].refs /\ b.kind = z.n[k].kind /\ b.nlink = z.n[k].nlink
    BY <1>3, <2>8, <2>10, <2>11 DEF VNodeType
  <2>13. PICK u : u = WithNode(z, k, b)
    OBVIOUS
  <2>14. PICK v : v = WithEntry(u, x, a)
    OBVIOUS
  <2>15. z.e[x].refs = 0
    BY <2>6, <2>7, <2>8
  <2>16. VolSafe(v, h, f, x, 0)
    BY <1>3, <2>6, <2>7, <2>8, <2>9, <2>12, <2>13, <2>14, <2>15, NewEntrySafe
  <2>17. r.x = x /\ r.w = v
    <3>1. [z EXCEPT !.e[x] = a, !.n[k].subdir = Append(@, x)] = [z EXCEPT !.e[x] = a, !.n[k] = b]
      BY <1>4, <2>4, <2>8, <2>11 DEF VolWorlds
    <3>2. v = [z EXCEPT !.e[x] = a, !.n[k] = b]
      BY <2>8, <2>13, <2>14 DEF WithNode, WithEntry, VolWorlds
    <3> QED BY <2>5, <3>1, <3>2
  <2> QED BY <2>6, <2>16, <2>17
<1> QED BY <1>5, <1>6

VolFileType == [node : 0 .. MaxVolNodes, ptr : Nat, append : BOOLEAN]
VolHolders == [VolHands -> VEntries \cup {0}]
VolOpenFiles == [VolFiles -> VolFileType]

\* The inductive invariant: all counts are right, unless the process has crashed.
VolInv ==
    ~vcrash => /\ vhands \in VolHolders /\ vfiles \in VolOpenFiles
               /\ VolSafe(VNow, vhands, vfiles, 0, 0)

\* A node that differs in what is not counted, and a file that has the same node.
LEMMA SameCounts ==
    ASSUME NEW w, NEW h, NEW f, NEW x, NEW m, VolSafe(w, h, f, x, m), NEW v \in VolWorlds,
           v.e = w.e, NodesLike(v.n, w.n), NEW b, \A g \in VolFiles : b[g].node = f[g].node
    PROVE  VolSafe(v, h, b, x, m)
<1>1. /\ EntryCounts(w.e, h, x) /\ FreeIsBare(w.e) /\ NodeCounts(w.e, w.n, f, m) /\ LinkCounts(w.e, w.n)
  BY DEF VolSafe
<1>2. \A k : OpensOf(b, k) = OpensOf(f, k)
  BY DEF OpensOf
<1>3. NodeCounts(v.e, v.n, b, m) /\ LinkCounts(v.e, v.n)
  BY <1>1, <1>2 DEF NodeCounts, LinkCounts, NodesLike
<1> QED BY <1>1, <1>3 DEF VolSafe

\* A file opens the node k, which has a reference more for it.
LEMMA OpenedSafe ==
    ASSUME NEW w, NEW h, NEW f, VolSafe(w, h, f, 0, 0), NEW k \in VNodes, NEW g \in VolFiles, f[g].node = 0,
           NEW b, b[g].node = k, OthersOpen(f, b, g),
           NEW v, v = [w EXCEPT !.n[k].refs = @ + 1]
    PROVE  VolSafe(v, h, b, 0, 0) /\ v.crash = w.crash
<1>1. /\ w \in VolWorlds /\ EntryCounts(w.e, h, 0) /\ FreeIsBare(w.e)
      /\ NodeCounts(w.e, w.n, f, 0) /\ LinkCounts(w.e, w.n)
  BY DEF VolSafe
<1>2. PICK c, r : c = w.n[k] /\ r = c.refs + 1
  OBVIOUS
<1>3. c \in VNodeType /\ c.refs \in Nat /\ r \in Nat
  <2>1. c \in VNodeType /\ c.refs \in Nat
    BY <1>1, <1>2, VolFields
  <2> QED BY <1>2, <2>1
<1>4. PICK d : d = [c EXCEPT !.refs = r]
  OBVIOUS
<1>5. d \in VNodeType /\ d.refs = c.refs + 1 /\ d.kind = c.kind /\ d.nlink = c.nlink
  BY <1>2, <1>3, <1>4 DEF VNodeType
<1>6. PICK z : z = WithNode(w, k, d)
  OBVIOUS
<1>11. v = z
  BY <1>2, <1>4, <1>6 DEF WithNode
<1>7. /\ v \in VolWorlds /\ v.e = w.e /\ v.crash = w.crash
      /\ v.n[k] = d /\ \A j \in VNodes : j # k => v.n[j] = w.n[j]
  <2>1. d \in VNodeType /\ w \in VolWorlds
    BY <1>1, <1>5
  <2>2. /\ z \in VolWorlds /\ z.e = w.e /\ z.crash = w.crash
        /\ z.n[k] = d /\ \A j \in VNodes : j # k => z.n[j] = w.n[j]
    BY <1>6, <2>1, NodeSet
  <2> QED BY <1>11, <2>2
<1>8. \A j \in VNodes : v.n[j].kind = w.n[j].kind /\ v.n[j].nlink = w.n[j].nlink
  BY <1>2, <1>5, <1>7
<1>9. LinkCounts(v.e, v.n)
  BY <1>1, <1>7, <1>8 DEF LinkCounts
<1>10. NodeCounts(v.e, v.n, b, 0)
  <2> SUFFICES ASSUME NEW j \in VNodes
               PROVE  v.n[j].refs = Cardinality(NamesOf(w.e, j)) + Cardinality(OpensOf(b, j)) + One(j = 0)
    BY <1>7 DEF NodeCounts
  <2>1. PICK a, o : a = Cardinality(NamesOf(w.e, j)) /\ o = Cardinality(OpensOf(f, j))
    OBVIOUS
  <2>2. a \in Nat /\ o \in Nat /\ One(j = 0) = 0 /\ j # 0
    BY <2>1, NamesCount, OpensCount, VolFinite DEF One
  <2>3. w.n[j].refs = a + o + One(j = 0)
    BY <1>1, <2>1 DEF NodeCounts
  <2>4. Cardinality(OpensOf(b, j)) = Cardinality(OpensOf(f, j)) + One(b[g].node = j) - One(f[g].node = j)
    BY OpensChange DEF One
  <2>5. One(b[g].node = j) = One(j = k) /\ One(f[g].node = j) = 0
    BY <2>2 DEF One
  <2>6. CASE j = k
    <3>1. One(j = k) = 1 /\ v.n[j].refs = w.n[j].refs + 1
      BY <1>2, <1>5, <1>7, <2>6 DEF One
    <3> QED BY <2>1, <2>2, <2>3, <2>4, <2>5, <3>1
  <2>7. CASE j # k
    <3>1. One(j = k) = 0 /\ v.n[j].refs = w.n[j].refs
      BY <1>7, <2>7 DEF One
    <3> QED BY <2>1, <2>2, <2>3, <2>4, <2>5, <3>1
  <2> QED BY <2>6, <2>7
<1> QED BY <1>1, <1>7, <1>9, <1>10 DEF VolSafe

\* A file has left the node k, which has a reference too many.
LEMMA ClosedSafe ==
    ASSUME NEW w, NEW h, NEW f, VolSafe(w, h, f, 0, 0), NEW k \in VNodes, NEW g \in VolFiles, f[g].node = k,
           NEW b, b[g].node = 0, OthersOpen(f, b, g)
    PROVE  VolSafe(w, h, b, 0, k)
<1>1. NodeCounts(w.e, w.n, f, 0)
  BY DEF VolSafe
<1>2. NodeCounts(w.e, w.n, b, k)
  <2> SUFFICES ASSUME NEW j \in VNodes
               PROVE  w.n[j].refs = Cardinality(NamesOf(w.e, j)) + Cardinality(OpensOf(b, j)) + One(j = k)
    BY DEF NodeCounts
  <2>1. PICK a, o : a = Cardinality(NamesOf(w.e, j)) /\ o = Cardinality(OpensOf(f, j))
    OBVIOUS
  <2>2. a \in Nat /\ o \in Nat /\ One(j = 0) = 0 /\ j # 0
    BY <2>1, NamesCount, OpensCount, VolFinite DEF One
  <2>3. w.n[j].refs = a + o + One(j = 0)
    BY <1>1, <2>1 DEF NodeCounts
  <2>4. Cardinality(OpensOf(b, j)) = Cardinality(OpensOf(f, j)) + One(b[g].node = j) - One(f[g].node = j)
    BY OpensChange DEF One
  <2>5. One(b[g].node = j) = 0 /\ One(f[g].node = j) = One(j = k) /\ One(j = k) \in {0, 1}
    BY <2>2 DEF One
  <2> QED BY <2>1, <2>2, <2>3, <2>4, <2>5
<1> QED BY <1>2 DEF VolSafe

\* What a step that becomes w has to keep.
LEMMA VolBecomesSafe ==
    ASSUME NEW w, VBecomes(w), ~w.crash => VolSafe(w, vhands', vfiles', 0, 0),
           vhands' \in VolHolders, vfiles' \in VolOpenFiles
    PROVE  VolInv'
<1> SUFFICES ASSUME ~vcrash' PROVE VolSafe(VNow', vhands', vfiles', 0, 0)
  BY DEF VolInv
<1>1. VolSafe(w, vhands', vfiles', 0, 0) /\ vents' = w.e /\ vnodes' = w.n
  BY DEF VBecomes
<1>2. VNow' = [e |-> w.e, n |-> w.n, crash |-> FALSE]
  BY <1>1 DEF VNow
<1>3. w \in VolWorlds
  BY <1>1 DEF VolSafe
<1>4. VNow' \in VolWorlds /\ (VNow').e = w.e /\ (VNow').n = w.n
  BY <1>2, <1>3 DEF VolWorlds
<1> QED BY <1>1, <1>4 DEF VolSafe

VolKept == vhands \in VolHolders /\ vfiles \in VolOpenFiles /\ VolSafe(VNow, vhands, vfiles, 0, 0)

\* What a user holds is an entry, or nothing.
LEMMA HeldIs ==
    ASSUME VolKept, NEW u \in VolHands
    PROVE  /\ Held(u) \in VEntries \cup {0} /\ VNow \in VolWorlds
           /\ Held(u) # 0 => Held(u) \in VEntries /\ Cardinality(HandsOn(vhands, Held(u))) # 0
<1>1. Held(u) \in VEntries \cup {0} /\ vhands[u] = Held(u)
  BY DEF VolKept, VolHolders, Held
<1>2. VNow \in VolWorlds
  BY DEF VolKept, VolSafe
<1>3. Cardinality(HandsOn(vhands, Held(u))) > 0 /\ Cardinality(HandsOn(vhands, Held(u))) \in Nat
  BY <1>1, HandsCount
<1> QED BY <1>1, <1>2, <1>3

\* The world of the state has its entries and its nodes.
LEMMA VNowIs == VNow.e = vents /\ VNow.n = vnodes
BY DEF VNow

\* A user who holds p takes x, that has a reference more, and lets p go.
LEMMA HandTaken ==
    ASSUME VolKept, NEW u \in VolHands, NEW x \in VEntries \cup {0}, NEW w, VolSafe(w, vhands, vfiles, x, 0),
           NEW v, v = IF Held(u) = 0 THEN w ELSE vol_unlink_entry(w, Held(u)), VBecomes(v),
           vhands' = [vhands EXCEPT ![u] = x], vfiles' = vfiles
    PROVE  VolInv'
<1>1. PICK p : p = vhands[u]
  OBVIOUS
<1>2. PICK g : g = Handed(vhands, u, x)
  OBVIOUS
<1>3. vhands \in [VolHands -> VEntries \cup {0}] /\ p = Held(u) /\ p \in VEntries \cup {0}
  BY <1>1, HeldIs DEF VolKept, VolHolders, Held
<1>4. VolSafe(w, g, vfiles, p, 0)
  BY <1>1, <1>2, <1>3, HandMoves
<1>5. VolSafe(v, g, vfiles, 0, 0)
  <2>1. CASE p = 0
    BY <1>3, <1>4, <2>1
  <2>2. CASE p # 0
    <3>1. v = vol_unlink_entry(w, p) /\ p \in VEntries
      BY <1>3, <2>2
    <3> QED BY <1>4, <3>1, UnlinkEntrySafe
  <2> QED BY <2>1, <2>2
<1>6. vhands' = g /\ g \in VolHolders /\ vfiles' \in VolOpenFiles
  BY <1>2, <1>3 DEF Handed, VolHolders, VolKept
<1> QED BY <1>5, <1>6, VolBecomesSafe

\* A user takes the root.
LEMMA SafeGetRoot ==
    ASSUME VolKept, NEW u \in VolHands, vol_get_root(u)
    PROVE  VolInv'
<1>1. PICK w : w = VRefEntry(VNow, VRoot)
  OBVIOUS
<1>2. Held(u) = 0 /\ VBecomes(w) /\ vhands' = [vhands EXCEPT ![u] = VRoot] /\ vfiles' = vfiles
  BY <1>1 DEF vol_get_root
<1>3. VRoot \in VEntries
  BY VolFinite
<1>4. VolSafe(w, vhands, vfiles, VRoot, 0)
  BY <1>1, <1>3, RefEntrySafe DEF VolKept
<1> QED BY <1>2, <1>3, <1>4, HandTaken

\* A name is looked up: found, or made without a node.
LEMMA SafeLookup ==
    ASSUME VolKept, NEW u \in VolHands, NEW word \in VolNames, vol_lookup(u, word)
    PROVE  VolInv'
<1>1. PICK p : p = Held(u)
  OBVIOUS
<1>2. p # 0 /\ IsDir(VNow, p) /\ p \in VEntries /\ vfiles' = vfiles
  BY <1>1, HeldIs DEF vol_lookup
<1>3. PICK r \in vol_get_entry(VNow, p, word) :
        VBecomes(vol_unlink_entry(r.w, p)) /\ vhands' = [vhands EXCEPT ![u] = r.x]
  BY <1>1 DEF vol_lookup
<1>4. VNow.e[p].node # 0
  BY <1>2 DEF IsDir
<1>5. VolSafe(VNow, vhands, vfiles, 0, 0)
  BY DEF VolKept
<1>6. r.x \in VEntries /\ VolSafe(r.w, vhands, vfiles, r.x, 0)
  BY <1>2, <1>3, <1>4, <1>5, GetEntrySafe
<1>7. PICK w, x, v : w = r.w /\ x = r.x /\ v = vol_unlink_entry(w, p)
  OBVIOUS
<1>8. v = IF Held(u) = 0 THEN w ELSE vol_unlink_entry(w, Held(u))
  BY <1>1, <1>2, <1>7
<1> QED BY <1>2, <1>3, <1>6, <1>7, <1>8, HandTaken

\* A user goes to the directory above.
LEMMA SafeLookupParent ==
    ASSUME VolKept, NEW u \in VolHands, vol_lookup_parent(u)
    PROVE  VolInv'
<1>1. PICK p, x : p = Held(u) /\ x = vents[p].parent
  OBVIOUS
<1>2. PICK w : w = VRefEntry(VNow, x)
  OBVIOUS
<1>3. PICK v : v = vol_unlink_entry(w, p)
  OBVIOUS
<1>4. p # 0 /\ x # 0 /\ VBecomes(v) /\ vhands' = [vhands EXCEPT ![u] = x] /\ vfiles' = vfiles
  BY <1>1, <1>2, <1>3 DEF vol_lookup_parent
<1>5. x \in VEntries
  <2>1. p \in VEntries /\ VNow \in VolWorlds
    BY <1>1, <1>4, HeldIs
  <2>2. VNow.e[p].parent \in VEntries \cup {0}
    BY <2>1, VolFields
  <2> QED BY <1>1, <1>4, <2>2, VNowIs
<1>6. VolSafe(w, vhands, vfiles, x, 0)
  BY <1>2, <1>5, RefEntrySafe DEF VolKept
<1>7. v = IF Held(u) = 0 THEN w ELSE vol_unlink_entry(w, Held(u))
  BY <1>1, <1>3, <1>4
<1> QED BY <1>4, <1>5, <1>6, <1>7, HandTaken

\* A user lets go of an entry.
LEMMA SafePutent ==
    ASSUME VolKept, NEW u \in VolHands, vol_putent(u)
    PROVE  VolInv'
<1>1. PICK w, v : w = VNow /\ v = vol_unlink_entry(w, Held(u))
  OBVIOUS
<1>2. Held(u) # 0 /\ VBecomes(v) /\ vhands' = [vhands EXCEPT ![u] = 0] /\ vfiles' = vfiles
  BY <1>1 DEF vol_putent
<1>3. VolSafe(w, vhands, vfiles, 0, 0)
  BY <1>1 DEF VolKept
<1>4. v = IF Held(u) = 0 THEN w ELSE vol_unlink_entry(w, Held(u))
  BY <1>1, <1>2
<1> QED BY <1>2, <1>3, <1>4, HandTaken

\* A user takes what another has.
LEMMA SafeCopyent ==
    ASSUME VolKept, NEW u \in VolHands, NEW o \in VolHands, vol_copyent(u, o)
    PROVE  VolInv'
<1>1. PICK x : x = Held(u)
  OBVIOUS
<1>2. PICK w : w = VRefEntry(VNow, x)
  OBVIOUS
<1>3. Held(o) = 0 /\ VBecomes(w) /\ vhands' = [vhands EXCEPT ![o] = x] /\ vfiles' = vfiles /\ x \in VEntries
  BY <1>1, <1>2, HeldIs DEF vol_copyent
<1>4. VolSafe(w, vhands, vfiles, x, 0)
  BY <1>2, <1>3, RefEntrySafe DEF VolKept
<1> QED BY <1>3, <1>4, HandTaken

\* A step of names: it leaves what the users hold, and the files.
LEMMA NamesStep ==
    ASSUME VolKept, NEW w, VBecomes(w), ~w.crash => VolSafe(w, vhands, vfiles, 0, 0),
           vhands' = vhands, vfiles' = vfiles
    PROVE  VolInv'
BY VolBecomesSafe DEF VolKept

\* A name is removed, of a file or of an empty directory.
LEMMA SafeUnlink ==
    ASSUME VolKept, NEW u \in VolHands, vol_unlink(u) \/ vol_rmdir(u)
    PROVE  VolInv'
<1>1. PICK x, w : x = Held(u) /\ w = vol_unlink_node(VNow, x)
  OBVIOUS
<1>2. x # 0 /\ vents[x].node # 0 /\ VBecomes(w) /\ vhands' = vhands /\ vfiles' = vfiles
  <2>1. CASE vol_unlink(u)
    BY <1>1, <2>1 DEF vol_unlink
  <2>2. CASE vol_rmdir(u)
    BY <1>1, <2>2, VNowIs DEF vol_rmdir, vol_check_rmdir, IsDir
  <2> QED BY <2>1, <2>2
<1>3. x \in VEntries /\ VNow.e[x].node # 0
  BY <1>1, <1>2, HeldIs, VNowIs
<1>4. ~w.crash => VolSafe(w, vhands, vfiles, 0, 0)
  BY <1>1, <1>3, UnlinkNodeSafe DEF VolKept
<1> QED BY <1>2, <1>4, NamesStep

\* A node is made for a name that has none.
LEMMA SafeMknod ==
    ASSUME VolKept, NEW u \in VolHands, NEW kind \in {"file", "dir", "link"}, vol_mknod(u, kind)
    PROVE  VolInv'
<1>1. PICK x, w : x = Held(u) /\ w = vol_make_node(VNow, x, kind)
  OBVIOUS
<1>2. x # 0 /\ vents[x].node = 0 /\ FreeNodes(VNow) # {} /\ VBecomes(w) /\ vhands' = vhands /\ vfiles' = vfiles
  BY <1>1 DEF vol_mknod
<1>3. x \in VEntries /\ VNow.e[x].node = 0
  BY <1>1, <1>2, HeldIs, VNowIs
<1>4. VolSafe(w, vhands, vfiles, 0, 0)
  BY <1>1, <1>2, <1>3, MakeNodeSafe DEF VolKept
<1> QED BY <1>2, <1>4, NamesStep

\* A file is given another name.
LEMMA SafeLink ==
    ASSUME VolKept, NEW u \in VolHands, NEW o \in VolHands, vol_link(u, o)
    PROVE  VolInv'
<1>1. PICK x, y, k, w : x = Held(o) /\ y = Held(u) /\ k = vents[y].node /\ w = vol_link_node(VNow, x, k)
  OBVIOUS
<1>2. /\ x # 0 /\ y # 0 /\ vents[x].node = 0 /\ k # 0
      /\ VBecomes(w) /\ vhands' = vhands /\ vfiles' = vfiles
  BY <1>1 DEF vol_link
<1>3. x \in VEntries /\ y \in VEntries /\ VNow.e[x].node = 0 /\ VNow \in VolWorlds
  BY <1>1, <1>2, HeldIs, VNowIs
<1>4. k \in VNodes
  <2>1. VNow.e[y].node \in VNodes \cup {0}
    BY <1>3, VolFields
  <2> QED BY <1>1, <1>2, <2>1, VNowIs
<1>5. VolSafe(w, vhands, vfiles, 0, 0)
  BY <1>1, <1>3, <1>4, LinkNodeSafe DEF VolKept
<1> QED BY <1>2, <1>5, NamesStep

\* Both entries of a rename are held, so neither goes with what it loses.
LEMMA RenamedSafe ==
    ASSUME NEW w, NEW h, NEW f, VolSafe(w, h, f, 0, 0), NEW x \in VEntries, NEW y \in VEntries, x # y,
           Cardinality(HandsOn(h, x)) # 0, Cardinality(HandsOn(h, y)) # 0, w.e[x].node # 0,
           NEW v, v = Renamed(w, x, y), ~v.crash
    PROVE  VolSafe(v, h, f, 0, 0)
<1>1. PICK a : a = IF w.e[y].node # 0 THEN vol_unlink_node(w, y) ELSE w
  OBVIOUS
<1>2. PICK b : b = IF a.crash THEN a ELSE vol_link_node(a, y, a.e[x].node)
  OBVIOUS
<1>3. v = IF b.crash THEN b ELSE vol_unlink_node(b, x)
  BY <1>1, <1>2 DEF Renamed
<1>4. ~b.crash /\ v = vol_unlink_node(b, x)
  BY <1>3
<1>5. ~a.crash /\ b = vol_link_node(a, y, a.e[x].node)
  BY <1>2, <1>4
<1>6. VolSafe(a, h, f, 0, 0) /\ a.e[y].node = 0 /\ a.e[x].node = w.e[x].node
  <2>1. CASE w.e[y].node = 0
    BY <1>1, <2>1
  <2>2. CASE w.e[y].node # 0
    <3>1. a = vol_unlink_node(w, y)
      BY <1>1, <2>2
    <3>2. /\ VolSafe(a, h, f, 0, 0)
          /\ \A z \in VEntries : Cardinality(HandsOn(h, z)) # 0 =>
                a.e[z].node = IF z = y THEN 0 ELSE w.e[z].node
      BY <1>5, <2>2, <3>1, UnlinkNodeSafe
    <3> QED BY <3>2
  <2> QED BY <2>1, <2>2
<1>7. PICK k : k = a.e[x].node
  OBVIOUS
<1>8. k \in VNodes
  <2>1. a \in VolWorlds
    BY <1>6 DEF VolSafe
  <2>2. a.e[x].node \in VNodes \cup {0}
    BY <2>1, VolFields
  <2> QED BY <1>6, <1>7, <2>2
<1>9. b = vol_link_node(a, y, k)
  BY <1>5, <1>7
<1>10. VolSafe(b, h, f, 0, 0) /\ \A z \in VEntries : z # y => b.e[z] = a.e[z]
  BY <1>6, <1>8, <1>9, LinkNodeSafe
<1>11. b.e[x].node # 0
  BY <1>6, <1>10
<1> QED BY <1>4, <1>10, <1>11, UnlinkNodeSafe

\* A node goes from one name to another, whose node loses it.
LEMMA SafeRename ==
    ASSUME VolKept, NEW u \in VolHands, NEW o \in VolHands, vol_rename(u, o)
    PROVE  VolInv'
<1>1. PICK x, y, w : x = Held(u) /\ y = Held(o) /\ w = Renamed(VNow, x, y)
  OBVIOUS
<1>2. /\ x # 0 /\ y # 0 /\ x # y /\ vents[x].node # 0
      /\ VBecomes(w) /\ vhands' = vhands /\ vfiles' = vfiles
  BY <1>1 DEF vol_rename, vol_check_rename
<1>3. x \in VEntries /\ Cardinality(HandsOn(vhands, x)) # 0
  BY <1>1, <1>2, HeldIs
<1>4. y \in VEntries /\ Cardinality(HandsOn(vhands, y)) # 0
  BY <1>1, <1>2, HeldIs
<1>5. VNow.e[x].node # 0 /\ VolSafe(VNow, vhands, vfiles, 0, 0)
  BY <1>2, VNowIs DEF VolKept
<1>6. ~w.crash => VolSafe(w, vhands, vfiles, 0, 0)
  BY <1>1, <1>2, <1>3, <1>4, <1>5, RenamedSafe
<1> QED BY <1>2, <1>6, NamesStep

\* The changes of a file, and of the size of a node.
FileAt(f, g, ptr) == [f EXCEPT ![g].ptr = ptr]
FileSet(f, g, a) == [f EXCEPT ![g] = a]
Sized(w, k, size) == [w EXCEPT !.n[k].size = size]

\* A file changes in what is not its node.
LEMMA FilePtr ==
    ASSUME NEW f \in VolOpenFiles, NEW g \in VolFiles, NEW ptr \in Nat, NEW b, b = FileAt(f, g, ptr)
    PROVE  b \in VolOpenFiles /\ \A o \in VolFiles : b[o].node = f[o].node
<1>1. f[g] \in VolFileType
  BY DEF VolOpenFiles
<1>2. PICK a : a = [f[g] EXCEPT !.ptr = ptr]
  OBVIOUS
<1>3. a \in VolFileType /\ a.node = f[g].node
  BY <1>1, <1>2 DEF VolFileType
<1>4. b = [f EXCEPT ![g] = a]
  BY <1>2 DEF FileAt
<1> QED BY <1>3, <1>4 DEF VolOpenFiles

\* A file has another node, or none.
LEMMA FileNode ==
    ASSUME NEW f \in VolOpenFiles, NEW g \in VolFiles, NEW a \in VolFileType, NEW b, b = FileSet(f, g, a)
    PROVE  b \in VolOpenFiles /\ b[g] = a /\ OthersOpen(f, b, g)
BY DEF VolOpenFiles, OthersOpen, FileSet

\* A node that has another size has the same counts.
LEMMA NodeSize ==
    ASSUME NEW w \in VolWorlds, NEW k \in VNodes, NEW size \in Nat, NEW v, v = Sized(w, k, size)
    PROVE  v \in VolWorlds /\ v.e = w.e /\ v.crash = w.crash /\ NodesLike(v.n, w.n)
<1>1. PICK c, b, z : c = w.n[k] /\ b = [c EXCEPT !.size = size] /\ z = WithNode(w, k, b)
  OBVIOUS
<1>2. c \in VNodeType
  BY <1>1, VolFields
<1>3. b \in VNodeType /\ b.refs = c.refs /\ b.kind = c.kind /\ b.nlink = c.nlink
  BY <1>1, <1>2 DEF VNodeType
<1>4. z = v
  BY <1>1 DEF WithNode, Sized
<1>5. /\ z \in VolWorlds /\ z.e = w.e /\ z.crash = w.crash
      /\ z.n[k] = b /\ \A j \in VNodes : j # k => z.n[j] = w.n[j]
  BY <1>1, <1>3, NodeSet
<1>6. NodesLike(z.n, w.n)
  BY <1>1, <1>3, <1>5 DEF NodesLike
<1> QED BY <1>4, <1>5, <1>6

\* The node of an open file.
LEMMA FileIs ==
    ASSUME VolKept, NEW g \in VolFiles
    PROVE  /\ vfiles[g] \in VolFileType /\ vfiles[g].node \in VNodes \cup {0} /\ vfiles[g].ptr \in Nat
           /\ vfiles \in VolOpenFiles /\ VNow \in VolWorlds
<1>1. vfiles[g] \in VolFileType /\ vfiles \in VolOpenFiles
  BY DEF VolKept, VolOpenFiles
<1>2. vfiles[g].node \in 0 .. MaxVolNodes /\ vfiles[g].ptr \in Nat
  BY <1>1 DEF VolFileType
<1> QED BY <1>1, <1>2, VolFinite DEF VolKept, VolSafe

\* A step of a file that changes no count.
LEMMA FileStep ==
    ASSUME VolKept, vents' = vents, vnodes' = vnodes, vhands' = vhands,
           NEW g \in VolFiles, NEW ptr \in Nat, vfiles' = FileAt(vfiles, g, ptr)
    PROVE  VolInv'
<1>1. PICK w, b : w = VNow /\ b = FileAt(vfiles, g, ptr)
  OBVIOUS
<1>2. VolSafe(w, vhands, vfiles, 0, 0) /\ w \in VolWorlds /\ vfiles \in VolOpenFiles
  BY <1>1, FileIs DEF VolKept
<1>3. b \in VolOpenFiles /\ \A o \in VolFiles : b[o].node = vfiles[o].node
  BY <1>1, <1>2, FilePtr
<1>4. NodesLike(w.n, w.n)
  BY DEF NodesLike
<1>5. VolSafe(w, vhands, b, 0, 0)
  BY <1>2, <1>3, <1>4, SameCounts
<1>6. VNow' = w
  BY <1>1 DEF VNow
<1> QED BY <1>1, <1>3, <1>5, <1>6 DEF VolInv, VolKept

\* A read moves the position of a file.
LEMMA SafeRead ==
    ASSUME VolKept, NEW g \in VolFiles, vol_read(g)
    PROVE  VolInv'
<1>1. PICK ptr : ptr = vfiles[g].ptr + 1
  OBVIOUS
<1>2. ptr \in Nat
  BY <1>1, FileIs
<1>3. vfiles' = FileAt(vfiles, g, ptr) /\ UNCHANGED <<vents, vnodes, vhands>>
  BY <1>1 DEF vol_read, FileAt
<1> QED BY <1>2, <1>3, FileStep

\* The reading of a directory moves the position of its file.
LEMMA SafeReaddir ==
    ASSUME VolKept, NEW g \in VolFiles, vol_readdir(g)
    PROVE  VolInv'
<1>1. SUFFICES ASSUME ~vcrash' PROVE VolInv'
  BY DEF VolInv
<1>2. PICK ptr : ptr = vfiles[g].ptr + 1
  OBVIOUS
<1>3. ptr \in Nat
  BY <1>2, FileIs
<1>4. vfiles' = FileAt(vfiles, g, ptr) /\ UNCHANGED <<vents, vnodes, vhands>>
  BY <1>1, <1>2 DEF vol_readdir, FileAt
<1> QED BY <1>3, <1>4, FileStep

\* A step of a file that gives its node another size.
LEMMA SizeStep ==
    ASSUME VolKept, NEW k \in VNodes, NEW size \in Nat, vents' = vents,
           vnodes' = [vnodes EXCEPT ![k].size = size], vhands' = vhands,
           vfiles' \in VolOpenFiles, \A o \in VolFiles : vfiles'[o].node = vfiles[o].node
    PROVE  VolInv'
<1>1. PICK w, v, b : w = VNow /\ v = Sized(w, k, size) /\ b = vfiles'
  OBVIOUS
<1>2. VolSafe(w, vhands, vfiles, 0, 0) /\ w \in VolWorlds
  BY <1>1 DEF VolKept, VolSafe
<1>3. v \in VolWorlds /\ v.e = w.e /\ v.crash = w.crash /\ NodesLike(v.n, w.n)
  BY <1>1, <1>2, NodeSize
<1>4. \A o \in VolFiles : b[o].node = vfiles[o].node
  BY <1>1
<1>5. VolSafe(v, vhands, b, 0, 0)
  BY <1>2, <1>3, <1>4, SameCounts
<1>6. VNow' = v
  BY <1>1 DEF VNow, Sized
<1> QED BY <1>1, <1>5, <1>6 DEF VolInv, VolKept

\* A write moves the position of a file and may make its node larger.
LEMMA SafeWrite ==
    ASSUME VolKept, NEW g \in VolFiles, vol_write(g)
    PROVE  VolInv'
<1>1. PICK k : k = vfiles[g].node
  OBVIOUS
<1>2. k \in VNodes /\ VNow \in VolWorlds /\ vfiles[g].ptr \in Nat /\ vfiles \in VolOpenFiles
  <2>1. k \in VNodes \cup {0} /\ VNow \in VolWorlds /\ vfiles[g].ptr \in Nat /\ vfiles \in VolOpenFiles
    BY <1>1, FileIs
  <2>2. k # 0
    BY <1>1 DEF vol_write, vol_file
  <2> QED BY <2>1, <2>2
<1>3. vnodes[k] \in VNodeType
  BY <1>2, VNowIs, VolFields
<1>4. vnodes[k].size \in Nat
  BY <1>3 DEF VNodeType
<1>5. PICK end : end = 1 + IF vfiles[g].append THEN vnodes[k].size ELSE vfiles[g].ptr
  OBVIOUS
<1>6. end \in Nat
  BY <1>2, <1>4, <1>5
<1>7. PICK size : size = IF end > vnodes[k].size THEN end ELSE vnodes[k].size
  OBVIOUS
<1>8. size \in Nat
  BY <1>4, <1>6, <1>7
<1>9. /\ vnodes' = [vnodes EXCEPT ![k].size = size] /\ vfiles' = FileAt(vfiles, g, end)
      /\ vents' = vents /\ vhands' = vhands
  BY <1>1, <1>5, <1>7 DEF vol_write, FileAt
<1>10. vfiles' \in VolOpenFiles /\ \A o \in VolFiles : vfiles'[o].node = vfiles[o].node
  BY <1>2, <1>6, <1>9, FilePtr
<1> QED BY <1>2, <1>8, <1>9, <1>10, SizeStep

\* A truncation gives a node another size.
LEMMA SafeTruncate ==
    ASSUME VolKept, NEW g \in VolFiles, vol_truncate(g)
    PROVE  VolInv'
<1>1. PICK k : k = vfiles[g].node
  OBVIOUS
<1>2. k \in VNodes /\ vfiles \in VolOpenFiles
  <2>1. k \in VNodes \cup {0} /\ vfiles \in VolOpenFiles
    BY <1>1, FileIs
  <2>2. k # 0
    BY <1>1 DEF vol_truncate, vol_file
  <2> QED BY <2>1, <2>2
<1>3. PICK length \in 0 .. MaxVolSize : vnodes' = [vnodes EXCEPT ![k].size = length]
  BY <1>1 DEF vol_truncate
<1>4. length \in Nat
  BY VolatileAssumption
<1>5. vents' = vents /\ vhands' = vhands /\ vfiles' = vfiles
  BY DEF vol_truncate
<1> QED BY <1>2, <1>3, <1>4, <1>5, SizeStep

\* A close drops the reference that the file has to its node, with the node if it was the last.
LEMMA SafeClose ==
    ASSUME VolKept, NEW g \in VolFiles, vol_close(g)
    PROVE  VolInv'
<1>1. PICK k, b : k = vfiles[g].node /\ b = FileSet(vfiles, g, NoVFile)
  OBVIOUS
<1>2. PICK w : w = vol_free_node(VNow, k)
  OBVIOUS
<1>3. k # 0 /\ VBecomes(w) /\ vfiles' = b /\ vhands' = vhands
  BY <1>1, <1>2 DEF vol_close, FileSet
<1>4. k \in VNodes /\ vfiles \in VolOpenFiles
  BY <1>1, <1>3, FileIs
<1>5. NoVFile \in VolFileType /\ NoVFile.node = 0
  <2>1. NoVFile = [node |-> 0, ptr |-> 0, append |-> FALSE] /\ 0 \in 0 .. MaxVolNodes
    BY VolatileAssumption DEF NoVFile
  <2> QED BY <2>1 DEF VolFileType
<1>6. b \in VolOpenFiles /\ b[g] = NoVFile /\ OthersOpen(vfiles, b, g)
  BY <1>1, <1>4, <1>5, FileNode
<1>7. VolSafe(VNow, vhands, b, 0, k)
  <2>1. b[g].node = 0 /\ vfiles[g].node = k
    BY <1>1, <1>5, <1>6
  <2> QED BY <1>4, <1>6, <2>1, ClosedSafe DEF VolKept
<1>8. VolSafe(w, vhands, b, 0, 0)
  BY <1>2, <1>4, <1>7, FreeNodeSafe
<1> QED BY <1>3, <1>6, <1>8, VolBecomesSafe DEF VolKept

\* An open refers to the node of an entry, which may be made or truncated first.
LEMMA SafeOpen ==
    ASSUME VolKept, NEW u \in VolHands, NEW g \in VolFiles, vol_open(u, g)
    PROVE  VolInv'
<1>1. PICK x, new : x = Held(u) /\ new = (vents[x].node = 0)
  OBVIOUS
<1>2. PICK write, trunc, append \in BOOLEAN :
        LET w == IF new THEN vol_make_node(VNow, x, "file")
                 ELSE IF trunc THEN [VNow EXCEPT !.n[vents[x].node].size = 0]
                 ELSE VNow
        IN /\ new => FreeNodes(VNow) # {}
           /\ VBecomes(IF w.crash THEN w ELSE [w EXCEPT !.n[w.e[x].node].refs = @ + 1])
           /\ vfiles' = [vfiles EXCEPT ![g] = [node |-> w.e[x].node, ptr |-> 0, append |-> append]]
  <2>1. PICK write, trunc, append \in BOOLEAN :
          LET w == IF vents[Held(u)].node = 0 THEN vol_make_node(VNow, Held(u), "file")
                   ELSE IF trunc THEN [VNow EXCEPT !.n[vents[Held(u)].node].size = 0]
                   ELSE VNow
          IN /\ vents[Held(u)].node = 0 => FreeNodes(VNow) # {}
             /\ VBecomes(IF w.crash THEN w ELSE [w EXCEPT !.n[w.e[Held(u)].node].refs = @ + 1])
             /\ vfiles' = [vfiles EXCEPT ![g] = [node |-> w.e[Held(u)].node, ptr |-> 0, append |-> append]]
    BY ONLY vol_open(u, g), ZenonT(40) DEF vol_open
  <2> QED BY ONLY <1>1, <2>1, ZenonT(40)
<1>3. PICK w : w = IF new THEN vol_make_node(VNow, x, "file")
                   ELSE IF trunc THEN [VNow EXCEPT !.n[vents[x].node].size = 0]
                   ELSE VNow
  OBVIOUS
<1>4. PICK k : k = w.e[x].node
  OBVIOUS
<1>5. PICK v : v = [w EXCEPT !.n[k].refs = @ + 1]
  OBVIOUS
<1>6. PICK a, b : a = [node |-> k, ptr |-> 0, append |-> append] /\ b = FileSet(vfiles, g, a)
  OBVIOUS
<1>7. (new => FreeNodes(VNow) # {}) /\ VBecomes(IF w.crash THEN w ELSE v) /\ vfiles' = b
  BY <1>2, <1>3, <1>4, <1>5, <1>6 DEF FileSet
<1>8. x \in VEntries /\ vfiles[g] = NoVFile /\ vhands' = vhands /\ VNow \in VolWorlds
  BY <1>1, HeldIs DEF vol_open
<1>9. VolSafe(w, vhands, vfiles, 0, 0) /\ k \in VNodes
  <2>1. CASE new
    <3>1. w = vol_make_node(VNow, x, "file") /\ VNow.e[x].node = 0
      BY <1>1, <1>3, <2>1, VNowIs
    <3> QED BY <1>4, <1>7, <1>8, <2>1, <3>1, MakeNodeSafe DEF VolKept
  <2>2. CASE ~new
    <3>1. vents[x].node \in VNodes
      <4>1. VNow.e[x].node \in VNodes \cup {0}
        BY <1>8, VolFields
      <4> QED BY <1>1, <2>2, <4>1, VNowIs
    <3>2. CASE trunc
      <4>1. PICK j : j = vents[x].node
        OBVIOUS
      <4>2. w = Sized(VNow, j, 0)
        BY <1>3, <2>2, <3>2, <4>1 DEF Sized
      <4>3. w \in VolWorlds /\ w.e = VNow.e /\ NodesLike(w.n, VNow.n)
        BY <1>8, <3>1, <4>1, <4>2, NodeSize
      <4>4. VolSafe(w, vhands, vfiles, 0, 0)
        BY <4>3, SameCounts DEF VolKept
      <4> QED BY <1>4, <3>1, <4>3, <4>4, VNowIs
    <3>3. CASE ~trunc
      <4>1. w = VNow
        BY <1>3, <2>2, <3>3
      <4> QED BY <1>4, <3>1, <4>1, VNowIs DEF VolKept
    <3> QED BY <3>2, <3>3
  <2> QED BY <2>1, <2>2
<1>10. a \in VolFileType /\ a.node = k
  <2>1. k \in 0 .. MaxVolNodes
    BY <1>9, VolFinite
  <2> QED BY <1>6, <2>1 DEF VolFileType
<1>11. b \in VolOpenFiles /\ b[g].node = k /\ OthersOpen(vfiles, b, g)
  <2>1. vfiles \in VolOpenFiles
    BY DEF VolKept
  <2>2. b \in VolOpenFiles /\ b[g] = a /\ OthersOpen(vfiles, b, g)
    BY <1>6, <1>10, <2>1, FileNode
  <2> QED BY <1>10, <2>2
<1>12. VolSafe(v, vhands, b, 0, 0)
  <2>1. vfiles[g].node = 0
    BY <1>8 DEF NoVFile
  <2> QED BY <1>5, <1>9, <1>11, <2>1, OpenedSafe
<1>13. PICK z : z = IF w.crash THEN w ELSE v
  OBVIOUS
<1>14. VBecomes(z) /\ (~z.crash => VolSafe(z, vhands, b, 0, 0))
  BY <1>7, <1>12, <1>13
<1> QED BY <1>7, <1>8, <1>11, <1>14, VolBecomesSafe DEF VolKept

\* The root is the only entry that there is at first, and refers to itself.
LEMMA VolStarts == ASSUME VolInit PROVE VolInv
<1>1. VNow \in VolWorlds
  <2>1. PICK r, k : r = [NoVEntry EXCEPT !.refs = 2, !.name = "/", !.node = 1]
                    /\ k = [NoVNode EXCEPT !.refs = 1, !.kind = "dir", !.parent = VRoot]
    OBVIOUS
  <2>2. r = [refs |-> 2, name |-> "/", node |-> 1, parent |-> 0]
        /\ k = [refs |-> 1, kind |-> "dir", nlink |-> 0, size |-> 0, subdir |-> <<>>, parent |-> 1]
    BY <2>1 DEF NoVEntry, NoVNode, VRoot
  <2>3. /\ 0 \in 0 .. MaxVolNodes /\ 1 \in 0 .. MaxVolNodes /\ 0 \in 0 .. MaxVolEntries /\ 1 \in 0 .. MaxVolEntries
        /\ "" \in VEntryNames /\ "/" \in VEntryNames /\ <<>> \in Seq(VEntries)
    BY VolatileAssumption DEF VEntryNames
  <2>4. r \in VEntryType
    BY <2>2, <2>3 DEF VEntryType
  <2>5. k \in VNodeType
    <3>1. 1 \in Nat /\ 0 \in Nat /\ 0 \in Int /\ "dir" \in {"none", "file", "dir", "link"}
      OBVIOUS
    <3> QED BY <2>2, <2>3, <3>1 DEF VNodeType
  <2>6. NoVEntry \in VEntryType
    BY <2>3 DEF NoVEntry, VEntryType
  <2>7. NoVNode \in VNodeType
    <3>1. 0 \in Nat /\ 0 \in Int /\ "none" \in {"none", "file", "dir", "link"}
      OBVIOUS
    <3>2. NoVNode = [refs |-> 0, kind |-> "none", nlink |-> 0, size |-> 0, subdir |-> <<>>, parent |-> 0]
      BY DEF NoVNode
    <3> QED BY <2>3, <3>1, <3>2 DEF VNodeType
  <2>8. vents \in [VEntries -> VEntryType] /\ vnodes \in [VNodes -> VNodeType]
    BY <2>1, <2>4, <2>5, <2>6, <2>7 DEF VolInit
  <2> QED BY <2>8 DEF VNow, VolWorlds
<1>2. /\ \A y \in VEntries : /\ vents[y].refs = IF y = VRoot THEN 2 ELSE 0
                             /\ vents[y].node = IF y = VRoot THEN 1 ELSE 0
                             /\ vents[y].parent = 0
      /\ \A k \in VNodes : /\ vnodes[k].refs = (IF k = 1 THEN 1 ELSE 0)
                           /\ vnodes[k].kind \in {"dir", "none"}
  BY DEF VolInit, NoVEntry, NoVNode
<1>3. /\ vhands = [u \in VolHands |-> 0] /\ vfiles = [g \in VolFiles |-> NoVFile]
  BY DEF VolInit
<1>4. vhands \in VolHolders /\ vfiles \in VolOpenFiles /\ \A g \in VolFiles : vfiles[g].node = 0
  <2>1. NoVFile = [node |-> 0, ptr |-> 0, append |-> FALSE] /\ 0 \in 0 .. MaxVolNodes
    BY VolatileAssumption DEF NoVFile
  <2>2. NoVFile \in VolFileType /\ NoVFile.node = 0
    BY <2>1 DEF VolFileType
  <2> QED BY <1>3, <2>2 DEF VolHolders, VolOpenFiles
<1>5. EntryCounts(vents, vhands, 0)
  <2> SUFFICES ASSUME NEW y \in VEntries
               PROVE  vents[y].refs = Cardinality(HandsOn(vhands, y)) + Cardinality(Below(vents, y))
                                        + One(vents[y].node # 0) + One(y = VRoot) + One(y = 0)
    BY DEF EntryCounts
  <2>1. y # 0
    BY VolFinite
  <2>2. HandsOn(vhands, y) = {} /\ Below(vents, y) = {}
    BY <1>2, <1>3, <2>1 DEF HandsOn, Below
  <2>3. Cardinality(HandsOn(vhands, y)) = 0 /\ Cardinality(Below(vents, y)) = 0
    BY <2>2, FS_EmptySet
  <2> QED BY <1>2, <2>1, <2>3 DEF One
<1>6. NodeCounts(vents, vnodes, vfiles, 0)
  <2> SUFFICES ASSUME NEW k \in VNodes
               PROVE  vnodes[k].refs = Cardinality(NamesOf(vents, k)) + Cardinality(OpensOf(vfiles, k)) + One(k = 0)
    BY DEF NodeCounts
  <2>1. k # 0
    BY VolFinite
  <2>2. OpensOf(vfiles, k) = {} /\ Cardinality(OpensOf(vfiles, k)) = 0
    BY <1>4, <2>1, FS_EmptySet DEF OpensOf
  <2>3. NamesOf(vents, k) = IF k = 1 THEN {VRoot} ELSE {}
    BY <1>2, <2>1, VolFinite DEF NamesOf
  <2>4. Cardinality(NamesOf(vents, k)) = IF k = 1 THEN 1 ELSE 0
    BY <2>3, FS_EmptySet, FS_Singleton
  <2> QED BY <1>2, <2>1, <2>2, <2>4 DEF One
<1>7. LinkCounts(vents, vnodes)
  BY <1>2 DEF LinkCounts
<1>8. FreeIsBare(vents)
  BY <1>2 DEF FreeIsBare
<1> QED BY <1>1, <1>4, <1>5, <1>6, <1>7, <1>8, VNowIs DEF VolInv, VolSafe

\* No step of the volatile files disturbs the counts.
LEMMA VolSteps == ASSUME VolInv, [VolNext]_vol_vars PROVE VolInv'
<1>1. CASE UNCHANGED vol_vars
  <2>1. VNow' = VNow
    BY <1>1 DEF VNow, vol_vars
  <2> QED BY <1>1, <2>1 DEF VolInv, vol_vars
<1>2. CASE VolNext
  <2>1. VolKept
    BY <1>2 DEF VolNext, VolInv, VolKept
  <2>2. CASE \E u \in VolHands :
               \/ vol_get_root(u) \/ vol_lookup_parent(u) \/ vol_putent(u) \/ vol_unlink(u) \/ vol_rmdir(u)
               \/ \E word \in VolNames : vol_lookup(u, word)
               \/ \E kind \in {"file", "dir", "link"} : vol_mknod(u, kind)
               \/ \E g \in VolFiles : vol_open(u, g)
               \/ \E o \in VolHands : vol_copyent(u, o) \/ vol_rename(u, o) \/ vol_link(u, o)
    <3>1. PICK u \in VolHands :
               \/ vol_get_root(u) \/ vol_lookup_parent(u) \/ vol_putent(u) \/ vol_unlink(u) \/ vol_rmdir(u)
               \/ \E word \in VolNames : vol_lookup(u, word)
               \/ \E kind \in {"file", "dir", "link"} : vol_mknod(u, kind)
               \/ \E g \in VolFiles : vol_open(u, g)
               \/ \E o \in VolHands : vol_copyent(u, o) \/ vol_rename(u, o) \/ vol_link(u, o)
      BY <2>2
    <3>2. CASE vol_get_root(u)
      BY <2>1, <3>2, SafeGetRoot
    <3>3. CASE vol_lookup_parent(u)
      BY <2>1, <3>3, SafeLookupParent
    <3>4. CASE vol_putent(u)
      BY <2>1, <3>4, SafePutent
    <3>5. CASE vol_unlink(u) \/ vol_rmdir(u)
      BY <2>1, <3>5, SafeUnlink
    <3>6. CASE \E word \in VolNames : vol_lookup(u, word)
      BY <2>1, <3>6, SafeLookup
    <3>7. CASE \E kind \in {"file", "dir", "link"} : vol_mknod(u, kind)
      BY <2>1, <3>7, SafeMknod
    <3>8. CASE \E g \in VolFiles : vol_open(u, g)
      BY <2>1, <3>8, SafeOpen
    <3>9. CASE \E o \in VolHands : vol_copyent(u, o)
      BY <2>1, <3>9, SafeCopyent
    <3>10. CASE \E o \in VolHands : vol_rename(u, o)
      BY <2>1, <3>10, SafeRename
    <3>11. CASE \E o \in VolHands : vol_link(u, o)
      BY <2>1, <3>11, SafeLink
    <3> QED BY <3>1, <3>2, <3>3, <3>4, <3>5, <3>6, <3>7, <3>8, <3>9, <3>10, <3>11
  <2>3. CASE \E g \in VolFiles :
               vol_close(g) \/ vol_read(g) \/ vol_write(g) \/ vol_truncate(g) \/ vol_readdir(g)
    BY <2>1, <2>3, SafeClose, SafeRead, SafeWrite, SafeTruncate, SafeReaddir
  <2> QED BY <1>2, <2>2, <2>3 DEF VolNext
<1> QED BY <1>1, <1>2

\* The invariant of the volatile files implies that links and references are those that there are.
LEMMA VolHolds == ASSUME VolInv PROVE VolLinkCount /\ VolRefsExact
<1> SUFFICES ASSUME ~vcrash PROVE VolLinkCount /\ VolRefsExact
  BY DEF VolLinkCount, VolRefsExact
<1>1. /\ EntryCounts(vents, vhands, 0) /\ NodeCounts(vents, vnodes, vfiles, 0) /\ LinkCounts(vents, vnodes)
  BY VNowIs DEF VolInv, VolSafe
<1>2. VolLinkCount
  BY <1>1 DEF VolLinkCount, LinkCounts, NamesOf
<1>3. ASSUME NEW x \in VEntries
      PROVE  vents[x].refs =
           Cardinality({u \in VolHands : vhands[u] = x}) + Cardinality({y \in VEntries : vents[y].parent = x})
             + (IF vents[x].node = 0 THEN 0 ELSE 1) + (IF x = VRoot THEN 1 ELSE 0)
  <2>1. PICK i, d : i = Cardinality(HandsOn(vhands, x)) /\ d = Cardinality(Below(vents, x))
    OBVIOUS
  <2>2. i \in Nat /\ d \in Nat /\ x # 0
    BY <2>1, HandsCount, BelowCount, VolFinite
  <2>3. vents[x].refs = i + d + One(vents[x].node # 0) + One(x = VRoot) + One(x = 0)
    BY <1>1, <2>1 DEF EntryCounts
  <2>4. vents[x].refs = i + d + (IF vents[x].node = 0 THEN 0 ELSE 1) + (IF x = VRoot THEN 1 ELSE 0)
    BY <2>2, <2>3 DEF One
  <2> QED BY <2>1, <2>4 DEF HandsOn, Below
<1>4. ASSUME NEW k \in VNodes
      PROVE  vnodes[k].refs =
           Cardinality({x \in VEntries : vents[x].node = k}) + Cardinality({f \in VolFiles : vfiles[f].node = k})
  <2>1. PICK a, o : a = Cardinality(NamesOf(vents, k)) /\ o = Cardinality(OpensOf(vfiles, k))
    OBVIOUS
  <2>2. a \in Nat /\ o \in Nat /\ One(k = 0) = 0
    BY <2>1, NamesCount, OpensCount, VolFinite DEF One
  <2>3. vnodes[k].refs = a + o + One(k = 0)
    BY <1>1, <2>1 DEF NodeCounts
  <2>4. vnodes[k].refs = a + o
    BY <2>2, <2>3
  <2> QED BY <2>1, <2>4 DEF NamesOf, OpensOf
<1> QED BY <1>2, <1>3, <1>4 DEF VolRefsExact

----------------------------------------------------------------------------
(* The whole that is checked.                                               *)

part_vars == <<part, vars, vol_vars, of>>

\* A step of the whole is one of the volatile files, or none of theirs.
LEMMA VolPart == ASSUME [MCNext]_part_vars PROVE [VolNext]_vol_vars
<1>1. CASE UNCHANGED part_vars
  BY <1>1 DEF part_vars
<1>2. CASE NamesPart
  BY <1>2 DEF NamesPart
<1>3. CASE VolatilePart
  BY <1>3 DEF VolatilePart
<1>4. CASE OpenPart
  BY <1>4 DEF OpenPart
<1> QED BY <1>1, <1>2, <1>3, <1>4 DEF MCNext

\* Until the process ends by the NULL of a renamed directory, the links of a volatile file
\* are its names, and the references of an entry or a node are those that there are: no
\* lookup, rename, removal or close of an open file frees what is used or leaves behind what
\* is not.
THEOREM VolatileCorrect == MCInit /\ [][MCNext]_part_vars => []VolatileExact
<1>1. MCInit => VolInv
  BY VolStarts DEF MCInit
<1>2. VolInv /\ [MCNext]_part_vars => VolInv'
  BY VolPart, VolSteps
<1>3. VolInv => VolatileExact
  BY VolHolds DEF VolatileExact
<1> QED BY <1>1, <1>2, <1>3, PTL
=============================================================================
