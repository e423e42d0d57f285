----------------------------- MODULE ArchiveProofs -----------------------------
(***************************************************************************)
(* Proofs about Archive: that archives are counted, that a missing name is *)
(* remembered as long as it is used, that an archive taken for the present *)
(* one is it, that one thread parses at a time, and that the base file is  *)
(* open as long as it is read, for any number of users and archives.       *)
(***************************************************************************)
EXTENDS Archive, FiniteSetTheorems, TLAPS

----------------------------------------------------------------------------
(* Counting: references are compared with the number of their holders.     *)

\* A condition as a number.
One(b) == IF b THEN 1 ELSE 0

\* A finite set has a number of elements, and none if it is empty.
LEMMA CountIsNat ==
    ASSUME NEW A, IsFiniteSet(A)
    PROVE  /\ Cardinality(A) \in Nat
           /\ Cardinality(A) = 0 <=> A = {}
BY FS_CardinalityType, FS_EmptySet

\* A and B differ at most in x.
LEMMA OneChanges ==
    ASSUME NEW A, NEW B, NEW x, IsFiniteSet(A), A \ {x} = B \ {x}
    PROVE  /\ IsFiniteSet(B)
           /\ Cardinality(A) \in Nat /\ Cardinality(B) \in Nat
           /\ Cardinality(B) = Cardinality(A) + One(x \in B) - One(x \in A)
           /\ x \in A => Cardinality(A) > 0
           /\ x \in B => Cardinality(B) > 0
<1> DEFINE R == A \ {x}
<1>1. IsFiniteSet(R) /\ Cardinality(R) \in Nat /\ x \notin R
  BY FS_RemoveElement, FS_CardinalityType
<1>2. IsFiniteSet(R \cup {x}) /\ Cardinality(R \cup {x}) = Cardinality(R) + 1
  BY <1>1, FS_AddElement
<1>3. A = IF x \in A THEN R \cup {x} ELSE R
  OBVIOUS
<1>4. B = IF x \in B THEN R \cup {x} ELSE R
  OBVIOUS
<1> HIDE DEF R
<1>5. Cardinality(A) = Cardinality(R) + One(x \in A)
  <2>1. CASE x \in A
    <3>1. A = R \cup {x} /\ One(x \in A) = 1
      BY <1>3, <2>1 DEF One
    <3> QED BY <1>2, <3>1
  <2>2. CASE x \notin A
    <3>1. A = R /\ One(x \in A) = 0
      BY <1>3, <2>2 DEF One
    <3> QED BY <1>1, <3>1
  <2> QED BY <2>1, <2>2
<1>6. IsFiniteSet(B) /\ Cardinality(B) = Cardinality(R) + One(x \in B)
  <2>1. CASE x \in B
    <3>1. B = R \cup {x} /\ One(x \in B) = 1
      BY <1>4, <2>1 DEF One
    <3> QED BY <1>2, <3>1
  <2>2. CASE x \notin B
    <3>1. B = R /\ One(x \in B) = 0
      BY <1>4, <2>2 DEF One
    <3> QED BY <1>1, <3>1
  <2> QED BY <2>1, <2>2
<1> QED BY <1>1, <1>5, <1>6 DEF One

\* A part of a finite set is one.
LEMMA PartIsFinite ==
    ASSUME NEW A, NEW B, IsFiniteSet(A), B \subseteq A
    PROVE  IsFiniteSet(B) /\ Cardinality(B) \in Nat /\ Cardinality(B) <= Cardinality(A)
BY FS_Subset, FS_CardinalityType

----------------------------------------------------------------------------
(* The inductive invariant.                                                *)

\* As TypeOK, but that the counts are natural numbers follows from what they count.
Types ==
    /\ version \in 1..MaxVersion /\ cached \in Archs \cup {None}
    /\ refctr \in [Archs -> Int]
    /\ lock \in [Archs -> Threads \cup {None}]
    /\ ready \in [Archs -> BOOLEAN]
    /\ st \in [Archs -> 0..MaxVersion] /\ contents \in [Archs -> 0..MaxVersion]
    /\ missing \in [Archs -> Int]
    /\ numread \in [Archs -> Int] /\ basefile \in [Archs -> BOOLEAN]
    /\ pc \in [Threads -> Places] /\ arch \in [Threads -> Archs \cup {None}]
    /\ tries \in [Threads -> 0..(MaxTries + 1)] /\ neednew \in [Threads -> BOOLEAN]
    /\ ent \in [Threads -> Names]
    /\ fil \in [Threads -> Archs \cup {None}] /\ kind \in [Threads -> Kinds]
    /\ curr \in [Threads -> {"none", "file", "missing"}]

\* A thread has an archive from find_archive to the end of its entry, and what it has
\* opened is of some kind; only a listing has a position.
ThreadInv ==
    \A t \in Threads :
        /\ arch[t] # None <=> pc[t] \in {"lock", "parse", "unref", "in"}
        /\ kind[t] # "none" <=> fil[t] # None
        /\ curr[t] # "none" => kind[t] = "list"
        /\ pc[t] \in {"lock", "parse"} => tries[t] <= MaxTries

\* A lock is held from one step to the next by those who parse, and by nobody else.
LockInv == \A a \in Archs, t \in Threads : lock[a] = t <=> pc[t] = "parse" /\ arch[t] = a

\* A tree is not older than what its archive is compared with.
TreeInv == \A a \in Archs : st[a] <= contents[a] /\ contents[a] <= version

IInv ==
    /\ Types /\ ThreadInv /\ LockInv /\ TreeInv
    /\ RefctrExact /\ MissingExact /\ BaseFileShared

----------------------------------------------------------------------------
(* Counting users.                                                         *)

Missers(a)  == {t \in HeldBy(arch, a) : Inside(t) /\ ent[t] = "missing"}
Standers(a) == {t \in HeldBy(fil, a) : curr[t] = "missing"}
Readers(a)  == {t \in HeldBy(fil, a) : kind[t] = "read"}

\* What the thread t has of a, and the file cache.
Refs(t, a)   == One(t \in HeldBy(arch, a)) + One(t \in HeldBy(fil, a)) + One(cached = a)
Misses(t, a) == One(t \in Missers(a)) + One(t \in Standers(a))
Reads(t, a)  == One(t \in Readers(a))

\* Nobody but t does anything.
Alone(t) ==
    \A u \in Threads \ {t} :
        /\ arch'[u] = arch[u] /\ fil'[u] = fil[u] /\ pc'[u] = pc[u]
        /\ ent'[u] = ent[u] /\ curr'[u] = curr[u] /\ kind'[u] = kind[u]

\* A set of threads that changes by t at most.
LEMMA OneNumber ==
    ASSUME NEW A, NEW B, NEW t, A \subseteq Threads, B \subseteq Threads,
           \A u \in Threads \ {t} : u \in A <=> u \in B
    PROVE  /\ Cardinality(A) \in Nat /\ Cardinality(B) \in Nat
           /\ Cardinality(B) = Cardinality(A) + One(t \in B) - One(t \in A)
<1>1. IsFiniteSet(A) /\ A \ {t} = B \ {t}
  BY PartIsFinite, ThreadsArchsFinite
<1> QED BY <1>1, OneChanges

\* The counts when one thread goes on.
LEMMA Numbers ==
    ASSUME NEW t, Alone(t), NEW a \in Archs
    PROVE  /\ Cardinality(HeldBy(arch, a)) \in Nat /\ Cardinality(HeldBy(arch, a)') \in Nat
           /\ Cardinality(HeldBy(arch, a)') = Cardinality(HeldBy(arch, a))
                 + One(t \in HeldBy(arch, a)') - One(t \in HeldBy(arch, a))
           /\ Cardinality(HeldBy(fil, a)) \in Nat /\ Cardinality(HeldBy(fil, a)') \in Nat
           /\ Cardinality(HeldBy(fil, a)') = Cardinality(HeldBy(fil, a))
                 + One(t \in HeldBy(fil, a)') - One(t \in HeldBy(fil, a))
           /\ Cardinality(Missers(a)) \in Nat /\ Cardinality(Missers(a)') \in Nat
           /\ Cardinality(Missers(a)') = Cardinality(Missers(a))
                 + One(t \in Missers(a)') - One(t \in Missers(a))
           /\ Cardinality(Standers(a)) \in Nat /\ Cardinality(Standers(a)') \in Nat
           /\ Cardinality(Standers(a)') = Cardinality(Standers(a))
                 + One(t \in Standers(a)') - One(t \in Standers(a))
           /\ Cardinality(Readers(a)) \in Nat /\ Cardinality(Readers(a)') \in Nat
           /\ Cardinality(Readers(a)') = Cardinality(Readers(a))
                 + One(t \in Readers(a)') - One(t \in Readers(a))
<1> USE DEF Alone, HeldBy
<1>1. /\ HeldBy(arch, a) \subseteq Threads /\ HeldBy(arch, a)' \subseteq Threads
      /\ \A u \in Threads \ {t} : u \in HeldBy(arch, a) <=> u \in HeldBy(arch, a)'
  OBVIOUS
<1>2. /\ HeldBy(fil, a) \subseteq Threads /\ HeldBy(fil, a)' \subseteq Threads
      /\ \A u \in Threads \ {t} : u \in HeldBy(fil, a) <=> u \in HeldBy(fil, a)'
  OBVIOUS
<1>3. /\ Missers(a) \subseteq Threads /\ Missers(a)' \subseteq Threads
      /\ \A u \in Threads \ {t} : u \in Missers(a) <=> u \in Missers(a)'
  BY DEF Missers, Inside
<1>4. /\ Standers(a) \subseteq Threads /\ Standers(a)' \subseteq Threads
      /\ \A u \in Threads \ {t} : u \in Standers(a) <=> u \in Standers(a)'
  BY DEF Standers
<1>5. /\ Readers(a) \subseteq Threads /\ Readers(a)' \subseteq Threads
      /\ \A u \in Threads \ {t} : u \in Readers(a) <=> u \in Readers(a)'
  BY DEF Readers
<1> HIDE DEF Alone, HeldBy
<1>6. /\ Cardinality(HeldBy(arch, a)) \in Nat /\ Cardinality(HeldBy(arch, a)') \in Nat
      /\ Cardinality(HeldBy(arch, a)') = Cardinality(HeldBy(arch, a))
            + One(t \in HeldBy(arch, a)') - One(t \in HeldBy(arch, a))
  BY <1>1, OneNumber
<1>7. /\ Cardinality(HeldBy(fil, a)) \in Nat /\ Cardinality(HeldBy(fil, a)') \in Nat
      /\ Cardinality(HeldBy(fil, a)') = Cardinality(HeldBy(fil, a))
            + One(t \in HeldBy(fil, a)') - One(t \in HeldBy(fil, a))
  BY <1>2, OneNumber
<1>8. /\ Cardinality(Missers(a)) \in Nat /\ Cardinality(Missers(a)') \in Nat
      /\ Cardinality(Missers(a)') = Cardinality(Missers(a))
            + One(t \in Missers(a)') - One(t \in Missers(a))
  BY <1>3, OneNumber
<1>9. /\ Cardinality(Standers(a)) \in Nat /\ Cardinality(Standers(a)') \in Nat
      /\ Cardinality(Standers(a)') = Cardinality(Standers(a))
            + One(t \in Standers(a)') - One(t \in Standers(a))
  BY <1>4, OneNumber
<1>10. /\ Cardinality(Readers(a)) \in Nat /\ Cardinality(Readers(a)') \in Nat
       /\ Cardinality(Readers(a)') = Cardinality(Readers(a))
             + One(t \in Readers(a)') - One(t \in Readers(a))
  BY <1>5, OneNumber
<1> QED BY <1>6, <1>7, <1>8, <1>9, <1>10

\* An archive without references has no users.
LEMMA Deserted ==
    ASSUME NEW a \in Archs, RefctrExact, refctr[a] = 0
    PROVE  /\ cached # a
           /\ \A t \in Threads : arch[t] # a /\ fil[t] # a
           /\ Cardinality(Missers(a)) = 0 /\ Cardinality(Standers(a)) = 0
<1>1. HeldBy(arch, a) \subseteq Threads /\ HeldBy(fil, a) \subseteq Threads
  BY DEF HeldBy
<1>2. /\ IsFiniteSet(HeldBy(arch, a)) /\ Cardinality(HeldBy(arch, a)) \in Nat
      /\ IsFiniteSet(HeldBy(fil, a)) /\ Cardinality(HeldBy(fil, a)) \in Nat
  BY <1>1, PartIsFinite, ThreadsArchsFinite
<1>3. refctr[a] = Cardinality(HeldBy(arch, a)) + Cardinality(HeldBy(fil, a))
                  + (IF cached = a THEN 1 ELSE 0)
  BY DEF RefctrExact
<1>4. cached # a /\ Cardinality(HeldBy(arch, a)) = 0 /\ Cardinality(HeldBy(fil, a)) = 0
  BY <1>2, <1>3
<1>5. HeldBy(arch, a) = {} /\ HeldBy(fil, a) = {}
  BY <1>2, <1>4, CountIsNat
<1>6. Missers(a) = {} /\ Standers(a) = {}
  BY <1>5 DEF Missers, Standers
<1>7. Cardinality(Missers(a)) = 0 /\ Cardinality(Standers(a)) = 0
  BY <1>6, FS_EmptySet
<1> QED BY <1>4, <1>5, <1>7 DEF HeldBy

\* What has to be shown of a step of the thread t: what it has is counted.
LEMMA Balance ==
    ASSUME IInv, Types', ThreadInv', LockInv', TreeInv', NEW t, Alone(t),
           \A a \in Archs : refctr'[a] - Refs(t, a)' = refctr[a] - Refs(t, a),
           \A a \in Archs : \/ refctr'[a] = 0 /\ missing'[a] = 0
                            \/ missing'[a] - Misses(t, a)' = missing[a] - Misses(t, a),
           \A a \in Archs : numread'[a] - Reads(t, a)' = numread[a] - Reads(t, a),
           \A a \in Archs : basefile'[a] <=> numread'[a] > 0
    PROVE  IInv'
<1>1. \A a \in Archs : /\ refctr[a] \in Int /\ refctr'[a] \in Int
                       /\ missing[a] \in Int /\ missing'[a] \in Int
                       /\ numread[a] \in Int /\ numread'[a] \in Int
  BY DEF IInv, Types
<1>2. RefctrExact'
  <2> SUFFICES ASSUME NEW a \in Archs
               PROVE  refctr'[a] = Cardinality(HeldBy(arch, a)') + Cardinality(HeldBy(fil, a)')
                                   + One(cached' = a)
    BY DEF RefctrExact, One
  <2>1. refctr[a] = Cardinality(HeldBy(arch, a)) + Cardinality(HeldBy(fil, a)) + One(cached = a)
    BY DEF IInv, RefctrExact, One
  <2>2. refctr'[a] - (One(t \in HeldBy(arch, a)') + One(t \in HeldBy(fil, a)') + One(cached' = a))
        = refctr[a] - (One(t \in HeldBy(arch, a)) + One(t \in HeldBy(fil, a)) + One(cached = a))
    BY DEF Refs
  <2> QED BY <1>1, <2>1, <2>2, Numbers DEF One
<1>3. MissingExact'
  <2> SUFFICES ASSUME NEW a \in Archs
               PROVE  missing'[a] = Cardinality(Missers(a)') + Cardinality(Standers(a)')
    BY DEF MissingExact, Missers, Standers
  <2>1. missing[a] = Cardinality(Missers(a)) + Cardinality(Standers(a))
    BY DEF IInv, MissingExact, Missers, Standers
  <2>2. CASE missing'[a] - Misses(t, a)' = missing[a] - Misses(t, a)
    <3>1. missing'[a] - (One(t \in Missers(a)') + One(t \in Standers(a)'))
          = missing[a] - (One(t \in Missers(a)) + One(t \in Standers(a)))
      BY <2>2 DEF Misses
    <3> QED BY <1>1, <2>1, <3>1, Numbers DEF One
  <2>3. CASE refctr'[a] = 0 /\ missing'[a] = 0
    <3>1. Cardinality(Missers(a)') = 0 /\ Cardinality(Standers(a)') = 0
      <4>1. HeldBy(arch, a)' \subseteq Threads /\ HeldBy(fil, a)' \subseteq Threads
        BY DEF HeldBy
      <4>2. IsFiniteSet(HeldBy(arch, a)') /\ IsFiniteSet(HeldBy(fil, a)')
        BY <4>1, PartIsFinite, ThreadsArchsFinite
      <4>3. /\ Cardinality(HeldBy(arch, a)') \in Nat /\ Cardinality(HeldBy(fil, a)') \in Nat
            /\ refctr'[a] = Cardinality(HeldBy(arch, a)') + Cardinality(HeldBy(fil, a)')
                            + One(cached' = a)
        BY <1>2, Numbers DEF RefctrExact, One
      <4>4. Cardinality(HeldBy(arch, a)') = 0 /\ Cardinality(HeldBy(fil, a)') = 0
        BY <2>3, <4>3 DEF One
      <4>5. HeldBy(arch, a)' = {} /\ HeldBy(fil, a)' = {}
        BY <4>2, <4>4, CountIsNat
      <4>6. Missers(a)' = {} /\ Standers(a)' = {}
        BY <4>5 DEF Missers, Standers
      <4> QED BY <4>6, FS_EmptySet
    <3> QED BY <2>3, <3>1
  <2> QED BY <2>2, <2>3
<1>4. BaseFileShared'
  <2> SUFFICES ASSUME NEW a \in Archs PROVE numread'[a] = Cardinality(Readers(a)')
    BY DEF BaseFileShared, Readers
  <2>1. numread[a] = Cardinality(Readers(a))
    BY DEF IInv, BaseFileShared, Readers
  <2>2. numread'[a] - One(t \in Readers(a)') = numread[a] - One(t \in Readers(a))
    BY DEF Reads
  <2> QED BY <1>1, <2>1, <2>2, Numbers DEF One
<1> QED BY <1>2, <1>3, <1>4 DEF IInv

\* Whoever has a reference is counted.
LEMMA Used ==
    ASSUME IInv, NEW a \in Archs,
           cached = a \/ \E t \in Threads : arch[t] = a \/ fil[t] = a
    PROVE  refctr[a] \in Int /\ refctr[a] > 0
<1>1. HeldBy(arch, a) \subseteq Threads /\ HeldBy(fil, a) \subseteq Threads
  BY DEF HeldBy
<1>2. Cardinality(HeldBy(arch, a)) \in Nat /\ Cardinality(HeldBy(fil, a)) \in Nat
  BY <1>1, PartIsFinite, ThreadsArchsFinite
<1>3. refctr[a] \in Int /\ refctr[a] >= 0
  BY <1>2 DEF IInv, Types, RefctrExact
<1>4. refctr[a] # 0
  BY Deserted DEF IInv
<1> QED BY <1>3, <1>4

\* Dropping a reference that exists.
LEMMA Dropped ==
    ASSUME Types, TreeInv, NEW a \in Archs, refctr[a] > 0, DropArch(a), version' = version
    PROVE  /\ refctr' = [refctr EXCEPT ![a] = @ - 1]
           /\ TreeInv'
           /\ \A b \in Archs : missing'[b] = missing[b] \/ (refctr'[b] = 0 /\ missing'[b] = 0)
           /\ missing' \in [Archs -> Int] /\ ready' \in [Archs -> BOOLEAN]
           /\ st' \in [Archs -> 0..MaxVersion] /\ contents' \in [Archs -> 0..MaxVersion]
<1>1. refctr' = [refctr EXCEPT ![a] = @ - 1] /\ refctr \in [Archs -> Int]
  BY DEF DropArch, Unref, Types
<1>2. MaxVersion \in Nat
  BY BoundsAreNumbers
<1>3. CASE refctr[a] = 1
  <2>1. /\ missing' = [missing EXCEPT ![a] = 0] /\ ready' = [ready EXCEPT ![a] = FALSE]
        /\ st' = [st EXCEPT ![a] = 0] /\ contents' = [contents EXCEPT ![a] = 0]
    BY <1>3 DEF DropArch, Deleted
  <2>2. TreeInv'
    BY <1>2, <2>1 DEF TreeInv, Types
  <2>3. /\ missing' \in [Archs -> Int] /\ ready' \in [Archs -> BOOLEAN]
        /\ st' \in [Archs -> 0..MaxVersion] /\ contents' \in [Archs -> 0..MaxVersion]
    BY <1>2, <2>1 DEF Types
  <2>4. \A b \in Archs : missing'[b] = missing[b] \/ (refctr'[b] = 0 /\ missing'[b] = 0)
    BY <1>1, <1>3, <2>1 DEF Types
  <2> QED BY <1>1, <2>2, <2>3, <2>4
<1>4. CASE refctr[a] # 1
  <2>1. UNCHANGED <<ready, st, contents, missing>>
    BY <1>4 DEF DropArch, parsed
  <2>2. TreeInv'
    BY <2>1 DEF TreeInv
  <2> QED BY <1>1, <2>1, <2>2 DEF Types
<1> QED BY <1>3, <1>4

\* What no thread does: None stands for the one who does it.
LEMMA ExpireStep ==
    ASSUME IInv, Expire
    PROVE  IInv'
<1>1. PICK a \in Archs : cached = a
  BY DEF Expire, IInv, Types
<1>2. /\ DropArch(a) /\ cached' = None
      /\ UNCHANGED <<version, lock, numread, basefile, pc, arch, tries, neednew, ent, fil, kind, curr>>
  BY <1>1 DEF Expire, base, getting, file
<1>3. refctr[a] \in Int /\ refctr[a] > 0
  BY <1>1, Used
<1>4. /\ refctr' = [refctr EXCEPT ![a] = @ - 1]
      /\ TreeInv'
      /\ \A b \in Archs : missing'[b] = missing[b] \/ (refctr'[b] = 0 /\ missing'[b] = 0)
      /\ missing' \in [Archs -> Int] /\ ready' \in [Archs -> BOOLEAN]
      /\ st' \in [Archs -> 0..MaxVersion] /\ contents' \in [Archs -> 0..MaxVersion]
  BY <1>2, <1>3, Dropped DEF IInv
<1>5. Types'
  BY <1>2, <1>4 DEF IInv, Types
<1>6. ThreadInv' /\ LockInv' /\ Alone(None)
  BY <1>2 DEF IInv, ThreadInv, LockInv, Alone
<1>7. \A b \in Archs : refctr'[b] - Refs(None, b)' = refctr[b] - Refs(None, b)
  <2> SUFFICES ASSUME NEW b \in Archs
               PROVE  refctr'[b] - Refs(None, b)' = refctr[b] - Refs(None, b)
    OBVIOUS
  <2>1. None \notin HeldBy(arch, b) /\ None \notin HeldBy(fil, b)
    BY NoneIsNothing DEF HeldBy
  <2>2. None \notin HeldBy(arch, b)' /\ None \notin HeldBy(fil, b)'
    BY NoneIsNothing DEF HeldBy
  <2>3. Refs(None, b) = One(cached = b) /\ Refs(None, b)' = One(cached' = b)
    BY <2>1, <2>2 DEF Refs, One
  <2>4. refctr[b] \in Int /\ refctr'[b] = refctr[b] - One(a = b)
    BY <1>4 DEF IInv, Types, One
  <2>5. One(cached = b) = One(a = b) /\ One(cached' = b) = 0
    BY <1>1, <1>2, NoneIsNothing DEF One
  <2> QED BY <2>3, <2>4, <2>5 DEF One
<1>8. \A b \in Archs : Misses(None, b)' = Misses(None, b) /\ Reads(None, b)' = Reads(None, b)
  BY <1>2 DEF Misses, Reads, Missers, Standers, Readers, HeldBy, Inside
<1>9. \A b \in Archs : \/ refctr'[b] = 0 /\ missing'[b] = 0
                       \/ missing'[b] - Misses(None, b)' = missing[b] - Misses(None, b)
  BY <1>4, <1>8
<1>10. \A b \in Archs : /\ numread'[b] - Reads(None, b)' = numread[b] - Reads(None, b)
                        /\ basefile'[b] <=> numread'[b] > 0
  BY <1>2, <1>8 DEF IInv, BaseFileShared
<1> QED BY <1>4, <1>5, <1>6, <1>7, <1>9, <1>10, Balance

\* What a thread has of b.
LEMMA Having ==
    ASSUME NEW t \in Threads, NEW b \in Archs
    PROVE  /\ Refs(t, b) = One(arch[t] = b) + One(fil[t] = b) + One(cached = b)
           /\ Misses(t, b) = One(arch[t] = b /\ pc[t] = "in" /\ ent[t] = "missing")
                             + One(fil[t] = b /\ curr[t] = "missing")
           /\ Reads(t, b) = One(fil[t] = b /\ kind[t] = "read")
           /\ Refs(t, b)' = One(arch'[t] = b) + One(fil'[t] = b) + One(cached' = b)
           /\ Misses(t, b)' = One(arch'[t] = b /\ pc'[t] = "in" /\ ent'[t] = "missing")
                              + One(fil'[t] = b /\ curr'[t] = "missing")
           /\ Reads(t, b)' = One(fil'[t] = b /\ kind'[t] = "read")
BY DEF Refs, Misses, Reads, Missers, Standers, Readers, HeldBy, Inside, One

----------------------------------------------------------------------------
(* get_archive.                                                            *)

\* A step in which nobody gets or drops anything.
LEMMA Reckoned ==
    ASSUME IInv, Types', ThreadInv', LockInv', TreeInv', NEW t \in Threads, Alone(t),
           UNCHANGED <<cached, refctr, missing, numread, basefile>>,
           arch'[t] = arch[t], fil'[t] = fil[t], kind'[t] = kind[t], curr'[t] = curr[t],
           ~(pc[t] = "in" /\ ent[t] = "missing"), ~(pc'[t] = "in" /\ ent'[t] = "missing")
    PROVE  IInv'
<1>1. \A b \in Archs : Refs(t, b)' = Refs(t, b) /\ Misses(t, b)' = Misses(t, b)
                       /\ Reads(t, b)' = Reads(t, b)
  BY Having DEF One
<1>2. \A b \in Archs : basefile'[b] <=> numread'[b] > 0
  BY DEF IInv, BaseFileShared
<1> QED BY <1>1, <1>2, Balance

\* Enter keeps the invariant.
LEMMA EnterStep ==
    ASSUME IInv, NEW t \in Threads, Enter(t) \/ FindGivesUp(t)
    PROVE  IInv'
<1>1. /\ pc[t] \in {"out", "find"} /\ \E p \in {"out", "find"} : pc' = [pc EXCEPT ![t] = p]
      /\ \E n \in {0, tries[t]} : tries' = [tries EXCEPT ![t] = n]
      /\ UNCHANGED <<version, cached, refctr, lock, ready, st, contents, missing, numread, basefile,
                     arch, neednew, ent, fil, kind, curr>>
  <2>1. CASE Enter(t)
    <3>1. tries = [tries EXCEPT ![t] = tries[t]]
      BY DEF IInv, Types
    <3> QED BY <2>1, <3>1 DEF Enter, Goto, parsed, base, file
  <2>2. CASE FindGivesUp(t)
    BY <2>2 DEF FindGivesUp, Goto, parsed, base, file
  <2> QED BY <2>1, <2>2
<1>2. /\ pc'[t] \in {"out", "find"} /\ \A u \in Threads \ {t} : pc'[u] = pc[u] /\ tries'[u] = tries[u]
      /\ Alone(t)
  BY <1>1 DEF IInv, Types, Alone
<1>3. Types'
  <2>1. pc' \in [Threads -> Places]
    BY <1>1 DEF IInv, Types, Places
  <2>2. tries' \in [Threads -> 0..(MaxTries + 1)]
    BY <1>1, BoundsAreNumbers DEF IInv, Types
  <2> QED BY <1>1, <2>1, <2>2 DEF IInv, Types
<1>4. ThreadInv' /\ LockInv' /\ TreeInv'
  BY <1>1, <1>2 DEF IInv, ThreadInv, LockInv, TreeInv
<1> QED BY <1>1, <1>2, <1>3, <1>4, Reckoned

\* FindCached keeps the invariant.
LEMMA FindCachedStep ==
    ASSUME IInv, NEW t \in Threads, FindCached(t)
    PROVE  IInv'
<1>1. PICK a \in Archs : cached = a
  BY DEF FindCached, IInv, Types
<1>2. refctr[a] \in Int /\ refctr[a] > 0
  BY <1>1, Used
<1>3. /\ pc[t] = "find" /\ tries[t] <= MaxTries /\ pc' = [pc EXCEPT ![t] = "lock"]
      /\ arch' = [arch EXCEPT ![t] = a] /\ refctr' = [refctr EXCEPT ![a] = @ + 1]
      /\ UNCHANGED <<version, cached, lock, ready, st, contents, missing, numread, basefile,
                     tries, neednew, ent, fil, kind, curr>>
  BY <1>1, <1>2 DEF FindCached, Ref, Goto, parsed, base, file
<1>4. /\ pc'[t] = "lock" /\ arch'[t] = a /\ arch[t] = None
      /\ \A u \in Threads \ {t} : pc'[u] = pc[u] /\ arch'[u] = arch[u]
  BY <1>3 DEF IInv, Types, ThreadInv
<1>5. Types'
  <2>1. pc' \in [Threads -> Places] /\ arch' \in [Threads -> Archs \cup {None}]
    BY <1>3 DEF IInv, Types, Places
  <2>2. refctr' \in [Archs -> Int]
    BY <1>3 DEF IInv, Types
  <2> QED BY <1>3, <2>1, <2>2 DEF IInv, Types
<1>6. ThreadInv' /\ LockInv' /\ TreeInv' /\ Alone(t)
  BY <1>1, <1>3, <1>4, NoneIsNothing DEF IInv, ThreadInv, LockInv, TreeInv, Alone
<1>7. \A b \in Archs : /\ refctr'[b] = refctr[b] + One(a = b) /\ refctr[b] \in Int
                       /\ Refs(t, b)' = Refs(t, b) + One(a = b) /\ Refs(t, b) \in Int
                       /\ Misses(t, b)' = Misses(t, b) /\ Reads(t, b)' = Reads(t, b)
  <2> SUFFICES ASSUME NEW b \in Archs
               PROVE  /\ refctr'[b] = refctr[b] + One(a = b) /\ refctr[b] \in Int
                      /\ Refs(t, b)' = Refs(t, b) + One(a = b) /\ Refs(t, b) \in Int
                      /\ Misses(t, b)' = Misses(t, b) /\ Reads(t, b)' = Reads(t, b)
    OBVIOUS
  <2>1. refctr'[b] = refctr[b] + One(a = b) /\ refctr[b] \in Int
    BY <1>3 DEF IInv, Types, One
  <2>2. Refs(t, b)' = Refs(t, b) + One(a = b) /\ Refs(t, b) \in Int
    BY <1>3, <1>4, NoneIsNothing, Having DEF One
  <2>3. Misses(t, b)' = Misses(t, b) /\ Reads(t, b)' = Reads(t, b)
    BY <1>3, <1>4, Having DEF One
  <2> QED BY <2>1, <2>2, <2>3
<1>8. \A b \in Archs : refctr'[b] - Refs(t, b)' = refctr[b] - Refs(t, b)
  BY <1>7 DEF One
<1>9. \A b \in Archs : basefile'[b] <=> numread'[b] > 0
  BY <1>3 DEF IInv, BaseFileShared
<1> QED BY <1>3, <1>5, <1>6, <1>7, <1>8, <1>9, Balance

\* FindNew keeps the invariant.
LEMMA FindNewStep ==
    ASSUME IInv, NEW t \in Threads, NEW a \in Archs, FindNew(t, a)
    PROVE  IInv'
<1>1. /\ pc[t] = "find" /\ tries[t] <= MaxTries /\ cached = None /\ refctr[a] = 0
      /\ pc' = [pc EXCEPT ![t] = "lock"] /\ cached' = a
      /\ arch' = [arch EXCEPT ![t] = a] /\ refctr' = [refctr EXCEPT ![a] = 2]
      /\ UNCHANGED <<version, lock, ready, st, contents, missing, numread, basefile,
                     tries, neednew, ent, fil, kind, curr>>
  BY DEF FindNew, Goto, parsed, base, file
<1>2. /\ pc'[t] = "lock" /\ arch'[t] = a /\ arch[t] = None
      /\ \A u \in Threads \ {t} : pc'[u] = pc[u] /\ arch'[u] = arch[u]
  BY <1>1 DEF IInv, Types, ThreadInv
<1>3. Types'
  <2>1. pc' \in [Threads -> Places] /\ arch' \in [Threads -> Archs \cup {None}]
    BY <1>1 DEF IInv, Types, Places
  <2>2. refctr' \in [Archs -> Int] /\ cached' \in Archs \cup {None}
    BY <1>1 DEF IInv, Types
  <2> QED BY <1>1, <2>1, <2>2 DEF IInv, Types
<1>4. ThreadInv' /\ LockInv' /\ TreeInv' /\ Alone(t)
  BY <1>1, <1>2, NoneIsNothing DEF IInv, ThreadInv, LockInv, TreeInv, Alone
<1>5. \A b \in Archs : /\ refctr'[b] = refctr[b] + 2 * One(a = b) /\ refctr[b] \in Int
                       /\ Refs(t, b)' = Refs(t, b) + 2 * One(a = b) /\ Refs(t, b) \in Int
                       /\ Misses(t, b)' = Misses(t, b) /\ Reads(t, b)' = Reads(t, b)
  <2> SUFFICES ASSUME NEW b \in Archs
               PROVE  /\ refctr'[b] = refctr[b] + 2 * One(a = b) /\ refctr[b] \in Int
                      /\ Refs(t, b)' = Refs(t, b) + 2 * One(a = b) /\ Refs(t, b) \in Int
                      /\ Misses(t, b)' = Misses(t, b) /\ Reads(t, b)' = Reads(t, b)
    OBVIOUS
  <2>1. refctr'[b] = refctr[b] + 2 * One(a = b) /\ refctr[b] \in Int
    BY <1>1 DEF IInv, Types, One
  <2>2. Refs(t, b)' = Refs(t, b) + 2 * One(a = b) /\ Refs(t, b) \in Int
    BY <1>1, <1>2, NoneIsNothing, Having DEF One
  <2>3. Misses(t, b)' = Misses(t, b) /\ Reads(t, b)' = Reads(t, b)
    BY <1>1, <1>2, Having DEF One
  <2> QED BY <2>1, <2>2, <2>3
<1>6. \A b \in Archs : refctr'[b] - Refs(t, b)' = refctr[b] - Refs(t, b)
  BY <1>5 DEF One
<1>7. \A b \in Archs : basefile'[b] <=> numread'[b] > 0
  BY <1>1 DEF IInv, BaseFileShared
<1> QED BY <1>1, <1>3, <1>4, <1>5, <1>6, <1>7, Balance

\* The archive is given up by one who has its lock, or finds it free.
LEMMA RefusedStep ==
    ASSUME IInv, NEW t \in Threads, NEW again \in BOOLEAN, Refused(t, again),
           pc[t] = "parse" \/ (pc[t] = "lock" /\ Free(arch[t])),
           UNCHANGED <<version, cached, refctr, parsed, missing, base, arch, file>>
    PROVE  IInv'
<1>1. PICK a \in Archs : arch[t] = a
  BY NoneIsNothing DEF IInv, Types, ThreadInv
<1>2. /\ pc[t] \in {"lock", "parse"} /\ tries[t] <= MaxTries
      /\ lock[a] \in {t, None}
      /\ pc' = [pc EXCEPT ![t] = "unref"] /\ tries' = [tries EXCEPT ![t] = @ + 1]
      /\ neednew' = [neednew EXCEPT ![t] = again] /\ lock' = [lock EXCEPT ![a] = None]
      /\ UNCHANGED <<version, cached, refctr, ready, st, contents, missing, numread, basefile,
                     arch, ent, fil, kind, curr>>
  BY <1>1 DEF Refused, Goto, Free, parsed, base, file, IInv, ThreadInv, LockInv
<1>3. /\ pc'[t] = "unref" /\ \A u \in Threads \ {t} : pc'[u] = pc[u] /\ tries'[u] = tries[u]
      /\ lock'[a] = None /\ \A b \in Archs \ {a} : lock'[b] = lock[b]
  BY <1>2 DEF IInv, Types
<1>4. Types'
  <2>1. pc' \in [Threads -> Places] /\ lock' \in [Archs -> Threads \cup {None}]
    BY <1>2 DEF IInv, Types, Places
  <2>2. tries' \in [Threads -> 0..(MaxTries + 1)]
    <3>1. tries[t] \in 0..(MaxTries + 1) /\ tries[t] + 1 \in 0..(MaxTries + 1)
      BY <1>2, BoundsAreNumbers DEF IInv, Types
    <3> QED BY <1>2, <3>1 DEF IInv, Types
  <2>3. neednew' \in [Threads -> BOOLEAN]
    BY <1>2 DEF IInv, Types
  <2> QED BY <1>2, <2>1, <2>2, <2>3 DEF IInv, Types
<1>5. ThreadInv' /\ TreeInv' /\ Alone(t)
  BY <1>2, <1>3 DEF IInv, ThreadInv, TreeInv, Alone
<1>6. LockInv'
  <2> SUFFICES ASSUME NEW b \in Archs, NEW u \in Threads
               PROVE  lock'[b] = u <=> pc'[u] = "parse" /\ arch'[u] = b
    BY DEF LockInv
  <2>1. lock[b] = u <=> pc[u] = "parse" /\ arch[u] = b
    BY DEF IInv, LockInv
  <2>2. CASE u = t
    BY <1>1, <1>2, <1>3, <2>1, <2>2, NoneIsNothing
  <2>3. CASE u # t
    BY <1>1, <1>2, <1>3, <2>1, <2>3, NoneIsNothing
  <2> QED BY <2>2, <2>3
<1> QED BY <1>2, <1>3, <1>4, <1>5, <1>6, Reckoned

\* Check keeps the invariant.
LEMMA CheckStep ==
    ASSUME IInv, NEW t \in Threads, Check(t) \/ ParseFails(t)
    PROVE  IInv'
<1>1. CASE Check(t) /\ \E again \in BOOLEAN : Refused(t, again)
  BY <1>1, RefusedStep DEF Check
<1>2. CASE ParseFails(t)
  BY <1>2, RefusedStep DEF ParseFails
<1>3. CASE Check(t) /\ Got(t) /\ UNCHANGED <<neednew, lock>>
  <2>1. /\ pc[t] = "lock" /\ pc' = [pc EXCEPT ![t] = "in"] /\ ent' = [ent EXCEPT ![t] = "root"]
        /\ tries' = [tries EXCEPT ![t] = 0]
        /\ UNCHANGED <<version, cached, refctr, lock, ready, st, contents, missing, numread,
                       basefile, arch, neednew, fil, kind, curr>>
    BY <1>3 DEF Check, Got, Goto, parsed, base, file
  <2>2. /\ pc'[t] = "in" /\ ent'[t] = "root"
        /\ \A u \in Threads \ {t} : pc'[u] = pc[u] /\ ent'[u] = ent[u] /\ tries'[u] = tries[u]
    BY <2>1 DEF IInv, Types
  <2>3. Types'
    <3>1. pc' \in [Threads -> Places] /\ ent' \in [Threads -> Names]
      BY <2>1 DEF IInv, Types, Places, Names
    <3>2. tries' \in [Threads -> 0..(MaxTries + 1)]
      BY <2>1, BoundsAreNumbers DEF IInv, Types
    <3> QED BY <2>1, <3>1, <3>2 DEF IInv, Types
  <2>4. ThreadInv' /\ LockInv' /\ TreeInv' /\ Alone(t)
    BY <2>1, <2>2 DEF IInv, ThreadInv, LockInv, TreeInv, Alone
  <2> QED BY <2>1, <2>2, <2>3, <2>4, Reckoned
<1> QED BY <1>1, <1>2, <1>3 DEF Check

\* ParseStart keeps the invariant.
LEMMA ParseStartStep ==
    ASSUME IInv, NEW t \in Threads, ParseStart(t)
    PROVE  IInv'
<1>1. PICK a \in Archs : arch[t] = a
  BY NoneIsNothing DEF ParseStart, IInv, Types, ThreadInv
<1>2. /\ pc[t] = "lock" /\ lock[a] = None
      /\ pc' = [pc EXCEPT ![t] = "parse"] /\ lock' = [lock EXCEPT ![a] = t]
      /\ st' = [st EXCEPT ![a] = version] /\ contents' = [contents EXCEPT ![a] = version]
      /\ UNCHANGED <<version, cached, refctr, ready, missing, numread, basefile,
                     arch, tries, neednew, ent, fil, kind, curr>>
  BY <1>1 DEF ParseStart, Free, Goto, base, file
<1>3. /\ pc'[t] = "parse" /\ \A u \in Threads \ {t} : pc'[u] = pc[u]
      /\ lock'[a] = t /\ \A b \in Archs \ {a} : lock'[b] = lock[b]
  BY <1>2 DEF IInv, Types
<1>4. Types'
  <2>1. pc' \in [Threads -> Places] /\ lock' \in [Archs -> Threads \cup {None}]
    BY <1>2 DEF IInv, Types, Places
  <2>2. st' \in [Archs -> 0..MaxVersion] /\ contents' \in [Archs -> 0..MaxVersion]
    <3>1. version \in 0..MaxVersion
      BY BoundsAreNumbers DEF IInv, Types
    <3> QED BY <1>2, <3>1 DEF IInv, Types
  <2> QED BY <1>2, <2>1, <2>2 DEF IInv, Types
<1>5. ThreadInv' /\ Alone(t)
  BY <1>2, <1>3 DEF IInv, ThreadInv, Alone
<1>6. LockInv'
  <2> SUFFICES ASSUME NEW b \in Archs, NEW u \in Threads
               PROVE  lock'[b] = u <=> pc'[u] = "parse" /\ arch'[u] = b
    BY DEF LockInv
  <2>1. lock[b] = u <=> pc[u] = "parse" /\ arch[u] = b
    BY DEF IInv, LockInv
  <2> QED BY <1>1, <1>2, <1>3, <2>1, NoneIsNothing
<1>7. TreeInv'
  <2>1. version \in Int
    BY DEF IInv, Types
  <2> QED BY <1>2, <2>1 DEF IInv, TreeInv, Types
<1> QED BY <1>2, <1>3, <1>4, <1>5, <1>6, <1>7, Reckoned

\* ParseEnds keeps the invariant.
LEMMA ParseEndsStep ==
    ASSUME IInv, NEW t \in Threads, ParseEnds(t)
    PROVE  IInv'
<1>1. PICK a \in Archs : arch[t] = a
  BY NoneIsNothing DEF ParseEnds, IInv, Types, ThreadInv
<1>2. PICK v \in contents[a]..version : contents' = [contents EXCEPT ![a] = v]
  BY <1>1 DEF ParseEnds
<1>3. /\ pc[t] = "parse" /\ lock[a] = t
      /\ pc' = [pc EXCEPT ![t] = "in"] /\ lock' = [lock EXCEPT ![a] = None]
      /\ ent' = [ent EXCEPT ![t] = "root"] /\ tries' = [tries EXCEPT ![t] = 0]
      /\ st' = [st EXCEPT ![a] = st[a]] /\ ready' = [ready EXCEPT ![a] = TRUE]
      /\ UNCHANGED <<version, cached, refctr, missing, numread, basefile,
                     arch, neednew, fil, kind, curr>>
  BY <1>1 DEF ParseEnds, Compared, Got, Goto, base, file, IInv, LockInv
<1>4. /\ pc'[t] = "in" /\ ent'[t] = "root"
      /\ \A u \in Threads \ {t} : pc'[u] = pc[u] /\ ent'[u] = ent[u] /\ tries'[u] = tries[u]
      /\ lock'[a] = None /\ \A b \in Archs \ {a} : lock'[b] = lock[b]
  BY <1>3 DEF IInv, Types
<1>5. /\ version \in Int /\ version <= MaxVersion /\ contents[a] \in Int /\ contents[a] >= 0
      /\ v \in Int /\ st[a] <= v /\ v <= version /\ v \in 0..MaxVersion
  <2>1. version \in 1..MaxVersion /\ contents[a] \in 0..MaxVersion /\ st[a] \in 0..MaxVersion
        /\ MaxVersion \in Nat
    BY BoundsAreNumbers DEF IInv, Types
  <2>2. st[a] <= contents[a]
    BY DEF IInv, TreeInv
  <2> QED BY <1>2, <2>1, <2>2
<1>6. Types'
  <2>1. /\ pc' \in [Threads -> Places] /\ ent' \in [Threads -> Names]
        /\ lock' \in [Archs -> Threads \cup {None}]
    BY <1>3 DEF IInv, Types, Places, Names
  <2>2. /\ st' \in [Archs -> 0..MaxVersion] /\ contents' \in [Archs -> 0..MaxVersion]
        /\ ready' \in [Archs -> BOOLEAN]
    BY <1>2, <1>3, <1>5 DEF IInv, Types
  <2>3. tries' \in [Threads -> 0..(MaxTries + 1)]
    BY <1>3, BoundsAreNumbers DEF IInv, Types
  <2> QED BY <1>3, <2>1, <2>2, <2>3 DEF IInv, Types
<1>7. ThreadInv' /\ Alone(t)
  BY <1>3, <1>4 DEF IInv, ThreadInv, Alone
<1>8. LockInv'
  <2> SUFFICES ASSUME NEW b \in Archs, NEW u \in Threads
               PROVE  lock'[b] = u <=> pc'[u] = "parse" /\ arch'[u] = b
    BY DEF LockInv
  <2>1. lock[b] = u <=> pc[u] = "parse" /\ arch[u] = b
    BY DEF IInv, LockInv
  <2> QED BY <1>1, <1>3, <1>4, <2>1, NoneIsNothing
<1>9. TreeInv'
  BY <1>2, <1>3, <1>5 DEF IInv, TreeInv, Types
<1> QED BY <1>3, <1>4, <1>6, <1>7, <1>8, <1>9, Reckoned

\* A thread drops its archive, and goes to p.
LEMMA LeaveArch ==
    ASSUME IInv, NEW t \in Threads, NEW p \in {"uncache", "out"},
           pc[t] \in {"unref", "in"}, ~(pc[t] = "in" /\ ent[t] = "missing"),
           DropArch(arch[t]), arch' = [arch EXCEPT ![t] = None], pc' = [pc EXCEPT ![t] = p],
           UNCHANGED <<version, cached, lock, base, tries, neednew, ent, file>>
    PROVE  IInv'
<1>1. PICK a \in Archs : arch[t] = a
  BY NoneIsNothing DEF IInv, Types, ThreadInv
<1>2. UNCHANGED <<version, cached, lock, numread, basefile, tries, neednew, ent, fil, kind, curr>>
  BY DEF base, file
<1>3. refctr[a] \in Int /\ refctr[a] > 0
  BY <1>1, Used
<1>4. /\ refctr' = [refctr EXCEPT ![a] = @ - 1]
      /\ TreeInv'
      /\ \A b \in Archs : missing'[b] = missing[b] \/ (refctr'[b] = 0 /\ missing'[b] = 0)
      /\ missing' \in [Archs -> Int] /\ ready' \in [Archs -> BOOLEAN]
      /\ st' \in [Archs -> 0..MaxVersion] /\ contents' \in [Archs -> 0..MaxVersion]
  <2>1. DropArch(a)
    BY <1>1
  <2> QED BY <1>2, <1>3, <2>1, Dropped DEF IInv
<1>5. /\ pc'[t] = p /\ arch'[t] = None
      /\ \A u \in Threads \ {t} : pc'[u] = pc[u] /\ arch'[u] = arch[u]
  BY DEF IInv, Types
<1>6. Types'
  <2>1. pc' \in [Threads -> Places] /\ arch' \in [Threads -> Archs \cup {None}]
    BY DEF IInv, Types, Places
  <2>2. refctr' \in [Archs -> Int]
    BY <1>4 DEF IInv, Types
  <2> QED BY <1>2, <1>4, <2>1, <2>2 DEF IInv, Types
<1>7. ThreadInv' /\ LockInv' /\ Alone(t)
  BY <1>2, <1>5, NoneIsNothing DEF IInv, ThreadInv, LockInv, Alone
<1>8. \A b \in Archs : /\ refctr'[b] = refctr[b] - One(a = b) /\ refctr[b] \in Int
                       /\ Refs(t, b)' = Refs(t, b) - One(a = b) /\ Refs(t, b) \in Int
                       /\ Misses(t, b)' = Misses(t, b) /\ Reads(t, b)' = Reads(t, b)
  <2> SUFFICES ASSUME NEW b \in Archs
               PROVE  /\ refctr'[b] = refctr[b] - One(a = b) /\ refctr[b] \in Int
                      /\ Refs(t, b)' = Refs(t, b) - One(a = b) /\ Refs(t, b) \in Int
                      /\ Misses(t, b)' = Misses(t, b) /\ Reads(t, b)' = Reads(t, b)
    OBVIOUS
  <2>1. refctr'[b] = refctr[b] - One(a = b) /\ refctr[b] \in Int
    BY <1>4 DEF IInv, Types, One
  <2>2. Refs(t, b)' = Refs(t, b) - One(a = b) /\ Refs(t, b) \in Int
    BY <1>1, <1>2, <1>5, NoneIsNothing, Having DEF One
  <2>3. Misses(t, b)' = Misses(t, b) /\ Reads(t, b)' = Reads(t, b)
    BY <1>2, <1>5, NoneIsNothing, Having DEF One
  <2> QED BY <2>1, <2>2, <2>3
<1>9. \A b \in Archs : refctr'[b] - Refs(t, b)' = refctr[b] - Refs(t, b)
  BY <1>8 DEF One
<1>10. \A b \in Archs : \/ refctr'[b] = 0 /\ missing'[b] = 0
                        \/ missing'[b] - Misses(t, b)' = missing[b] - Misses(t, b)
  BY <1>4, <1>8
<1>11. \A b \in Archs : /\ numread'[b] - Reads(t, b)' = numread[b] - Reads(t, b)
                        /\ basefile'[b] <=> numread'[b] > 0
  BY <1>2, <1>8 DEF IInv, BaseFileShared
<1> QED BY <1>4, <1>6, <1>7, <1>9, <1>10, <1>11, Balance

\* Leave keeps the invariant.
LEMMA LeaveStep ==
    ASSUME IInv, NEW t \in Threads, UnrefRefused(t) \/ Leave(t)
    PROVE  IInv'
<1>1. CASE UnrefRefused(t)
  BY <1>1, LeaveArch DEF UnrefRefused, Goto
<1>2. CASE Leave(t)
  BY <1>2, LeaveArch DEF Leave, Inside, Goto
<1> QED BY <1>1, <1>2

\* Uncache keeps the invariant.
LEMMA UncacheStep ==
    ASSUME IInv, NEW t \in Threads, Uncache(t)
    PROVE  IInv'
<1>1. PICK p \in {"find", "out"}, n \in {tries[t], 0} :
         pc' = [pc EXCEPT ![t] = p] /\ tries' = [tries EXCEPT ![t] = n]
  BY DEF Uncache, Goto
<1>2. /\ pc[t] = "uncache" /\ cached' = None /\ neednew' = [neednew EXCEPT ![t] = FALSE]
      /\ UNCHANGED <<version, lock, numread, basefile, arch, ent, fil, kind, curr>>
  BY DEF Uncache, base, file
<1>3. /\ pc'[t] = p /\ arch[t] = None
      /\ \A u \in Threads \ {t} : pc'[u] = pc[u] /\ tries'[u] = tries[u]
  BY <1>1, <1>2 DEF IInv, Types, ThreadInv
<1>4. /\ pc' \in [Threads -> Places] /\ neednew' \in [Threads -> BOOLEAN]
      /\ tries' \in [Threads -> 0..(MaxTries + 1)]
  <2>1. n \in 0..(MaxTries + 1)
    BY BoundsAreNumbers DEF IInv, Types
  <2> QED BY <1>1, <1>2, <2>1 DEF IInv, Types, Places
<1>5. ThreadInv' /\ LockInv' /\ Alone(t)
  BY <1>2, <1>3, NoneIsNothing DEF IInv, ThreadInv, LockInv, Alone
<1>6. \A b \in Archs : /\ Refs(t, b)' = Refs(t, b) - One(cached = b) /\ Refs(t, b) \in Int
                       /\ Misses(t, b)' = Misses(t, b) /\ Reads(t, b)' = Reads(t, b)
  <2> SUFFICES ASSUME NEW b \in Archs
               PROVE  /\ Refs(t, b)' = Refs(t, b) - One(cached = b) /\ Refs(t, b) \in Int
                      /\ Misses(t, b)' = Misses(t, b) /\ Reads(t, b)' = Reads(t, b)
    OBVIOUS
  <2>1. Refs(t, b)' = Refs(t, b) - One(cached = b) /\ Refs(t, b) \in Int
    BY <1>2, <1>3, NoneIsNothing, Having DEF One
  <2>2. Misses(t, b)' = Misses(t, b) /\ Reads(t, b)' = Reads(t, b)
    BY <1>2, <1>3, NoneIsNothing, Having DEF One
  <2> QED BY <2>1, <2>2
<1>7. /\ refctr' \in [Archs -> Int]
      /\ \A b \in Archs : refctr'[b] = refctr[b] - One(cached = b) /\ refctr[b] \in Int
      /\ TreeInv'
      /\ \A b \in Archs : missing'[b] = missing[b] \/ (refctr'[b] = 0 /\ missing'[b] = 0)
      /\ missing' \in [Archs -> Int] /\ ready' \in [Archs -> BOOLEAN]
      /\ st' \in [Archs -> 0..MaxVersion] /\ contents' \in [Archs -> 0..MaxVersion]
  <2>1. CASE cached = None
    <3>1. UNCHANGED <<refctr, ready, st, contents, missing>>
      BY <2>1 DEF Uncache, parsed
    <3>2. TreeInv'
      BY <1>2, <3>1 DEF IInv, TreeInv
    <3>3. \A b \in Archs : One(cached = b) = 0
      BY <2>1, NoneIsNothing DEF One
    <3> QED BY <3>1, <3>2, <3>3 DEF IInv, Types
  <2>2. CASE cached # None
    <3>1. PICK a \in Archs : cached = a
      BY <2>2 DEF IInv, Types
    <3>2. DropArch(a)
      BY <2>2, <3>1 DEF Uncache
    <3>3. refctr[a] > 0
      BY <3>1, Used
    <3>4. /\ refctr' = [refctr EXCEPT ![a] = @ - 1]
          /\ TreeInv'
          /\ \A b \in Archs : missing'[b] = missing[b] \/ (refctr'[b] = 0 /\ missing'[b] = 0)
          /\ missing' \in [Archs -> Int] /\ ready' \in [Archs -> BOOLEAN]
          /\ st' \in [Archs -> 0..MaxVersion] /\ contents' \in [Archs -> 0..MaxVersion]
      BY <1>2, <3>2, <3>3, Dropped DEF IInv
    <3>5. \A b \in Archs : refctr'[b] = refctr[b] - One(cached = b) /\ refctr[b] \in Int
      BY <3>1, <3>4 DEF IInv, Types, One
    <3>6. refctr' \in [Archs -> Int]
      BY <3>4 DEF IInv, Types
    <3> QED BY <3>4, <3>5, <3>6
  <2> QED BY <2>1, <2>2
<1>8. Types'
  BY <1>2, <1>4, <1>7 DEF IInv, Types
<1>9. \A b \in Archs : refctr'[b] - Refs(t, b)' = refctr[b] - Refs(t, b)
  BY <1>6, <1>7 DEF One
<1>10. \A b \in Archs : \/ refctr'[b] = 0 /\ missing'[b] = 0
                        \/ missing'[b] - Misses(t, b)' = missing[b] - Misses(t, b)
  BY <1>6, <1>7
<1>11. \A b \in Archs : /\ numread'[b] - Reads(t, b)' = numread[b] - Reads(t, b)
                        /\ basefile'[b] <=> numread'[b] > 0
  BY <1>2, <1>6 DEF IInv, BaseFileShared
<1> QED BY <1>5, <1>7, <1>8, <1>9, <1>10, <1>11, Balance

----------------------------------------------------------------------------
(* Entries.                                                                *)

\* A thread exchanges its entry for another.
LEMMA EntryStep ==
    ASSUME IInv, NEW t \in Threads,
           PutEntry(t) \/ \E name \in Names : Lookup(t, name)
    PROVE  IInv'
<1>1. PICK name \in Names :
         /\ pc[t] = "in" /\ ent' = [ent EXCEPT ![t] = name]
         /\ missing' = Moved(arch[t], ent[t], name)
         /\ UNCHANGED <<version, cached, refctr, lock, ready, st, contents, numread, basefile,
                        pc, arch, tries, neednew, fil, kind, curr>>
  BY DEF PutEntry, Lookup, Inside, Names, parsed, base, getting, file
<1>2. PICK a \in Archs : arch[t] = a
  BY <1>1, NoneIsNothing DEF IInv, Types, ThreadInv
<1>3. missing' = [missing EXCEPT ![a] = @ + One(name = "missing") - One(ent[t] = "missing")]
  BY <1>1, <1>2 DEF Moved, Counted, One
<1>4. ent'[t] = name /\ \A u \in Threads \ {t} : ent'[u] = ent[u]
  BY <1>1 DEF IInv, Types
<1>5. Types'
  <2>1. ent' \in [Threads -> Names]
    BY <1>1 DEF IInv, Types
  <2>2. missing' \in [Archs -> Int]
    BY <1>3 DEF IInv, Types, One
  <2> QED BY <1>1, <2>1, <2>2 DEF IInv, Types
<1>6. ThreadInv' /\ LockInv' /\ TreeInv' /\ Alone(t)
  BY <1>1, <1>4 DEF IInv, ThreadInv, LockInv, TreeInv, Alone
<1>7. \A b \in Archs : /\ Refs(t, b)' = Refs(t, b) /\ Reads(t, b)' = Reads(t, b)
                       /\ missing'[b] - Misses(t, b)' = missing[b] - Misses(t, b)
  <2> SUFFICES ASSUME NEW b \in Archs
               PROVE  /\ Refs(t, b)' = Refs(t, b) /\ Reads(t, b)' = Reads(t, b)
                      /\ missing'[b] - Misses(t, b)' = missing[b] - Misses(t, b)
    OBVIOUS
  <2>1. Refs(t, b)' = Refs(t, b) /\ Reads(t, b)' = Reads(t, b)
    BY <1>1, Having DEF One
  <2>2. missing[b] \in Int /\ missing'[b] = missing[b] +
           IF a = b THEN One(name = "missing") - One(ent[t] = "missing") ELSE 0
    BY <1>3 DEF IInv, Types, One
  <2>3. PICK i \in Int : i = One(fil[t] = b /\ curr[t] = "missing")
    BY DEF One
  <2>4. /\ Misses(t, b) = One(a = b /\ ent[t] = "missing") + i
        /\ Misses(t, b)' = One(a = b /\ name = "missing") + i
    BY <1>1, <1>2, <1>4, <2>3, Having
  <2> QED BY <2>1, <2>2, <2>3, <2>4 DEF One
<1>8. \A b \in Archs : basefile'[b] <=> numread'[b] > 0
  BY <1>1 DEF IInv, BaseFileShared
<1> QED BY <1>1, <1>5, <1>6, <1>7, <1>8, Balance

\* CopyEntry keeps the invariant.
LEMMA CopyEntryStep ==
    ASSUME IInv, NEW v \in Threads, NEW t \in Threads, CopyEntry(v, t)
    PROVE  IInv'
<1>1. /\ pc[v] = "in" /\ pc[t] = "out" /\ fil[t] = None
      /\ missing' = Moved(arch[v], "root", ent[v]) /\ refctr' = Ref(arch[v])
      /\ arch' = [arch EXCEPT ![t] = arch[v]] /\ ent' = [ent EXCEPT ![t] = ent[v]]
      /\ pc' = [pc EXCEPT ![t] = "in"]
      /\ UNCHANGED <<version, cached, lock, ready, st, contents, numread, basefile,
                     tries, neednew, fil, kind, curr>>
  BY DEF CopyEntry, Inside, Goto, parsed, base, file
<1>2. PICK a \in Archs : arch[v] = a
  BY <1>1, NoneIsNothing DEF IInv, Types, ThreadInv
<1>3. PICK name \in Names : ent[v] = name
  BY DEF IInv, Types
<1>4. refctr[a] \in Int /\ refctr[a] > 0
  BY <1>2, Used
<1>5. /\ missing' = [missing EXCEPT ![a] = @ + One(name = "missing") - 0]
      /\ refctr' = [refctr EXCEPT ![a] = @ + 1]
  BY <1>1, <1>2, <1>3, <1>4 DEF Moved, Counted, One, Ref
<1>6. /\ ent'[t] = name /\ pc'[t] = "in" /\ arch'[t] = a /\ arch[t] = None
      /\ \A u \in Threads \ {t} : ent'[u] = ent[u] /\ pc'[u] = pc[u] /\ arch'[u] = arch[u]
  BY <1>1, <1>2, <1>3 DEF IInv, Types, ThreadInv
<1>7. Types'
  <2>1. ent' \in [Threads -> Names] /\ pc' \in [Threads -> Places]
        /\ arch' \in [Threads -> Archs \cup {None}]
    BY <1>1, <1>2, <1>3 DEF IInv, Types, Places
  <2>2. missing' \in [Archs -> Int] /\ refctr' \in [Archs -> Int]
    BY <1>5 DEF IInv, Types, One
  <2> QED BY <1>1, <2>1, <2>2 DEF IInv, Types
<1>8. ThreadInv' /\ LockInv' /\ TreeInv' /\ Alone(t)
  BY <1>1, <1>2, <1>6, NoneIsNothing DEF IInv, ThreadInv, LockInv, TreeInv, Alone
<1>9. \A b \in Archs : /\ refctr'[b] - Refs(t, b)' = refctr[b] - Refs(t, b)
                       /\ missing'[b] - Misses(t, b)' = missing[b] - Misses(t, b)
                       /\ Reads(t, b)' = Reads(t, b)
  <2> SUFFICES ASSUME NEW b \in Archs
               PROVE  /\ refctr'[b] - Refs(t, b)' = refctr[b] - Refs(t, b)
                      /\ missing'[b] - Misses(t, b)' = missing[b] - Misses(t, b)
                      /\ Reads(t, b)' = Reads(t, b)
    OBVIOUS
  <2>1. Reads(t, b)' = Reads(t, b)
    BY <1>1 DEF Reads, Readers, HeldBy
  <2>2. refctr[b] \in Int /\ refctr'[b] = refctr[b] + One(a = b)
    BY <1>5 DEF IInv, Types, One
  <2>3. Refs(t, b)' = Refs(t, b) + One(a = b) /\ Refs(t, b) \in Int
    BY <1>1, <1>6, NoneIsNothing, Having DEF One
  <2>4. missing[b] \in Int /\ missing'[b] = missing[b] + One(a = b /\ name = "missing")
    BY <1>5 DEF IInv, Types, One
  <2>5. Misses(t, b)' = Misses(t, b) + One(a = b /\ name = "missing") /\ Misses(t, b) \in Int
    BY <1>1, <1>6, NoneIsNothing, Having DEF One
  <2> QED BY <2>1, <2>2, <2>3, <2>4, <2>5 DEF One
<1>10. \A b \in Archs : basefile'[b] <=> numread'[b] > 0
  BY <1>1 DEF IInv, BaseFileShared
<1> QED BY <1>1, <1>7, <1>8, <1>9, <1>10, Balance

----------------------------------------------------------------------------
(* Files.                                                                  *)

\* Open keeps the invariant.
LEMMA OpenStep ==
    ASSUME IInv, NEW t \in Threads, NEW how \in Kinds, Open(t, how)
    PROVE  IInv'
<1>1. /\ pc[t] = "in" /\ fil[t] = None /\ how # "none"
      /\ refctr' = Ref(arch[t]) /\ fil' = [fil EXCEPT ![t] = arch[t]]
      /\ kind' = [kind EXCEPT ![t] = how]
      /\ UNCHANGED <<version, cached, lock, ready, st, contents, missing,
                     pc, arch, tries, neednew, ent, curr>>
  BY DEF Open, Inside, parsed, getting
<1>2. PICK a \in Archs : arch[t] = a
  BY <1>1, NoneIsNothing DEF IInv, Types, ThreadInv
<1>3. refctr[a] \in Int /\ refctr[a] > 0
  BY <1>2, Used
<1>4. refctr' = [refctr EXCEPT ![a] = @ + 1]
  BY <1>1, <1>2, <1>3 DEF Ref
<1>5. /\ fil'[t] = a /\ kind'[t] = how /\ kind[t] = "none" /\ curr[t] = "none"
      /\ \A u \in Threads \ {t} : fil'[u] = fil[u] /\ kind'[u] = kind[u]
  BY <1>1, <1>2 DEF IInv, Types, ThreadInv
<1>6. /\ numread' \in [Archs -> Int] /\ basefile' \in [Archs -> BOOLEAN]
      /\ \A b \in Archs : /\ numread[b] \in Int
                          /\ numread'[b] = numread[b] + One(a = b /\ how = "read")
                          /\ basefile'[b] <=> numread'[b] > 0
  <2>1. /\ numread \in [Archs -> Int] /\ basefile \in [Archs -> BOOLEAN]
        /\ \A b \in Archs : basefile[b] <=> numread[b] > 0
    BY DEF IInv, Types, BaseFileShared
  <2>2. CASE how = "read"
    <3>1. /\ basefile' = [basefile EXCEPT ![a] = TRUE] /\ numread' = [numread EXCEPT ![a] = @ + 1]
      BY <1>2, <2>2 DEF Open
    <3>2. numread[a] >= 0
      <4>1. Readers(a) \subseteq Threads
        BY DEF Readers, HeldBy
      <4>2. Cardinality(Readers(a)) \in Nat
        BY <4>1, PartIsFinite, ThreadsArchsFinite
      <4>3. numread[a] = Cardinality(Readers(a))
        BY DEF IInv, BaseFileShared, Readers
      <4> QED BY <4>2, <4>3
    <3>3. /\ numread'[a] = numread[a] + 1 /\ basefile'[a] = TRUE
          /\ \A b \in Archs \ {a} : numread'[b] = numread[b] /\ basefile'[b] = basefile[b]
          /\ numread' \in [Archs -> Int] /\ basefile' \in [Archs -> BOOLEAN]
      BY <2>1, <3>1
    <3>4. \A b \in Archs : basefile'[b] <=> numread'[b] > 0
      BY <2>1, <3>2, <3>3
    <3> QED BY <2>1, <2>2, <3>3, <3>4 DEF One
  <2>3. CASE how # "read"
    <3>1. UNCHANGED <<numread, basefile>>
      BY <2>3 DEF Open, base
    <3> QED BY <2>1, <2>3, <3>1 DEF One
  <2> QED BY <2>2, <2>3
<1>7. Types'
  <2>1. fil' \in [Threads -> Archs \cup {None}] /\ kind' \in [Threads -> Kinds]
    BY <1>1, <1>2 DEF IInv, Types
  <2>2. refctr' \in [Archs -> Int]
    BY <1>4 DEF IInv, Types
  <2> QED BY <1>1, <1>6, <2>1, <2>2 DEF IInv, Types
<1>8. ThreadInv' /\ LockInv' /\ TreeInv' /\ Alone(t)
  BY <1>1, <1>5, NoneIsNothing DEF IInv, ThreadInv, LockInv, TreeInv, Alone
<1>9. \A b \in Archs : /\ refctr'[b] - Refs(t, b)' = refctr[b] - Refs(t, b)
                       /\ Misses(t, b)' = Misses(t, b)
                       /\ numread'[b] - Reads(t, b)' = numread[b] - Reads(t, b)
  <2> SUFFICES ASSUME NEW b \in Archs
               PROVE  /\ refctr'[b] - Refs(t, b)' = refctr[b] - Refs(t, b)
                      /\ Misses(t, b)' = Misses(t, b)
                      /\ numread'[b] - Reads(t, b)' = numread[b] - Reads(t, b)
    OBVIOUS
  <2>1. refctr[b] \in Int /\ refctr'[b] = refctr[b] + One(a = b)
    BY <1>4 DEF IInv, Types, One
  <2>2. Refs(t, b)' = Refs(t, b) + One(a = b) /\ Refs(t, b) \in Int
    BY <1>1, <1>5, NoneIsNothing, Having DEF One
  <2>3. Misses(t, b)' = Misses(t, b)
    BY <1>1, <1>5, NoneIsNothing, Having DEF One
  <2>4. Reads(t, b)' = Reads(t, b) + One(a = b /\ how = "read") /\ Reads(t, b) \in Int
    BY <1>1, <1>5, NoneIsNothing, Having DEF One
  <2> QED BY <1>6, <2>1, <2>2, <2>3, <2>4 DEF One
<1> QED BY <1>1, <1>6, <1>7, <1>8, <1>9, Balance

\* ReadDir keeps the invariant.
LEMMA ReadDirStep ==
    ASSUME IInv, NEW t \in Threads, NEW next \in Names \cup {"none"}, ReadDir(t, next)
    PROVE  IInv'
<1>1. /\ kind[t] = "list" /\ next # "root" /\ missing' = Moved(fil[t], curr[t], next)
      /\ curr' = [curr EXCEPT ![t] = next]
      /\ UNCHANGED <<version, cached, refctr, lock, ready, st, contents, numread, basefile,
                     pc, arch, tries, neednew, ent, fil, kind>>
  BY DEF ReadDir, parsed, base, getting
<1>2. PICK a \in Archs : fil[t] = a
  BY <1>1, NoneIsNothing DEF IInv, Types, ThreadInv
<1>3. missing' = [missing EXCEPT ![a] = @ + One(next = "missing") - One(curr[t] = "missing")]
  BY <1>1, <1>2 DEF Moved, Counted, One
<1>4. curr'[t] = next /\ \A u \in Threads \ {t} : curr'[u] = curr[u]
  BY <1>1 DEF IInv, Types
<1>5. Types'
  <2>1. curr' \in [Threads -> {"none", "file", "missing"}]
    BY <1>1 DEF IInv, Types, Names
  <2>2. missing' \in [Archs -> Int]
    BY <1>3 DEF IInv, Types, One
  <2> QED BY <1>1, <2>1, <2>2 DEF IInv, Types
<1>6. ThreadInv' /\ LockInv' /\ TreeInv' /\ Alone(t)
  BY <1>1, <1>4 DEF IInv, ThreadInv, LockInv, TreeInv, Alone
<1>7. \A b \in Archs : /\ Refs(t, b)' = Refs(t, b) /\ Reads(t, b)' = Reads(t, b)
                       /\ missing'[b] - Misses(t, b)' = missing[b] - Misses(t, b)
  <2> SUFFICES ASSUME NEW b \in Archs
               PROVE  /\ Refs(t, b)' = Refs(t, b) /\ Reads(t, b)' = Reads(t, b)
                      /\ missing'[b] - Misses(t, b)' = missing[b] - Misses(t, b)
    OBVIOUS
  <2>1. Refs(t, b)' = Refs(t, b) /\ Reads(t, b)' = Reads(t, b)
    BY <1>1 DEF Refs, Reads, Readers, HeldBy
  <2>2. missing[b] \in Int /\ missing'[b] = missing[b] +
           IF a = b THEN One(next = "missing") - One(curr[t] = "missing") ELSE 0
    BY <1>3 DEF IInv, Types, One
  <2>3. PICK i \in Int : i = One(arch[t] = b /\ pc[t] = "in" /\ ent[t] = "missing")
    BY DEF One
  <2>4. /\ Misses(t, b) = i + One(a = b /\ curr[t] = "missing")
        /\ Misses(t, b)' = i + One(a = b /\ next = "missing")
    BY <1>1, <1>2, <1>4, <2>3, Having
  <2> QED BY <2>1, <2>2, <2>3, <2>4 DEF One
<1>8. \A b \in Archs : basefile'[b] <=> numread'[b] > 0
  BY <1>1 DEF IInv, BaseFileShared
<1> QED BY <1>1, <1>5, <1>6, <1>7, <1>8, Balance

\* Close keeps the invariant.
LEMMA CloseStep ==
    ASSUME IInv, NEW t \in Threads, Close(t)
    PROVE  IInv'
<1>1. PICK a \in Archs : fil[t] = a
  BY DEF Close, IInv, Types
<1>2. /\ fil' = [fil EXCEPT ![t] = None] /\ kind' = [kind EXCEPT ![t] = "none"]
      /\ curr' = [curr EXCEPT ![t] = "none"] /\ refctr' = Unref(a)
      /\ UNCHANGED <<version, cached, lock, pc, arch, tries, neednew, ent>>
  BY <1>1 DEF Close, getting
<1>3. refctr[a] \in Int /\ refctr[a] > 0
  BY <1>1, Used
<1>4. refctr' = [refctr EXCEPT ![a] = @ - 1]
  BY <1>2, <1>3 DEF Unref
<1>5. /\ fil'[t] = None /\ kind'[t] = "none" /\ curr'[t] = "none"
      /\ \A u \in Threads \ {t} : fil'[u] = fil[u] /\ kind'[u] = kind[u] /\ curr'[u] = curr[u]
  BY <1>2 DEF IInv, Types
<1>6. /\ numread' \in [Archs -> Int] /\ basefile' \in [Archs -> BOOLEAN]
      /\ \A b \in Archs : /\ numread[b] \in Int
                          /\ numread'[b] = numread[b] - One(a = b /\ kind[t] = "read")
                          /\ basefile'[b] <=> numread'[b] > 0
  <2>1. /\ numread \in [Archs -> Int] /\ basefile \in [Archs -> BOOLEAN]
        /\ \A b \in Archs : basefile[b] <=> numread[b] > 0
    BY DEF IInv, Types, BaseFileShared
  <2>2. CASE kind[t] = "read"
    <3>1. /\ basefile' = [basefile EXCEPT ![a] = numread[a] > 1]
          /\ numread' = [numread EXCEPT ![a] = numread[a] - 1]
      BY <1>1, <2>2 DEF Close, BaseReleased
    <3>2. /\ numread'[a] = numread[a] - 1 /\ basefile'[a] = (numread[a] > 1)
          /\ \A b \in Archs \ {a} : numread'[b] = numread[b] /\ basefile'[b] = basefile[b]
          /\ numread' \in [Archs -> Int] /\ basefile' \in [Archs -> BOOLEAN]
      BY <2>1, <3>1
    <3>3. \A b \in Archs : basefile'[b] <=> numread'[b] > 0
      BY <2>1, <3>2
    <3> QED BY <2>1, <2>2, <3>2, <3>3 DEF One
  <2>3. CASE kind[t] # "read"
    <3>1. UNCHANGED <<numread, basefile>>
      BY <2>3 DEF Close, base
    <3> QED BY <2>1, <2>3, <3>1 DEF One
  <2> QED BY <2>2, <2>3
<1>7. /\ missing' \in [Archs -> Int] /\ ready' \in [Archs -> BOOLEAN]
      /\ st' \in [Archs -> 0..MaxVersion] /\ contents' \in [Archs -> 0..MaxVersion]
      /\ TreeInv'
      /\ \A b \in Archs :
            \/ refctr'[b] = 0 /\ missing'[b] = 0
            \/ missing[b] \in Int /\ missing'[b] = missing[b] - One(a = b /\ curr[t] = "missing")
  <2>1. CASE refctr[a] = 1
    <3>1. DropArch(a)
      BY <1>1, <1>2, <2>1 DEF Close, DropArch
    <3>2. /\ TreeInv'
          /\ \A b \in Archs : missing'[b] = missing[b] \/ (refctr'[b] = 0 /\ missing'[b] = 0)
          /\ missing' \in [Archs -> Int] /\ ready' \in [Archs -> BOOLEAN]
          /\ st' \in [Archs -> 0..MaxVersion] /\ contents' \in [Archs -> 0..MaxVersion]
      BY <1>2, <1>3, <3>1, Dropped DEF IInv
    <3>3. refctr'[a] = 0 /\ missing'[a] = 0
      BY <1>1, <1>4, <2>1 DEF Close, Deleted, IInv, Types
    <3>4. \A b \in Archs \ {a} : \/ refctr'[b] = 0 /\ missing'[b] = 0
                                 \/ missing[b] \in Int /\ missing'[b] = missing[b] - 0
      BY <3>2 DEF IInv, Types
    <3>5. \A b \in Archs \ {a} : One(a = b /\ curr[t] = "missing") = 0
      BY DEF One
    <3> QED BY <3>2, <3>3, <3>4, <3>5
  <2>2. CASE refctr[a] # 1
    <3>1. missing' = Moved(a, curr[t], "none") /\ UNCHANGED <<ready, st, contents>>
      BY <1>1, <2>2 DEF Close, parsed
    <3>2. missing' = [missing EXCEPT ![a] = @ + 0 - One(curr[t] = "missing")]
      BY <3>1 DEF Moved, Counted, One
    <3>3. missing' \in [Archs -> Int]
      BY <3>2 DEF IInv, Types, One
    <3>4. \A b \in Archs :
             missing[b] \in Int /\ missing'[b] = missing[b] - One(a = b /\ curr[t] = "missing")
      BY <3>2 DEF IInv, Types, One
    <3>5. TreeInv'
      BY <1>2, <3>1 DEF IInv, TreeInv
    <3> QED BY <3>1, <3>3, <3>4, <3>5 DEF IInv, Types
  <2> QED BY <2>1, <2>2
<1>8. Types'
  <2>1. /\ fil' \in [Threads -> Archs \cup {None}] /\ kind' \in [Threads -> Kinds]
        /\ curr' \in [Threads -> {"none", "file", "missing"}]
    BY <1>2 DEF IInv, Types, Kinds
  <2>2. refctr' \in [Archs -> Int]
    BY <1>4 DEF IInv, Types
  <2> QED BY <1>2, <1>6, <1>7, <2>1, <2>2 DEF IInv, Types
<1>9. ThreadInv' /\ LockInv' /\ Alone(t)
  BY <1>2, <1>5, NoneIsNothing DEF IInv, ThreadInv, LockInv, Alone
<1>10. \A b \in Archs : /\ refctr'[b] - Refs(t, b)' = refctr[b] - Refs(t, b)
                        /\ numread'[b] - Reads(t, b)' = numread[b] - Reads(t, b)
  <2> SUFFICES ASSUME NEW b \in Archs
               PROVE  /\ refctr'[b] - Refs(t, b)' = refctr[b] - Refs(t, b)
                      /\ numread'[b] - Reads(t, b)' = numread[b] - Reads(t, b)
    OBVIOUS
  <2>1. refctr[b] \in Int /\ refctr'[b] = refctr[b] - One(a = b)
    BY <1>4 DEF IInv, Types, One
  <2>2. Refs(t, b)' = Refs(t, b) - One(a = b) /\ Refs(t, b) \in Int
    BY <1>1, <1>2, <1>5, NoneIsNothing, Having DEF One
  <2>3. Reads(t, b)' = Reads(t, b) - One(a = b /\ kind[t] = "read") /\ Reads(t, b) \in Int
    BY <1>1, <1>2, <1>5, NoneIsNothing, Having DEF One
  <2> QED BY <1>6, <2>1, <2>2, <2>3 DEF One
<1>11. \A b \in Archs : \/ refctr'[b] = 0 /\ missing'[b] = 0
                        \/ missing'[b] - Misses(t, b)' = missing[b] - Misses(t, b)
  <2> SUFFICES ASSUME NEW b \in Archs
               PROVE  \/ refctr'[b] = 0 /\ missing'[b] = 0
                      \/ missing'[b] - Misses(t, b)' = missing[b] - Misses(t, b)
    OBVIOUS
  <2>1. /\ Misses(t, b)' = Misses(t, b) - One(a = b /\ curr[t] = "missing")
        /\ Misses(t, b) \in Int
    BY <1>1, <1>2, <1>5, NoneIsNothing, Having DEF One
  <2>2. One(a = b /\ curr[t] = "missing") \in Int
    BY DEF One
  <2> QED BY <1>7, <2>1, <2>2
<1> QED BY <1>6, <1>7, <1>8, <1>9, <1>10, <1>11, Balance

----------------------------------------------------------------------------
\* BaseChanges keeps the invariant.
LEMMA BaseChangesStep ==
    ASSUME IInv, BaseChanges
    PROVE  IInv'
<1>1. /\ version < MaxVersion /\ version' = version + 1
      /\ UNCHANGED <<cached, refctr, lock, ready, st, contents, missing, numread, basefile,
                     pc, arch, tries, neednew, ent, fil, kind, curr>>
  BY DEF BaseChanges, parsed, base, getting, file
<1>2. version' \in 1..MaxVersion
  BY <1>1, BoundsAreNumbers DEF IInv, Types
<1>3. Types' /\ ThreadInv' /\ LockInv'
  BY <1>1, <1>2 DEF IInv, Types, ThreadInv, LockInv
<1>4. TreeInv'
  <2>1. /\ version \in Int /\ MaxVersion \in Nat
        /\ \A a \in Archs : contents[a] \in 0..MaxVersion
    BY BoundsAreNumbers DEF IInv, Types
  <2> QED BY <1>1, <2>1 DEF IInv, TreeInv
<1>5. RefctrExact' /\ MissingExact' /\ BaseFileShared'
  BY <1>1 DEF IInv, RefctrExact, MissingExact, BaseFileShared, HeldBy, Inside
<1> QED BY <1>3, <1>4, <1>5 DEF IInv

\* An open that fails leaves everything as it was: the base file is open afterwards if
\* and only if others read it.
LEMMA OpenFailsStep ==
    ASSUME IInv, NEW t \in Threads, OpenFails(t)
    PROVE  UNCHANGED vars
<1> DEFINE a == arch[t]
<1>1. /\ BaseReleased(a, numread[a] + 1)
      /\ UNCHANGED <<version, cached, refctr, lock, parsed, missing, getting, ent, file>>
  BY DEF OpenFails
<1>2. a \in Archs
  BY DEF OpenFails, Inside, IInv, Types, ThreadInv
<1>3. /\ numread \in [Archs -> Int] /\ basefile \in [Archs -> BOOLEAN]
      /\ basefile[a] <=> numread[a] > 0
  BY <1>2 DEF IInv, Types, BaseFileShared
<1>4. PICK n \in Int : n = numread[a]
  BY <1>2, <1>3
<1>5. BaseReleased(a, n + 1)
  BY <1>1, <1>4
<1>6. numread' = [numread EXCEPT ![a] = n + 1 - 1] /\ n + 1 - 1 = n
  BY <1>5 DEF BaseReleased
<1>7. basefile' = [basefile EXCEPT ![a] = (n + 1 > 1)] /\ (n + 1 > 1 <=> n > 0)
  BY <1>5 DEF BaseReleased
<1>8. numread' = numread
  BY <1>3, <1>4, <1>6
<1>9. basefile' = basefile
  BY <1>2, <1>3, <1>4, <1>7
<1> QED BY <1>1, <1>8, <1>9 DEF vars, base

\* The invariant holds at the start.
LEMMA Starts == Init => IInv
<1> SUFFICES ASSUME Init PROVE IInv
  OBVIOUS
<1>1. Types
  BY BoundsAreNumbers DEF Init, Types, Places, Names, Kinds
<1>2. ThreadInv /\ LockInv
  BY BoundsAreNumbers, NoneIsNothing DEF Init, ThreadInv, LockInv
<1>3. TreeInv
  BY DEF Init, TreeInv
<1>4. \A a \in Archs : HeldBy(arch, a) = {} /\ HeldBy(fil, a) = {}
  BY NoneIsNothing DEF Init, HeldBy
<1>5. RefctrExact
  <2> SUFFICES ASSUME NEW a \in Archs
               PROVE  refctr[a] = Cardinality(HeldBy(arch, a)) + Cardinality(HeldBy(fil, a))
                                  + (IF cached = a THEN 1 ELSE 0)
    BY DEF RefctrExact
  <2>1. refctr[a] = 0 /\ cached # a
    BY NoneIsNothing DEF Init
  <2>2. Cardinality(HeldBy(arch, a)) = 0 /\ Cardinality(HeldBy(fil, a)) = 0
    BY <1>4, FS_EmptySet
  <2> QED BY <2>1, <2>2
<1>6. MissingExact
  <2> SUFFICES ASSUME NEW a \in Archs
               PROVE  missing[a] = Cardinality(Missers(a)) + Cardinality(Standers(a))
    BY DEF MissingExact, Missers, Standers
  <2>1. Missers(a) = {} /\ Standers(a) = {}
    BY <1>4 DEF Missers, Standers
  <2> QED BY <2>1, FS_EmptySet DEF Init
<1>7. BaseFileShared
  <2> SUFFICES ASSUME NEW a \in Archs
               PROVE  numread[a] = Cardinality(Readers(a)) /\ (basefile[a] <=> numread[a] > 0)
    BY DEF BaseFileShared, Readers
  <2>1. Readers(a) = {}
    BY <1>4 DEF Readers
  <2> QED BY <2>1, FS_EmptySet DEF Init
<1> QED BY <1>1, <1>2, <1>3, <1>5, <1>6, <1>7 DEF IInv

\* Every step keeps the invariant.
LEMMA Steps == IInv /\ [Next]_vars => IInv'
<1> SUFFICES ASSUME IInv, [Next]_vars PROVE IInv'
  OBVIOUS
<1>1. ASSUME UNCHANGED vars PROVE IInv'
  <2>1. UNCHANGED <<version, cached, refctr, lock, ready, st, contents, missing, numread, basefile,
                    pc, arch, tries, neednew, ent, fil, kind, curr>>
    BY <1>1 DEF vars, parsed, base, getting, file
  <2>2. Types' /\ ThreadInv' /\ LockInv' /\ TreeInv'
    BY <2>1 DEF IInv, Types, ThreadInv, LockInv, TreeInv
  <2>3. RefctrExact' /\ MissingExact' /\ BaseFileShared'
    BY <2>1 DEF IInv, RefctrExact, MissingExact, BaseFileShared, HeldBy, Inside
  <2> QED BY <2>2, <2>3 DEF IInv
<1>2. CASE BaseChanges \/ Expire
  BY <1>2, BaseChangesStep, ExpireStep
<1>3. ASSUME NEW t \in Threads, Use(t) PROVE IInv'
  <2>1. CASE OpenFails(t)
    BY <1>1, <2>1, OpenFailsStep
  <2> QED BY <1>3, <2>1, EnterStep, LeaveStep, EntryStep, CloseStep, CopyEntryStep, OpenStep,
             ReadDirStep DEF Use
<1>4. ASSUME NEW t \in Threads, Continue(t) PROVE IInv'
  BY <1>4, EnterStep, FindCachedStep, FindNewStep, CheckStep, ParseStartStep, ParseEndsStep,
     LeaveStep, UncacheStep DEF Continue
<1> QED BY <1>1, <1>2, <1>3, <1>4 DEF Next

\* The inductive invariant holds in every reachable state.
LEMMA Invariant == Spec => []IInv
<1>1. Init => IInv
  BY Starts
<1>2. IInv /\ [Next]_vars => IInv'
  BY Steps
<1> QED BY <1>1, <1>2, PTL DEF Spec

----------------------------------------------------------------------------
(* What is proved.                                                         *)

\* Archives are kept by the file cache, by get_archive, and by entries and files, and are
\* deleted with the last of them (arch_delete by av_unref_obj, for the references that
\* find_archive, arch_lookup, arch_copyent and arch_do_open take).
THEOREM RefctrCorrect == Spec => []RefctrExact
<1>1. IInv => RefctrExact
  BY DEF IInv
<1> QED BY <1>1, Invariant, PTL

\* The entry of a missing name has the references of those who have looked it up and of
\* those who stand on it in a listing (arch_lookup, arch_putent, arch_readdir, arch_close).
THEOREM MissingCorrect == Spec => []MissingExact
<1>1. IInv => MissingExact
  BY DEF IInv
<1> QED BY <1>1, Invariant, PTL

\* An archive that check_archive takes for the present one has the tree of the present
\* base file: its attributes were taken before the parse (new_archive).
THEOREM TreeCorrect == Spec => []PresentTree
<1>1. IInv => PresentTree
  <2> SUFFICES ASSUME IInv, NEW a \in Archs, st[a] = version PROVE contents[a] = version
    BY DEF PresentTree
  <2>1. version \in Int /\ contents[a] \in Int
    <3>1. version \in 1..MaxVersion /\ contents[a] \in 0..MaxVersion /\ MaxVersion \in Nat
      BY BoundsAreNumbers DEF IInv, Types
    <3> QED BY <3>1
  <2>2. version <= contents[a] /\ contents[a] <= version
    BY DEF IInv, TreeInv
  <2> QED BY <2>1, <2>2
<1> QED BY <1>1, Invariant, PTL

\* The base file of an archive is open exactly as long as it has readers
\* (arch_do_open, arch_close).
THEOREM BaseFileCorrect == Spec => []BaseFileShared
<1>1. IInv => BaseFileShared
  BY DEF IInv
<1> QED BY <1>1, Invariant, PTL

\* An archive has one parser at a time, and while it is parsed its lock is that parser's
\* (get_archive, new_archive).
THEOREM ParserCorrect == Spec => []ParserAlone
<1>1. IInv => ParserAlone
  <2> SUFFICES ASSUME IInv, NEW t \in Threads, pc[t] = "parse"
               PROVE  /\ lock[arch[t]] = t
                      /\ \A u \in Threads : pc[u] = "parse" /\ arch[u] = arch[t] => u = t
    BY DEF ParserAlone
  <2>1. arch[t] \in Archs
    BY DEF IInv, Types, ThreadInv
  <2> QED BY <2>1 DEF IInv, LockInv
<1> QED BY <1>1, Invariant, PTL

\* The types of the state; that the counts are never negative follows from what they
\* count.
THEOREM TypeCorrect == Spec => []TypeOK
<1>1. IInv => TypeOK
  <2> SUFFICES ASSUME IInv PROVE TypeOK
    OBVIOUS
  <2>1. ASSUME NEW a \in Archs PROVE refctr[a] \in Nat /\ missing[a] \in Nat /\ numread[a] \in Nat
    <3>1. /\ HeldBy(arch, a) \subseteq Threads /\ HeldBy(fil, a) \subseteq Threads
          /\ Missers(a) \subseteq Threads /\ Standers(a) \subseteq Threads
          /\ Readers(a) \subseteq Threads
      BY DEF HeldBy, Missers, Standers, Readers
    <3>2. /\ Cardinality(HeldBy(arch, a)) \in Nat /\ Cardinality(HeldBy(fil, a)) \in Nat
      BY <3>1, PartIsFinite, ThreadsArchsFinite
    <3>3. /\ Cardinality(Missers(a)) \in Nat /\ Cardinality(Standers(a)) \in Nat
          /\ Cardinality(Readers(a)) \in Nat
      BY <3>1, PartIsFinite, ThreadsArchsFinite
    <3>4. refctr[a] = Cardinality(HeldBy(arch, a)) + Cardinality(HeldBy(fil, a))
                      + (IF cached = a THEN 1 ELSE 0)
      BY DEF IInv, RefctrExact
    <3>5. missing[a] = Cardinality(Missers(a)) + Cardinality(Standers(a))
      BY DEF IInv, MissingExact, Missers, Standers
    <3>6. numread[a] = Cardinality(Readers(a))
      BY DEF IInv, BaseFileShared, Readers
    <3> QED BY <3>2, <3>3, <3>4, <3>5, <3>6
  <2>2. /\ refctr \in [Archs -> Nat] /\ missing \in [Archs -> Nat] /\ numread \in [Archs -> Nat]
    BY <2>1 DEF IInv, Types
  <2> QED BY <2>2 DEF IInv, Types, TypeOK
<1> QED BY <1>1, Invariant, PTL

=============================================================================
