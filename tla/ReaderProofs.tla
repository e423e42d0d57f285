----------------------------- MODULE ReaderProofs -----------------------------
(***************************************************************************)
(* Proofs about CompressedFile: that each stream of the five readers is    *)
(* where it says it is, for any number of vfiles, nodes and caches, any    *)
(* contents of the base file, and any sizes of the buffers.                *)
(*                                                                         *)
(* First what the decoders, the indexes and the functions of each reader   *)
(* do with a machine whose stream is in place; then, for every step of the *)
(* handlers, that what it leaves is in place again.                        *)
(***************************************************************************)
EXTENDS CompressedFile, FiniteSetTheorems, WellFoundedInduction, TLAPS

\* A set of positions has a first one.
LEMMA FirstPosition ==
    ASSUME NEW T, T \subseteq Nat, T # {}
    PROVE  \E i \in T : \A j \in T : i <= j
<1>1. PICK i \in T : \A j \in T : <<j, i>> \notin OpToRel(<, Nat)
  BY NatLessThanWellFounded, WFMin
<1>2. \A j \in T : ~(j < i)
  BY <1>1 DEF OpToRel
<1> QED BY <1>2

----------------------------------------------------------------------------
(* Images and decoders.                                                    *)

\* A set of numbers up to a bound has a largest one.
LEMMA MaxOfBounded ==
    ASSUME NEW n \in Nat, NEW T, T \subseteq 0..n, T # {}
    PROVE  Max(T) \in T /\ \A j \in T : Max(T) >= j
<1> DEFINE D == {n - j : j \in T}
<1>1. D \subseteq Nat /\ D # {}
  <2>1. \A j \in T : n - j \in Nat
    OBVIOUS
  <2> QED BY <2>1
<1>2. PICK i \in D : \A j \in D : i <= j
  BY <1>1, FirstPosition
<1>3. PICK t \in T : i = n - t
  BY <1>2
<1>4. \A j \in T : t >= j
  <2> SUFFICES ASSUME NEW j \in T PROVE t >= j
    OBVIOUS
  <2>1. n - j \in D /\ n - t <= n - j
    BY <1>2, <1>3
  <2>2. j \in 0..n /\ t \in 0..n
    OBVIOUS
  <2> QED BY <2>1, <2>2
<1> HIDE DEF D
<1>5. \E x \in T : \A y \in T : x >= y
  BY <1>4
<1> QED BY <1>5 DEF Max

\* A set of numbers has a smallest one.
LEMMA MinOfNaturals ==
    ASSUME NEW T, T \subseteq Nat, T # {}
    PROVE  Min(T) \in T /\ \A j \in T : Min(T) <= j
<1>1. \E x \in T : \A y \in T : x <= y
  BY FirstPosition
<1> QED BY <1>1 DEF Min

\* What tokens give is a number, at most one byte each.
LEMMA DataNat ==
    ASSUME NEW im, NEW p \in Nat, NEW k \in Nat
    PROVE  Data(im, p, k) \in Nat /\ Data(im, p, k) <= k /\ Data(im, p, 0) = 0
<1> DEFINE D(j) == {i \in p + 1 .. p + j : im[i] = "d"}
<1>1. IsFiniteSet(p + 1 .. p + k) /\ Cardinality(p + 1 .. p + k) = k
  <2>1. p + 1 \in Int /\ p + k \in Int /\ (p + k) - (p + 1) + 1 = k /\ (p + 1 > p + k => k = 0)
    OBVIOUS
  <2> QED BY <2>1, FS_Interval
<1>2. D(k) \subseteq p + 1 .. p + k /\ D(0) = {}
  OBVIOUS
<1>3. IsFiniteSet(D(k)) /\ Cardinality(D(k)) <= k
  BY <1>1, <1>2, FS_Subset
<1>4. Cardinality(D(k)) \in Nat /\ Cardinality(D(0)) = 0
  BY <1>2, <1>3, FS_CardinalityType, FS_EmptySet
<1> QED BY <1>3, <1>4 DEF Data

\* What is given by tokens, and then by those after them, is given by all of them.
LEMMA DataSum ==
    ASSUME NEW im, NEW p \in Nat, NEW j \in Nat, NEW k \in Nat
    PROVE  Data(im, p, j + k) = Data(im, p, j) + Data(im, p + j, k)
<1> DEFINE A == {i \in p + 1 .. p + j : im[i] = "d"}
           B == {i \in (p + j) + 1 .. (p + j) + k : im[i] = "d"}
           C == {i \in p + 1 .. p + (j + k) : im[i] = "d"}
<1>1. C = A \cup B /\ A \cap B = {}
  OBVIOUS
<1>2. IsFiniteSet(p + 1 .. p + j) /\ IsFiniteSet((p + j) + 1 .. (p + j) + k)
  BY FS_Interval
<1>3. IsFiniteSet(A) /\ IsFiniteSet(B)
  BY <1>2, FS_Subset
<1>4. Cardinality(C) = Cardinality(A) + Cardinality(B) - Cardinality(A \cap B)
  BY <1>1, <1>3, FS_Union
<1>5. Cardinality(A \cap B) = 0 /\ Cardinality(A) \in Nat /\ Cardinality(B) \in Nat
  BY <1>1, <1>3, FS_EmptySet, FS_CardinalityType
<1> HIDE DEF A, B, C
<1>6. Cardinality(C) = Cardinality(A) + Cardinality(B)
  BY <1>4, <1>5
<1> QED BY <1>6 DEF A, B, C, Data

\* The same from the start of the image.
LEMMA DataOn ==
    ASSUME NEW im, NEW j \in Nat, NEW k \in Nat
    PROVE  Data(im, 0, j + k) = Data(im, 0, j) + Data(im, j, k)
<1>1. Data(im, 0, j + k) = Data(im, 0, j) + Data(im, 0 + j, k)
  BY DataSum
<1>2. 0 + j = j
  OBVIOUS
<1> QED BY <1>1, <1>2

\* What has been given at p, by what had been given before.
LEMMA DataSince ==
    ASSUME NEW im, NEW j \in Nat, NEW p \in Nat, j <= p
    PROVE  Data(im, 0, p) = Data(im, 0, j) + Data(im, j, p - j)
<1>1. PICK k \in Nat : k = p - j
  OBVIOUS
<1>2. Data(im, 0, j + k) = Data(im, 0, j) + Data(im, j, k)
  BY DataOn
<1>3. j + k = p
  BY <1>1
<1> QED BY <1>1, <1>2, <1>3

\* More tokens give no less.
LEMMA DataGrows ==
    ASSUME NEW im, NEW j \in Nat, NEW p \in Nat, j <= p
    PROVE  Data(im, 0, j) <= Data(im, 0, p)
<1>1. PICK k \in Nat : k = p - j
  OBVIOUS
<1>2. PICK a \in Nat, b \in Nat, c \in Nat : a = Data(im, 0, p) /\ b = Data(im, 0, j) /\ c = Data(im, j, k)
  BY DataNat
<1>3. a = b + c
  BY <1>1, <1>2, DataSince
<1> QED BY <1>2, <1>3

\* The member of a set of positions that has j of them up to it is one of them.
LEMMA NthOf ==
    ASSUME NEW n \in Nat, NEW E, E \subseteq 0..n, IsFiniteSet(E), NEW j \in 1 .. Cardinality(E)
    PROVE  Min({p \in E : Cardinality({q \in E : q =< p}) >= j}) \in E
<1> DEFINE P == {p \in E : Cardinality({q \in E : q =< p}) >= j}
<1>0. Cardinality(E) \in Nat
  BY FS_CardinalityType
<1>1. E # {}
  <2>1. Cardinality(E) # 0
    BY <1>0
  <2> QED BY <2>1, FS_EmptySet
<1>2. PICK z : z = Max(E)
  OBVIOUS
<1>3. z \in E /\ \A q \in E : z >= q
  BY <1>1, <1>2, MaxOfBounded
<1>4. \A q \in E : q =< z
  BY <1>3
<1>5. {q \in E : q =< z} = E
  BY <1>4
<1>6. j <= Cardinality(E)
  BY <1>0
<1>7. Cardinality({q \in E : q =< z}) >= j
  BY <1>0, <1>5, <1>6
<1>8. z \in P
  BY <1>3, <1>7
<1>9. P \subseteq Nat
  <2>1. P \subseteq E /\ E \subseteq Nat
    OBVIOUS
  <2> QED BY <2>1
<1>10. Min(P) \in P
  BY <1>8, <1>9, MinOfNaturals
<1> QED BY <1>10

\* Tokens without data give nothing.
LEMMA DataNone ==
    ASSUME NEW im, NEW p \in Nat, NEW k \in Nat, \A i \in p + 1 .. p + k : im[i] # "d"
    PROVE  Data(im, p, k) = 0
<1>1. {i \in p + 1 .. p + k : im[i] = "d"} = {}
  OBVIOUS
<1> QED BY <1>1, FS_EmptySet DEF Data

\* The sizes of the buffers.
LEMMA BufferNat == InBuf \in Nat /\ OutBuf \in Nat
  BY StreamsAssumption

\* A decoder takes no more than there is and gives no more than there is room for.
LEMMA TakeBounds ==
    ASSUME NEW im, NEW p \in Nat, NEW avail \in Nat, NEW room \in Int
    PROVE  LET k == Take(im, p, avail, room)
           IN /\ k \in 0..avail
              /\ Data(im, p, k) \in Nat
              /\ k = 0 \/ Data(im, p, k) <= room
              /\ \A i \in 1 .. k : im[p + i] \in {"d", "b", "e"}
              /\ \A i \in 1 .. k - 1 : im[p + i] # "e"
              /\ avail > 0 /\ room > 0 /\ im[p + 1] \in {"d", "b", "e"} => k > 0
<1> DEFINE T == {0} \cup {k \in 1 .. avail :
                    /\ \A i \in 1 .. k : im[p + i] \in {"d", "b", "e"}
                    /\ \A i \in 1 .. k - 1 : im[p + i] # "e"
                    /\ Data(im, p, k - 1) < room}
           k == Take(im, p, avail, room)
<1>1. T \subseteq 0..avail /\ T # {}
  OBVIOUS
<1>2. k \in T /\ \A j \in T : k >= j
  BY <1>1, MaxOfBounded DEF Take
<1>3. k \in 0..avail
  BY <1>1, <1>2
<1>4. /\ k # 0 => k - 1 \in Nat /\ Data(im, p, k - 1) < room
      /\ \A i \in 1 .. k : im[p + i] \in {"d", "b", "e"}
      /\ \A i \in 1 .. k - 1 : im[p + i] # "e"
  BY <1>2, <1>3
<1>5. ASSUME avail > 0, room > 0, im[p + 1] \in {"d", "b", "e"} PROVE k > 0
  <2>1. Data(im, p, 0) = 0
    BY DataNat
  <2>2. 1 \in T
    BY <1>5, <2>1
  <2> QED BY <2>2, <1>2, <1>3
<1> HIDE DEF k, T
<1>6. Data(im, p, k) \in Nat /\ Data(im, p, 0) = 0
  BY <1>3, DataNat
<1>7. k = 0 \/ Data(im, p, k) <= room
  <2>1. CASE k = 0
    BY <2>1
  <2>2. CASE k # 0
    <3>1. k - 1 \in Nat /\ p + (k - 1) \in Nat /\ (k - 1) + 1 = k
      BY <2>2, <1>3
    <3>2. Data(im, p, (k - 1) + 1) = Data(im, p, k - 1) + Data(im, p + (k - 1), 1)
      BY <3>1, DataSum
    <3>3. Data(im, p, k - 1) \in Nat /\ Data(im, p + (k - 1), 1) \in Nat /\ Data(im, p + (k - 1), 1) <= 1
      BY <3>1, DataNat
    <3>4. PICK a \in Nat, b \in Nat, c \in Nat :
             a = Data(im, p, k - 1) /\ b = Data(im, p + (k - 1), 1) /\ c = Data(im, p, k)
      BY <3>3, <1>6
    <3>5. a < room /\ b <= 1 /\ c = a + b
      BY <2>2, <3>1, <3>2, <3>3, <3>4, <1>4
    <3>6. c <= room
      BY <3>5
    <3> QED BY <3>4, <3>6
  <2> QED BY <2>1, <2>2
<1> QED BY <1>3, <1>4, <1>5, <1>6, <1>7 DEF k

----------------------------------------------------------------------------
(* What a stream, a file, a cache and a machine are.                       *)

Texts == Seq(Tokens)
StreamSet == [live : BOOLEAN, src : Texts, in : Nat, out : Nat, avail : Nat, adler : Nat]

\* A stream of im is in place, and its buffer holds what follows in the file.
StreamOf(s, im) ==
    /\ s \in StreamSet /\ s.src = im
    /\ s.in + s.avail <= Len(im)
    /\ s.out = Data(im, 0, s.in)

Buffers == [size : Nat, pos : Nat]
Decoders == [base : Nat, fed : Nat, used : Nat, pos : Nat]
PlainFiles == [img : Texts, s : StreamSet, iseof : BOOLEAN, iserror : BOOLEAN, id : Nat]
GzFiles == [img : Texts, s : StreamSet, iseof : BOOLEAN, iserror : BOOLEAN, id : Nat, calccrc : BOOLEAN]
LzFiles == [img : Texts, s : StreamSet, iseof : BOOLEAN, iserror : BOOLEAN, id : Nat,
            dec : Decoders, total_in : Nat, last_member_pos : Nat]
ZstFiles == [img : Texts, s : StreamSet, iseof : BOOLEAN, iserror : BOOLEAN, id : Nat,
             total_in : Nat, inBuffer : Buffers]
FilesFor(fm) == IF fm = "z" THEN GzFiles ELSE IF fm = "lz" THEN LzFiles
                ELSE IF fm = "zst" THEN ZstFiles ELSE PlainFiles
Files == FilesFor(fmt)

\* The decoders of lzip and zstd are where the reader takes them to be.
LzAt(s, dec, t, l, im) ==
    /\ s.avail = 0
    /\ dec.base + dec.used = s.in /\ dec.used <= dec.fed
    /\ dec.base + dec.fed = t /\ t <= Len(im)
    /\ dec.fed - dec.used <= InBuf
    /\ l + dec.pos = s.in
LzPlaced(f) == f.id = 0 /\ LzAt(f.s, f.dec, f.total_in, f.last_member_pos, f.img)
ZstAt(s, t, b, im) ==
    /\ s.avail = 0
    /\ t + b.pos = s.in /\ b.pos <= b.size /\ t + b.size <= Len(im)
    /\ b.size <= InBuf
ZstPlaced(f) == ZstAt(f.s, f.total_in, f.inBuffer, f.img)
FileIs(fm, f, im) ==
    /\ f \in FilesFor(fm) /\ f.img = im /\ StreamOf(f.s, im)
    /\ fm = "lz" => LzPlaced(f)
    /\ fm = "zst" => ZstPlaced(f)
FileOf(f, im) == FileIs(fmt, f, im)

\* The caches, whose indexes are in place.
InIndexes == [off : Nat, in : Nat]
GzIndexes == [off : Nat, s : StreamSet]
PlainCaches == [id : Nat, size : Int]
BzCaches == [id : Nat, size : Int, indexes : Seq(InIndexes)]
LzCaches == [id : Nat, size : Int, indexes : Seq(InIndexes), nextindex : Nat]
GzCaches == [id : Nat, size : Int, indexes : Seq(GzIndexes), nextindex : Nat, crc_ok : BOOLEAN, lock : BOOLEAN]
CachesFor(fm) == IF fm = "z" THEN GzCaches ELSE IF fm = "lz" THEN LzCaches
                 ELSE IF fm = "bz" THEN BzCaches ELSE PlainCaches
CacheSet == CachesFor(fmt)
InIndexIs(fm, x, im) ==
    /\ x.in <= Len(im) /\ x.off = Data(im, 0, x.in)
    /\ fm = "bz" => im[x.in] = "b"
InIndexOf(x, im) == InIndexIs(fmt, x, im)
GzIndexOf(x, im) == StreamOf(x.s, im) /\ x.s.avail = 0 /\ x.off = x.s.out
CacheIs(fm, c, i, im) ==
    /\ c \in CachesFor(fm) /\ c.id = i
    /\ fm \in {"bz", "lz"} => \A k \in 1 .. Len(c.indexes) : InIndexIs(fm, c.indexes[k], im)
    /\ fm = "z" => \A k \in 1 .. Len(c.indexes) : GzIndexOf(c.indexes[k], im)
CacheOf(c, i, im) == CacheIs(fmt, c, i, im)

\* The stream cache has nothing, or a stream of what the cache is of.
SavedFor(fm) == IF fm = "z" THEN [id : Nat, s : StreamSet, calccrc : BOOLEAN, iseof : BOOLEAN]
                ELSE [id : Nat, s : StreamSet]
Saved == SavedFor(fmt)
ScIs(fm, x, own) == x = NoStream \/ (x \in SavedFor(fm) /\ x.id \in 1 .. Len(own) /\ StreamOf(x.s, own[x.id]))
ScOf(x, own) == ScIs(fmt, x, own)

\* What the caches are of.
ContentsFor(fm) == {im \in Texts : fm = "z" => TrailersFollow(im)}
Contents == ContentsFor(fmt)

MachineSet ==
    [f : Files, c : CacheSet, sc : {NoStream} \cup Saved, io : {"ok", "read", "index"},
     hit : BOOLEAN, res : {"ok", "EIO"}, got : Nat]
MachineOf(m, own) ==
    LET im == own[m.c.id] IN
    /\ m \in MachineSet
    /\ FileOf(m.f, im) /\ CacheOf(m.c, m.c.id, im) /\ ScOf(m.sc, own)
    /\ m.c.id \in 1 .. Len(own) /\ m.f.id \in {0, m.c.id}

\* A function of a reader keeps the identity of what it works on.
Keeps(r, m) == r.f.id = m.f.id /\ r.f.img = m.f.img /\ r.c.id = m.c.id /\ r.io = m.io

\* A new stream is in place.
LEMMA FreshStream ==
    ASSUME NEW im \in Texts
    PROVE  StreamOf(Fresh(im), im) /\ Fresh(im).avail = 0 /\ Fresh(im).in = 0 /\ Fresh(im).out = 0
                /\ Fresh(im).live
<1>1. Data(im, 0, 0) = 0
  BY DataNat
<1>2. Len(im) \in Nat
  BY DEF Texts
<1>3. Fresh(im) \in StreamSet
  BY DEF Fresh, StreamSet
<1> QED BY <1>1, <1>2, <1>3 DEF Fresh, StreamOf

\* A stream that goes on over k tokens that give d bytes.
LEMMA StreamOn ==
    ASSUME NEW im \in Texts, NEW s, StreamOf(s, im), NEW t \in StreamSet, t.src = im,
           NEW k \in Nat, t.in = s.in + k, t.out = s.out + Data(im, s.in, k),
           t.in + t.avail <= Len(im)
    PROVE  StreamOf(t, im)
<1>1. s.in \in Nat /\ s.out = Data(im, 0, s.in)
  BY DEF StreamOf, StreamSet
<1>2. Data(im, 0, s.in + k) = Data(im, 0, s.in) + Data(im, s.in, k)
  BY <1>1, DataOn
<1>3. Data(im, 0, t.in) = Data(im, 0, s.in) + Data(im, s.in, k)
  BY <1>2
<1> QED BY <1>1, <1>3 DEF StreamOf

\* The stream after k tokens of the buffer.
LEMMA StreamTakes ==
    ASSUME NEW im \in Texts, NEW s, StreamOf(s, im), NEW k \in 0 .. s.avail, NEW d \in Nat, d = Data(im, s.in, k)
    PROVE  LET t == Taken(s, k, d)
           IN t \in StreamSet /\ t.in = s.in + k /\ t.out = s.out + d /\ t.avail = s.avail - k /\ t.src = s.src
              /\ t.live = s.live /\ t.adler = s.adler /\ StreamOf(t, im)
<1>0. PICK t : t = Taken(s, k, d)
  OBVIOUS
<1>1. s \in StreamSet /\ s.src = im /\ s.in + s.avail <= Len(im)
  BY DEF StreamOf
<1>2. PICK i \in Nat, o \in Nat, a \in Nat, l \in Nat : i = s.in /\ o = s.out /\ a = s.avail /\ l = Len(im)
  BY <1>1 DEF StreamSet, Texts
<1>3. k \in Nat /\ k <= a
  BY <1>2
<1>4. PICK i2 \in Nat, o2 \in Nat, a2 \in Nat : i2 = i + k /\ o2 = o + d /\ a2 = a - k
  BY <1>3
<1>5. t = [s EXCEPT !.in = i2, !.avail = a2, !.out = o2]
  BY <1>0, <1>1, <1>2, <1>4 DEF StreamSet, Taken
<1>6. t \in StreamSet /\ t.in = i2 /\ t.out = o2 /\ t.avail = a2 /\ t.src = s.src /\ t.live = s.live /\ t.adler = s.adler
  BY <1>1, <1>5 DEF StreamSet
<1>7. i2 + a2 <= l
  <2>1. i \in Nat /\ a \in Nat /\ l \in Nat /\ k \in Nat /\ i + a <= l /\ i2 = i + k /\ a2 = a - k
    BY <1>1, <1>2, <1>3, <1>4
  <2> QED BY ONLY <2>1
<1>8. StreamOf(t, im)
  <2>1. k \in Nat
    BY <1>2
  <2> QED BY <2>1, <1>1, <1>2, <1>4, <1>6, <1>7, StreamOn
<1> QED BY <1>0, <1>2, <1>4, <1>6, <1>8

\* The buffer of a stream is filled from the file.
LEMMA StreamFilled ==
    ASSUME NEW im \in Texts, NEW s, StreamOf(s, im), NEW a, a = Lesser(InBuf, Len(im) - s.in),
           NEW t, t = [s EXCEPT !.avail = a]
    PROVE  t \in StreamSet /\ t.in = s.in /\ t.out = s.out /\ t.avail = a /\ t.live = s.live /\ t.adler = s.adler
           /\ StreamOf(t, im)
<1>1. s \in StreamSet /\ s.src = im /\ s.in + s.avail <= Len(im)
  BY DEF StreamOf
<1>2. PICK i \in Nat, l \in Nat, b \in Nat, v \in Nat : i = s.in /\ l = Len(im) /\ b = InBuf /\ v = s.avail
  BY <1>1, BufferNat DEF Texts, StreamSet
<1>3. i + v <= l
  BY <1>1, <1>2
<1>4. a = IF b < l - i THEN b ELSE l - i
  BY <1>2 DEF Lesser
<1>5. a \in Nat /\ i + a <= l
  BY <1>3, <1>4
<1>6. t \in StreamSet /\ t.in = i /\ t.out = s.out /\ t.avail = a /\ t.src = s.src /\ t.live = s.live /\ t.adler = s.adler
  BY <1>1, <1>2, <1>5 DEF StreamSet
<1> QED BY <1>1, <1>2, <1>5, <1>6 DEF StreamOf

\* A stream is kept without its buffer.
LEMMA StreamEmptied ==
    ASSUME NEW im \in Texts, NEW s, StreamOf(s, im), NEW t, t = [s EXCEPT !.avail = 0]
    PROVE  t \in StreamSet /\ t.in = s.in /\ t.out = s.out /\ t.avail = 0 /\ t.live = s.live /\ t.adler = s.adler
           /\ StreamOf(t, im)
<1>1. s \in StreamSet /\ s.src = im /\ s.in + s.avail <= Len(im)
  BY DEF StreamOf
<1>2. PICK i \in Nat, l \in Nat, v \in Nat : i = s.in /\ l = Len(im) /\ v = s.avail
  BY <1>1 DEF Texts, StreamSet
<1>3. i + 0 <= l
  BY <1>1, <1>2
<1>6. t \in StreamSet /\ t.in = i /\ t.out = s.out /\ t.avail = 0 /\ t.src = s.src /\ t.live = s.live /\ t.adler = s.adler
  BY <1>1, <1>2 DEF StreamSet
<1> QED BY <1>1, <1>2, <1>3, <1>6 DEF StreamOf

\* A stream that goes on over k tokens of a buffer that is not its own.
LEMMA StreamMoves ==
    ASSUME NEW im \in Texts, NEW s, StreamOf(s, im), s.avail = 0, NEW k \in Nat, s.in + k <= Len(im),
           NEW d \in Nat, d = Data(im, s.in, k), NEW t, t = Moved(s, k, d)
    PROVE  /\ t \in StreamSet /\ t.in = s.in + k /\ t.out = s.out + d /\ t.avail = 0 /\ t.src = s.src
           /\ t.live = s.live /\ t.adler = s.adler /\ StreamOf(t, im)
<1>1. s \in StreamSet /\ s.src = im
  BY DEF StreamOf
<1>2. PICK i \in Nat, o \in Nat, l \in Nat : i = s.in /\ o = s.out /\ l = Len(im)
  BY <1>1 DEF StreamSet, Texts
<1>4. PICK i2 \in Nat, o2 \in Nat : i2 = i + k /\ o2 = o + d
  BY <1>2
<1>5. t = [s EXCEPT !.in = i2, !.out = o2]
  BY <1>1, <1>2, <1>4 DEF StreamSet, Moved
<1>6. t \in StreamSet /\ t.in = i2 /\ t.out = o2 /\ t.avail = 0 /\ t.src = s.src /\ t.live = s.live /\ t.adler = s.adler
  BY <1>1, <1>5 DEF StreamSet
<1>7. t.in + t.avail <= Len(im)
  BY <1>2, <1>4, <1>6
<1>8. StreamOf(t, im)
  BY <1>1, <1>2, <1>4, <1>6, <1>7, StreamOn
<1> QED BY <1>2, <1>4, <1>6, <1>8

----------------------------------------------------------------------------
(* Files and machines with one of their parts replaced.                    *)

\* A file with another stream.
LEMMA FilePut ==
    ASSUME NEW f \in Files, NEW s \in StreamSet, NEW g, g = [f EXCEPT !.s = s]
    PROVE  /\ g \in Files /\ g.s = s /\ g.img = f.img /\ g.iseof = f.iseof /\ g.iserror = f.iserror /\ g.id = f.id
           /\ fmt = "z" => g.calccrc = f.calccrc
           /\ fmt = "lz" => g.dec = f.dec /\ g.total_in = f.total_in /\ g.last_member_pos = f.last_member_pos
           /\ fmt = "zst" => g.total_in = f.total_in /\ g.inBuffer = f.inBuffer
<1>1. CASE fmt = "z"
  <2>1. f \in GzFiles /\ Files = GzFiles /\ fmt # "lz" /\ fmt # "zst"
    BY <1>1 DEF Files, FilesFor
  <2> QED BY <2>1 DEF GzFiles
<1>2. CASE fmt = "lz"
  <2>1. f \in LzFiles /\ Files = LzFiles /\ fmt # "z" /\ fmt # "zst"
    BY <1>2 DEF Files, FilesFor
  <2> QED BY <2>1 DEF LzFiles
<1>3. CASE fmt = "zst"
  <2>1. f \in ZstFiles /\ Files = ZstFiles /\ fmt # "lz" /\ fmt # "z"
    BY <1>3 DEF Files, FilesFor
  <2> QED BY <2>1 DEF ZstFiles
<1>4. CASE fmt # "z" /\ fmt # "lz" /\ fmt # "zst"
  <2>1. f \in PlainFiles /\ Files = PlainFiles
    BY <1>4 DEF Files, FilesFor
  <2> QED BY <1>4, <2>1 DEF PlainFiles
<1> QED BY <1>1, <1>2, <1>3, <1>4

\* A file at whose end the reader is.
LEMMA EofPut ==
    ASSUME NEW f \in Files, NEW g, g = [f EXCEPT !.iseof = TRUE]
    PROVE  /\ g \in Files /\ g.iseof = TRUE /\ g.s = f.s /\ g.img = f.img /\ g.iserror = f.iserror /\ g.id = f.id
           /\ fmt = "z" => g.calccrc = f.calccrc
           /\ fmt = "lz" => g.dec = f.dec /\ g.total_in = f.total_in /\ g.last_member_pos = f.last_member_pos
           /\ fmt = "zst" => g.total_in = f.total_in /\ g.inBuffer = f.inBuffer
<1>1. CASE fmt = "z"
  <2>1. f \in GzFiles /\ Files = GzFiles /\ fmt # "lz" /\ fmt # "zst"
    BY <1>1 DEF Files, FilesFor
  <2> QED BY <2>1 DEF GzFiles
<1>2. CASE fmt = "lz"
  <2>1. f \in LzFiles /\ Files = LzFiles /\ fmt # "z" /\ fmt # "zst"
    BY <1>2 DEF Files, FilesFor
  <2> QED BY <2>1 DEF LzFiles
<1>3. CASE fmt = "zst"
  <2>1. f \in ZstFiles /\ Files = ZstFiles /\ fmt # "lz" /\ fmt # "z"
    BY <1>3 DEF Files, FilesFor
  <2> QED BY <2>1 DEF ZstFiles
<1>4. CASE fmt # "z" /\ fmt # "lz" /\ fmt # "zst"
  <2>1. f \in PlainFiles /\ Files = PlainFiles
    BY <1>4 DEF Files, FilesFor
  <2> QED BY <1>4, <2>1 DEF PlainFiles
<1> QED BY <1>1, <1>2, <1>3, <1>4

\* A file with another iserror.
LEMMA ErrorPut ==
    ASSUME NEW f \in Files, NEW e \in BOOLEAN, NEW g, g = [f EXCEPT !.iserror = e]
    PROVE  /\ g \in Files /\ g.iserror = e /\ g.s = f.s /\ g.img = f.img /\ g.iseof = f.iseof /\ g.id = f.id
           /\ fmt = "z" => g.calccrc = f.calccrc
           /\ fmt = "lz" => g.dec = f.dec /\ g.total_in = f.total_in /\ g.last_member_pos = f.last_member_pos
           /\ fmt = "zst" => g.total_in = f.total_in /\ g.inBuffer = f.inBuffer
<1>1. CASE fmt = "z"
  <2>1. f \in GzFiles /\ Files = GzFiles /\ fmt # "lz" /\ fmt # "zst"
    BY <1>1 DEF Files, FilesFor
  <2> QED BY <2>1 DEF GzFiles
<1>2. CASE fmt = "lz"
  <2>1. f \in LzFiles /\ Files = LzFiles /\ fmt # "z" /\ fmt # "zst"
    BY <1>2 DEF Files, FilesFor
  <2> QED BY <2>1 DEF LzFiles
<1>3. CASE fmt = "zst"
  <2>1. f \in ZstFiles /\ Files = ZstFiles /\ fmt # "lz" /\ fmt # "z"
    BY <1>3 DEF Files, FilesFor
  <2> QED BY <2>1 DEF ZstFiles
<1>4. CASE fmt # "z" /\ fmt # "lz" /\ fmt # "zst"
  <2>1. f \in PlainFiles /\ Files = PlainFiles
    BY <1>4 DEF Files, FilesFor
  <2> QED BY <1>4, <2>1 DEF PlainFiles
<1> QED BY <1>1, <1>2, <1>3, <1>4

\* A file with another id.
LEMMA IdPut ==
    ASSUME NEW f \in Files, NEW e \in Nat, NEW g, g = [f EXCEPT !.id = e]
    PROVE  /\ g \in Files /\ g.id = e /\ g.s = f.s /\ g.img = f.img /\ g.iseof = f.iseof /\ g.iserror = f.iserror
           /\ fmt = "z" => g.calccrc = f.calccrc
           /\ fmt = "lz" => g.dec = f.dec /\ g.total_in = f.total_in /\ g.last_member_pos = f.last_member_pos
           /\ fmt = "zst" => g.total_in = f.total_in /\ g.inBuffer = f.inBuffer
<1>1. CASE fmt = "z"
  <2>1. f \in GzFiles /\ Files = GzFiles /\ fmt # "lz" /\ fmt # "zst"
    BY <1>1 DEF Files, FilesFor
  <2> QED BY <2>1 DEF GzFiles
<1>2. CASE fmt = "lz"
  <2>1. f \in LzFiles /\ Files = LzFiles /\ fmt # "z" /\ fmt # "zst"
    BY <1>2 DEF Files, FilesFor
  <2> QED BY <2>1 DEF LzFiles
<1>3. CASE fmt = "zst"
  <2>1. f \in ZstFiles /\ Files = ZstFiles /\ fmt # "lz" /\ fmt # "z"
    BY <1>3 DEF Files, FilesFor
  <2> QED BY <2>1 DEF ZstFiles
<1>4. CASE fmt # "z" /\ fmt # "lz" /\ fmt # "zst"
  <2>1. f \in PlainFiles /\ Files = PlainFiles
    BY <1>4 DEF Files, FilesFor
  <2> QED BY <1>4, <2>1 DEF PlainFiles
<1> QED BY <1>1, <1>2, <1>3, <1>4

\* A file that begins anew.
LEMMA FlagsOff ==
    ASSUME NEW f \in Files, NEW g, g = [f EXCEPT !.iseof = FALSE, !.iserror = FALSE]
    PROVE  /\ g \in Files /\ ~g.iseof /\ ~g.iserror /\ g.s = f.s /\ g.img = f.img /\ g.id = f.id
           /\ fmt = "z" => g.calccrc = f.calccrc
           /\ fmt = "lz" => g.dec = f.dec /\ g.total_in = f.total_in /\ g.last_member_pos = f.last_member_pos
           /\ fmt = "zst" => g.total_in = f.total_in /\ g.inBuffer = f.inBuffer
<1>1. CASE fmt = "z"
  <2>1. f \in GzFiles /\ Files = GzFiles /\ fmt # "lz" /\ fmt # "zst"
    BY <1>1 DEF Files, FilesFor
  <2> QED BY <2>1 DEF GzFiles
<1>2. CASE fmt = "lz"
  <2>1. f \in LzFiles /\ Files = LzFiles /\ fmt # "z" /\ fmt # "zst"
    BY <1>2 DEF Files, FilesFor
  <2> QED BY <2>1 DEF LzFiles
<1>3. CASE fmt = "zst"
  <2>1. f \in ZstFiles /\ Files = ZstFiles /\ fmt # "lz" /\ fmt # "z"
    BY <1>3 DEF Files, FilesFor
  <2> QED BY <2>1 DEF ZstFiles
<1>4. CASE fmt # "z" /\ fmt # "lz" /\ fmt # "zst"
  <2>1. f \in PlainFiles /\ Files = PlainFiles
    BY <1>4 DEF Files, FilesFor
  <2> QED BY <1>4, <2>1 DEF PlainFiles
<1> QED BY <1>1, <1>2, <1>3, <1>4

\* A file whose places are those of another is of the same image.
LEMMA FileSame ==
    ASSUME NEW f, NEW im, FileOf(f, im), NEW g \in Files, g.s = f.s, g.img = f.img, g.id = f.id,
           fmt = "lz" => g.dec = f.dec /\ g.total_in = f.total_in /\ g.last_member_pos = f.last_member_pos,
           fmt = "zst" => g.total_in = f.total_in /\ g.inBuffer = f.inBuffer
    PROVE  FileOf(g, im)
  BY DEF FileOf, FileIs, Files, LzPlaced, ZstPlaced

\* The fields that all files have.
LEMMA FileFields ==
    ASSUME NEW f \in Files
    PROVE  /\ f.img \in Texts /\ f.s \in StreamSet /\ f.iseof \in BOOLEAN /\ f.iserror \in BOOLEAN /\ f.id \in Nat
<1>1. CASE fmt = "z"
  BY <1>1 DEF Files, FilesFor, GzFiles
<1>2. CASE fmt = "lz"
  BY <1>2 DEF Files, FilesFor, LzFiles
<1>3. CASE fmt = "zst"
  BY <1>3 DEF Files, FilesFor, ZstFiles
<1>4. CASE fmt # "z" /\ fmt # "lz" /\ fmt # "zst"
  BY <1>4 DEF Files, FilesFor, PlainFiles
<1> QED BY <1>1, <1>2, <1>3, <1>4

\* What MachineOf says of a file.
LEMMA MachineFacts ==
    ASSUME NEW own \in Seq(Contents), NEW m, MachineOf(m, own)
    PROVE  /\ m \in MachineSet /\ m.f \in Files /\ m.c \in CacheSet /\ m.f.img = own[m.c.id]
           /\ m.f.img \in Texts /\ m.f.img \in Contents /\ StreamOf(m.f.s, m.f.img) /\ m.f.s \in StreamSet
           /\ m.f.id \in {0, m.c.id} /\ m.c.id \in 1 .. Len(own) /\ m.c.id # 0 /\ ScOf(m.sc, own)
           /\ FileOf(m.f, m.f.img) /\ CacheOf(m.c, m.c.id, m.f.img)
<1>1. m.c.id \in 1 .. Len(own)
  BY DEF MachineOf
<1>2. own[m.c.id] \in Contents
  BY <1>1
<1> QED BY <1>1, <1>2 DEF MachineOf, MachineSet, FileOf, FileIs, Files, StreamOf, Contents, ContentsFor

\* A machine with its parts replaced.
LEMMA MachineMade ==
    ASSUME NEW own \in Seq(Contents), NEW m, MachineOf(m, own), NEW r \in MachineSet,
           Keeps(r, m), FileOf(r.f, m.f.img), CacheOf(r.c, m.c.id, m.f.img), ScOf(r.sc, own)
    PROVE  MachineOf(r, own)
<1>1. m.f.img = own[m.c.id] /\ m.f.id \in {0, m.c.id} /\ m.c.id \in 1 .. Len(own)
  BY MachineFacts
<1> QED BY <1>1 DEF MachineOf, Keeps

----------------------------------------------------------------------------
(* bzip2, and what xz does as it does.                                     *)

\* The sets of bzip2 and xz.
LEMMA PlainSets ==
    ASSUME fmt \in {"bz", "xz"}
    PROVE  /\ Files = PlainFiles /\ Saved = [id : Nat, s : StreamSet]
           /\ \A f, im : FileOf(f, im) <=> f \in PlainFiles /\ f.img = im /\ StreamOf(f.s, im)
  BY DEF Files, FilesFor, Saved, SavedFor, FileOf, FileIs

\* The sets of bzip2.
LEMMA BzSets ==
    ASSUME fmt = "bz"
    PROVE  /\ Files = PlainFiles /\ CacheSet = BzCaches /\ Saved = [id : Nat, s : StreamSet]
           /\ \A c, i, im : CacheOf(c, i, im) <=>
                c \in BzCaches /\ c.id = i /\ \A k \in 1 .. Len(c.indexes) : InIndexOf(c.indexes[k], im)
<1>1. fmt # "z" /\ fmt # "lz" /\ fmt # "zst" /\ fmt \in {"bz", "lz"}
  OBVIOUS
<1> QED BY <1>1 DEF Files, FilesFor, CacheSet, CachesFor, Saved, SavedFor, CacheOf, CacheIs, InIndexOf

\* The stream is put in the stream cache.
LEMMA BzSave ==
    ASSUME fmt \in {"bz", "xz"}, NEW own \in Seq(Contents), NEW m, MachineOf(m, own),
           NEW r, r = bzfile_scache_save(m)
    PROVE  /\ MachineOf(r, own) /\ Keeps(r, m)
           /\ r.f = m.f /\ r.c = m.c /\ r.hit = m.hit /\ r.res = m.res /\ r.got = m.got
           /\ r.sc = m.sc \/ (r.sc = [id |-> m.f.id, s |-> m.f.s] /\ m.f.id # 0)
<1>1. /\ m \in MachineSet /\ m.f.id \in {0, m.c.id} /\ StreamOf(m.f.s, own[m.c.id]) /\ m.f.s \in StreamSet
      /\ m.c.id \in 1 .. Len(own)
  BY MachineFacts
<1>2. CASE m.f.id = 0
  <2>1. r = m
    BY <1>2 DEF bzfile_scache_save
  <2> QED BY <2>1 DEF Keeps
<1>3. CASE m.f.id # 0
  <2>0. m.f \in PlainFiles
    BY <1>1, PlainSets DEF MachineSet
  <2>1. m.f.id \in Nat
    BY <2>0 DEF PlainFiles
  <2>2. PICK x : x = [id |-> m.f.id, s |-> m.f.s]
    OBVIOUS
  <2>3. x \in Saved /\ x.id = m.f.id /\ x.s = m.f.s
    BY <2>1, <2>2, <1>1, PlainSets
  <2>4. r = [m EXCEPT !.sc = x]
    BY <1>3, <2>2 DEF bzfile_scache_save
  <2>5. r \in MachineSet /\ r.f = m.f /\ r.c = m.c /\ r.sc = x /\ r.io = m.io /\ r.hit = m.hit
        /\ r.res = m.res /\ r.got = m.got
    BY <2>3, <2>4, <1>1 DEF MachineSet
  <2>6. ScOf(r.sc, own)
    BY <2>3, <2>5, <1>1, <1>3 DEF ScOf, ScIs, Saved
  <2>7. MachineOf(r, own)
    BY <2>5, <2>6 DEF MachineOf
  <2> QED BY <2>2, <2>5, <2>7, <1>3 DEF Keeps
<1> QED BY <1>2, <1>3

\* A machine with another stream and cache.
LEMMA BzMachine ==
    ASSUME fmt \in {"bz", "xz"}, NEW own \in Seq(Contents), NEW m, MachineOf(m, own), NEW r \in MachineSet,
           Keeps(r, m), StreamOf(r.f.s, m.f.img), CacheOf(r.c, m.c.id, m.f.img), ScOf(r.sc, own)
    PROVE  MachineOf(r, own)
<1>1. r.f \in Files /\ r.f.img = m.f.img
  BY DEF MachineSet, Keeps
<1>2. FileOf(r.f, m.f.img)
  BY <1>1, PlainSets
<1> QED BY <1>2, MachineMade

\* The file begins anew.
LEMMA BzReset ==
    ASSUME fmt \in {"bz", "xz"}, NEW own \in Seq(Contents), NEW m, MachineOf(m, own),
           NEW r, r = bzfile_reset(m)
    PROVE  /\ MachineOf(r, own) /\ Keeps(r, m)
           /\ r.f.s = Fresh(m.f.img) /\ ~r.f.iseof /\ ~r.f.iserror
           /\ r.c = m.c /\ r.hit = m.hit /\ r.res = m.res /\ r.got = m.got
           /\ r.sc = m.sc \/ (r.sc = [id |-> m.f.id, s |-> m.f.s] /\ m.f.id # 0 /\ ~m.f.iseof)
<1>1. PICK a : a = IF m.f.iseof \/ m.f.iserror THEN m ELSE bzfile_scache_save(m)
  OBVIOUS
<1>2. /\ MachineOf(a, own) /\ Keeps(a, m) /\ a.f = m.f /\ a.c = m.c /\ a.hit = m.hit /\ a.res = m.res
      /\ a.got = m.got /\ (a.sc = m.sc \/ (a.sc = [id |-> m.f.id, s |-> m.f.s] /\ m.f.id # 0 /\ ~m.f.iseof))
  <2>1. CASE m.f.iseof \/ m.f.iserror
    BY <1>1, <2>1 DEF Keeps
  <2>2. CASE ~(m.f.iseof \/ m.f.iserror)
    <3>1. a = bzfile_scache_save(m)
      BY <1>1, <2>2
    <3> QED BY <3>1, <2>2, BzSave
  <2> QED BY <2>1, <2>2
<1>3. m.f.img \in Texts /\ a \in MachineSet /\ CacheOf(m.c, m.c.id, m.f.img) /\ ScOf(a.sc, own) /\ a.f \in Files
  BY <1>2, MachineFacts DEF MachineOf
<1>4. PICK s : s = Fresh(m.f.img) /\ s \in StreamSet /\ StreamOf(s, m.f.img)
  BY <1>3, FreshStream DEF StreamOf
<1>5. r = [a EXCEPT !.f.s = s, !.f.iseof = FALSE, !.f.iserror = FALSE]
  BY <1>1, <1>2, <1>4 DEF bzfile_reset, bz_new_stream
<1>6. PICK g : g = [a.f EXCEPT !.s = s]
  OBVIOUS
<1>7. g \in Files /\ g.s = s /\ g.img = a.f.img /\ g.id = a.f.id
  BY <1>3, <1>4, <1>6, FilePut
<1>8. PICK f : f = [g EXCEPT !.iseof = FALSE, !.iserror = FALSE]
  OBVIOUS
<1>9. f \in Files /\ f.s = s /\ ~f.iseof /\ ~f.iserror /\ f.id = a.f.id /\ f.img = a.f.img
  BY <1>7, <1>8, FlagsOff
<1>10. r = [a EXCEPT !.f = f]
  <2>1. a.f \in PlainFiles
    BY <1>3, PlainSets
  <2> QED BY <1>3, <1>5, <1>6, <1>8, <2>1 DEF MachineSet, PlainFiles
<1>11. r \in MachineSet /\ r.f = f /\ r.c = a.c /\ r.sc = a.sc /\ r.io = a.io /\ r.hit = a.hit /\ r.res = a.res /\ r.got = a.got
  BY <1>3, <1>9, <1>10 DEF MachineSet
<1>12. Keeps(r, m)
  BY <1>2, <1>9, <1>11 DEF Keeps
<1>13. MachineOf(r, own)
  BY <1>2, <1>3, <1>4, <1>9, <1>11, <1>12, BzMachine
<1> QED BY <1>2, <1>4, <1>9, <1>11, <1>12, <1>13

\* The buffer is filled.
LEMMA BzFill ==
    ASSUME fmt \in {"bz", "xz"}, NEW own \in Seq(Contents), NEW m, MachineOf(m, own),
           NEW r, r = bzfile_fill_inbuf(m)
    PROVE  /\ MachineOf(r, own) /\ Keeps(r, m) /\ r.sc = m.sc /\ r.c = m.c /\ r.got = m.got
           /\ r.f.s.in = m.f.s.in /\ r.f.s.out = m.f.s.out
           /\ r.f.iseof = m.f.iseof /\ r.f.iserror = m.f.iserror
           /\ \/ r.res = "EIO" /\ r.hit
              \/ /\ r.res = m.res /\ r.hit = m.hit
                 /\ r.f.s.avail = Lesser(InBuf, Len(m.f.img) - m.f.s.in)
<1>1. /\ m \in MachineSet /\ m.f \in Files /\ m.f.img \in Texts /\ m.f.s \in StreamSet
      /\ StreamOf(m.f.s, m.f.img) /\ CacheOf(m.c, m.c.id, m.f.img) /\ ScOf(m.sc, own)
  BY MachineFacts
<1>2. CASE m.io = "read"
  <2>1. r = [m EXCEPT !.res = "EIO", !.hit = TRUE]
    BY <1>2 DEF bzfile_fill_inbuf, Hit
  <2>2. r \in MachineSet /\ r.f = m.f /\ r.c = m.c /\ r.sc = m.sc /\ r.io = m.io /\ r.got = m.got
        /\ r.res = "EIO" /\ r.hit
    BY <1>1, <2>1 DEF MachineSet
  <2> QED BY <2>2, <1>1, BzMachine DEF Keeps
<1>3. CASE m.io # "read"
  <2>0. PICK a : a = Lesser(InBuf, Len(m.f.img) - m.f.s.in)
    OBVIOUS
  <2>1. PICK t : t = [m.f.s EXCEPT !.avail = a]
    OBVIOUS
  <2>2. t \in StreamSet /\ t.in = m.f.s.in /\ t.out = m.f.s.out /\ t.avail = a /\ StreamOf(t, m.f.img)
    BY <2>0, <2>1, <1>1, StreamFilled
  <2>6. PICK g : g = [m.f EXCEPT !.s = t]
    OBVIOUS
  <2>7. g \in Files /\ g.s = t /\ g.img = m.f.img /\ g.iseof = m.f.iseof /\ g.iserror = m.f.iserror /\ g.id = m.f.id
    BY <2>2, <2>6, <1>1, FilePut
  <2>8. r = [m EXCEPT !.f = g]
    BY <1>3, <2>0, <2>1, <2>6 DEF bzfile_fill_inbuf
  <2>9. r \in MachineSet /\ r.f = g /\ r.c = m.c /\ r.sc = m.sc /\ r.io = m.io /\ r.hit = m.hit /\ r.res = m.res
        /\ r.got = m.got
    BY <1>1, <2>7, <2>8 DEF MachineSet
  <2>10. Keeps(r, m)
    BY <2>7, <2>9 DEF Keeps
  <2>11. MachineOf(r, own)
    BY <2>2, <2>7, <2>9, <2>10, <1>1, BzMachine
  <2> QED BY <2>0, <2>2, <2>7, <2>9, <2>10, <2>11
<1> QED BY <1>2, <1>3

\* The ends of blocks become indexes in place.
LEMMA BzBlockEnd ==
    ASSUME fmt = "bz", NEW own \in Seq(Contents), NEW m, MachineOf(m, own),
           NEW k \in Nat, m.f.s.in + k <= Len(m.f.img), NEW r, r = bz_block_end(m, k)
    PROVE  /\ MachineOf(r, own) /\ Keeps(r, m) /\ r.f = m.f /\ r.sc = m.sc /\ r.got = m.got
           /\ r.res = m.res /\ r.hit = m.hit /\ r.c.size = m.c.size
<1> DEFINE im == m.f.img
           s == m.f.s
           known(off) == \E i \in 1 .. Len(m.c.indexes) : m.c.indexes[i].off >= off
           Out(p) == s.out + Data(im, s.in, p - s.in)
           ends == {p \in s.in + 1 .. s.in + k : im[p] = "b" /\ ~known(Out(p))}
           Passed(j) == {p \in ends : Cardinality({q \in ends : q =< p}) >= j}
           End(j) == Min(Passed(j))
           new == [j \in 1 .. Cardinality(ends) |-> [off |-> Out(End(j)), in |-> End(j)]]
<1>1. /\ m \in MachineSet /\ m.f \in Files /\ im \in Texts /\ s \in StreamSet
      /\ StreamOf(s, im) /\ CacheOf(m.c, m.c.id, im) /\ ScOf(m.sc, own)
  BY MachineFacts
<1>2. s.in \in Nat /\ s.out = Data(im, 0, s.in) /\ Len(im) \in Nat
  BY <1>1 DEF StreamSet, StreamOf, Texts
<1>3. \A p \in s.in + 1 .. s.in + k : p \in Nat /\ p <= Len(im) /\ Out(p) = Data(im, 0, p)
  <2> SUFFICES ASSUME NEW p \in s.in + 1 .. s.in + k
               PROVE  p \in Nat /\ p <= Len(im) /\ Out(p) = Data(im, 0, p)
    OBVIOUS
  <2>1. p \in Nat /\ p <= Len(im) /\ s.in <= p
    BY <1>2
  <2> QED BY <2>1, <1>2, DataSince
<1>4. PICK n \in Nat : n = s.in + k
  BY <1>2
<1>41. IsFiniteSet(ends) /\ Cardinality(ends) \in Nat /\ ends \subseteq 0 .. n
  <2>1. IsFiniteSet(0 .. n)
    BY FS_Interval
  <2>3. ends \subseteq 0 .. n
    BY <1>2, <1>4
  <2> QED BY <2>1, <2>3, FS_Subset, FS_CardinalityType
<1>5. \A j \in 1 .. Cardinality(ends) : End(j) \in ends
  BY <1>41, NthOf
<1>6. r = [m EXCEPT !.c.indexes = @ \o new]
  BY DEF bz_block_end
<1> HIDE DEF Passed, End, ends, new, Out, known
<1>7. \A j \in 1 .. Cardinality(ends) : End(j) \in Nat /\ End(j) <= Len(im) /\ Out(End(j)) = Data(im, 0, End(j))
  BY <1>3, <1>5 DEF ends
<1>8. /\ new \in Seq(InIndexes) /\ Len(new) = Cardinality(ends)
      /\ \A j \in 1 .. Len(new) : InIndexOf(new[j], im)
  <2>1. \A j \in 1 .. Cardinality(ends) : Out(End(j)) \in Nat
    <3>1. \A p \in Nat : Data(im, 0, p) \in Nat
      BY DataNat
    <3> QED BY <3>1, <1>7
  <2>2. \A j \in 1 .. Cardinality(ends) : [off |-> Out(End(j)), in |-> End(j)] \in InIndexes
    BY <2>1, <1>7 DEF InIndexes
  <2>3. new \in [1 .. Cardinality(ends) -> InIndexes]
    BY <2>2 DEF new
  <2>4. new \in Seq(InIndexes) /\ Len(new) = Cardinality(ends)
    BY <2>3, <1>41
  <2>5. \A j \in 1 .. Cardinality(ends) : new[j].off = Out(End(j)) /\ new[j].in = End(j)
    BY DEF new
  <2>6. \A j \in 1 .. Cardinality(ends) : im[End(j)] = "b"
    BY <1>5 DEF ends
  <2> QED BY <2>4, <2>5, <2>6, <1>7 DEF InIndexOf, InIndexIs
<1>9. m.c \in BzCaches /\ \A i \in 1 .. Len(m.c.indexes) : InIndexOf(m.c.indexes[i], im)
  BY <1>1, BzSets
<1>10. PICK x : x = m.c.indexes \o new
  OBVIOUS
<1>11. m.c.indexes \in Seq(InIndexes)
  BY <1>9 DEF BzCaches
<1>12. x \in Seq(InIndexes) /\ \A i \in 1 .. Len(x) : InIndexOf(x[i], im)
  <2>1. PICK l1 \in Nat, l2 \in Nat : l1 = Len(m.c.indexes) /\ l2 = Len(new)
    BY <1>8, <1>11
  <2>2. x \in Seq(InIndexes) /\ Len(x) = l1 + l2
    <3>1. new \in Seq(InIndexes)
      BY <1>8
    <3> QED BY <3>1, <1>10, <1>11, <2>1
  <2>3. \A i \in 1 .. l1 + l2 : x[i] = IF i <= l1 THEN m.c.indexes[i] ELSE new[i - l1]
    BY <1>8, <1>10, <1>11, <2>1
  <2>4. \A i \in 1 .. l1 + l2 : (i <= l1 => i \in 1 .. l1) /\ (~(i <= l1) => i - l1 \in 1 .. l2)
    OBVIOUS
  <2>6. \A i \in 1 .. l1 + l2 : InIndexOf(x[i], im)
    BY <2>1, <2>3, <2>4, <1>8, <1>9
  <2> QED BY <2>2, <2>6
<1>13. PICK c : c = [m.c EXCEPT !.indexes = x]
  OBVIOUS
<1>14. c \in BzCaches /\ c.id = m.c.id /\ c.size = m.c.size /\ c.indexes = x
  BY <1>9, <1>12, <1>13 DEF BzCaches
<1>15. r = [m EXCEPT !.c = c]
  BY <1>6, <1>10, <1>13
<1>16. c \in CacheSet /\ CacheOf(c, m.c.id, im)
  BY <1>12, <1>14, BzSets
<1>17. r \in MachineSet /\ r.f = m.f /\ r.c = c /\ r.sc = m.sc /\ r.io = m.io /\ r.hit = m.hit /\ r.res = m.res
       /\ r.got = m.got
  BY <1>1, <1>15, <1>16 DEF MachineSet
<1>18. Keeps(r, m)
  BY <1>14, <1>17 DEF Keeps
<1>19. MachineOf(r, own)
  BY <1>1, <1>16, <1>17, <1>18, BzMachine
<1> QED BY <1>14, <1>17, <1>18, <1>19

\* A decoder cannot go on at p.
Stuck(im, p, room) == room <= 0 \/ InBuf = 0 \/ p = Len(im) \/ im[p + 1] \notin {"d", "b", "e"}

\* A decoder that takes nothing is stuck.
LEMMA NoneTaken ==
    ASSUME NEW im \in Texts, NEW p \in Nat, NEW avail \in Nat, NEW room \in Int,
           Take(im, p, avail, room) = 0, avail > 0 \/ avail = Lesser(InBuf, Len(im) - p)
    PROVE  Stuck(im, p, room)
<1>1. CASE avail > 0
  <2>1. ~(avail > 0 /\ room > 0 /\ im[p + 1] \in {"d", "b", "e"})
    BY TakeBounds
  <2> QED BY <1>1, <2>1 DEF Stuck
<1>2. CASE ~(avail > 0)
  <2>1. PICK l \in Nat, b \in Nat : l = Len(im) /\ b = InBuf
    BY BufferNat DEF Texts
  <2>2. 0 = IF b < l - p THEN b ELSE l - p
    BY <1>2, <2>1 DEF Lesser
  <2>3. b = 0 \/ p = l
    BY <2>2
  <2> QED BY <2>1, <2>3 DEF Stuck
<1> QED BY <1>1, <1>2

\* One call of the decoder, from the place m.f.s.in to r.f.s.in.
LEMMA BzDecompress ==
    ASSUME fmt = "bz", NEW own \in Seq(Contents), NEW m, MachineOf(m, own), NEW room \in Int,
           NEW r, r = bzfile_decompress(m, room)
    PROVE  /\ MachineOf(r, own) /\ Keeps(r, m) /\ r.sc = m.sc /\ r.f.iserror = m.f.iserror
           /\ \/ /\ r.res = "EIO" /\ r.f.s.in = m.f.s.in /\ r.f.s.out = m.f.s.out /\ r.f.iseof = m.f.iseof
                 /\ r.c = m.c /\ r.got = m.got
                 /\ \/ r.hit
                    \/ r.hit = m.hit /\ (m.res # "ok" \/ AtEnd(m.f.img, m.f.s.in) \/ Stuck(m.f.img, m.f.s.in, room))
              \/ /\ r.res = "ok" /\ r.hit = m.hit /\ r.f.s.in > m.f.s.in
                 /\ r.got = Data(m.f.img, m.f.s.in, r.f.s.in - m.f.s.in) /\ r.got <= room
                 /\ r.f.s.out = m.f.s.out + r.got
                 /\ r.f.iseof = (m.f.iseof \/ AtEnd(m.f.img, r.f.s.in))
                 /\ r.c.size = IF AtEnd(m.f.img, r.f.s.in) THEN r.f.s.out ELSE m.c.size
<1>1. PICK a : a = IF m.f.s.avail = 0 THEN bzfile_fill_inbuf(m) ELSE m
  OBVIOUS
<1>2. /\ MachineOf(a, own) /\ Keeps(a, m) /\ a.sc = m.sc /\ a.c = m.c /\ a.got = m.got
      /\ a.f.s.in = m.f.s.in /\ a.f.s.out = m.f.s.out /\ a.f.iseof = m.f.iseof /\ a.f.iserror = m.f.iserror
      /\ \/ a.res = "EIO" /\ a.hit
         \/ /\ a.res = m.res /\ a.hit = m.hit
            /\ a.f.s.avail > 0 \/ a.f.s.avail = Lesser(InBuf, Len(m.f.img) - m.f.s.in)
  <2>1. CASE m.f.s.avail = 0
    BY <1>1, <2>1, BzFill
  <2>2. CASE m.f.s.avail # 0
    <3>1. m.f.s.avail \in Nat
      BY MachineFacts DEF StreamSet
    <3>2. a = m /\ m.f.s.avail > 0
      BY <1>1, <2>2, <3>1
    <3> QED BY <3>2 DEF Keeps
  <2> QED BY <2>1, <2>2
<1>11. r = bz_decoded(a, room)
  BY <1>1 DEF bzfile_decompress
<1>3. PICK im, s : im = m.f.img /\ s = a.f.s
  OBVIOUS
<1>4. /\ a \in MachineSet /\ a.f \in Files /\ im \in Texts /\ s \in StreamSet /\ a.f.img = im /\ m.f.img = im
      /\ StreamOf(s, im) /\ s.src = im
      /\ CacheOf(a.c, m.c.id, im) /\ ScOf(a.sc, own)
  BY <1>2, <1>3, MachineFacts DEF Keeps, StreamOf
<1>5. PICK k : k = IF AtEnd(s.src, s.in) THEN 0 ELSE Take(a.f.img, s.in, s.avail, room)
  OBVIOUS
<1>6. s.in \in Nat /\ s.avail \in Nat /\ s.out \in Nat
  BY <1>4 DEF StreamSet
<1>7. k \in 0 .. s.avail /\ Data(im, s.in, k) \in Nat /\ (k = 0 \/ Data(im, s.in, k) <= room)
  <2>1. CASE k = 0
    BY <2>1, <1>6, DataNat
  <2>2. CASE k # 0
    <3>1. k = Take(im, s.in, s.avail, room)
      BY <2>2, <1>4, <1>5
    <3> QED BY <3>1, <1>6, TakeBounds
  <2> QED BY <2>1, <2>2
<1>8. PICK d \in Nat : d = Data(im, s.in, k)
  BY <1>7
<1>9. CASE a.res # "ok" \/ k = 0
  <2>1. r = [a EXCEPT !.res = "EIO"]
    BY <1>11, <1>3, <1>5, <1>9 DEF bz_decoded, Fail
  <2>2. r \in MachineSet /\ r.f = a.f /\ r.c = a.c /\ r.sc = a.sc /\ r.io = a.io /\ r.hit = a.hit /\ r.got = a.got
        /\ r.res = "EIO"
    BY <1>4, <2>1 DEF MachineSet
  <2>3. Keeps(r, m)
    BY <1>2, <2>2 DEF Keeps
  <2>31. MachineOf(r, own)
    BY <1>3, <1>4, <2>2, <2>3, BzMachine
  <2>4. a.hit \/ (a.hit = m.hit /\ (m.res # "ok" \/ AtEnd(im, s.in) \/ Stuck(im, s.in, room)))
    <3>1. CASE a.res = "EIO" /\ a.hit
      BY <3>1
    <3>2. CASE a.res = m.res /\ a.hit = m.hit /\ (a.f.s.avail > 0 \/ a.f.s.avail = Lesser(InBuf, Len(m.f.img) - m.f.s.in))
      <4>1. CASE a.res = "ok" /\ ~AtEnd(im, s.in)
        <5>1. Take(im, s.in, s.avail, room) = 0
          BY <4>1, <1>4, <1>5, <1>9
        <5>2. s.avail > 0 \/ s.avail = Lesser(InBuf, Len(im) - s.in)
          BY <3>2, <1>2, <1>3
        <5>3. Stuck(im, s.in, room)
          BY <5>1, <5>2, <1>4, <1>6, NoneTaken
        <5> QED BY <5>3, <3>2
      <4>2. CASE ~(a.res = "ok" /\ ~AtEnd(im, s.in))
        BY <4>2, <3>2
      <4> QED BY <4>1, <4>2
    <3> QED BY <3>1, <3>2, <1>2
  <2> QED BY <2>2, <2>3, <2>31, <2>4, <1>2, <1>3, <1>4
<1>10. CASE a.res = "ok" /\ k # 0
  <2>1. PICK e : e = bz_block_end(a, k)
    OBVIOUS
  <2>2. /\ MachineOf(e, own) /\ Keeps(e, a) /\ e.f = a.f /\ e.sc = a.sc /\ e.got = a.got
        /\ e.res = a.res /\ e.hit = a.hit /\ e.c.size = a.c.size
    <3>1. k \in Nat /\ a.f.s.in + k <= Len(a.f.img)
      <4>1. s.in + s.avail <= Len(im) /\ Len(im) \in Nat
        BY <1>4 DEF StreamOf, Texts
      <4>2. k \in Nat /\ s.in + k <= Len(im)
        BY <4>1, <1>6, <1>7
      <4> QED BY <4>2, <1>3, <1>4
    <3> QED BY <3>1, <2>1, <1>2, <1>4, BzBlockEnd
  <2>3. PICK t : t = Taken(s, k, d)
    OBVIOUS
  <2>4. t \in StreamSet /\ t.in = s.in + k /\ t.out = s.out + d /\ StreamOf(t, im)
    BY <2>3, <1>4, <1>7, <1>8, StreamTakes
  <2>5. PICK g : g = [a.f EXCEPT !.s = t]
    OBVIOUS
  <2>6. g \in Files /\ g.s = t /\ g.img = im /\ g.iseof = a.f.iseof /\ g.iserror = a.f.iserror /\ g.id = a.f.id
    BY <2>4, <2>5, <1>4, FilePut
  <2>7. e \in MachineSet /\ e.c \in CacheSet /\ e.c.id = m.c.id /\ CacheOf(e.c, m.c.id, im) /\ ScOf(e.sc, own)
    BY <2>2, <1>2, <1>4, MachineFacts DEF Keeps
  <2>8. PICK b : b = [e EXCEPT !.f.s = Taken(@, k, d), !.got = d]
    OBVIOUS
  <2>9. b = [e EXCEPT !.f = g, !.got = d]
    <3>1. e.f = a.f /\ e.f.s = s
      BY <2>2, <1>3
    <3> QED BY <2>3, <2>5, <2>7, <2>8, <3>1 DEF MachineSet
  <2>10. b \in MachineSet /\ b.f = g /\ b.c = e.c /\ b.sc = e.sc /\ b.io = e.io /\ b.hit = e.hit /\ b.res = e.res /\ b.got = d
    BY <2>6, <2>7, <2>9, <1>8 DEF MachineSet
  <2>11. Keeps(b, m)
    BY <2>2, <2>6, <2>7, <2>10, <1>2, <1>3 DEF Keeps
  <2>12. t.in > m.f.s.in /\ t.in - m.f.s.in = k /\ m.f.s.in = s.in /\ m.f.s.out = s.out
    BY <1>2, <1>3, <1>6, <1>7, <1>10, <2>4
  <2>121. d = Data(m.f.img, m.f.s.in, t.in - m.f.s.in) /\ d <= room /\ t.out = m.f.s.out + d
    BY <1>4, <1>7, <1>8, <1>10, <2>4, <2>12
  <2>122. e.res = "ok" /\ e.hit = m.hit /\ e.sc = m.sc
    BY <1>2, <1>10, <2>2
  <2>13. r = IF AtEnd(a.f.img, b.f.s.in) THEN [b EXCEPT !.f.iseof = TRUE, !.c.size = b.f.s.out] ELSE b
    <3>1. d = Data(a.f.img, s.in, k) /\ ~(a.res # "ok" \/ k = 0)
      BY <1>4, <1>8, <1>10
    <3> QED BY <1>11, <1>3, <1>5, <3>1, <2>1, <2>8 DEF bz_decoded
  <2>14. CASE ~AtEnd(im, t.in)
    <3>1. r = b
      BY <2>6, <2>10, <2>13, <2>14, <1>4
    <3>3. b.f.s = t /\ b.f.iseof = m.f.iseof /\ b.f.iserror = m.f.iserror /\ b.c.size = m.c.size
      BY <1>2, <2>2, <2>6, <2>10
    <3>4. m.f.iseof \in BOOLEAN /\ m.f.iseof = (m.f.iseof \/ AtEnd(im, t.in))
      BY <1>4, <2>14, MachineFacts, FileFields
    <3>5. r.res = "ok" /\ r.hit = m.hit /\ r.got = d /\ r.sc = m.sc
      BY <2>10, <2>122, <3>1
    <3>2. MachineOf(b, own)
      BY <2>4, <2>6, <2>7, <2>10, <2>11, <1>3, <1>4, BzMachine
    <3> QED BY <3>1, <3>2, <3>3, <3>4, <3>5, <2>11, <2>12, <2>121, <2>14, <1>4
  <2>15. CASE AtEnd(im, t.in)
    <3>1. r = [b EXCEPT !.f.iseof = TRUE, !.c.size = t.out]
      BY <2>6, <2>10, <2>13, <2>15, <1>4
    <3>2. PICK g2 : g2 = [g EXCEPT !.iseof = TRUE]
      OBVIOUS
    <3>3. g2 \in Files /\ g2.s = t /\ g2.img = im /\ g2.iseof = TRUE /\ g2.iserror = a.f.iserror /\ g2.id = a.f.id
      BY <3>2, <2>6, EofPut
    <3>4. PICK c : c = [e.c EXCEPT !.size = t.out]
      OBVIOUS
    <3>5. c \in CacheSet /\ c.size = t.out /\ c.id = m.c.id /\ CacheOf(c, m.c.id, im)
      <4>1. e.c \in BzCaches /\ t.out \in Int
        BY <2>4, <2>7, BzSets DEF StreamSet
      <4>2. c \in BzCaches /\ c.size = t.out /\ c.id = e.c.id /\ c.indexes = e.c.indexes
        BY <3>4, <4>1 DEF BzCaches
      <4> QED BY <4>2, <2>7, BzSets
    <3>6. r = [b EXCEPT !.f = g2, !.c = c]
      BY <3>1, <3>2, <3>4, <2>10 DEF MachineSet
    <3>7. r \in MachineSet /\ r.f = g2 /\ r.c = c /\ r.sc = b.sc /\ r.io = b.io /\ r.hit = b.hit /\ r.res = b.res /\ r.got = d
      BY <3>3, <3>5, <3>6, <2>10 DEF MachineSet
    <3>8. Keeps(r, m)
      BY <3>3, <3>5, <3>7, <2>6, <2>7, <2>10, <2>11 DEF Keeps
    <3>9. MachineOf(r, own)
      BY <3>3, <3>5, <3>7, <3>8, <2>4, <2>7, <2>10, <1>3, <1>4, BzMachine
    <3> QED BY <3>3, <3>5, <3>7, <3>8, <3>9, <2>10, <2>12, <2>121, <2>122, <2>15, <1>2, <1>4
  <2> QED BY <2>14, <2>15
<1>12. a.res \in {"ok", "EIO"}
  BY <1>4 DEF MachineSet
<1> QED BY <1>9, <1>10, <1>12

\* The index that a search finds is not past the offset.
LEMMA IndexFound ==
    ASSUME NEW S, NEW idx \in Seq(S), NEW offset \in Int, \A i \in 1 .. Len(idx) : idx[i].off \in Nat,
           NEW z, z = IndexBefore(idx, offset)
    PROVE  z \in 0 .. Len(idx) /\ (z # 0 => z \in 1 .. Len(idx) /\ idx[z].off <= offset)
<1> DEFINE past == {i \in 1 .. Len(idx) : idx[i].off > offset}
<1>1. PICK n \in Nat : n = Len(idx)
  OBVIOUS
<1>2. CASE past = {}
  <2>1. z = n
    BY <1>1, <1>2 DEF IndexBefore
  <2>2. n # 0 => n \in 1 .. n /\ ~(idx[n].off > offset)
    BY <1>1, <1>2
  <2>3. n # 0 => n \in 1 .. n /\ idx[n].off \in Nat
    BY <1>1
  <2> QED BY <1>1, <2>1, <2>2, <2>3
<1>3. CASE past # {}
  <2>1. z = Min(past) - 1
    BY <1>3 DEF IndexBefore
  <2>2. past \subseteq Nat
    OBVIOUS
  <2>3. Min(past) \in past /\ \A j \in past : Min(past) <= j
    BY <1>3, <2>2, MinOfNaturals
  <2>4. PICK w \in 1 .. n : w = Min(past)
    BY <1>1, <2>3
  <2>5. z = w - 1 /\ z \in 0 .. n
    BY <2>1, <2>4
  <2>6. z # 0 => z \in 1 .. n /\ z \notin past
    <3>1. \A j \in past : w <= j
      BY <2>3, <2>4
    <3>2. ~(w <= z)
      BY <2>4, <2>5
    <3> QED BY <3>1, <3>2, <2>5
  <2>7. z # 0 => idx[z].off \in Nat /\ ~(idx[z].off > offset)
    BY <1>1, <2>6
  <2> QED BY <1>1, <2>5, <2>6, <2>7
<1> QED BY <1>2, <1>3

\* The decoder begins at an index.
LEMMA BzSeekIndex ==
    ASSUME fmt = "bz", NEW own \in Seq(Contents), NEW m, MachineOf(m, own),
           NEW zi \in InIndexes, InIndexOf(zi, m.f.img), NEW r, r = bzfile_seek_index(m, zi)
    PROVE  /\ MachineOf(r, own) /\ Keeps(r, m)
           /\ r.f.s.in = zi.in /\ r.f.s.out = zi.off /\ r.f.iseof = m.f.iseof /\ r.f.iserror = m.f.iserror
           /\ r.c = m.c /\ r.hit = m.hit /\ r.res = m.res /\ r.got = m.got
           /\ r.sc = m.sc \/ (r.sc = [id |-> m.f.id, s |-> m.f.s] /\ m.f.id # 0)
<1>1. PICK a : a = bzfile_scache_save(m)
  OBVIOUS
<1>2. /\ MachineOf(a, own) /\ Keeps(a, m) /\ a.f = m.f /\ a.c = m.c /\ a.hit = m.hit /\ a.res = m.res
      /\ a.got = m.got /\ (a.sc = m.sc \/ (a.sc = [id |-> m.f.id, s |-> m.f.s] /\ m.f.id # 0))
  BY <1>1, BzSave
<1>3. /\ m.f.img \in Texts /\ a \in MachineSet /\ CacheOf(m.c, m.c.id, m.f.img) /\ ScOf(a.sc, own) /\ m.f \in Files
  BY <1>2, MachineFacts
<1>4. PICK t : t = [Fresh(m.f.img) EXCEPT !.in = zi.in, !.out = zi.off]
  OBVIOUS
<1>5. /\ t \in StreamSet /\ t.in = zi.in /\ t.out = zi.off /\ t.avail = 0 /\ t.src = m.f.img
  <2>1. zi.in \in Nat /\ zi.off \in Nat
    BY DEF InIndexes
  <2>2. Fresh(m.f.img) \in StreamSet /\ Fresh(m.f.img).avail = 0 /\ Fresh(m.f.img).src = m.f.img
    BY <1>3, FreshStream DEF StreamOf
  <2> QED BY <1>4, <2>1, <2>2 DEF StreamSet
<1>6. StreamOf(t, m.f.img)
  <2>1. zi.in \in Nat
    BY DEF InIndexes
  <2>2. t.in + t.avail <= Len(m.f.img)
    BY <1>5, <2>1 DEF InIndexOf, InIndexIs
  <2> QED BY <1>5, <2>2 DEF StreamOf, InIndexOf, InIndexIs
<1>7. PICK g : g = [m.f EXCEPT !.s = t]
  OBVIOUS
<1>8. g \in Files /\ g.s = t /\ g.img = m.f.img /\ g.iseof = m.f.iseof /\ g.iserror = m.f.iserror /\ g.id = m.f.id
  BY <1>3, <1>5, <1>7, FilePut
<1>9. r = [a EXCEPT !.f = g]
  <2>1. r = [a EXCEPT !.f.s = t]
    BY <1>1, <1>4 DEF bzfile_seek_index, bz_new_stream
  <2> QED BY <1>2, <1>3, <1>7, <2>1 DEF MachineSet
<1>10. r \in MachineSet /\ r.f = g /\ r.c = a.c /\ r.sc = a.sc /\ r.io = a.io /\ r.hit = a.hit /\ r.res = a.res /\ r.got = a.got
  BY <1>3, <1>8, <1>9 DEF MachineSet
<1>11. Keeps(r, m)
  BY <1>2, <1>8, <1>10 DEF Keeps
<1>12. MachineOf(r, own)
  BY <1>2, <1>3, <1>6, <1>8, <1>10, <1>11, BzMachine
<1> QED BY <1>2, <1>5, <1>8, <1>10, <1>11, <1>12

\* An offset is reached from a stream of the content that is not past it.
LEMMA BzSeek ==
    ASSUME fmt = "bz", NEW own \in Seq(Contents), NEW m, MachineOf(m, own), NEW offset \in Nat,
           NEW r, r = bzfile_seek(m, offset)
    PROVE  /\ MachineOf(r, own) /\ Keeps(r, m)
           /\ r.f.s.out <= offset
           /\ r.f.iseof => m.f.iseof
           /\ r.f.iserror => m.f.iserror
           /\ AtEnd(m.f.img, r.f.s.in) =>
                AtEnd(m.f.img, m.f.s.in) \/ (m.sc.id = m.c.id /\ AtEnd(m.f.img, m.sc.s.in))
           /\ r.c = m.c /\ r.hit = m.hit /\ r.res = m.res /\ r.got = m.got
           /\ r.sc = m.sc \/ (r.sc.id = m.c.id /\ r.sc.s = m.f.s)
<1> DEFINE out == m.f.s.out
           dist == IF offset >= out THEN offset - out ELSE -1
           zi == IndexBefore(m.c.indexes, offset)
           zcdist == IF zi # 0 THEN offset - m.c.indexes[zi].off ELSE offset
           scdist == offset - m.sc.s.out
           fromscache == /\ m.sc.id = m.c.id /\ scdist >= 0
                         /\ dist = -1 \/ scdist < dist
                         /\ scdist < zcdist
           x == [m EXCEPT !.f.s = [m.sc.s EXCEPT !.avail = 0], !.sc.s = m.f.s]
           y == IF zi = 0 THEN bzfile_reset(m) ELSE bzfile_seek_index(m, m.c.indexes[zi])
<1>1. r = IF fromscache THEN x ELSE IF dist = -1 \/ zcdist < dist THEN y ELSE m
  BY DEF bzfile_seek
<1>2. /\ m \in MachineSet /\ m.f \in Files /\ m.f.img \in Texts /\ m.f.s \in StreamSet /\ m.c \in BzCaches
      /\ StreamOf(m.f.s, m.f.img) /\ CacheOf(m.c, m.c.id, m.f.img) /\ ScOf(m.sc, own)
      /\ m.f.img = own[m.c.id] /\ m.c.id \in 1 .. Len(own) /\ m.c.id # 0 /\ m.f.id \in {0, m.c.id}
  BY MachineFacts, BzSets
<1>3. CASE fromscache
  <2>1. m.sc \in Saved /\ StreamOf(m.sc.s, m.f.img) /\ m.sc.s \in StreamSet /\ m.sc.id = m.c.id
    <3>1. m.sc # NoStream
      BY <1>2, <1>3 DEF NoStream
    <3> QED BY <3>1, <1>2, <1>3 DEF ScOf, ScIs, Saved, StreamOf
  <2>2. PICK t : t = [m.sc.s EXCEPT !.avail = 0]
    OBVIOUS
  <2>3. t \in StreamSet /\ t.in = m.sc.s.in /\ t.out = m.sc.s.out /\ StreamOf(t, m.f.img)
    BY <2>1, <2>2, <1>2, StreamEmptied
  <2>5. PICK g : g = [m.f EXCEPT !.s = t]
    OBVIOUS
  <2>6. g \in Files /\ g.s = t /\ g.img = m.f.img /\ g.iseof = m.f.iseof /\ g.iserror = m.f.iserror /\ g.id = m.f.id
    BY <2>3, <2>5, <1>2, FilePut
  <2>7. PICK n : n = [m.sc EXCEPT !.s = m.f.s]
    OBVIOUS
  <2>8. n \in Saved /\ n.id = m.c.id /\ n.s = m.f.s
    <3>1. PICK v : v = m.sc
      OBVIOUS
    <3>2. v \in [id : Nat, s : StreamSet]
      BY <2>1, <3>1, BzSets
    <3>3. n \in [id : Nat, s : StreamSet] /\ n.id = v.id /\ n.s = m.f.s
      BY <2>7, <3>1, <3>2, <1>2
    <3> QED BY <2>1, <3>1, <3>3, BzSets
  <2>9. r = [m EXCEPT !.f = g, !.sc = n]
    BY <1>1, <1>2, <1>3, <2>2, <2>5, <2>7 DEF MachineSet
  <2>10. r \in MachineSet /\ r.f = g /\ r.c = m.c /\ r.sc = n /\ r.io = m.io /\ r.hit = m.hit /\ r.res = m.res /\ r.got = m.got
    BY <2>6, <2>8, <2>9, <1>2 DEF MachineSet
  <2>11. Keeps(r, m)
    BY <2>6, <2>10 DEF Keeps
  <2>12. ScOf(n, own)
    BY <2>8, <1>2 DEF ScOf, ScIs, Saved
  <2>13. MachineOf(r, own)
    BY <2>3, <2>6, <2>10, <2>11, <2>12, <1>2, BzMachine
  <2>14. t.out <= offset
    <3>1. m.sc.s.out \in Nat /\ offset - m.sc.s.out >= 0
      BY <2>1, <1>3 DEF StreamSet
    <3> QED BY <3>1, <2>3
  <2> QED BY <2>1, <2>3, <2>6, <2>8, <2>10, <2>11, <2>13, <2>14
<1>4. CASE ~fromscache /\ (dist = -1 \/ zcdist < dist)
  <2>1. r = y
    BY <1>1, <1>4
  <2>2. m.c.indexes \in Seq(InIndexes)
    BY <1>2 DEF BzCaches
  <2>20. PICK idx \in Seq(InIndexes) : idx = m.c.indexes
    BY <2>2
  <2>21. \A i \in 1 .. Len(idx) : idx[i] \in InIndexes
    OBVIOUS
  <2>22. \A i \in 1 .. Len(idx) : idx[i].off \in Nat
    BY <2>21 DEF InIndexes
  <2>23. \A z : z = IndexBefore(idx, offset) =>
           z \in 0 .. Len(idx) /\ (z # 0 => z \in 1 .. Len(idx) /\ idx[z].off <= offset)
    <3> SUFFICES ASSUME NEW z, z = IndexBefore(idx, offset)
                 PROVE  z \in 0 .. Len(idx) /\ (z # 0 => z \in 1 .. Len(idx) /\ idx[z].off <= offset)
      OBVIOUS
    <3>1. offset \in Int
      OBVIOUS
    <3> QED BY <2>22, <3>1, IndexFound
  <2>3. \A i \in 1 .. Len(m.c.indexes) : m.c.indexes[i] \in InIndexes
    BY <2>20, <2>21
  <2>4. zi \in 0 .. Len(m.c.indexes) /\ (zi # 0 => zi \in 1 .. Len(m.c.indexes) /\ m.c.indexes[zi].off <= offset)
    BY <2>20, <2>23
  <2>5. CASE zi = 0
    <3>1. r = bzfile_reset(m)
      BY <2>1, <2>5
    <3>2. fmt \in {"bz", "xz"}
      OBVIOUS
    <3>21. /\ MachineOf(r, own) /\ Keeps(r, m) /\ r.f.s = Fresh(m.f.img) /\ ~r.f.iseof /\ ~r.f.iserror
           /\ r.c = m.c /\ r.hit = m.hit /\ r.res = m.res /\ r.got = m.got
           /\ r.sc = m.sc \/ (r.sc = [id |-> m.f.id, s |-> m.f.s] /\ m.f.id # 0 /\ ~m.f.iseof)
      BY <3>1, <3>2, BzReset
    <3>3. Fresh(m.f.img).in = 0 /\ Fresh(m.f.img).out = 0
      BY <1>2, FreshStream
    <3>4. ~AtEnd(m.f.img, r.f.s.in)
      BY <3>21, <3>3 DEF AtEnd
    <3>5. r.f.s.out <= offset
      BY <3>21, <3>3
    <3>6. r.sc = m.sc \/ (r.sc.id = m.c.id /\ r.sc.s = m.f.s)
      BY <3>21, <1>2
    <3> QED BY <3>21, <3>4, <3>5, <3>6
  <2>6. CASE zi # 0
    <3>1. PICK w : w = m.c.indexes[zi]
      OBVIOUS
    <3>2. w \in InIndexes /\ InIndexOf(w, m.f.img) /\ w.off <= offset
      BY <2>3, <2>4, <2>6, <3>1, <1>2, BzSets
    <3>3. r = bzfile_seek_index(m, w)
      BY <2>1, <2>6, <3>1
    <3>4. /\ MachineOf(r, own) /\ Keeps(r, m)
          /\ r.f.s.in = w.in /\ r.f.s.out = w.off /\ r.f.iseof = m.f.iseof /\ r.f.iserror = m.f.iserror
          /\ r.c = m.c /\ r.hit = m.hit /\ r.res = m.res /\ r.got = m.got
          /\ r.sc = m.sc \/ (r.sc = [id |-> m.f.id, s |-> m.f.s] /\ m.f.id # 0)
      BY <3>2, <3>3, BzSeekIndex
    <3>5. ~AtEnd(m.f.img, r.f.s.in)
      BY <3>2, <3>4 DEF AtEnd, InIndexOf, InIndexIs
    <3>6. r.sc = m.sc \/ (r.sc.id = m.c.id /\ r.sc.s = m.f.s)
      BY <3>4, <1>2
    <3> QED BY <3>2, <3>4, <3>5, <3>6
  <2> QED BY <2>5, <2>6
<1>5. CASE ~fromscache /\ ~(dist = -1 \/ zcdist < dist)
  <2>1. r = m
    BY <1>1, <1>5
  <2>2. out \in Nat /\ dist # -1
    BY <1>2, <1>5 DEF StreamSet
  <2>3. out <= offset
    BY <2>2
  <2> QED BY <2>1, <2>3 DEF Keeps
<1> QED BY <1>3, <1>4, <1>5

----------------------------------------------------------------------------
(* xz.                                                                     *)

\* xz saves, fills and begins anew as bzip2 does.
LEMMA XzAsBz ==
    ASSUME NEW m
    PROVE  /\ xzfile_fill_inbuf(m) = bzfile_fill_inbuf(m) /\ xzfile_scache_save(m) = bzfile_scache_save(m)
           /\ xzfile_reset(m) = bzfile_reset(m)
  BY DEF xzfile_fill_inbuf, bzfile_fill_inbuf, xzfile_scache_save, bzfile_scache_save, xzfile_reset, bzfile_reset, bz_new_stream

\* The caches of xz and zstd, which have a size only.
LEMMA SizeCacheSets ==
    ASSUME fmt \in {"xz", "zst"}
    PROVE  CacheSet = PlainCaches /\ \A c, i, im : CacheOf(c, i, im) <=> c \in PlainCaches /\ c.id = i
<1>1. fmt # "z" /\ fmt # "lz" /\ fmt # "bz" /\ fmt \notin {"bz", "lz"}
  OBVIOUS
<1> QED BY <1>1 DEF CacheSet, CachesFor, CacheOf, CacheIs, InIndexOf

\* Such a cache with another size.
LEMMA SizePut ==
    ASSUME fmt \in {"xz", "zst"}, NEW c, NEW i, NEW im, CacheOf(c, i, im), NEW n \in Int, NEW r, r = [c EXCEPT !.size = n]
    PROVE  r \in CacheSet /\ r.size = n /\ r.id = i /\ CacheOf(r, i, im)
<1>1. c \in PlainCaches /\ c.id = i
  BY SizeCacheSets
<1>2. r \in PlainCaches /\ r.size = n /\ r.id = i
  BY <1>1 DEF PlainCaches
<1> QED BY <1>2, SizeCacheSets

\* One call of the decoder.
LEMMA XzDecompress ==
    ASSUME fmt = "xz", NEW own \in Seq(Contents), NEW m, MachineOf(m, own), NEW room \in Int,
           NEW r, r = xzfile_decompress(m, room)
    PROVE  MachineOf(r, own) /\ Keeps(r, m) /\ r.got \in Nat
<1>1. PICK a : a = IF m.f.s.avail = 0 THEN xzfile_fill_inbuf(m) ELSE m
  OBVIOUS
<1>2. MachineOf(a, own) /\ Keeps(a, m)
  <2>1. CASE m.f.s.avail = 0
    <3>1. fmt \in {"bz", "xz"} /\ a = bzfile_fill_inbuf(m)
      BY <1>1, <2>1, XzAsBz
    <3> QED BY <3>1, BzFill
  <2>2. CASE m.f.s.avail # 0
    BY <1>1, <2>2 DEF Keeps
  <2> QED BY <2>1, <2>2
<1>11. r = xz_decoded(a, room)
  BY <1>1 DEF xzfile_decompress
<1>3. PICK im, s : im = m.f.img /\ s = a.f.s
  OBVIOUS
<1>4. /\ a \in MachineSet /\ a.f \in Files /\ im \in Texts /\ s \in StreamSet /\ a.f.img = im /\ m.f.img = im
      /\ StreamOf(s, im) /\ a.c.id = m.c.id
      /\ CacheOf(a.c, m.c.id, im) /\ ScOf(a.sc, own)
  BY <1>2, <1>3, MachineFacts DEF Keeps
<1>5. PICK k : k = Take(im, s.in, s.avail, room)
  OBVIOUS
<1>6. s.in \in Nat /\ s.avail \in Nat /\ s.out \in Nat
  BY <1>4 DEF StreamSet
<1>7. k \in 0 .. s.avail /\ Data(im, s.in, k) \in Nat
  BY <1>5, <1>6, TakeBounds
<1>8. PICK d \in Nat : d = Data(im, s.in, k)
  BY <1>7
<1>0. fmt \in {"bz", "xz"} /\ fmt \in {"xz", "zst"}
  OBVIOUS
<1>9. CASE a.res # "ok" \/ k = 0
  <2>1. r = [a EXCEPT !.res = "EIO"]
    BY <1>11, <1>3, <1>4, <1>5, <1>9 DEF xz_decoded, Fail
  <2>2. r \in MachineSet /\ r.f = a.f /\ r.c = a.c /\ r.sc = a.sc /\ r.io = a.io /\ r.got = a.got
    BY <1>4, <2>1 DEF MachineSet
  <2>3. Keeps(r, m)
    BY <1>2, <2>2 DEF Keeps
  <2>4. MachineOf(r, own)
    BY <1>0, <1>3, <1>4, <2>2, <2>3, BzMachine
  <2> QED BY <2>2, <2>3, <2>4, <1>4 DEF MachineSet
<1>10. CASE a.res = "ok" /\ k # 0
  <2>3. PICK t : t = Taken(s, k, d)
    OBVIOUS
  <2>4. t \in StreamSet /\ t.in = s.in + k /\ t.out = s.out + d /\ StreamOf(t, im)
    BY <2>3, <1>4, <1>7, <1>8, StreamTakes
  <2>5. PICK g : g = [a.f EXCEPT !.s = t]
    OBVIOUS
  <2>6. g \in Files /\ g.s = t /\ g.img = im /\ g.id = a.f.id
    BY <2>4, <2>5, <1>4, FilePut
  <2>8. PICK b : b = [a EXCEPT !.f.s = Taken(@, k, d), !.got = d]
    OBVIOUS
  <2>9. b = [a EXCEPT !.f = g, !.got = d]
    BY <2>3, <2>5, <2>8, <1>3, <1>4 DEF MachineSet
  <2>10. b \in MachineSet /\ b.f = g /\ b.c = a.c /\ b.sc = a.sc /\ b.io = a.io /\ b.got = d
    BY <2>6, <2>9, <1>4, <1>8 DEF MachineSet
  <2>11. Keeps(b, m)
    BY <2>6, <2>10, <1>2, <1>3 DEF Keeps
  <2>13. r = IF AtEnd(a.f.img, b.f.s.in) THEN [b EXCEPT !.f.iseof = TRUE, !.c.size = b.f.s.out] ELSE b
    BY <1>11, <1>3, <1>4, <1>5, <1>8, <1>10, <2>8 DEF xz_decoded
  <2>14. CASE ~AtEnd(im, t.in)
    <3>1. r = b
      BY <2>6, <2>10, <2>13, <2>14, <1>4
    <3>2. MachineOf(b, own)
      BY <1>0, <2>4, <2>6, <2>10, <2>11, <1>3, <1>4, BzMachine
    <3> QED BY <3>1, <3>2, <2>10, <2>11
  <2>15. CASE AtEnd(im, t.in)
    <3>1. r = [b EXCEPT !.f.iseof = TRUE, !.c.size = t.out]
      BY <2>6, <2>10, <2>13, <2>15, <1>4
    <3>2. PICK g2 : g2 = [g EXCEPT !.iseof = TRUE]
      OBVIOUS
    <3>3. g2 \in Files /\ g2.s = t /\ g2.img = im /\ g2.id = a.f.id
      <4>1. g \in Files
        BY <2>6
      <4>2. g2 \in Files /\ g2.s = g.s /\ g2.img = g.img /\ g2.id = g.id
        BY <3>2, <4>1, EofPut
      <4> QED BY <2>6, <4>2
    <3>4. PICK c : c = [a.c EXCEPT !.size = t.out]
      OBVIOUS
    <3>5. c \in CacheSet /\ c.id = m.c.id /\ CacheOf(c, m.c.id, im)
      <4>1. t.out \in Int
        BY <2>4 DEF StreamSet
      <4> QED BY <4>1, <3>4, <1>0, <1>4, SizePut
    <3>6. r = [b EXCEPT !.f = g2, !.c = c]
      BY <3>1, <3>2, <3>4, <2>10 DEF MachineSet
    <3>7. r \in MachineSet /\ r.f = g2 /\ r.c = c /\ r.sc = b.sc /\ r.io = b.io /\ r.got = d
      BY <3>3, <3>5, <3>6, <2>10 DEF MachineSet
    <3>8. Keeps(r, m)
      BY <3>3, <3>5, <3>7, <2>6, <2>10, <2>11 DEF Keeps
    <3>9. MachineOf(r, own)
      BY <1>0, <3>3, <3>5, <3>7, <3>8, <2>4, <2>10, <1>3, <1>4, BzMachine
    <3> QED BY <3>7, <3>8, <3>9
  <2> QED BY <2>14, <2>15
<1>12. a.res \in {"ok", "EIO"}
  BY <1>4 DEF MachineSet
<1> QED BY <1>9, <1>10, <1>12
----------------------------------------------------------------------------
(* Machines with one part replaced.                                        *)

\* What else a machine has.
Others(r, m) == r.sc = m.sc /\ r.hit = m.hit /\ r.res = m.res /\ r.got = m.got

\* A machine with another file of the same content.
LEMMA MachineFile ==
    ASSUME NEW own \in Seq(Contents), NEW m, MachineOf(m, own), NEW g, FileOf(g, m.f.img), g.id = m.f.id,
           NEW r, r = [m EXCEPT !.f = g]
    PROVE  MachineOf(r, own) /\ Keeps(r, m) /\ r.f = g /\ r.c = m.c /\ Others(r, m)
<1>1. m \in MachineSet /\ g \in Files /\ g.img = m.f.img /\ CacheOf(m.c, m.c.id, m.f.img) /\ ScOf(m.sc, own)
  BY MachineFacts DEF FileOf, FileIs, Files
<1>2. r \in MachineSet /\ r.f = g /\ r.c = m.c /\ r.sc = m.sc /\ r.io = m.io /\ r.hit = m.hit /\ r.res = m.res /\ r.got = m.got
  BY <1>1 DEF MachineSet
<1>3. Keeps(r, m)
  BY <1>1, <1>2 DEF Keeps
<1>4. MachineOf(r, own)
  BY <1>1, <1>2, <1>3, MachineMade
<1> QED BY <1>2, <1>3, <1>4 DEF Others

\* A machine with another cache of the same content.
LEMMA MachineCache ==
    ASSUME NEW own \in Seq(Contents), NEW m, MachineOf(m, own), NEW c, CacheOf(c, m.c.id, m.f.img),
           NEW r, r = [m EXCEPT !.c = c]
    PROVE  MachineOf(r, own) /\ Keeps(r, m) /\ r.f = m.f /\ r.c = c /\ Others(r, m)
<1>1. m \in MachineSet /\ c \in CacheSet /\ c.id = m.c.id /\ FileOf(m.f, m.f.img) /\ ScOf(m.sc, own)
  BY MachineFacts DEF CacheOf, CacheIs, CacheSet, InIndexOf
<1>2. r \in MachineSet /\ r.f = m.f /\ r.c = c /\ r.sc = m.sc /\ r.io = m.io /\ r.hit = m.hit /\ r.res = m.res /\ r.got = m.got
  BY <1>1 DEF MachineSet
<1>3. Keeps(r, m)
  BY <1>1, <1>2 DEF Keeps
<1>4. MachineOf(r, own)
  BY <1>1, <1>2, <1>3, MachineMade
<1> QED BY <1>2, <1>3, <1>4 DEF Others

\* A machine that has given bytes.
LEMMA MachineGot ==
    ASSUME NEW own \in Seq(Contents), NEW m, MachineOf(m, own), NEW n \in Nat,
           NEW r, r = [m EXCEPT !.got = n]
    PROVE  MachineOf(r, own) /\ Keeps(r, m) /\ r.f = m.f /\ r.c = m.c /\ r.sc = m.sc /\ r.got = n
           /\ r.hit = m.hit /\ r.res = m.res
<1>1. m \in MachineSet /\ FileOf(m.f, m.f.img) /\ CacheOf(m.c, m.c.id, m.f.img) /\ ScOf(m.sc, own)
  BY MachineFacts
<1>2. r \in MachineSet /\ r.f = m.f /\ r.c = m.c /\ r.sc = m.sc /\ r.io = m.io /\ r.hit = m.hit /\ r.res = m.res /\ r.got = n
  BY <1>1 DEF MachineSet
<1>3. Keeps(r, m)
  BY <1>2 DEF Keeps
<1>4. MachineOf(r, own)
  BY <1>1, <1>2, <1>3, MachineMade
<1> QED BY <1>2, <1>3, <1>4

\* A machine with another stream cache.
LEMMA MachineSc ==
    ASSUME NEW own \in Seq(Contents), NEW m, MachineOf(m, own), NEW x \in Saved, ScOf(x, own),
           NEW r, r = [m EXCEPT !.sc = x]
    PROVE  MachineOf(r, own) /\ Keeps(r, m) /\ r.f = m.f /\ r.c = m.c /\ r.sc = x /\ r.got = m.got
           /\ r.hit = m.hit /\ r.res = m.res
<1>1. m \in MachineSet /\ FileOf(m.f, m.f.img) /\ CacheOf(m.c, m.c.id, m.f.img)
  BY MachineFacts
<1>2. r \in MachineSet /\ r.f = m.f /\ r.c = m.c /\ r.sc = x /\ r.io = m.io /\ r.hit = m.hit /\ r.res = m.res /\ r.got = m.got
  BY <1>1 DEF MachineSet
<1>3. Keeps(r, m)
  BY <1>2 DEF Keeps
<1>4. MachineOf(r, own)
  BY <1>1, <1>2, <1>3, MachineMade
<1> QED BY <1>2, <1>3, <1>4

\* A machine that fails.
LEMMA MachineFails ==
    ASSUME NEW own \in Seq(Contents), NEW m, MachineOf(m, own), NEW r, r \in {Fail(m), Hit(m)}
    PROVE  MachineOf(r, own) /\ Keeps(r, m) /\ r.f = m.f /\ r.c = m.c /\ r.sc = m.sc /\ r.got = m.got /\ r.res = "EIO"
<1>1. m \in MachineSet /\ FileOf(m.f, m.f.img) /\ CacheOf(m.c, m.c.id, m.f.img) /\ ScOf(m.sc, own)
  BY MachineFacts
<1>2. r \in MachineSet /\ r.f = m.f /\ r.c = m.c /\ r.sc = m.sc /\ r.io = m.io /\ r.got = m.got /\ r.res = "EIO"
  <2>1. CASE r = Fail(m)
    BY <1>1, <2>1 DEF MachineSet, Fail
  <2>2. CASE r = Hit(m)
    BY <1>1, <2>2 DEF MachineSet, Hit
  <2> QED BY <2>1, <2>2
<1>3. Keeps(r, m)
  BY <1>2 DEF Keeps
<1>4. MachineOf(r, own)
  BY <1>1, <1>2, <1>3, MachineMade
<1> QED BY <1>2, <1>3, <1>4

\* One operation after another.
LEMMA KeepsOn ==
    ASSUME NEW a, NEW b, NEW c, Keeps(b, a), Keeps(c, b)
    PROVE  Keeps(c, a)
  BY DEF Keeps

\* A cache with another size.
LEMMA SizeSet ==
    ASSUME NEW c, NEW i, NEW im, CacheOf(c, i, im), NEW n \in Int, NEW r, r = [c EXCEPT !.size = n]
    PROVE  CacheOf(r, i, im) /\ r.size = n
<1>1. /\ r \in CacheSet /\ r.id = c.id /\ r.size = n /\ (fmt \in {"z", "bz", "lz"} => r.indexes = c.indexes)
  <2>1. CASE fmt = "z"
    BY <2>1 DEF CacheOf, CacheIs, CacheSet, InIndexOf, CachesFor, GzCaches
  <2>2. CASE fmt = "lz"
    BY <2>2 DEF CacheOf, CacheIs, CacheSet, InIndexOf, CachesFor, LzCaches
  <2>3. CASE fmt = "bz"
    BY <2>3 DEF CacheOf, CacheIs, CacheSet, InIndexOf, CachesFor, BzCaches
  <2>4. CASE fmt \notin {"z", "bz", "lz"}
    BY <2>4 DEF CacheOf, CacheIs, CacheSet, InIndexOf, CachesFor, PlainCaches
  <2> QED BY <2>1, <2>2, <2>3, <2>4
<1> QED BY <1>1 DEF CacheOf, CacheIs, CacheSet, InIndexOf

\* The end of the file is noted, and its size.
LEMMA EofNoted ==
    ASSUME NEW own \in Seq(Contents), NEW m, MachineOf(m, own),
           NEW r, r = [m EXCEPT !.f.iseof = TRUE, !.c.size = m.f.s.out]
    PROVE  MachineOf(r, own) /\ Keeps(r, m)
<1>1. PICK im : im = m.f.img
  OBVIOUS
<1>2. m \in MachineSet /\ m.f \in Files /\ FileOf(m.f, im) /\ CacheOf(m.c, m.c.id, im) /\ m.f.s \in StreamSet
  BY <1>1, MachineFacts
<1>3. PICK h : h = [m.f EXCEPT !.iseof = TRUE]
  OBVIOUS
<1>4. FileOf(h, im) /\ h.id = m.f.id
  <2>1. /\ h \in Files /\ h.s = m.f.s /\ h.img = m.f.img /\ h.id = m.f.id
        /\ fmt = "lz" => h.dec = m.f.dec /\ h.total_in = m.f.total_in /\ h.last_member_pos = m.f.last_member_pos
        /\ fmt = "zst" => h.total_in = m.f.total_in /\ h.inBuffer = m.f.inBuffer
    BY <1>2, <1>3, EofPut
  <2> QED BY <2>1, <1>2, FileSame
<1>5. PICK y : y = [m EXCEPT !.f = h]
  OBVIOUS
<1>6. MachineOf(y, own) /\ Keeps(y, m) /\ y.f = h /\ y.c = m.c
  BY <1>1, <1>4, <1>5, MachineFile
<1>7. PICK n \in Int : n = m.f.s.out
  BY <1>2 DEF StreamSet
<1>8. PICK c : c = [m.c EXCEPT !.size = n]
  OBVIOUS
<1>9. CacheOf(c, y.c.id, y.f.img)
  <2>1. y.c.id = m.c.id /\ y.f.img = im
    BY <1>4, <1>6 DEF FileOf, FileIs, Files
  <2> QED BY <2>1, <1>2, <1>8, SizeSet
<1>10. r = [y EXCEPT !.c = c]
  BY <1>2, <1>3, <1>5, <1>7, <1>8 DEF MachineSet
<1>11. MachineOf(r, own) /\ Keeps(r, y)
  BY <1>6, <1>9, <1>10, MachineCache
<1> QED BY <1>6, <1>11, KeepsOn

----------------------------------------------------------------------------
(* zstd.                                                                   *)

\* The files of zstd.
LEMMA ZstSets ==
    ASSUME fmt = "zst"
    PROVE  /\ Files = ZstFiles
           /\ \A f, im : FileOf(f, im) <=> f \in ZstFiles /\ f.img = im /\ StreamOf(f.s, im) /\ ZstPlaced(f)
<1>1. fmt # "z" /\ fmt # "lz"
  OBVIOUS
<1> QED BY <1>1 DEF Files, FilesFor, FileOf, FileIs

\* The numbers of a file.
LEMMA ZstNumbers ==
    ASSUME NEW f \in ZstFiles
    PROVE  f.total_in \in Nat /\ f.inBuffer.size \in Nat /\ f.inBuffer.pos \in Nat /\ f.s.in \in Nat /\ f.s.out \in Nat
           /\ Len(f.img) \in Nat
  BY DEF ZstFiles, Buffers, StreamSet, Texts

\* A file with another stream and buffer.
ZstFile(f, s, t, b) == [f EXCEPT !.s = s, !.total_in = t, !.inBuffer = b]

\* A file of zstd with another stream, offset and buffer.
LEMMA ZstPut ==
    ASSUME fmt = "zst", NEW im, NEW f \in ZstFiles, f.img = im, NEW s, StreamOf(s, im), NEW t \in Nat,
           NEW b \in Buffers, ZstAt(s, t, b, im), NEW g, g = ZstFile(f, s, t, b)
    PROVE  FileOf(g, im) /\ g.s = s /\ g.total_in = t /\ g.inBuffer = b /\ g.id = f.id
<1>1. s \in StreamSet
  BY DEF StreamOf
<1>2. g \in ZstFiles /\ g.s = s /\ g.total_in = t /\ g.inBuffer = b /\ g.id = f.id /\ g.img = im
  BY <1>1 DEF ZstFiles, ZstFile
<1>3. ZstPlaced(g)
  BY <1>2 DEF ZstPlaced
<1>4. StreamOf(g.s, im)
  BY <1>2
<1>5. FileOf(g, im)
  BY <1>2, <1>3, <1>4, ZstSets
<1> QED BY <1>2, <1>5

\* A new file.
LEMMA ZstNew ==
    ASSUME fmt = "zst", NEW im \in Texts, NEW g, g = av_zstdfile_new(im)
    PROVE  FileOf(g, im) /\ g.id = 0
<1>1. StreamOf(Fresh(im), im) /\ Fresh(im).avail = 0 /\ Fresh(im).in = 0
  BY FreshStream
<1>2. NoInput \in Buffers /\ NoInput.size = 0 /\ NoInput.pos = 0
  BY DEF NoInput, Buffers
<1>3. Fresh(im) \in StreamSet
  BY <1>1 DEF StreamOf
<1>4. PICK s \in StreamSet, b \in Buffers : s = Fresh(im) /\ b = NoInput
  BY <1>2, <1>3
<1>41. g = [img |-> im, s |-> s, iseof |-> FALSE, iserror |-> FALSE, id |-> 0, total_in |-> 0, inBuffer |-> b]
  BY <1>4 DEF av_zstdfile_new, zstd_new_stream
<1>5. g \in ZstFiles /\ g.s = s /\ g.total_in = 0 /\ g.inBuffer = b /\ g.id = 0 /\ g.img = im
  BY <1>41 DEF ZstFiles
<1>6. Len(im) \in Nat /\ InBuf \in Nat
  BY BufferNat DEF Texts
<1>7. ZstPlaced(g)
  BY <1>1, <1>2, <1>4, <1>5, <1>6 DEF ZstPlaced, ZstAt
<1> QED BY <1>1, <1>4, <1>5, <1>7, ZstSets

\* The file begins anew.
LEMMA ZstReset ==
    ASSUME fmt = "zst", NEW own \in Seq(Contents), NEW m, MachineOf(m, own), NEW r, r = zstdfile_reset(m)
    PROVE  MachineOf(r, own) /\ Keeps(r, m)
<1>1. PICK im \in Texts : im = m.f.img
  BY MachineFacts
<1>2. m \in MachineSet /\ m.f \in ZstFiles
  BY MachineFacts, ZstSets
<1>3. PICK s : s = Fresh(im)
  OBVIOUS
<1>4. StreamOf(s, im) /\ s.avail = 0 /\ s.in = 0 /\ s \in StreamSet
  BY <1>3, FreshStream DEF StreamOf
<1>5. NoInput \in Buffers /\ NoInput.size = 0 /\ NoInput.pos = 0
  BY DEF NoInput, Buffers
<1>6. PICK b \in Buffers : b = NoInput
  BY <1>5
<1>7. PICK e : e = [m.f EXCEPT !.iseof = FALSE, !.iserror = FALSE]
  OBVIOUS
<1>8. e \in ZstFiles /\ e.img = im /\ e.id = m.f.id
  BY <1>1, <1>2, <1>7 DEF ZstFiles
<1>9. PICK g : g = ZstFile(e, s, 0, b)
  OBVIOUS
<1>10. Len(im) \in Nat /\ InBuf \in Nat
  BY BufferNat DEF Texts
<1>11. FileOf(g, im) /\ g.id = m.f.id
  <2>1. ZstAt(s, 0, b, im) /\ 0 \in Nat
    BY <1>4, <1>5, <1>6, <1>10 DEF ZstAt
  <2>2. FileOf(g, im) /\ g.id = e.id
    BY <2>1, <1>4, <1>8, <1>9, ZstPut
  <2> QED BY <2>2, <1>8
<1>12. g = [m.f EXCEPT !.s = s, !.iseof = FALSE, !.iserror = FALSE, !.total_in = 0, !.inBuffer = b]
  BY <1>2, <1>7, <1>9 DEF ZstFiles, ZstFile
<1>13. r = [m EXCEPT !.f = g]
  BY <1>1, <1>2, <1>3, <1>6, <1>12 DEF zstdfile_reset, zstd_new_stream, MachineSet, ZstFiles
<1> QED BY <1>1, <1>11, <1>13, MachineFile

\* A buffer that has been used up is thrown away.
LEMMA ZstUnused ==
    ASSUME fmt = "zst", NEW im \in Texts, NEW f, FileOf(f, im), f.inBuffer.pos = f.inBuffer.size,
           NEW g, g = zstd_unused(f)
    PROVE  FileOf(g, im) /\ g.s = f.s /\ g.id = f.id /\ g.total_in = f.s.in /\ g.inBuffer.size = 0 /\ g.inBuffer.pos = 0
<1>1. f \in ZstFiles /\ f.img = im /\ StreamOf(f.s, im) /\ ZstPlaced(f)
  BY ZstSets
<1>2. PICK t \in Nat, z \in Nat, i \in Nat, l \in Nat : t = f.total_in /\ z = f.inBuffer.size /\ i = f.s.in /\ l = Len(im)
  BY <1>1, ZstNumbers
<1>3. t + z = i /\ t + z <= l /\ f.s.avail = 0 /\ InBuf \in Nat
  BY <1>1, <1>2, BufferNat DEF ZstPlaced, ZstAt
<1>4. CASE z = 0
  <2>1. g = f
    BY <1>2, <1>4 DEF zstd_unused
  <2> QED BY <2>1, <1>2, <1>3, <1>4
<1>5. CASE z # 0
  <2>1. PICK b : b = [size |-> 0, pos |-> 0]
    OBVIOUS
  <2>2. b \in Buffers /\ b.size = 0 /\ b.pos = 0
    BY <2>1 DEF Buffers
  <2>3. z > 0 /\ z - z = 0
    BY <1>5
  <2>4. g = [f EXCEPT !.total_in = i, !.inBuffer = b]
    BY <2>1, <2>3, <1>1, <1>2, <1>3 DEF zstd_unused, ZstFiles
  <2>5. g = ZstFile(f, f.s, i, b)
    BY <2>4, <1>1 DEF ZstFiles, ZstFile
  <2>6. ZstAt(f.s, i, b, im)
    BY <2>2, <1>2, <1>3 DEF ZstAt
  <2>7. FileOf(g, im) /\ g.s = f.s /\ g.total_in = i /\ g.inBuffer = b /\ g.id = f.id
    BY <2>2, <2>5, <2>6, <1>1, <1>3, ZstPut
  <2> QED BY <2>2, <2>7, <1>2
<1> QED BY <1>4, <1>5

\* The buffer is filled.
LEMMA ZstFill ==
    ASSUME fmt = "zst", NEW own \in Seq(Contents), NEW m, MachineOf(m, own), m.f.inBuffer.pos = m.f.inBuffer.size,
           NEW r, r = zstdfile_fill_inbuf(m)
    PROVE  MachineOf(r, own) /\ Keeps(r, m) /\ r.f.s = m.f.s
<1>1. PICK im \in Texts : im = m.f.img
  BY MachineFacts
<1>2. m \in MachineSet /\ FileOf(m.f, im)
  BY <1>1, MachineFacts
<1>3. PICK u : u = zstd_unused(m.f)
  OBVIOUS
<1>4. FileOf(u, im) /\ u.s = m.f.s /\ u.id = m.f.id /\ u.total_in = m.f.s.in /\ u.inBuffer.size = 0 /\ u.inBuffer.pos = 0
  BY <1>2, <1>3, ZstUnused
<1>5. PICK a : a = [m EXCEPT !.f = u]
  OBVIOUS
<1>6. MachineOf(a, own) /\ Keeps(a, m) /\ a.f = u /\ a.c = m.c
  BY <1>1, <1>4, <1>5, MachineFile
<1>7. CASE m.io = "read"
  <2>1. r = Hit(a)
    BY <1>3, <1>5, <1>7 DEF zstdfile_fill_inbuf
  <2>2. MachineOf(r, own) /\ Keeps(r, a) /\ r.f = a.f
    BY <2>1, <1>6, MachineFails
  <2> QED BY <2>2, <1>4, <1>6, KeepsOn
<1>8. CASE m.io # "read"
  <2>1. u \in ZstFiles /\ u.img = im /\ StreamOf(u.s, im) /\ ZstPlaced(u)
    BY <1>4, ZstSets
  <2>2. PICK l \in Nat, i \in Nat, n \in Nat : l = Len(im) /\ i = u.s.in /\ n = InBuf
    BY <2>1, BufferNat, ZstNumbers
  <2>3. u.s.avail = 0 /\ i <= l /\ u.total_in = i
    BY <2>1, <2>2, <1>4 DEF ZstPlaced, ZstAt
  <2>4. PICK w \in Nat : w = l - i
    BY <2>3
  <2>5. Max({0, w}) = w
    <3>1. {0, w} \subseteq 0 .. w /\ {0, w} # {}
      OBVIOUS
    <3>2. Max({0, w}) \in {0, w} /\ \A j \in {0, w} : Max({0, w}) >= j
      BY <3>1, MaxOfBounded
    <3> QED BY <3>2
  <2>6. PICK z \in Nat : z = 0 + Lesser(n - 0, w) /\ z <= n /\ z <= w
    <3>1. Lesser(n - 0, w) \in Nat /\ Lesser(n - 0, w) <= n /\ Lesser(n - 0, w) <= w
      BY DEF Lesser
    <3> QED BY <3>1
  <2>7. PICK b : b = [size |-> z, pos |-> 0]
    OBVIOUS
  <2>8. b \in Buffers /\ b.size = z /\ b.pos = 0
    BY <2>7 DEF Buffers
  <2>9. PICK g : g = [u EXCEPT !.inBuffer = b]
    OBVIOUS
  <2>10. g = ZstFile(u, u.s, i, b)
    BY <2>1, <2>3, <2>9 DEF ZstFiles, ZstFile
  <2>11. ZstAt(u.s, i, b, im)
    BY <2>2, <2>3, <2>4, <2>6, <2>8 DEF ZstAt
  <2>12. FileOf(g, im) /\ g.s = u.s /\ g.id = u.id
    BY <2>1, <2>3, <2>8, <2>10, <2>11, ZstPut
  <2>13. r = [a EXCEPT !.f.inBuffer = b]
    <3>1. a.f.inBuffer.size = 0 /\ a.f.total_in = i /\ Len(m.f.img) = l /\ InBuf = n
      BY <1>1, <1>4, <1>6, <2>2, <2>3
    <3> QED BY <3>1, <1>3, <1>5, <1>8, <2>4, <2>5, <2>6, <2>7 DEF zstdfile_fill_inbuf
  <2>14. r = [a EXCEPT !.f = g]
    <3>1. a \in MachineSet
      BY <1>6, MachineFacts
    <3> QED BY <3>1, <2>9, <2>13, <1>6 DEF MachineSet
  <2>15. MachineOf(r, own) /\ Keeps(r, a) /\ r.f = g
    <3>1. a.f.img = im /\ g.id = a.f.id
      BY <2>1, <2>12, <1>6
    <3> QED BY <3>1, <2>12, <2>14, <1>6, MachineFile
  <2> QED BY <2>12, <2>15, <1>4, <1>6, KeepsOn
<1> QED BY <1>7, <1>8

\* One call of the decoder.
LEMMA ZstDecompress ==
    ASSUME fmt = "zst", NEW own \in Seq(Contents), NEW m, MachineOf(m, own), NEW room \in Int,
           NEW r, r = zstdfile_decompress(m, room)
    PROVE  MachineOf(r, own) /\ Keeps(r, m)
<1>1. PICK a : a = IF m.f.inBuffer.pos = m.f.inBuffer.size THEN zstdfile_fill_inbuf(m) ELSE m
  OBVIOUS
<1>2. MachineOf(a, own) /\ Keeps(a, m)
  <2>1. CASE m.f.inBuffer.pos = m.f.inBuffer.size
    BY <1>1, <2>1, ZstFill
  <2>2. CASE m.f.inBuffer.pos # m.f.inBuffer.size
    BY <1>1, <2>2 DEF Keeps
  <2> QED BY <2>1, <2>2
<1>3. r = zstd_decoded(a, room)
  BY <1>1 DEF zstdfile_decompress
<1>4. PICK im \in Texts : im = a.f.img
  BY <1>2, MachineFacts
<1>5. PICK f \in ZstFiles : f = a.f
  BY <1>2, MachineFacts, ZstSets
<1>6. a \in MachineSet /\ FileOf(f, im) /\ f.img = im /\ StreamOf(f.s, im) /\ ZstPlaced(f) /\ CacheOf(a.c, a.c.id, im)
  BY <1>2, <1>4, <1>5, MachineFacts, ZstSets
<1>7. PICK t \in Nat, z \in Nat, q \in Nat, i \in Nat, l \in Nat :
        t = f.total_in /\ z = f.inBuffer.size /\ q = f.inBuffer.pos /\ i = f.s.in /\ l = Len(im)
  BY <1>5, <1>6, ZstNumbers
<1>8. t + q = i /\ q <= z /\ t + z <= l /\ z <= InBuf /\ f.s.avail = 0 /\ InBuf \in Nat
  BY <1>6, <1>7, BufferNat DEF ZstPlaced, ZstAt
<1>9. PICK v \in Nat : v = z - q
  BY <1>8
<1>10. PICK k : k = Take(im, i, v, room)
  OBVIOUS
<1>11. k \in 0 .. v /\ Data(im, i, k) \in Nat
  BY <1>10, TakeBounds
<1>111. k \in Nat /\ k <= v
  BY <1>11
<1>112. i + k <= l /\ q + k <= z /\ t + (q + k) = i + k
  BY <1>8, <1>9, <1>111
<1>12. PICK d \in Nat : d = Data(im, i, k)
  BY <1>11
<1>13. PICK b : b = [a EXCEPT !.f.inBuffer.pos = @ + k, !.f.s = Moved(@, k, d), !.got = d]
  OBVIOUS
<1>14. r = IF a.res # "ok" \/ k = 0 THEN Fail(a)
           ELSE IF AtEnd(im, i + k) THEN [b EXCEPT !.f.iseof = TRUE, !.c.size = b.f.s.out] ELSE b
  <2>1. a.f.total_in + a.f.inBuffer.pos = i /\ a.f.inBuffer.size - a.f.inBuffer.pos = v
    BY <1>5, <1>7, <1>8, <1>9
  <2> QED BY <2>1, <1>3, <1>4, <1>10, <1>12, <1>13 DEF zstd_decoded
<1>15. CASE a.res # "ok" \/ k = 0
  <2>1. r = Fail(a)
    BY <1>14, <1>15
  <2>2. MachineOf(r, own) /\ Keeps(r, a)
    BY <2>1, <1>2, MachineFails
  <2> QED BY <2>2, <1>2, KeepsOn
<1>16. CASE ~(a.res # "ok" \/ k = 0)
  <2>1. PICK s : s = Moved(f.s, k, d)
    OBVIOUS
  <2>2. s \in StreamSet /\ s.in = i + k /\ s.out = f.s.out + d /\ s.avail = 0 /\ StreamOf(s, im)
    <3>1. f.s.in + k <= Len(im)
      BY <1>7, <1>112
    <3>2. d = Data(im, f.s.in, k)
      BY <1>7, <1>12
    <3>3. StreamOf(f.s, im) /\ f.s.avail = 0 /\ k \in Nat /\ d \in Nat
      BY <1>6, <1>8, <1>111
    <3>4. /\ s \in StreamSet /\ s.in = f.s.in + k /\ s.out = f.s.out + d /\ s.avail = 0 /\ StreamOf(s, im)
      BY <3>1, <3>2, <3>3, <2>1, StreamMoves
    <3> QED BY <3>4, <1>7
  <2>3. PICK w \in Nat : w = q + k
    BY <1>111
  <2>4. PICK u : u = [f.inBuffer EXCEPT !.pos = w]
    OBVIOUS
  <2>5. u \in Buffers /\ u.size = z /\ u.pos = w
    BY <2>4, <1>7 DEF ZstFiles, Buffers
  <2>6. PICK g : g = ZstFile(f, s, t, u)
    OBVIOUS
  <2>7. FileOf(g, im) /\ g.s = s /\ g.id = f.id /\ g \in ZstFiles
    <3>1. ZstAt(s, t, u, im)
      BY <2>2, <2>3, <2>5, <1>7, <1>8, <1>112 DEF ZstAt
    <3>2. FileOf(g, im) /\ g.s = s /\ g.id = f.id
      BY <3>1, <2>2, <2>5, <2>6, <1>6, ZstPut
    <3> QED BY <3>2, ZstSets
  <2>8. PICK e : e = [a EXCEPT !.f = g]
    OBVIOUS
  <2>9. MachineOf(e, own) /\ Keeps(e, a) /\ e.f = g /\ e.c = a.c
    BY <2>7, <2>8, <1>2, <1>4, <1>5, MachineFile
  <2>10. b = [e EXCEPT !.got = d]
    <3>1. g = [f EXCEPT !.inBuffer.pos = w, !.s = s]
      BY <2>4, <2>6, <1>7 DEF ZstFiles, ZstFile
    <3>2. b = [a EXCEPT !.f.inBuffer.pos = w, !.f.s = s, !.got = d]
      BY <1>5, <1>7, <1>13, <2>1, <2>3
    <3>3. b = [a EXCEPT !.f = g, !.got = d]
      BY <3>1, <3>2, <1>5, <1>6 DEF MachineSet
    <3> QED BY <3>3, <2>8, <1>6 DEF MachineSet
  <2>11. MachineOf(b, own) /\ Keeps(b, e) /\ b.f = g /\ b.c = a.c
    BY <2>9, <2>10, MachineGot
  <2>12. Keeps(b, m)
    BY <2>9, <2>11, <1>2, KeepsOn
  <2>13. CASE ~AtEnd(im, i + k)
    <3>1. r = b
      BY <2>13, <1>14, <1>16
    <3> QED BY <3>1, <2>11, <2>12
  <2>14. CASE AtEnd(im, i + k)
    <3>1. r = [b EXCEPT !.f.iseof = TRUE, !.c.size = s.out]
      BY <2>7, <2>11, <2>14, <1>14, <1>16
    <3>2. PICK h : h = [g EXCEPT !.iseof = TRUE]
      OBVIOUS
    <3>3. FileOf(h, im) /\ h.id = g.id
      <4>1. g \in Files
        BY <2>7, ZstSets
      <4>2. /\ h \in Files /\ h.s = g.s /\ h.img = g.img /\ h.id = g.id
            /\ fmt = "lz" => h.dec = g.dec /\ h.total_in = g.total_in /\ h.last_member_pos = g.last_member_pos
            /\ fmt = "zst" => h.total_in = g.total_in /\ h.inBuffer = g.inBuffer
        BY <3>2, <4>1, EofPut
      <4> QED BY <4>2, <2>7, FileSame
    <3>4. PICK y : y = [b EXCEPT !.f = h]
      OBVIOUS
    <3>5. MachineOf(y, own) /\ Keeps(y, b) /\ y.f = h /\ y.c = a.c
      <4>1. b.f.img = im /\ h.id = b.f.id
        BY <3>3, <2>7, <2>11 DEF FileOf, FileIs, Files
      <4> QED BY <4>1, <3>3, <3>4, <2>11, MachineFile
    <3>6. PICK c : c = [a.c EXCEPT !.size = s.out]
      OBVIOUS
    <3>7. CacheOf(c, y.c.id, y.f.img)
      <4>1. s.out \in Int /\ fmt \in {"xz", "zst"}
        BY <2>2 DEF StreamSet
      <4>2. CacheOf(c, a.c.id, im)
        BY <4>1, <3>6, <1>6, SizePut
      <4> QED BY <4>2, <3>3, <3>5 DEF FileOf, FileIs, Files
    <3>8. r = [y EXCEPT !.c = c]
      <4>1. b \in MachineSet
        BY <2>11, MachineFacts
      <4> QED BY <4>1, <3>1, <3>2, <3>4, <3>6, <2>11 DEF MachineSet
    <3>9. MachineOf(r, own) /\ Keeps(r, y)
      BY <3>5, <3>7, <3>8, MachineCache
    <3> QED BY <3>5, <3>9, <2>12, KeepsOn
  <2> QED BY <2>13, <2>14
<1> QED BY <1>15, <1>16
----------------------------------------------------------------------------
(* lzip.                                                                   *)

\* The sets of lzip.
LEMMA LzSets ==
    ASSUME fmt = "lz"
    PROVE  /\ Files = LzFiles /\ CacheSet = LzCaches
           /\ \A f, im : FileOf(f, im) <=> f \in LzFiles /\ f.img = im /\ StreamOf(f.s, im) /\ LzPlaced(f)
           /\ \A c, i, im : CacheOf(c, i, im) <=>
                c \in LzCaches /\ c.id = i /\ \A k \in 1 .. Len(c.indexes) : InIndexOf(c.indexes[k], im)
<1>1. fmt # "z" /\ fmt # "bz" /\ fmt # "zst" /\ fmt \in {"bz", "lz"}
  OBVIOUS
<1> QED BY <1>1 DEF Files, FilesFor, CacheSet, CachesFor, FileOf, FileIs, CacheOf, CacheIs, InIndexOf

\* The numbers of a file.
LEMMA LzNumbers ==
    ASSUME NEW f \in LzFiles
    PROVE  f.total_in \in Nat /\ f.last_member_pos \in Nat /\ f.s.in \in Nat /\ f.s.out \in Nat /\ Len(f.img) \in Nat
           /\ f.dec.base \in Nat /\ f.dec.fed \in Nat /\ f.dec.used \in Nat /\ f.dec.pos \in Nat
  BY DEF LzFiles, Decoders, StreamSet, Texts

\* A file with another stream and decoder.
LzFile(f, s, dec, t, l) == [f EXCEPT !.s = s, !.dec = dec, !.total_in = t, !.last_member_pos = l]

\* A file of lzip with another stream, decoder and offsets.
LEMMA LzPut ==
    ASSUME fmt = "lz", NEW im, NEW f \in LzFiles, f.img = im, f.id = 0, NEW s, StreamOf(s, im), NEW dec \in Decoders,
           NEW t \in Nat, NEW l \in Nat, LzAt(s, dec, t, l, im), NEW g, g = LzFile(f, s, dec, t, l)
    PROVE  FileOf(g, im) /\ g.s = s /\ g.dec = dec /\ g.total_in = t /\ g.last_member_pos = l /\ g.id = 0
<1>1. s \in StreamSet
  BY DEF StreamOf
<1>2. g \in LzFiles /\ g.s = s /\ g.dec = dec /\ g.total_in = t /\ g.last_member_pos = l /\ g.id = 0 /\ g.img = im
  BY <1>1 DEF LzFiles, LzFile
<1>3. LzPlaced(g)
  BY <1>2 DEF LzPlaced
<1>4. StreamOf(g.s, im)
  BY <1>2
<1>5. FileOf(g, im)
  BY <1>2, <1>3, <1>4, LzSets
<1> QED BY <1>2, <1>5

\* A decoder made at a place.
LEMMA LzDecoder ==
    ASSUME NEW at \in Nat
    PROVE  LET d == lzip_new_decoder(at)
           IN d \in Decoders /\ d.base = at /\ d.fed = 0 /\ d.used = 0 /\ d.pos = 0
  BY DEF lzip_new_decoder, Decoders

\* A decoder made at the place of the stream is placed.
LEMMA LzStarts ==
    ASSUME NEW im \in Texts, NEW s, StreamOf(s, im), s.avail = 0, NEW at \in Nat, s.in = at
    PROVE  LzAt(s, lzip_new_decoder(at), at, at, im)
<1>1. PICK d : d = lzip_new_decoder(at) /\ d.base = at /\ d.fed = 0 /\ d.used = 0 /\ d.pos = 0
  BY LzDecoder
<1>2. PICK l \in Nat, b \in Nat : l = Len(im) /\ b = InBuf
  BY BufferNat DEF Texts
<1>3. at <= l
  <2>1. s.in + s.avail <= Len(im)
    BY DEF StreamOf
  <2> QED BY <2>1, <1>2
<1> QED BY <1>1, <1>2, <1>3 DEF LzAt

\* A new file.
LEMMA LzNew ==
    ASSUME fmt = "lz", NEW im \in Texts, NEW g, g = av_lzipfile_new(im)
    PROVE  FileOf(g, im) /\ g.id = 0
<1>1. StreamOf(Fresh(im), im) /\ Fresh(im).avail = 0 /\ Fresh(im).in = 0
  BY FreshStream
<1>2. Fresh(im) \in StreamSet
  BY <1>1 DEF StreamOf
<1>3. LzAt(Fresh(im), lzip_new_decoder(0), 0, 0, im) /\ lzip_new_decoder(0) \in Decoders
  BY <1>1, LzStarts, LzDecoder
<1>4. PICK s \in StreamSet, d \in Decoders : s = Fresh(im) /\ d = lzip_new_decoder(0)
  BY <1>2, <1>3
<1>5. g = [img |-> im, s |-> s, iseof |-> FALSE, iserror |-> FALSE, id |-> 0, dec |-> d, total_in |-> 0,
           last_member_pos |-> 0]
  BY <1>4 DEF av_lzipfile_new
<1>6. g \in LzFiles /\ g.s = s /\ g.total_in = 0 /\ g.last_member_pos = 0 /\ g.dec = d /\ g.id = 0 /\ g.img = im
  BY <1>5 DEF LzFiles
<1>7. LzPlaced(g)
  BY <1>3, <1>4, <1>6 DEF LzPlaced
<1>8. StreamOf(g.s, im)
  BY <1>1, <1>4, <1>6
<1> QED BY <1>6, <1>7, <1>8, LzSets

\* The file begins anew.
LEMMA LzReset ==
    ASSUME fmt = "lz", NEW own \in Seq(Contents), NEW m, MachineOf(m, own), NEW r, r = lzipfile_reset(m)
    PROVE  MachineOf(r, own) /\ Keeps(r, m) /\ r.c = m.c /\ r.res = m.res
<1>1. PICK im \in Texts : im = m.f.img
  BY MachineFacts
<1>2. m \in MachineSet /\ m.f \in LzFiles /\ FileOf(m.f, im)
  BY <1>1, MachineFacts, LzSets
<1>3. PICK s : s = Fresh(im)
  OBVIOUS
<1>4. StreamOf(s, im) /\ s.avail = 0 /\ s.in = 0
  BY <1>3, FreshStream
<1>5. PICK d \in Decoders : d = lzip_new_decoder(0)
  BY LzDecoder
<1>6. LzAt(s, d, 0, 0, im) /\ 0 \in Nat
  BY <1>4, <1>5, LzStarts
<1>7. PICK e : e = [m.f EXCEPT !.iseof = FALSE, !.iserror = FALSE]
  OBVIOUS
<1>8. e \in LzFiles /\ e.img = im /\ e.id = m.f.id /\ e.id = 0
  <2>1. m.f.id = 0
    BY <1>2, LzSets DEF LzPlaced
  <2> QED BY <1>1, <1>2, <1>7, <2>1 DEF LzFiles
<1>9. PICK g : g = LzFile(e, s, d, 0, 0)
  OBVIOUS
<1>10. FileOf(g, im) /\ g.id = m.f.id
  BY <1>4, <1>6, <1>8, <1>9, LzPut
<1>11. r = [m EXCEPT !.f = g]
  <2>1. g = [m.f EXCEPT !.dec = d, !.s = s, !.iseof = FALSE, !.iserror = FALSE, !.total_in = 0, !.last_member_pos = 0]
    BY <1>2, <1>7, <1>9 DEF LzFiles, LzFile
  <2>2. r = [m EXCEPT !.f.dec = d, !.f.s = s, !.f.iseof = FALSE, !.f.iserror = FALSE, !.f.total_in = 0,
                      !.f.last_member_pos = 0]
    BY <1>1, <1>3, <1>5 DEF lzipfile_reset
  <2> QED BY <2>1, <2>2, <1>2 DEF MachineSet
<1> QED BY <1>1, <1>10, <1>11, MachineFile DEF Others

\* An index is saved at the start of a member.
LEMMA LzSaveIndex ==
    ASSUME fmt = "lz", NEW own \in Seq(Contents), NEW m, MachineOf(m, own), m.f.dec.pos = 0,
           NEW r, r = lzipfile_save_index(m)
    PROVE  MachineOf(r, own) /\ Keeps(r, m) /\ r.f = m.f
<1>1. PICK im \in Texts : im = m.f.img
  BY MachineFacts
<1>2. m \in MachineSet /\ m.f \in LzFiles /\ StreamOf(m.f.s, im) /\ LzPlaced(m.f) /\ m.f.img = im
  BY <1>1, MachineFacts, LzSets
<1>3. m.c \in LzCaches /\ \A k \in 1 .. Len(m.c.indexes) : InIndexOf(m.c.indexes[k], im)
  BY <1>1, MachineFacts, LzSets
<1>4. PICK i \in Nat, o \in Nat, l \in Nat, n \in Nat :
        i = m.f.s.in /\ o = m.f.s.out /\ l = m.f.last_member_pos /\ n = Len(im)
  BY <1>2, LzNumbers
<1>5. l = i /\ i <= n /\ o = Data(im, 0, l)
  <2>1. l + 0 = i /\ m.f.s.avail = 0
    BY <1>2, <1>4 DEF LzPlaced, LzAt
  <2>2. i + 0 <= n /\ o = Data(im, 0, i)
    BY <2>1, <1>2, <1>4 DEF StreamOf
  <2> QED BY <2>1, <2>2
<1>6. PICK x : x = [off |-> o, in |-> l]
  OBVIOUS
<1>7. x \in InIndexes /\ InIndexOf(x, im)
  BY <1>4, <1>5, <1>6 DEF InIndexes, InIndexOf, InIndexIs
<1>8. PICK q : q = Append(m.c.indexes, x)
  OBVIOUS
<1>9. q \in Seq(InIndexes) /\ \A k \in 1 .. Len(q) : InIndexOf(q[k], im)
  <2>1. PICK v \in Seq(InIndexes) : v = m.c.indexes
    BY <1>3 DEF LzCaches
  <2>2. q \in Seq(InIndexes) /\ Len(q) = Len(v) + 1 /\ q[Len(v) + 1] = x /\ \A k \in 1 .. Len(v) : q[k] = v[k]
    BY <2>1, <1>7, <1>8
  <2>3. SUFFICES ASSUME NEW k \in 1 .. Len(q) PROVE InIndexOf(q[k], im)
    BY <2>2
  <2>4. k \in 1 .. Len(v) \/ k = Len(v) + 1
    BY <2>2
  <2> QED BY <2>1, <2>2, <2>4, <1>3, <1>7
<1>10. PICK e \in Nat : e = m.c.nextindex + IndexDistance
  <2>1. m.c.nextindex \in Nat /\ IndexDistance \in Nat
    BY <1>3, StreamsAssumption DEF LzCaches
  <2> QED BY <2>1
<1>11. PICK c : c = [m.c EXCEPT !.indexes = q, !.nextindex = e]
  OBVIOUS
<1>12. c \in LzCaches /\ c.id = m.c.id /\ c.indexes = q
  BY <1>3, <1>9, <1>10, <1>11 DEF LzCaches
<1>13. CacheOf(c, m.c.id, im)
  BY <1>9, <1>12, LzSets
<1>14. r = [m EXCEPT !.c = c]
  <2>1. r = [m EXCEPT !.c.indexes = q, !.c.nextindex = e]
    BY <1>4, <1>6, <1>8, <1>10 DEF lzipfile_save_index
  <2> QED BY <2>1, <1>2, <1>11 DEF MachineSet
<1> QED BY <1>1, <1>13, <1>14, MachineCache

\* The decoder is given what it has room for.
LEMMA LzFill ==
    ASSUME fmt = "lz", NEW own \in Seq(Contents), NEW m, MachineOf(m, own), NEW r, r = lzipfile_fill_inbuf(m)
    PROVE  MachineOf(r, own) /\ Keeps(r, m) /\ (r.res = "ok" => m.res = "ok")
<1>1. PICK im \in Texts : im = m.f.img
  BY MachineFacts
<1>2. m \in MachineSet /\ m.f \in LzFiles /\ StreamOf(m.f.s, im) /\ LzPlaced(m.f) /\ m.f.img = im
  BY <1>1, MachineFacts, LzSets
<1>3. PICK f \in LzFiles : f = m.f
  BY <1>2
<1>4. PICK t \in Nat, p \in Nat, u \in Nat, v \in Nat, n \in Nat, b \in Nat :
        t = f.total_in /\ p = f.dec.base /\ u = f.dec.used /\ v = f.dec.fed /\ n = Len(im) /\ b = InBuf
  BY <1>2, <1>3, LzNumbers, BufferNat
<1>5. /\ f.s.avail = 0 /\ p + u = f.s.in /\ u <= v /\ p + v = t /\ t <= n /\ v - u <= b /\ f.id = 0
      /\ f.last_member_pos + f.dec.pos = f.s.in
  BY <1>2, <1>3, <1>4 DEF LzPlaced, LzAt
<1>6. PICK w \in Nat : w = b - (v - u)
  BY <1>5
<1>7. PICK z \in Nat : z = Lesser(w, n - t) /\ z <= w /\ z <= n - t
  <2>1. Lesser(w, n - t) \in Nat /\ Lesser(w, n - t) <= w /\ Lesser(w, n - t) <= n - t
    BY <1>5 DEF Lesser
  <2> QED BY <2>1
<1>8. r = IF w = 0 THEN m ELSE IF m.io = "read" THEN Hit(m)
          ELSE [m EXCEPT !.f.dec.fed = @ + z, !.f.total_in = @ + z]
  BY <1>1, <1>3, <1>4, <1>6, <1>7 DEF lzipfile_fill_inbuf
<1>9. CASE w = 0
  BY <1>8, <1>9 DEF Keeps
<1>10. CASE w # 0 /\ m.io = "read"
  BY <1>8, <1>10, MachineFails
<1>11. CASE w # 0 /\ m.io # "read"
  <2>1. PICK v2 \in Nat, t2 \in Nat : v2 = v + z /\ t2 = t + z
    OBVIOUS
  <2>2. PICK d : d = [f.dec EXCEPT !.fed = v2]
    OBVIOUS
  <2>3. d \in Decoders /\ d.base = p /\ d.used = u /\ d.fed = v2 /\ d.pos = f.dec.pos
    BY <2>2, <1>4 DEF LzFiles, Decoders
  <2>4. PICK l \in Nat : l = f.last_member_pos
    BY LzNumbers
  <2>5. PICK g : g = LzFile(f, f.s, d, t2, l)
    OBVIOUS
  <2>6. u <= v2 /\ p + v2 = t2 /\ t2 <= n /\ v2 - u <= b
    <3>1. z <= w /\ z <= n - t /\ u <= v /\ p + v = t
      BY <1>5, <1>7
    <3>2. u <= v + z /\ p + (v + z) = t + z
      BY <3>1
    <3>3. t + z <= n
      BY <3>1
    <3>4. (v + z) - u <= b
      BY <3>1, <1>6
    <3> QED BY <3>2, <3>3, <3>4, <2>1
  <2>7. LzAt(f.s, d, t2, l, im)
    BY <2>3, <2>4, <2>6, <1>4, <1>5 DEF LzAt
  <2>8. f.img = im /\ StreamOf(f.s, im)
    BY <1>2, <1>3
  <2>9. FileOf(g, im) /\ g.id = 0
    BY <2>3, <2>5, <2>7, <2>8, <1>5, LzPut
  <2>10. r = [m EXCEPT !.f = g]
    <3>1. g = [f EXCEPT !.dec.fed = v2, !.total_in = t2]
      BY <2>2, <2>4, <2>5 DEF LzFiles, LzFile
    <3>2. r = [m EXCEPT !.f.dec.fed = v2, !.f.total_in = t2]
      BY <2>1, <1>3, <1>4, <1>8, <1>11
    <3> QED BY <3>1, <3>2, <1>2, <1>3 DEF MachineSet
  <2>11. FileOf(g, m.f.img) /\ g.id = m.f.id
    BY <2>9, <1>1, <1>3, <1>5
  <2>12. MachineOf(r, own) /\ Keeps(r, m) /\ Others(r, m)
    BY <2>10, <2>11, MachineFile
  <2> QED BY <2>12 DEF Others
<1> QED BY <1>9, <1>10, <1>11

\* The decoder goes on over tokens that it has been given.
LEMMA LzMoved ==
    ASSUME fmt = "lz", NEW im \in Texts, NEW f, FileOf(f, im), NEW k \in Nat, k <= f.dec.fed - f.dec.used,
           NEW d \in Nat, d = Data(im, f.s.in, k), NEW g, g = lz_moved(f, k, d)
    PROVE  FileOf(g, im) /\ g.id = f.id /\ g.dec.pos = f.dec.pos + k
<1>1. f \in LzFiles /\ StreamOf(f.s, im) /\ LzPlaced(f) /\ f.img = im
  BY LzSets
<1>2. PICK t \in Nat, p \in Nat, u \in Nat, v \in Nat, q \in Nat, l \in Nat, i \in Nat, n \in Nat :
        t = f.total_in /\ p = f.dec.base /\ u = f.dec.used /\ v = f.dec.fed /\ q = f.dec.pos
        /\ l = f.last_member_pos /\ i = f.s.in /\ n = Len(im)
  BY <1>1, LzNumbers
<1>3. f.s.avail = 0 /\ p + u = i /\ u <= v /\ p + v = t /\ t <= n /\ v - u <= InBuf /\ f.id = 0 /\ l + q = i
  BY <1>1, <1>2 DEF LzPlaced, LzAt
<1>4. PICK u2 \in Nat, q2 \in Nat, i2 \in Nat : u2 = u + k /\ q2 = q + k /\ i2 = i + k
  <2>1. u \in Nat /\ q \in Nat /\ i \in Nat /\ k \in Nat
    OBVIOUS
  <2>2. u + k \in Nat /\ q + k \in Nat /\ i + k \in Nat
    BY ONLY <2>1
  <2> QED BY ONLY <2>2, Zenon
<1>5. k <= v - u /\ InBuf \in Nat
  BY <1>2, BufferNat
<1>6. u2 <= v /\ p + u2 = i2 /\ l + q2 = i2 /\ i2 <= n /\ v - u2 <= InBuf
  BY <1>3, <1>4, <1>5
<1>7. PICK s : s = Moved(f.s, k, d)
  OBVIOUS
<1>8. s \in StreamSet /\ s.in = i2 /\ s.avail = 0 /\ StreamOf(s, im)
  <2>1. f.s.in + k <= Len(im) /\ f.s.avail = 0 /\ StreamOf(f.s, im)
    BY <1>1, <1>2, <1>3, <1>4, <1>6
  <2>2. s \in StreamSet /\ s.in = f.s.in + k /\ s.avail = 0 /\ StreamOf(s, im)
    BY <2>1, <1>7, StreamMoves
  <2> QED BY <2>2, <1>2, <1>4
<1>9. PICK e : e = [f.dec EXCEPT !.used = u2, !.pos = q2]
  OBVIOUS
<1>10. e \in Decoders /\ e.base = p /\ e.fed = v /\ e.used = u2 /\ e.pos = q2
  BY <1>1, <1>2, <1>9 DEF LzFiles, Decoders
<1>11. LzAt(s, e, t, l, im)
  BY <1>2, <1>3, <1>6, <1>8, <1>10 DEF LzAt
<1>12. g = LzFile(f, s, e, t, l)
  <2>1. g = [f EXCEPT !.dec.used = u2, !.dec.pos = q2, !.s = s]
    BY <1>2, <1>4, <1>7 DEF lz_moved
  <2> QED BY <2>1, <1>1, <1>2, <1>9 DEF LzFile, LzFiles
<1>13. FileOf(g, im) /\ g.dec = e /\ g.id = 0
  BY <1>1, <1>3, <1>8, <1>10, <1>11, <1>12, LzPut
<1> QED BY <1>2, <1>3, <1>4, <1>10, <1>13

\* The decoder comes to the end of a member.
LEMMA LzEnded ==
    ASSUME fmt = "lz", NEW im \in Texts, NEW f, FileOf(f, im), NEW g, g = lz_member_ended(f)
    PROVE  FileOf(g, im) /\ g.id = f.id /\ g.dec.pos = 0
<1>1. f \in LzFiles /\ StreamOf(f.s, im) /\ LzPlaced(f) /\ f.img = im
  BY LzSets
<1>2. PICK t \in Nat, p \in Nat, u \in Nat, v \in Nat, q \in Nat, l \in Nat, i \in Nat, n \in Nat :
        t = f.total_in /\ p = f.dec.base /\ u = f.dec.used /\ v = f.dec.fed /\ q = f.dec.pos
        /\ l = f.last_member_pos /\ i = f.s.in /\ n = Len(im)
  BY <1>1, LzNumbers
<1>3. f.s.avail = 0 /\ p + u = i /\ u <= v /\ p + v = t /\ t <= n /\ v - u <= InBuf /\ f.id = 0 /\ l + q = i
  BY <1>1, <1>2 DEF LzPlaced, LzAt
<1>9. PICK e : e = [f.dec EXCEPT !.pos = 0]
  OBVIOUS
<1>10. e \in Decoders /\ e.base = p /\ e.fed = v /\ e.used = u /\ e.pos = 0
  BY <1>1, <1>2, <1>9 DEF LzFiles, Decoders
<1>11. LzAt(f.s, e, t, i, im)
  BY <1>2, <1>3, <1>10 DEF LzAt
<1>12. g = LzFile(f, f.s, e, t, i)
  <2>1. g = [f EXCEPT !.last_member_pos = i, !.dec.pos = 0]
    BY <1>2, <1>3 DEF lz_member_ended
  <2> QED BY <2>1, <1>1, <1>2, <1>9 DEF LzFile, LzFiles
<1>13. FileOf(g, im) /\ g.dec = e /\ g.id = 0
  BY <1>1, <1>3, <1>10, <1>11, <1>12, LzPut
<1> QED BY <1>3, <1>10, <1>13

\* One turn of the decoder.
LEMMA LzDecompress ==
    ASSUME fmt = "lz", NEW own \in Seq(Contents), NEW m, MachineOf(m, own), NEW room \in Int,
           NEW r, r = lzipfile_decompress(m, room)
    PROVE  MachineOf(r, own) /\ Keeps(r, m)
<1>1. PICK a : a = lzipfile_fill_inbuf(m)
  OBVIOUS
<1>2. MachineOf(a, own) /\ Keeps(a, m)
  BY <1>1, LzFill
<1>3. r = lz_decoded(a, room)
  BY <1>1 DEF lzipfile_decompress
<1> DEFINE dec == a.f.dec
           p0 == dec.base + dec.used
           k == Take(a.f.img, p0, dec.fed - dec.used, room)
           d == Data(a.f.img, p0, k)
           b == [a EXCEPT !.f = lz_moved(@, k, d), !.got = d]
           en == [b EXCEPT !.f = lz_member_ended(@)]
           e == IF k = 0 \/ ~AtEnd(a.f.img, p0 + k) THEN b
                ELSE IF en.f.s.out >= a.c.nextindex THEN lzipfile_save_index(en)
                ELSE en
           cut == k = 0 /\ p0 = Len(a.f.img) /\ ~AtEnd(a.f.img, p0)
           last == d = 0 /\ e.f.dec.used = e.f.total_in
<1>17. r = IF a.res # "ok" THEN a ELSE IF cut THEN Fail(a)
           ELSE IF last THEN [e EXCEPT !.f.iseof = TRUE, !.c.size = e.f.s.out]
           ELSE e
  BY <1>3 DEF lz_decoded
<1>170. /\ b = [a EXCEPT !.f = lz_moved(a.f, k, d), !.got = d]
        /\ en = [b EXCEPT !.f = lz_member_ended(b.f)]
        /\ e = b \/ e = lzipfile_save_index(en) \/ e = en
  OBVIOUS
<1> HIDE DEF cut, last, e, en, b
<1>4. PICK im \in Texts : im = a.f.img
  BY <1>2, MachineFacts
<1>5. PICK f \in LzFiles : f = a.f
  BY <1>2, MachineFacts, LzSets
<1>6. a \in MachineSet /\ FileOf(f, im) /\ f.img = im /\ StreamOf(f.s, im) /\ LzPlaced(f)
  BY <1>2, <1>4, <1>5, MachineFacts, LzSets
<1>7. PICK p \in Nat, u \in Nat, v \in Nat, i \in Nat :
        p = f.dec.base /\ u = f.dec.used /\ v = f.dec.fed /\ i = f.s.in
  BY <1>6, LzNumbers
<1>8. p + u = i /\ u <= v
  BY <1>6, <1>7 DEF LzPlaced, LzAt
<1>9. PICK w \in Nat : w = v - u
  BY <1>8
<1>11. k = Take(im, i, w, room) /\ k \in 0 .. w /\ Data(im, i, k) \in Nat
  <2>1. k = Take(im, i, w, room)
    BY <1>4, <1>5, <1>7, <1>8, <1>9
  <2>2. Take(im, i, w, room) \in 0 .. w /\ Data(im, i, Take(im, i, w, room)) \in Nat
    <3>1. PICK q : q = Take(im, i, w, room)
      OBVIOUS
    <3>2. q \in 0 .. w /\ Data(im, i, q) \in Nat
      BY <3>1, TakeBounds
    <3> QED BY <3>1, <3>2
  <2> HIDE DEF k
  <2> QED BY <2>1, <2>2
<1>12. d = Data(im, i, k) /\ d \in Nat
  BY <1>4, <1>5, <1>7, <1>8, <1>11
<1> HIDE DEF p0, k
<1>111. k \in Nat /\ k <= w
  BY <1>11
<1> HIDE DEF d
<1>18. PICK g : g = lz_moved(f, k, d)
  OBVIOUS
<1>19. FileOf(g, im) /\ g.id = f.id
  <2>0. PICK q \in Nat, y \in Nat : q = k /\ y = d
    BY <1>12, <1>111
  <2>1. q <= f.dec.fed - f.dec.used /\ y = Data(im, f.s.in, q)
    BY <1>7, <1>9, <1>111, <1>12, <2>0
  <2>2. g = lz_moved(f, q, y) /\ FileOf(f, im)
    BY <2>0, <1>6, <1>18
  <2> QED BY <2>1, <2>2, LzMoved
<1>20. PICK b1 : b1 = [a EXCEPT !.f = g]
  OBVIOUS
<1>21. MachineOf(b1, own) /\ Keeps(b1, a) /\ b1.f = g
  BY <1>2, <1>4, <1>5, <1>19, <1>20, MachineFile
<1>22. b = [b1 EXCEPT !.got = d]
  BY <1>5, <1>6, <1>170, <1>18, <1>20 DEF MachineSet
<1>23. MachineOf(b, own) /\ Keeps(b, b1) /\ b.f = g
  BY <1>12, <1>21, <1>22, MachineGot
<1>24. Keeps(b, m)
  BY <1>2, <1>21, <1>23, KeepsOn
<1>25. PICK h : h = lz_member_ended(g)
  OBVIOUS
<1>26. FileOf(h, im) /\ h.id = g.id /\ h.dec.pos = 0
  BY <1>19, <1>25, LzEnded
<1>27. g.img = im
  BY <1>19 DEF FileOf, FileIs, Files
<1>28. en = [b EXCEPT !.f = h]
  <2>1. b \in MachineSet
    BY <1>23, MachineFacts
  <2> QED BY <2>1, <1>170, <1>23, <1>25 DEF MachineSet
<1>29. MachineOf(en, own) /\ Keeps(en, b) /\ en.f = h
  <2>1. FileOf(h, b.f.img) /\ h.id = b.f.id
    BY <1>23, <1>26, <1>27
  <2> QED BY <2>1, <1>23, <1>28, MachineFile
<1>30. MachineOf(e, own) /\ Keeps(e, m)
  <2>1. CASE e = b
    BY <2>1, <1>23, <1>24
  <2>2. CASE e = lzipfile_save_index(en)
    <3>1. en.f.dec.pos = 0
      BY <1>26, <1>29
    <3>2. MachineOf(e, own) /\ Keeps(e, en)
      BY <2>2, <3>1, <1>29, LzSaveIndex
    <3> QED BY <3>2, <1>24, <1>29, KeepsOn
  <2>3. CASE e = en
    BY <2>3, <1>24, <1>29, KeepsOn
  <2> QED BY <2>1, <2>2, <2>3, <1>170
<1>31. CASE a.res # "ok"
  BY <1>2, <1>17, <1>31
<1>32. CASE a.res = "ok" /\ cut
  <2>1. r = Fail(a)
    BY <1>17, <1>32
  <2>2. MachineOf(r, own) /\ Keeps(r, a)
    BY <2>1, <1>2, MachineFails
  <2> QED BY <2>2, <1>2, KeepsOn
<1>33. CASE a.res = "ok" /\ ~cut /\ last
  <2>1. r = [e EXCEPT !.f.iseof = TRUE, !.c.size = e.f.s.out]
    BY <1>17, <1>33
  <2>2. MachineOf(r, own) /\ Keeps(r, e)
    BY <2>1, <1>30, EofNoted
  <2> QED BY <2>2, <1>30, KeepsOn
<1>34. CASE a.res = "ok" /\ ~cut /\ ~last
  BY <1>17, <1>30, <1>34
<1> QED BY <1>31, <1>32, <1>33, <1>34

\* The place that an offset is reached from.
LEMMA LzSeek ==
    ASSUME fmt = "lz", NEW own \in Seq(Contents), NEW m, MachineOf(m, own), NEW offset \in Nat,
           NEW r, r = lzipfile_seek(m, offset)
    PROVE  MachineOf(r, own) /\ Keeps(r, m)
<1>1. PICK im \in Texts : im = m.f.img
  BY MachineFacts
<1>2. PICK a : a = lzipfile_reset(m)
  OBVIOUS
<1>3. MachineOf(a, own) /\ Keeps(a, m) /\ a.c = m.c
  BY <1>2, LzReset
<1>4. PICK idx : idx = m.c.indexes
  OBVIOUS
<1>5. idx \in Seq(InIndexes) /\ \A k \in 1 .. Len(idx) : InIndexOf(idx[k], im)
  <2>1. m.c \in LzCaches /\ \A k \in 1 .. Len(m.c.indexes) : InIndexOf(m.c.indexes[k], im)
    BY <1>1, MachineFacts, LzSets
  <2> QED BY <2>1, <1>4 DEF LzCaches
<1>6. PICK zi : zi = IndexBefore(idx, offset)
  OBVIOUS
<1>7. zi \in 0 .. Len(idx) /\ (zi # 0 => zi \in 1 .. Len(idx))
  <2>1. \A i \in 1 .. Len(idx) : idx[i] \in InIndexes
    BY <1>5
  <2>2. \A i \in 1 .. Len(idx) : idx[i].off \in Nat
    BY <2>1 DEF InIndexes
  <2>3. offset \in Int
    OBVIOUS
  <2> QED BY <2>2, <2>3, <1>5, <1>6, IndexFound
<1>8. PICK x : x = idx[zi]
  OBVIOUS
<1>9. PICK y : y = [a EXCEPT !.f.total_in = x.in, !.f.last_member_pos = x.in,
                      !.f.dec = lzip_new_decoder(x.in), !.f.s.in = x.in, !.f.s.out = x.off]
  OBVIOUS
<1>10. r = m \/ r = a \/ (zi # 0 /\ r = y)
  BY <1>2, <1>4, <1>6, <1>8, <1>9 DEF lzipfile_seek
<1>11. CASE r = m
  BY <1>11 DEF Keeps
<1>12. CASE r = a
  BY <1>3, <1>12
<1>13. CASE zi # 0 /\ r = y
  <2>1. x \in InIndexes /\ InIndexOf(x, im)
    BY <1>5, <1>7, <1>8, <1>13
  <2>2. PICK at \in Nat, off \in Nat : at = x.in /\ off = x.off
    BY <2>1 DEF InIndexes
  <2>3. at <= Len(im) /\ off = Data(im, 0, at)
    BY <2>1, <2>2 DEF InIndexOf, InIndexIs
  <2>4. a \in MachineSet /\ a.f \in LzFiles /\ StreamOf(a.f.s, im) /\ a.f.img = im /\ LzPlaced(a.f) /\ a.f.id = 0
    <3>1. a \in MachineSet /\ FileOf(a.f, a.f.img) /\ a.f.img = im
      BY <1>1, <1>3, MachineFacts DEF Keeps
    <3> QED BY <3>1, LzSets DEF LzPlaced
  <2>5. PICK s : s = [a.f.s EXCEPT !.in = at, !.out = off]
    OBVIOUS
  <2>6. s \in StreamSet /\ s.in = at /\ s.out = off /\ s.avail = 0 /\ s.src = im
    <3>1. a.f.s \in StreamSet /\ a.f.s.src = im /\ a.f.s.avail = 0
      BY <2>4 DEF StreamOf, LzPlaced, LzAt
    <3> QED BY <3>1, <2>5 DEF StreamSet
  <2>7. StreamOf(s, im)
    <3>1. s.in + s.avail <= Len(im)
      BY <2>3, <2>6
    <3> QED BY <3>1, <2>3, <2>6 DEF StreamOf
  <2>8. PICK d \in Decoders : d = lzip_new_decoder(at)
    BY LzDecoder
  <2>9. LzAt(s, d, at, at, im)
    BY <2>6, <2>7, <2>8, LzStarts
  <2>10. PICK g : g = LzFile(a.f, s, d, at, at)
    OBVIOUS
  <2>11. FileOf(g, im) /\ g.id = 0
    BY <2>4, <2>7, <2>9, <2>10, LzPut
  <2>12. r = [a EXCEPT !.f = g]
    <3>1. g = [a.f EXCEPT !.total_in = at, !.last_member_pos = at, !.dec = d, !.s = s]
      BY <2>4, <2>10 DEF LzFile, LzFiles
    <3>2. r = [a EXCEPT !.f.total_in = at, !.f.last_member_pos = at, !.f.dec = d, !.f.s.in = at, !.f.s.out = off]
      BY <2>2, <2>8, <1>9, <1>13
    <3>3. PICK g0 : g0 = [a.f EXCEPT !.total_in = at, !.last_member_pos = at, !.dec = d]
      OBVIOUS
    <3>4. g0.s = a.f.s /\ g0 \in LzFiles
      BY <3>3, <2>4 DEF LzFiles
    <3>5. g = [g0 EXCEPT !.s = s]
      BY <3>1, <3>3, <2>4 DEF LzFiles
    <3>6. r = [a EXCEPT !.f = [g0 EXCEPT !.s.in = at, !.s.out = off]]
      <4>1. a \in MachineSet /\ a.f \in LzFiles
        BY <2>4
      <4> QED BY ONLY <3>2, <3>3, <4>1 DEF MachineSet, LzFiles
    <3>7. [g0 EXCEPT !.s.in = at, !.s.out = off] = [g0 EXCEPT !.s = s]
      BY <3>4, <2>5 DEF LzFiles
    <3> QED BY <3>5, <3>6, <3>7
  <2>13. MachineOf(r, own) /\ Keeps(r, a)
    <3>1. FileOf(g, a.f.img) /\ g.id = a.f.id
      BY <2>4, <2>11
    <3> QED BY <3>1, <2>12, <1>3, MachineFile
  <2> QED BY <2>13, <1>3, KeepsOn
<1> QED BY <1>10, <1>11, <1>12, <1>13
----------------------------------------------------------------------------
(* gzip.                                                                   *)

\* The sets of gzip.
LEMMA GzSets ==
    ASSUME fmt = "z"
    PROVE  /\ Files = GzFiles /\ CacheSet = GzCaches
           /\ Saved = [id : Nat, s : StreamSet, calccrc : BOOLEAN, iseof : BOOLEAN]
           /\ \A f, im : FileOf(f, im) <=> f \in GzFiles /\ f.img = im /\ StreamOf(f.s, im)
           /\ \A c, i, im : CacheOf(c, i, im) <=>
                c \in GzCaches /\ c.id = i /\ \A k \in 1 .. Len(c.indexes) : GzIndexOf(c.indexes[k], im)
           /\ \A im \in Contents : TrailersFollow(im)
<1>1. fmt # "lz" /\ fmt # "zst" /\ fmt # "bz" /\ fmt \notin {"bz", "lz"}
  OBVIOUS
<1> QED BY <1>1 DEF Files, FilesFor, CacheSet, CachesFor, Saved, SavedFor, FileOf, FileIs, CacheOf, CacheIs, InIndexOf, Contents, ContentsFor

\* The sizes of headers and trailers.
LEMMA GzSizes == GzHeader \in Nat /\ GzTrailer \in Nat
  BY GzipAssumption

\* A file with another stream and flags.
GzFile(f, s, e, q) == [f EXCEPT !.s = s, !.iseof = e, !.calccrc = q]

\* Such a file is one of the same content.
LEMMA GzPut ==
    ASSUME fmt = "z", NEW im, NEW f, FileOf(f, im), NEW s, StreamOf(s, im), NEW e \in BOOLEAN, NEW q \in BOOLEAN,
           NEW g, g = GzFile(f, s, e, q)
    PROVE  FileOf(g, im) /\ g \in GzFiles /\ g.s = s /\ g.iseof = e /\ g.calccrc = q /\ g.id = f.id /\ g.img = im
<1>1. f \in GzFiles /\ f.img = im /\ s \in StreamSet
  BY GzSets DEF StreamOf
<1>2. g \in GzFiles /\ g.s = s /\ g.iseof = e /\ g.calccrc = q /\ g.id = f.id /\ g.img = im
  BY <1>1 DEF GzFiles, GzFile
<1>3. StreamOf(g.s, im)
  BY <1>2
<1>4. FileOf(g, im)
  BY <1>2, <1>3, GzSets
<1> QED BY <1>2, <1>4

\* With another stream only.
LEMMA GzStream ==
    ASSUME fmt = "z", NEW im, NEW f, FileOf(f, im), NEW s, StreamOf(s, im), NEW g, g = [f EXCEPT !.s = s]
    PROVE  FileOf(g, im) /\ g.s = s /\ g.id = f.id /\ g.img = im /\ g.iseof = f.iseof /\ g.calccrc = f.calccrc
<1>1. f \in GzFiles /\ f.img = im /\ s \in StreamSet
  BY GzSets DEF StreamOf
<1>2. g \in GzFiles /\ g.s = s /\ g.id = f.id /\ g.img = im /\ g.iseof = f.iseof /\ g.calccrc = f.calccrc
  BY <1>1 DEF GzFiles
<1>3. StreamOf(g.s, im)
  BY <1>2
<1>4. FileOf(g, im)
  <2>1. FileOf(g, im) <=> g \in GzFiles /\ g.img = im /\ StreamOf(g.s, im)
    BY GzSets
  <2> QED BY <2>1, <1>2, <1>3
<1> QED BY <1>2, <1>4

\* The reader works on a machine, or on a new file.
NewSet == [f : GzFiles, io : {"ok", "read"}, hit : BOOLEAN, res : {"ok", "EIO"}]
On(m, own, im) ==
    \/ MachineOf(m, own) /\ m.f.img = im
    \/ m \in NewSet /\ FileOf(m.f, im)
Goes(r, m, own) ==
    /\ MachineOf(m, own) => MachineOf(r, own) /\ Keeps(r, m) /\ r.c = m.c /\ r.sc = m.sc /\ r.got = m.got
    /\ m \in NewSet => r \in NewSet
    /\ r.f.id = m.f.id

\* Two steps that keep the identity, one after the other.
LEMMA GoesOn ==
    ASSUME NEW a, NEW b, NEW c, NEW own, Goes(b, a, own), Goes(c, b, own)
    PROVE  Goes(c, a, own)
  BY DEF Goes, Keeps

\* Nothing is done.
LEMMA GoesNowhere ==
    ASSUME NEW m, NEW own
    PROVE  Goes(m, m, own)
  BY DEF Goes, Keeps

\* A whole machine is none of those av_zfile_new works with.
LEMMA OneKind ==
    ASSUME NEW own, NEW m, MachineOf(m, own)
    PROVE  m \notin NewSet
<1>1. m \in MachineSet
  BY DEF MachineOf
<1>2. "got" \in DOMAIN m
  BY <1>1 DEF MachineSet
<1>3. m \in NewSet => "got" \notin DOMAIN m
  BY DEF NewSet
<1> QED BY <1>2, <1>3

\* What is worked on is a file of the image.
LEMMA OnFacts ==
    ASSUME fmt = "z", NEW own \in Seq(Contents), NEW im \in Contents, NEW m, On(m, own, im)
    PROVE  /\ FileOf(m.f, im) /\ m.f \in GzFiles /\ m.f.img = im /\ StreamOf(m.f.s, im) /\ m.f.s \in StreamSet
           /\ im \in Texts /\ m.res \in {"ok", "EIO"}
<1>1. FileOf(m.f, im) /\ m.res \in {"ok", "EIO"}
  <2>1. CASE MachineOf(m, own) /\ m.f.img = im
    BY <2>1, MachineFacts DEF MachineSet
  <2>2. CASE m \in NewSet /\ FileOf(m.f, im)
    BY <2>2 DEF NewSet
  <2> QED BY <2>1, <2>2 DEF On
<1> QED BY <1>1, GzSets DEF Contents, ContentsFor, StreamOf

\* Another file of the same content.
LEMMA OnFile ==
    ASSUME fmt = "z", NEW own \in Seq(Contents), NEW im, NEW m, On(m, own, im),
           NEW g, FileOf(g, im), g.id = m.f.id, NEW r, r = [m EXCEPT !.f = g]
    PROVE  On(r, own, im) /\ Goes(r, m, own) /\ r.f = g /\ r.res = m.res /\ r.io = m.io
<1>1. g.img = im /\ g \in GzFiles
  BY GzSets
<1>2. CASE MachineOf(m, own) /\ m.f.img = im
  <2>1. MachineOf(r, own) /\ Keeps(r, m) /\ r.f = g /\ r.c = m.c /\ Others(r, m)
    BY <1>2, MachineFile
  <2>2. m \notin NewSet
    BY <1>2, OneKind
  <2>3. r.sc = m.sc /\ r.got = m.got /\ r.res = m.res /\ r.io = m.io
    BY <2>1 DEF Others, Keeps
  <2> QED BY <2>1, <2>2, <2>3, <1>1 DEF On, Goes
<1>3. CASE m \in NewSet /\ FileOf(m.f, im)
  <2>1. r \in NewSet /\ r.f = g /\ r.res = m.res /\ r.io = m.io
    BY <1>1, <1>3 DEF NewSet
  <2>2. ~MachineOf(m, own)
    BY <1>3, OneKind
  <2> QED BY <2>1, <2>2 DEF On, Goes
<1> QED BY <1>2, <1>3 DEF On

\* A failure leaves the file as it is.
LEMMA OnFails ==
    ASSUME fmt = "z", NEW own \in Seq(Contents), NEW im, NEW m, On(m, own, im), NEW r, r \in {Fail(m), Hit(m)}
    PROVE  On(r, own, im) /\ Goes(r, m, own) /\ r.f = m.f /\ r.res = "EIO"
<1>2. CASE MachineOf(m, own) /\ m.f.img = im
  <2>1. MachineOf(r, own) /\ Keeps(r, m) /\ r.f = m.f /\ r.c = m.c /\ r.sc = m.sc /\ r.got = m.got /\ r.res = "EIO"
    BY <1>2, MachineFails
  <2>2. m \notin NewSet
    BY <1>2, OneKind
  <2> QED BY <2>1, <2>2, <1>2 DEF On, Goes
<1>3. CASE m \in NewSet /\ FileOf(m.f, im)
  <2>1. r \in NewSet /\ r.f = m.f /\ r.res = "EIO"
    <3>1. CASE r = Fail(m)
      BY <1>3, <3>1 DEF NewSet, Fail
    <3>2. CASE r = Hit(m)
      BY <1>3, <3>2 DEF NewSet, Hit
    <3> QED BY <3>1, <3>2
  <2>2. ~MachineOf(m, own)
    BY <1>3, OneKind
  <2> QED BY <2>1, <2>2, <1>3 DEF On, Goes
<1> QED BY <1>2, <1>3 DEF On

\* A machine is one that is worked on, and so is what becomes of it.
LEMMA OnMachine ==
    ASSUME fmt = "z", NEW own \in Seq(Contents), NEW m, MachineOf(m, own)
    PROVE  /\ m.f.img \in Contents /\ On(m, own, m.f.img)
           /\ \A r : Goes(r, m, own) => MachineOf(r, own) /\ Keeps(r, m) /\ r.c = m.c /\ r.sc = m.sc /\ r.got = m.got
  BY MachineFacts DEF On, Goes

\* The buffer is filled.
LEMMA GzFill ==
    ASSUME fmt = "z", NEW own \in Seq(Contents), NEW im \in Contents, NEW m, On(m, own, im),
           NEW r, r = zfile_fill_inbuf(m)
    PROVE  On(r, own, im) /\ Goes(r, m, own) /\ r.f.s.in = m.f.s.in /\ r.f.s.out = m.f.s.out
           /\ r.f.iseof = m.f.iseof /\ r.f.calccrc = m.f.calccrc /\ (r.res = "ok" => m.res = "ok")
<1>1. FileOf(m.f, im) /\ m.f \in GzFiles /\ m.f.img = im /\ StreamOf(m.f.s, im) /\ im \in Texts
  BY OnFacts
<1>2. CASE m.io = "read"
  <2>1. r = Hit(m)
    BY <1>2 DEF zfile_fill_inbuf
  <2>2. On(r, own, im) /\ Goes(r, m, own) /\ r.f = m.f /\ r.res = "EIO"
    BY <2>1, OnFails
  <2> QED BY <2>2
<1>3. CASE m.io # "read"
  <2>0. PICK a : a = Lesser(InBuf, Len(im) - m.f.s.in)
    OBVIOUS
  <2>1. PICK t : t = [m.f.s EXCEPT !.avail = a]
    OBVIOUS
  <2>2. t.in = m.f.s.in /\ t.out = m.f.s.out /\ StreamOf(t, im)
    BY <2>0, <2>1, <1>1, StreamFilled
  <2>3. PICK g : g = [m.f EXCEPT !.s = t]
    OBVIOUS
  <2>4. FileOf(g, im) /\ g.s = t /\ g.id = m.f.id /\ g.iseof = m.f.iseof /\ g.calccrc = m.f.calccrc
    BY <2>2, <2>3, <1>1, GzStream
  <2>5. r = [m EXCEPT !.f = g]
    <3>1. r = [m EXCEPT !.f.s.avail = a]
      BY <1>1, <1>3, <2>0 DEF zfile_fill_inbuf
    <3>2. CASE MachineOf(m, own)
      <4>1. m \in MachineSet
        BY <3>2, MachineFacts
      <4> QED BY <4>1, <3>1, <2>1, <2>3, <1>1 DEF MachineSet, GzFiles
    <3>3. CASE m \in NewSet
      BY <3>1, <3>3, <2>1, <2>3, <1>1 DEF NewSet, GzFiles
    <3> QED BY <3>2, <3>3 DEF On
  <2>6. On(r, own, im) /\ Goes(r, m, own) /\ r.f = g /\ r.res = m.res
    BY <2>4, <2>5, OnFile
  <2> QED BY <2>2, <2>4, <2>6
<1> QED BY <1>2, <1>3

\* The buffer has been filled if it had too little.
LEMMA GzRefilled ==
    ASSUME fmt = "z", NEW own \in Seq(Contents), NEW im \in Contents, NEW m, On(m, own, im), NEW k \in Nat,
           NEW r, r = Refilled(m, k)
    PROVE  On(r, own, im) /\ Goes(r, m, own) /\ r.f.s.in = m.f.s.in /\ r.f.s.out = m.f.s.out
           /\ r.f.iseof = m.f.iseof /\ r.f.calccrc = m.f.calccrc /\ (r.res = "ok" => m.res = "ok")
<1>1. r = m \/ r = zfile_fill_inbuf(m)
  BY DEF Refilled
<1>2. CASE r = m
  BY <1>2, GoesNowhere
<1>3. CASE r = zfile_fill_inbuf(m)
  BY <1>3, GzFill
<1> QED BY <1>1, <1>2, <1>3

\* Tokens that give nothing are passed over.
LEMMA GzAdvance ==
    ASSUME fmt = "z", NEW own \in Seq(Contents), NEW im \in Contents, NEW m, On(m, own, im), NEW k \in Nat,
           m.f.s.avail >= k, \A i \in m.f.s.in + 1 .. m.f.s.in + k : im[i] # "d", NEW r, r = Advance(m, k)
    PROVE  On(r, own, im) /\ Goes(r, m, own) /\ r.f.s.in = m.f.s.in + k /\ r.f.s.out = m.f.s.out /\ r.res = m.res
<1>1. FileOf(m.f, im) /\ m.f \in GzFiles /\ m.f.img = im /\ StreamOf(m.f.s, im) /\ im \in Texts /\ m.f.s \in StreamSet
  BY OnFacts
<1>2. m.f.s.in \in Nat /\ m.f.s.avail \in Nat /\ m.f.s.out \in Nat
  BY <1>1 DEF StreamSet
<1>3. Data(im, m.f.s.in, k) = 0
  BY <1>2, DataNone
<1>4. PICK d \in Nat : d = 0
  OBVIOUS
<1>5. PICK t : t = Taken(m.f.s, k, d)
  OBVIOUS
<1>6. t.in = m.f.s.in + k /\ t.out = m.f.s.out + d /\ StreamOf(t, im)
  <2>1. k \in 0 .. m.f.s.avail /\ d = Data(im, m.f.s.in, k)
    BY <1>2, <1>3, <1>4
  <2> QED BY <2>1, <1>1, <1>5, StreamTakes
<1>7. t.out = m.f.s.out
  BY <1>2, <1>4, <1>6
<1>8. PICK g : g = [m.f EXCEPT !.s = t]
  OBVIOUS
<1>9. FileOf(g, im) /\ g.s = t /\ g.id = m.f.id
  BY <1>1, <1>6, <1>8, GzStream
<1>10. r = [m EXCEPT !.f = g]
  <2>1. r = [m EXCEPT !.f.s = t]
    BY <1>4, <1>5 DEF Advance
  <2>2. CASE MachineOf(m, own)
    <3>1. m \in MachineSet
      BY <2>2, MachineFacts
    <3> QED BY <3>1, <2>1, <1>1, <1>8 DEF MachineSet, GzFiles
  <2>3. CASE m \in NewSet
    BY <2>1, <2>3, <1>1, <1>8 DEF NewSet, GzFiles
  <2> QED BY <2>2, <2>3 DEF On
<1>11. On(r, own, im) /\ Goes(r, m, own) /\ r.f = g /\ r.res = m.res
  BY <1>9, <1>10, OnFile
<1> QED BY <1>6, <1>7, <1>9, <1>11

\* The header of a member is read: its tokens give nothing.
LEMMA GzHeaderRead ==
    ASSUME fmt = "z", NEW own \in Seq(Contents), NEW im \in Contents, NEW m, On(m, own, im),
           NEW r, r = zfile_parse_gzip_header(m)
    PROVE  On(r, own, im) /\ Goes(r, m, own) /\ (r.res = "ok" => m.res = "ok")
<1>1. PICK h \in Nat : h = GzHeader
  BY GzSizes
<1>2. PICK a : a = Refilled(m, h)
  OBVIOUS
<1>3. On(a, own, im) /\ Goes(a, m, own) /\ (a.res = "ok" => m.res = "ok")
  BY <1>2, GzRefilled
<1>4. a.f.img = im /\ a.f.s \in StreamSet
  BY <1>3, OnFacts
<1>5. a.f.s.avail \in Nat /\ a.f.s.in \in Nat
  BY <1>4 DEF StreamSet
<1>6. r = IF \/ a.res # "ok" \/ a.f.s.avail < h
             \/ \E i \in 1 .. h : im[a.f.s.in + i] # "h"
          THEN Fail(a) ELSE Advance(a, h)
  BY <1>1, <1>2, <1>4 DEF zfile_parse_gzip_header
<1>7. CASE r = Fail(a)
  <2>1. On(r, own, im) /\ Goes(r, a, own) /\ r.res = "EIO"
    BY <1>3, <1>7, OnFails
  <2> QED BY <2>1, <1>3, GoesOn
<1>8. CASE ~(a.res # "ok" \/ a.f.s.avail < h \/ \E i \in 1 .. h : im[a.f.s.in + i] # "h")
  <2>1. r = Advance(a, h) /\ a.f.s.avail >= h
    BY <1>5, <1>6, <1>8
  <2>2. \A i \in a.f.s.in + 1 .. a.f.s.in + h : im[i] # "d"
    <3> SUFFICES ASSUME NEW i \in a.f.s.in + 1 .. a.f.s.in + h PROVE im[i] # "d"
      OBVIOUS
    <3>1. PICK j \in 1 .. h : i = a.f.s.in + j
      <4>1. PICK p \in Nat : p = a.f.s.in
        BY <1>5
      <4>2. i \in p + 1 .. p + h /\ h \in Nat /\ p \in Nat
        BY <4>1
      <4>3. i - p \in 1 .. h /\ i = p + (i - p)
        BY ONLY <4>2
      <4> QED BY ONLY <4>1, <4>3
    <3>2. im[a.f.s.in + j] = "h"
      BY <1>8
    <3> QED BY <3>1, <3>2
  <2>3. On(r, own, im) /\ Goes(r, a, own) /\ r.res = a.res
    BY <2>1, <2>2, <1>3, GzAdvance
  <2> QED BY <2>3, <1>3, GoesOn
<1> QED BY <1>6, <1>7, <1>8

\* Of a new stream the failure is noted.
LEMMA GzWithHeader ==
    ASSUME fmt = "z", NEW own \in Seq(Contents), NEW im \in Contents, NEW m, On(m, own, im), m.res = "ok",
           NEW r, r = WithHeader(m)
    PROVE  On(r, own, im) /\ Goes(r, m, own)
<1>1. PICK a : a = zfile_parse_gzip_header(m)
  OBVIOUS
<1>2. On(a, own, im) /\ Goes(a, m, own)
  BY <1>1, GzHeaderRead
<1>3. FileOf(a.f, im) /\ a.f \in GzFiles /\ a.f.img = im /\ StreamOf(a.f.s, im) /\ a.res \in {"ok", "EIO"}
  BY <1>2, OnFacts
<1>4. PICK g : g = [a.f EXCEPT !.iserror = @ \/ a.res # "ok"]
  OBVIOUS
<1>5. g \in GzFiles /\ g.img = im /\ g.s = a.f.s /\ g.id = a.f.id
  <2>1. PICK e \in BOOLEAN : e = (a.f.iserror \/ a.res # "ok")
    OBVIOUS
  <2>2. g = [a.f EXCEPT !.iserror = e]
    BY <2>1, <1>4
  <2> QED BY <2>2, <1>3 DEF GzFiles
<1>6. FileOf(g, im)
  BY <1>3, <1>5, GzSets
<1>7. PICK b : b = [a EXCEPT !.f = g]
  OBVIOUS
<1>8. On(b, own, im) /\ Goes(b, a, own)
  BY <1>2, <1>5, <1>6, <1>7, OnFile
<1>9. r = [b EXCEPT !.res = "ok"]
  <2>1. r = [a EXCEPT !.res = "ok", !.f.iserror = @ \/ a.res # "ok"]
    BY <1>1 DEF WithHeader
  <2>2. CASE MachineOf(a, own)
    <3>1. a \in MachineSet
      BY <2>2, MachineFacts
    <3> QED BY <3>1, <2>1, <1>4, <1>7 DEF MachineSet
  <2>3. CASE a \in NewSet
    BY <2>1, <2>3, <1>4, <1>7 DEF NewSet
  <2> QED BY <2>2, <2>3, <1>2 DEF On
<1>10. On(r, own, im) /\ Goes(r, b, own)
  <2>1. CASE MachineOf(b, own)
    <3>1. b \in MachineSet /\ FileOf(b.f, b.f.img) /\ CacheOf(b.c, b.c.id, b.f.img) /\ ScOf(b.sc, own)
      BY <2>1, MachineFacts
    <3>2. r \in MachineSet /\ r.f = b.f /\ r.c = b.c /\ r.sc = b.sc /\ r.io = b.io /\ r.got = b.got
      BY <3>1, <1>9 DEF MachineSet
    <3>3. Keeps(r, b)
      BY <3>2 DEF Keeps
    <3>4. MachineOf(r, own)
      BY <2>1, <3>1, <3>2, <3>3, MachineMade
    <3>5. b \notin NewSet
      BY <2>1, OneKind
    <3>6. r.f.img = im
      BY <3>2, <1>8, OnFacts
    <3> QED BY <3>2, <3>3, <3>4, <3>5, <3>6 DEF On, Goes
  <2>2. CASE b \in NewSet
    <3>1. r \in NewSet /\ r.f = b.f
      BY <2>2, <1>9 DEF NewSet
    <3>2. ~MachineOf(b, own)
      BY <2>2, OneKind
    <3>3. FileOf(r.f, im)
      BY <3>1, <1>8, OnFacts
    <3> QED BY <3>1, <3>2, <3>3 DEF On, Goes
  <2> QED BY <2>1, <2>2, <1>8 DEF On
<1> QED BY <1>2, <1>8, <1>10, GoesOn

\* A new file.
LEMMA GzNew ==
    ASSUME fmt = "z", NEW im \in Contents, NEW io \in {"ok", "read"}, NEW g, g = av_zfile_new(im, io).f
    PROVE  FileOf(g, im) /\ g.id = 0
<1>1. im \in Texts
  BY DEF Contents, ContentsFor
<1>2. StreamOf(Fresh(im), im)
  BY <1>1, FreshStream
<1>3. PICK s \in StreamSet : s = Fresh(im)
  BY <1>2 DEF StreamOf
<1>4. PICK f : f = [img |-> im, s |-> s, iseof |-> FALSE, iserror |-> FALSE, id |-> 0, calccrc |-> TRUE]
  OBVIOUS
<1>5. f \in GzFiles /\ f.img = im /\ f.s = s /\ f.id = 0
  BY <1>1, <1>4 DEF GzFiles
<1>6. FileOf(f, im)
  BY <1>2, <1>3, <1>5, GzSets
<1>7. PICK m : m = [f |-> f, io |-> io, hit |-> FALSE, res |-> "ok"]
  OBVIOUS
<1>8. m \in NewSet /\ m.f = f /\ m.res = "ok"
  BY <1>5, <1>7 DEF NewSet
<1>9. PICK own : own = <<>> /\ own \in Seq(Contents)
  <2>1. <<>> \in Seq(Contents)
    OBVIOUS
  <2> QED BY <2>1
<1>10. On(m, own, im)
  BY <1>6, <1>8 DEF On
<1>11. PICK r : r = WithHeader(m)
  OBVIOUS
<1>12. On(r, own, im) /\ Goes(r, m, own)
  BY <1>8, <1>9, <1>10, <1>11, GzWithHeader
<1>13. g = r.f
  BY <1>3, <1>4, <1>7, <1>11 DEF av_zfile_new
<1>14. FileOf(g, im)
  <2>1. FileOf(r.f, im)
    BY <1>9, <1>12, OnFacts
  <2> QED BY <2>1, <1>13
<1>15. g.id = 0
  BY <1>5, <1>8, <1>12, <1>13 DEF Goes
<1> QED BY <1>14, <1>15

\* The stream is put in the stream cache.
LEMMA GzSave ==
    ASSUME fmt = "z", NEW own \in Seq(Contents), NEW m, MachineOf(m, own), NEW r, r = zfile_scache_save(m)
    PROVE  MachineOf(r, own) /\ Keeps(r, m) /\ r.f = m.f /\ r.c = m.c /\ r.res = m.res
<1>1. /\ m \in MachineSet /\ m.f.id \in {0, m.c.id} /\ StreamOf(m.f.s, own[m.c.id]) /\ m.f.img \in Texts
      /\ m.c.id \in 1 .. Len(own) /\ m.f.img = own[m.c.id] /\ m.f \in Files
  BY MachineFacts
<1>2. CASE m.f.id = 0 \/ m.f.iseof
  <2>1. r = m
    BY <1>2 DEF zfile_scache_save
  <2> QED BY <2>1 DEF Keeps
<1>3. CASE ~(m.f.id = 0 \/ m.f.iseof)
  <2>0. m.f \in GzFiles
    BY <1>1, GzSets
  <2>1. PICK i \in Nat, q \in BOOLEAN, e \in BOOLEAN : i = m.f.id /\ q = m.f.calccrc /\ e = m.f.iseof
    BY <2>0 DEF GzFiles
  <2>2. PICK t : t = [m.f.s EXCEPT !.avail = 0]
    OBVIOUS
  <2>3. t \in StreamSet /\ StreamOf(t, own[m.c.id])
    BY <2>2, <1>1, StreamEmptied
  <2>4. PICK x : x = [id |-> i, s |-> t, calccrc |-> q, iseof |-> e]
    OBVIOUS
  <2>5. x \in Saved /\ x.id = i /\ x.s = t
    <3>1. x \in [id : Nat, s : StreamSet, calccrc : BOOLEAN, iseof : BOOLEAN]
      BY <2>3, <2>4
    <3> QED BY <3>1, <2>4, GzSets
  <2>6. r = [m EXCEPT !.sc = x]
    BY <1>3, <2>1, <2>2, <2>4 DEF zfile_scache_save
  <2>7. ScOf(x, own)
    BY <1>1, <1>3, <2>1, <2>3, <2>5 DEF ScOf, ScIs, Saved
  <2>8. MachineOf(r, own) /\ Keeps(r, m) /\ r.f = m.f /\ r.c = m.c /\ r.res = m.res
    BY <2>5, <2>6, <2>7, MachineSc
  <2> QED BY <2>8
<1> QED BY <1>2, <1>3

\* A machine whose file has another stream and flags.
LEMMA GzMachine ==
    ASSUME fmt = "z", NEW own \in Seq(Contents), NEW m, MachineOf(m, own), NEW s, StreamOf(s, m.f.img),
           NEW e \in BOOLEAN, NEW q \in BOOLEAN, NEW r, r = [m EXCEPT !.f = GzFile(m.f, s, e, q)]
    PROVE  MachineOf(r, own) /\ Keeps(r, m) /\ r.f = GzFile(m.f, s, e, q) /\ r.f.s = s /\ r.c = m.c /\ Others(r, m)
<1>1. FileOf(m.f, m.f.img)
  BY MachineFacts
<1>2. PICK g : g = GzFile(m.f, s, e, q)
  OBVIOUS
<1>3. FileOf(g, m.f.img) /\ g.id = m.f.id /\ g.s = s
  BY <1>1, <1>2, GzPut
<1>4. MachineOf(r, own) /\ Keeps(r, m) /\ r.f = g /\ r.c = m.c /\ Others(r, m)
  BY <1>2, <1>3, MachineFile
<1> QED BY <1>2, <1>3, <1>4

\* The file begins anew.
LEMMA GzReset ==
    ASSUME fmt = "z", NEW own \in Seq(Contents), NEW m, MachineOf(m, own), m.res = "ok", NEW r, r = zfile_reset(m)
    PROVE  MachineOf(r, own) /\ Keeps(r, m)
<1>1. PICK a : a = zfile_scache_save(m)
  OBVIOUS
<1>2. MachineOf(a, own) /\ Keeps(a, m) /\ a.res = "ok"
  BY <1>1, GzSave
<1>3. PICK im \in Texts : im = a.f.img
  BY <1>2, MachineFacts
<1>4. a \in MachineSet /\ a.f \in GzFiles
  BY <1>2, MachineFacts, GzSets
<1>5. PICK s : s = Fresh(im) /\ StreamOf(s, im)
  BY FreshStream
<1>6. PICK e \in BOOLEAN : e = FALSE
  OBVIOUS
<1>7. PICK b : b = [a EXCEPT !.f = GzFile(a.f, s, e, e)]
  OBVIOUS
<1>8. MachineOf(b, own) /\ Keeps(b, a) /\ Others(b, a)
  BY <1>2, <1>3, <1>5, <1>7, GzMachine
<1>9. b.res = "ok"
  BY <1>2, <1>8 DEF Others
<1>10. b = [a EXCEPT !.f.s = Fresh(a.f.img), !.f.iseof = FALSE, !.f.calccrc = FALSE]
  BY <1>3, <1>4, <1>5, <1>6, <1>7 DEF GzFile, MachineSet
<1>11. r = WithHeader(b)
  BY <1>1, <1>10 DEF zfile_reset
<1>12. b.f.img \in Contents /\ On(b, own, b.f.img)
  BY <1>8, OnMachine
<1>13. Goes(r, b, own)
  BY <1>9, <1>11, <1>12, GzWithHeader
<1>14. MachineOf(r, own) /\ Keeps(r, b)
  BY <1>8, <1>13, OnMachine
<1> QED BY <1>2, <1>8, <1>14, KeepsOn

\* The trailer of a member is read.
LEMMA GzTrailerRead ==
    ASSUME fmt = "z", NEW own \in Seq(Contents), NEW m, MachineOf(m, own), AtEnd(m.f.img, m.f.s.in),
           NEW r, r = zfile_parse_gzip_trailer(m)
    PROVE  MachineOf(r, own) /\ Keeps(r, m) /\ r.c = m.c
<1>1. PICK h \in Nat : h = GzTrailer
  BY GzSizes
<1>2. PICK a : a = Refilled(m, h)
  OBVIOUS
<1>3. PICK im \in Contents : im = m.f.img
  BY MachineFacts
<1>4. On(m, own, im)
  BY <1>3, OnMachine
<1>5. On(a, own, im) /\ Goes(a, m, own) /\ a.f.s.in = m.f.s.in
  BY <1>2, <1>4, GzRefilled
<1>6. a.f.img = im /\ a.f.s \in StreamSet /\ StreamOf(a.f.s, im) /\ im \in Texts
  BY <1>5, OnFacts
<1>7. PICK v \in Nat, i \in Nat, n \in Nat : v = a.f.s.avail /\ i = a.f.s.in /\ n = Len(im)
  BY <1>6 DEF StreamSet, Texts
<1>8. r = IF a.res # "ok" \/ v < h THEN Fail(a) ELSE Advance(a, h)
  BY <1>1, <1>2, <1>7 DEF zfile_parse_gzip_trailer
<1>9. CASE a.res # "ok" \/ v < h
  <2>1. r = Fail(a)
    BY <1>8, <1>9
  <2>2. On(r, own, im) /\ Goes(r, a, own)
    BY <2>1, <1>5, OnFails
  <2>3. Goes(r, m, own)
    BY <2>2, <1>5, GoesOn
  <2> QED BY <2>3, OnMachine
<1>10. CASE ~(a.res # "ok" \/ v < h)
  <2>1. r = Advance(a, h) /\ a.f.s.avail >= h
    BY <1>7, <1>8, <1>10
  <2>2. \A j \in a.f.s.in + 1 .. a.f.s.in + h : im[j] # "d"
    <3>1. i + v <= n
      BY <1>6, <1>7 DEF StreamOf
    <3>2. i \in 1 .. n /\ im[i] = "e"
      <4>1. AtEnd(im, i)
        BY <1>3, <1>5, <1>7
      <4> QED BY <4>1, <3>1 DEF AtEnd
    <3>3. \A j \in i + 1 .. i + h : j <= n => im[j] \in {"t", "x"}
      <4>1. TrailersFollow(im)
        BY GzSets
      <4> QED BY <4>1, <3>2, <1>1, <1>7 DEF TrailersFollow
    <3>4. \A j \in i + 1 .. i + h : j <= n
      BY <3>1, <1>10
    <3> QED BY <3>3, <3>4, <1>7
  <2>3. On(r, own, im) /\ Goes(r, a, own)
    BY <2>1, <2>2, <1>5, GzAdvance
  <2>4. Goes(r, m, own)
    BY <2>3, <1>5, GoesOn
  <2> QED BY <2>4, OnMachine
<1> QED BY <1>9, <1>10

\* The next member begins.
LEMMA GzReinit ==
    ASSUME fmt = "z", NEW own \in Seq(Contents), NEW m, MachineOf(m, own), NEW r, r = zfile_reinit_state(m)
    PROVE  MachineOf(r, own) /\ Keeps(r, m) /\ r.c = m.c
<1>1. PICK im \in Texts : im = m.f.img
  BY MachineFacts
<1>2. m \in MachineSet /\ m.f \in GzFiles /\ StreamOf(m.f.s, im) /\ m.f.s \in StreamSet
  BY <1>1, MachineFacts, GzSets
<1>3. PICK i \in Nat, o \in Nat, v \in Nat, n \in Nat : i = m.f.s.in /\ o = m.f.s.out /\ v = m.f.s.avail /\ n = Len(im)
  <2>1. m.f.s.in \in Nat /\ m.f.s.out \in Nat /\ m.f.s.avail \in Nat
    BY <1>2 DEF StreamSet
  <2>2. Len(im) \in Nat
    <3>1. im \in Texts
      OBVIOUS
    <3> QED BY ONLY <3>1 DEF Texts
  <2> QED BY ONLY <2>1, <2>2
<1>4. PICK s : s = [Fresh(im) EXCEPT !.in = i, !.out = o]
  OBVIOUS
<1>5. s \in StreamSet /\ s.in = i /\ s.out = o /\ s.avail = 0 /\ s.src = im
  <2>1. Fresh(im) \in StreamSet /\ Fresh(im).src = im /\ Fresh(im).avail = 0
    BY FreshStream DEF StreamOf
  <2> QED BY <2>1, <1>4 DEF StreamSet
<1>6. StreamOf(s, im)
  <2>1. i + v <= n /\ o = Data(im, 0, i)
    BY <1>2, <1>3 DEF StreamOf
  <2>2. i + 0 <= n
    BY <2>1
  <2> QED BY <2>1, <2>2, <1>3, <1>5 DEF StreamOf
<1>7. PICK e \in BOOLEAN, q \in BOOLEAN : e = FALSE /\ q = m.f.calccrc
  BY <1>2 DEF GzFiles
<1>8. PICK b : b = [m EXCEPT !.f = GzFile(m.f, s, e, q)]
  OBVIOUS
<1>9. MachineOf(b, own) /\ Keeps(b, m) /\ b.c = m.c
  <2>1. FileOf(m.f, im)
    BY <1>1, MachineFacts
  <2>2. PICK g : g = GzFile(m.f, s, e, q)
    OBVIOUS
  <2>3. FileOf(g, im) /\ g.id = m.f.id
    BY <2>1, <2>2, <1>6, GzPut
  <2>4. FileOf(g, m.f.img) /\ b = [m EXCEPT !.f = g]
    BY <2>2, <2>3, <1>1, <1>8
  <2> QED BY <2>3, <2>4, MachineFile
<1>10. b = [m EXCEPT !.f.s = [Fresh(m.f.img) EXCEPT !.in = m.f.s.in, !.out = m.f.s.out], !.f.iseof = FALSE]
  <2>1. GzFile(m.f, s, e, q) = [m.f EXCEPT !.s = s, !.iseof = FALSE]
    BY <1>2, <1>7 DEF GzFile, GzFiles
  <2> QED BY <2>1, <1>1, <1>2, <1>3, <1>4, <1>8 DEF MachineSet
<1>11. r = zfile_parse_gzip_header(b)
  BY <1>10 DEF zfile_reinit_state
<1>12. b.f.img \in Contents /\ On(b, own, b.f.img)
  BY <1>9, OnMachine
<1>13. Goes(r, b, own)
  BY <1>11, <1>12, GzHeaderRead
<1>14. MachineOf(r, own) /\ Keeps(r, b) /\ r.c = b.c
  BY <1>9, <1>13, OnMachine
<1> QED BY <1>9, <1>14, KeepsOn

\* An index of the present place is saved.
LEMMA GzSaveIndex ==
    ASSUME fmt = "z", NEW own \in Seq(Contents), NEW m, MachineOf(m, own), NEW r, r = zfile_save_index(m)
    PROVE  MachineOf(r, own) /\ Keeps(r, m)
<1>1. PICK im \in Texts : im = m.f.img
  BY MachineFacts
<1>2. m \in MachineSet /\ m.f \in GzFiles /\ StreamOf(m.f.s, im) /\ m.f.s \in StreamSet
  BY <1>1, MachineFacts, GzSets
<1>3. m.c \in GzCaches /\ \A k \in 1 .. Len(m.c.indexes) : GzIndexOf(m.c.indexes[k], im)
  <2>1. CacheOf(m.c, m.c.id, im)
    BY <1>1, MachineFacts
  <2> QED BY <2>1, GzSets
<1>4. CASE m.io = "index"
  <2>1. r = Hit(m)
    BY <1>4 DEF zfile_save_index
  <2> QED BY <2>1, MachineFails
<1>5. CASE m.io # "index"
  <2>1. PICK t0 : t0 = [m.f.s EXCEPT !.avail = 0]
    OBVIOUS
  <2>2. t0 \in StreamSet /\ t0.in = m.f.s.in /\ t0.out = m.f.s.out /\ t0.avail = 0 /\ StreamOf(t0, im)
    BY <2>1, <1>2, StreamEmptied
  <2>3. PICK t : t = [t0 EXCEPT !.adler = 0]
    OBVIOUS
  <2>4. t \in StreamSet /\ t.in = t0.in /\ t.out = t0.out /\ t.avail = 0 /\ t.src = t0.src
    BY <2>2, <2>3 DEF StreamSet
  <2>5. StreamOf(t, im)
    BY <2>2, <2>4 DEF StreamOf
  <2>6. PICK o \in Nat : o = m.f.s.out
    BY <1>2 DEF StreamSet
  <2>7. PICK x : x = [off |-> o, s |-> t]
    OBVIOUS
  <2>8. x \in GzIndexes /\ GzIndexOf(x, im)
    BY <2>2, <2>4, <2>5, <2>6, <2>7 DEF GzIndexes, GzIndexOf
  <2>9. PICK q : q = Append(m.c.indexes, x)
    OBVIOUS
  <2>10. q \in Seq(GzIndexes) /\ \A k \in 1 .. Len(q) : GzIndexOf(q[k], im)
    <3>1. PICK v \in Seq(GzIndexes) : v = m.c.indexes
      BY <1>3 DEF GzCaches
    <3>2. q \in Seq(GzIndexes) /\ Len(q) = Len(v) + 1 /\ q[Len(v) + 1] = x /\ \A k \in 1 .. Len(v) : q[k] = v[k]
      BY <3>1, <2>8, <2>9
    <3>3. SUFFICES ASSUME NEW k \in 1 .. Len(q) PROVE GzIndexOf(q[k], im)
      BY <3>2
    <3>4. k \in 1 .. Len(v) \/ k = Len(v) + 1
      BY <3>2
    <3> QED BY <3>1, <3>2, <3>4, <1>3, <2>8
  <2>11. PICK e \in Nat : e = m.c.nextindex + IndexDistance
    <3>1. m.c.nextindex \in Nat /\ IndexDistance \in Nat
      BY <1>3, StreamsAssumption DEF GzCaches
    <3> QED BY <3>1
  <2>12. PICK c : c = [m.c EXCEPT !.indexes = q, !.nextindex = e]
    OBVIOUS
  <2>13. c \in GzCaches /\ c.id = m.c.id /\ c.indexes = q
    BY <1>3, <2>10, <2>11, <2>12 DEF GzCaches
  <2>14. CacheOf(c, m.c.id, im)
    BY <2>10, <2>13, GzSets
  <2>15. r = [m EXCEPT !.c = c]
    <3>1. [m.f.s EXCEPT !.avail = 0, !.adler = 0] = t
      BY <2>1, <2>3, <1>2 DEF StreamSet
    <3>2. r = [m EXCEPT !.c.indexes = q, !.c.nextindex = e]
      BY <1>5, <2>6, <2>7, <2>9, <2>11, <3>1 DEF zfile_save_index
    <3> QED BY <3>2, <1>2, <2>12 DEF MachineSet
  <2> QED BY <1>1, <2>14, <2>15, MachineCache
<1> QED BY <1>4, <1>5

\* An index is saved when its distance is reached.
LEMMA GzSaveIndexIfDue ==
    ASSUME fmt = "z", NEW own \in Seq(Contents), NEW m, MachineOf(m, own), NEW r, r = SaveIndexIfDue(m)
    PROVE  MachineOf(r, own) /\ Keeps(r, m)
<1>1. r = m \/ r = zfile_save_index(m)
  BY DEF SaveIndexIfDue
<1>2. CASE r = m
  BY <1>2 DEF Keeps
<1>3. CASE r = zfile_save_index(m)
  BY <1>3, GzSaveIndex
<1> QED BY <1>1, <1>2, <1>3

\* Two notes are made in the cache.
LEMMA GzNoted ==
    ASSUME fmt = "z", NEW own \in Seq(Contents), NEW m, MachineOf(m, own), NEW e \in BOOLEAN, NEW n \in Int,
           NEW r, r = [m EXCEPT !.c.crc_ok = e, !.c.size = n]
    PROVE  MachineOf(r, own) /\ Keeps(r, m)
<1>1. PICK im : im = m.f.img /\ CacheOf(m.c, m.c.id, im)
  BY MachineFacts
<1>2. m \in MachineSet /\ m.c \in GzCaches /\ \A k \in 1 .. Len(m.c.indexes) : GzIndexOf(m.c.indexes[k], im)
  <2>1. m \in MachineSet
    BY MachineFacts
  <2> QED BY <2>1, <1>1, GzSets
<1>3. PICK c : c = [m.c EXCEPT !.crc_ok = e, !.size = n]
  OBVIOUS
<1>4. c \in GzCaches /\ c.id = m.c.id /\ c.indexes = m.c.indexes
  BY <1>2, <1>3 DEF GzCaches
<1>5. CacheOf(c, m.c.id, im)
  BY <1>2, <1>4, GzSets
<1>6. r = [m EXCEPT !.c = c]
  BY <1>2, <1>3 DEF MachineSet
<1> QED BY <1>1, <1>5, <1>6, MachineCache

\* The end of a member: its trailer, and the next member if there is one.
LEMMA GzStreamEnd ==
    ASSUME fmt = "z", NEW own \in Seq(Contents), NEW m, MachineOf(m, own), AtEnd(m.f.img, m.f.s.in),
           NEW r, r = StreamEnd(m)
    PROVE  MachineOf(r, own) /\ Keeps(r, m)
<1> DEFINE t == zfile_parse_gzip_trailer([m EXCEPT !.f.iseof = TRUE])
           cont == t.f.s.avail > 0 /\ t.f.img[t.f.s.in + 1] = "h"
           n == IF cont THEN zfile_reinit_state(t) ELSE t
           u == [n EXCEPT !.c.crc_ok = IF n.f.calccrc THEN ~cont ELSE @, !.c.size = n.f.s.out]
<1>1. r \in {Fail(t), n, u, SaveIndexIfDue(u)}
  BY DEF StreamEnd
<1>2. PICK a : a = [m EXCEPT !.f.iseof = TRUE]
  OBVIOUS
<1>3. MachineOf(a, own) /\ Keeps(a, m) /\ AtEnd(a.f.img, a.f.s.in)
  <2>1. m \in MachineSet /\ m.f \in GzFiles /\ FileOf(m.f, m.f.img)
    BY MachineFacts, GzSets
  <2>2. PICK g : g = [m.f EXCEPT !.iseof = TRUE]
    OBVIOUS
  <2>3. g \in GzFiles /\ g.s = m.f.s /\ g.img = m.f.img /\ g.id = m.f.id
    BY <2>1, <2>2 DEF GzFiles
  <2>4. FileOf(g, m.f.img)
    <3>1. StreamOf(g.s, m.f.img)
      BY <2>3, MachineFacts
    <3> QED BY <3>1, <2>3, GzSets
  <2>5. a = [m EXCEPT !.f = g]
    BY <2>1, <2>2, <1>2 DEF MachineSet
  <2>6. MachineOf(a, own) /\ Keeps(a, m) /\ a.f = g
    BY <2>3, <2>4, <2>5, MachineFile
  <2> QED BY <2>3, <2>6
<1>4. t = zfile_parse_gzip_trailer(a)
  BY <1>2
<1> HIDE DEF t
<1>5. MachineOf(t, own) /\ Keeps(t, m)
  <2>1. MachineOf(t, own) /\ Keeps(t, a)
    BY <1>3, <1>4, GzTrailerRead
  <2> QED BY <2>1, <1>3, KeepsOn
<1>6. n = t \/ n = zfile_reinit_state(t)
  OBVIOUS
<1>7. u = [n EXCEPT !.c.crc_ok = IF n.f.calccrc THEN ~cont ELSE n.c.crc_ok, !.c.size = n.f.s.out]
  OBVIOUS
<1> HIDE DEF n, u
<1>8. MachineOf(n, own) /\ Keeps(n, m)
  <2>1. CASE n = t
    BY <2>1, <1>5
  <2>2. CASE n = zfile_reinit_state(t)
    <3>1. MachineOf(n, own) /\ Keeps(n, t)
      BY <2>2, <1>5, GzReinit
    <3> QED BY <3>1, <1>5, KeepsOn
  <2> QED BY <2>1, <2>2, <1>6
<1>9. MachineOf(u, own) /\ Keeps(u, m)
  <2>1. n \in MachineSet /\ n.c \in GzCaches /\ n.f \in GzFiles /\ n.f.s \in StreamSet
    <3>1. n \in MachineSet /\ n.c \in CacheSet /\ n.f \in Files /\ n.f.s \in StreamSet
      BY <1>8, MachineFacts
    <3> QED BY <3>1, GzSets
  <2>2. PICK e \in BOOLEAN : e = IF n.f.calccrc THEN ~cont ELSE n.c.crc_ok
    BY <2>1 DEF GzCaches
  <2>3. PICK o \in Int : o = n.f.s.out
    BY <2>1 DEF StreamSet
  <2>4. u = [n EXCEPT !.c.crc_ok = e, !.c.size = o]
    BY <2>2, <2>3, <1>7
  <2>5. MachineOf(u, own) /\ Keeps(u, n)
    BY <2>4, <1>8, GzNoted
  <2> QED BY <2>5, <1>8, KeepsOn
<1>10. CASE r = Fail(t)
  <2>1. MachineOf(r, own) /\ Keeps(r, t)
    BY <1>5, <1>10, MachineFails
  <2> QED BY <2>1, <1>5, KeepsOn
<1>11. CASE r = n
  BY <1>8, <1>11
<1>12. CASE r = u
  BY <1>9, <1>12
<1>13. CASE r = SaveIndexIfDue(u)
  <2>1. MachineOf(r, own) /\ Keeps(r, u)
    BY <1>9, <1>13, GzSaveIndexIfDue
  <2> QED BY <2>1, <1>9, KeepsOn
<1> QED BY <1>1, <1>10, <1>11, <1>12, <1>13

\* One call of the decoder.
LEMMA GzInflate ==
    ASSUME fmt = "z", NEW own \in Seq(Contents), NEW m, MachineOf(m, own), NEW room \in Int,
           NEW r, r = zfile_inflate(m, room)
    PROVE  MachineOf(r, own) /\ Keeps(r, m)
<1> DEFINE a == Refilled(m, 1)
           s == a.f.s
           k == Take(a.f.img, s.in, s.avail, room)
           d == Data(a.f.img, s.in, k)
           cc == a.f.calccrc /\ ~a.c.crc_ok
           b == [a EXCEPT !.f.s = [Taken(@, k, d) EXCEPT !.adler = IF cc THEN s.adler + d ELSE 0],
                          !.f.calccrc = cc, !.got = d]
           x == [Taken(s, k, d) EXCEPT !.adler = IF cc THEN s.adler + d ELSE 0]
<1>1. r = IF a.res # "ok" \/ ~s.live \/ k = 0 THEN Fail(a)
          ELSE IF AtEnd(a.f.img, b.f.s.in) THEN StreamEnd(b)
          ELSE SaveIndexIfDue(b)
  BY DEF zfile_inflate
<1>2. MachineOf(a, own) /\ Keeps(a, m)
  <2>1. m.f.img \in Contents /\ On(m, own, m.f.img)
    BY OnMachine
  <2>2. a = Refilled(m, 1)
    BY DEF a
  <2>3. Goes(a, m, own)
    BY <2>1, <2>2, GzRefilled
  <2> QED BY <2>3, OnMachine
<1> HIDE DEF a, k, d, cc
<1>3. b = [a EXCEPT !.f.s = x, !.f.calccrc = cc, !.got = d]
  OBVIOUS
<1>30. x = [Taken(s, k, d) EXCEPT !.adler = IF cc THEN s.adler + d ELSE 0]
  OBVIOUS
<1> HIDE DEF x, b
<1>4. PICK im \in Texts : im = a.f.img
  BY <1>2, MachineFacts
<1>5. a \in MachineSet /\ a.f \in GzFiles /\ StreamOf(s, im) /\ s \in StreamSet /\ a.c \in GzCaches
  <2>1. a \in MachineSet /\ a.f \in Files /\ StreamOf(s, im) /\ s \in StreamSet /\ a.c \in CacheSet
    BY <1>2, <1>4, MachineFacts
  <2> QED BY <2>1, GzSets
<1>6. s.in \in Nat /\ s.avail \in Nat
  BY <1>5 DEF StreamSet
<1>7. PICK k0 \in Nat, d0 \in Nat : k0 = k /\ d0 = d /\ k0 \in 0 .. s.avail /\ d0 = Data(im, s.in, k0)
  <2>1. PICK q : q = Take(im, s.in, s.avail, room)
    OBVIOUS
  <2>2. q \in 0 .. s.avail /\ Data(im, s.in, q) \in Nat
    BY <2>1, <1>6, TakeBounds
  <2>3. q = k /\ Data(im, s.in, q) = d /\ q \in Nat
    BY <2>1, <2>2, <1>4, <1>6 DEF k, d
  <2> QED BY <2>2, <2>3
<1>8. PICK q \in BOOLEAN : q = cc
  BY DEF cc
<1>9. PICK t : t = Taken(s, k0, d0)
  OBVIOUS
<1>10. t \in StreamSet /\ StreamOf(t, im) /\ t.in = s.in + k0
  BY <1>5, <1>7, <1>9, StreamTakes
<1>11. PICK z \in Nat : z = IF q THEN s.adler + d0 ELSE 0
  BY <1>5 DEF StreamSet
<1>12. x = [t EXCEPT !.adler = z]
  BY <1>30, <1>7, <1>8, <1>9, <1>11
<1>13. x \in StreamSet /\ x.in = t.in /\ x.out = t.out /\ x.avail = t.avail /\ x.src = t.src
  BY <1>10, <1>12 DEF StreamSet
<1>14. StreamOf(x, im)
  BY <1>10, <1>13 DEF StreamOf
<1>15. PICK e \in BOOLEAN : e = a.f.iseof
  BY <1>5 DEF GzFiles
<1>16. PICK b0 : b0 = [a EXCEPT !.f = GzFile(a.f, x, e, q)]
  OBVIOUS
<1>17. MachineOf(b0, own) /\ Keeps(b0, a)
  <2>1. FileOf(a.f, im)
    BY <1>2, <1>4, MachineFacts
  <2>2. PICK g : g = GzFile(a.f, x, e, q)
    OBVIOUS
  <2>3. FileOf(g, im) /\ g.id = a.f.id
    BY <2>1, <2>2, <1>14, GzPut
  <2>4. FileOf(g, a.f.img) /\ b0 = [a EXCEPT !.f = g]
    BY <2>2, <2>3, <1>4, <1>16
  <2> QED BY <2>3, <2>4, <1>2, MachineFile
<1>18. b = [b0 EXCEPT !.got = d0]
  <2>1. GzFile(a.f, x, e, q) = [a.f EXCEPT !.s = x, !.calccrc = q]
    BY <1>5, <1>15 DEF GzFile, GzFiles
  <2>2. b = [a EXCEPT !.f.s = x, !.f.calccrc = q, !.got = d0]
    BY <1>3, <1>7, <1>8
  <2> QED BY <2>1, <2>2, <1>5, <1>16 DEF MachineSet
<1>19. MachineOf(b, own) /\ Keeps(b, b0) /\ b.f = b0.f
  BY <1>17, <1>18, MachineGot
<1>20. Keeps(b, m)
  BY <1>2, <1>17, <1>19, KeepsOn
<1>21. b.f.img = a.f.img
  BY <1>17, <1>19 DEF Keeps
<1>22. r = Fail(a) \/ (AtEnd(b.f.img, b.f.s.in) /\ r = StreamEnd(b)) \/ r = SaveIndexIfDue(b)
  BY <1>1, <1>21
<1>23. CASE r = Fail(a)
  <2>1. MachineOf(r, own) /\ Keeps(r, a)
    BY <1>2, <1>23, MachineFails
  <2> QED BY <2>1, <1>2, KeepsOn
<1>24. CASE AtEnd(b.f.img, b.f.s.in) /\ r = StreamEnd(b)
  <2>1. MachineOf(r, own) /\ Keeps(r, b)
    BY <1>19, <1>24, GzStreamEnd
  <2> QED BY <2>1, <1>20, KeepsOn
<1>25. CASE r = SaveIndexIfDue(b)
  <2>1. MachineOf(r, own) /\ Keeps(r, b)
    BY <1>19, <1>25, GzSaveIndexIfDue
  <2> QED BY <2>1, <1>20, KeepsOn
<1> QED BY <1>22, <1>23, <1>24, <1>25

\* The decoder goes on from an index, or cannot be set up.
LEMMA GzSeekIndex ==
    ASSUME fmt = "z", NEW own \in Seq(Contents), NEW m, MachineOf(m, own),
           NEW zi, GzIndexOf(zi, m.f.img), NEW r, r = zfile_seek_index(m, zi)
    PROVE  MachineOf(r, own) /\ Keeps(r, m)
<1>1. PICK a : a = zfile_scache_save(m)
  OBVIOUS
<1>2. MachineOf(a, own) /\ Keeps(a, m) /\ a.f = m.f
  BY <1>1, GzSave
<1>3. PICK im \in Texts : im = a.f.img
  BY <1>2, MachineFacts
<1>4. a \in MachineSet /\ a.f \in GzFiles
  BY <1>2, MachineFacts, GzSets
<1>5. PICK e \in BOOLEAN, q \in BOOLEAN : e = a.f.iseof /\ q = a.f.calccrc
  BY <1>4 DEF GzFiles
<1>6. PICK no \in BOOLEAN : no = FALSE
  OBVIOUS
<1>7. CASE a.io = "index"
  <2>1. PICK s : s = [Fresh(im) EXCEPT !.live = FALSE]
    OBVIOUS
  <2>2. StreamOf(s, im)
    <3>1. Fresh(im) \in StreamSet /\ StreamOf(Fresh(im), im)
      BY FreshStream DEF StreamOf
    <3>2. s \in StreamSet /\ s.in = Fresh(im).in /\ s.out = Fresh(im).out /\ s.avail = Fresh(im).avail /\ s.src = Fresh(im).src
      BY <2>1, <3>1 DEF StreamSet
    <3> QED BY <3>1, <3>2 DEF StreamOf
  <2>3. PICK b : b = [a EXCEPT !.f = GzFile(a.f, s, e, q)]
    OBVIOUS
  <2>4. MachineOf(b, own) /\ Keeps(b, a)
    <3>1. StreamOf(s, a.f.img)
      BY <2>2, <1>3
    <3> QED BY <3>1, <2>3, <1>2, GzMachine
  <2>5. b = [a EXCEPT !.f.s = [Fresh(a.f.img) EXCEPT !.live = FALSE]]
    <3>1. GzFile(a.f, s, e, q) = [a.f EXCEPT !.s = s]
      BY <1>4, <1>5 DEF GzFile, GzFiles
    <3> QED BY <3>1, <2>1, <2>3, <1>3, <1>4 DEF MachineSet
  <2>6. r = Hit(b)
    BY <2>5, <1>1, <1>7 DEF zfile_seek_index
  <2>7. MachineOf(r, own) /\ Keeps(r, b)
    BY <2>4, <2>6, MachineFails
  <2>8. Keeps(r, a)
    BY <2>4, <2>7, KeepsOn
  <2> QED BY <2>7, <2>8, <1>2, KeepsOn
<1>8. CASE a.io # "index"
  <2>1. PICK s : s = zi.s
    OBVIOUS
  <2>2. StreamOf(s, a.f.img)
    BY <2>1, <1>2 DEF GzIndexOf
  <2>3. PICK b : b = [a EXCEPT !.f = GzFile(a.f, s, no, no)]
    OBVIOUS
  <2>4. MachineOf(b, own) /\ Keeps(b, a)
    BY <2>2, <2>3, <1>2, GzMachine
  <2>5. b = [a EXCEPT !.f.s = zi.s, !.f.iseof = FALSE, !.f.calccrc = FALSE]
    BY <2>1, <2>3, <1>4, <1>6 DEF GzFile, MachineSet
  <2>6. r = b
    BY <2>5, <1>1, <1>8 DEF zfile_seek_index
  <2> QED BY <2>4, <2>6, <1>2, KeepsOn
<1> QED BY <1>7, <1>8

\* An offset is reached from the present place, an index, the stream cache or the start.
LEMMA GzSeek ==
    ASSUME fmt = "z", NEW own \in Seq(Contents), NEW m, MachineOf(m, own), m.res = "ok", NEW offset \in Nat,
           NEW r, r = zfile_seek(m, offset)
    PROVE  MachineOf(r, own) /\ Keeps(r, m)
<1> DEFINE zi == IndexBefore(m.c.indexes, offset)
           x == [m EXCEPT !.f.s = [m.sc.s EXCEPT !.avail = 0],
                          !.f.calccrc = m.sc.calccrc, !.f.iseof = m.sc.iseof,
                          !.sc.s = [m.f.s EXCEPT !.avail = 0], !.sc.calccrc = m.f.calccrc, !.sc.iseof = m.f.iseof]
<1>1. \/ m.sc.id = m.c.id /\ r = x
      \/ zi = 0 /\ r = zfile_reset(m)
      \/ zi # 0 /\ r = zfile_seek_index(m, m.c.indexes[zi])
      \/ r = m
  BY DEF zfile_seek
<1>2. PICK im \in Texts : im = m.f.img
  BY MachineFacts
<1>3. /\ m \in MachineSet /\ m.f \in GzFiles /\ StreamOf(m.f.s, im) /\ ScOf(m.sc, own)
      /\ im = own[m.c.id] /\ m.c.id \in 1 .. Len(own) /\ m.c.id # 0 /\ CacheOf(m.c, m.c.id, im)
  BY <1>2, MachineFacts, GzSets
<1>4. m.c \in GzCaches /\ \A k \in 1 .. Len(m.c.indexes) : GzIndexOf(m.c.indexes[k], im)
  BY <1>3, GzSets
<1>5. CASE m.sc.id = m.c.id /\ r = x
  <2>1. m.sc \in Saved /\ StreamOf(m.sc.s, im)
    <3>1. m.sc # NoStream
      BY <1>3, <1>5 DEF NoStream
    <3> QED BY <3>1, <1>3, <1>5 DEF ScOf, ScIs, Saved
  <2>2. PICK v \in [id : Nat, s : StreamSet, calccrc : BOOLEAN, iseof : BOOLEAN] : v = m.sc
    BY <2>1, GzSets
  <2>3. PICK t : t = [v.s EXCEPT !.avail = 0]
    OBVIOUS
  <2>4. StreamOf(t, im)
    <3>1. StreamOf(v.s, im)
      BY <2>1, <2>2
    <3> QED BY <3>1, <2>3, StreamEmptied
  <2>5. PICK w : w = [m.f.s EXCEPT !.avail = 0]
    OBVIOUS
  <2>6. w \in StreamSet /\ StreamOf(w, im)
    BY <2>5, <1>3, StreamEmptied
  <2>7. PICK q \in BOOLEAN, e \in BOOLEAN : q = v.calccrc /\ e = v.iseof
    BY <2>2
  <2>8. PICK fq \in BOOLEAN, fe \in BOOLEAN : fq = m.f.calccrc /\ fe = m.f.iseof
    BY <1>3 DEF GzFiles
  <2>9. PICK b : b = [m EXCEPT !.f = GzFile(m.f, t, e, q)]
    OBVIOUS
  <2>10. MachineOf(b, own) /\ Keeps(b, m)
    <3>1. StreamOf(t, m.f.img)
      BY <2>4, <1>2
    <3> QED BY <3>1, <2>9, GzMachine
  <2>11. PICK y : y = [v EXCEPT !.s = w, !.calccrc = fq, !.iseof = fe]
    OBVIOUS
  <2>12. y \in Saved /\ y.id = v.id /\ y.s = w
    <3>1. y \in [id : Nat, s : StreamSet, calccrc : BOOLEAN, iseof : BOOLEAN] /\ y.id = v.id /\ y.s = w
      BY <2>6, <2>11
    <3> QED BY <3>1, GzSets
  <2>13. ScOf(y, own)
    BY <2>2, <2>6, <2>12, <1>3, <1>5 DEF ScOf, ScIs, Saved
  <2>14. r = [b EXCEPT !.sc = y]
    <3>1. [m.f EXCEPT !.s = t, !.calccrc = q, !.iseof = e] = GzFile(m.f, t, e, q)
      BY <1>3 DEF GzFile, GzFiles
    <3>2. r = [m EXCEPT !.f.s = t, !.f.calccrc = q, !.f.iseof = e, !.sc.s = w, !.sc.calccrc = fq, !.sc.iseof = fe]
      BY <2>2, <2>3, <2>5, <2>7, <2>8, <1>5
    <3>3. r = [m EXCEPT !.f = [m.f EXCEPT !.s = t, !.calccrc = q, !.iseof = e],
                        !.sc = [m.sc EXCEPT !.s = w, !.calccrc = fq, !.iseof = fe]]
      BY <3>2, <1>3 DEF MachineSet
    <3>4. r = [m EXCEPT !.f = GzFile(m.f, t, e, q), !.sc = y]
      BY <3>1, <3>3, <2>2, <2>11
    <3> QED BY <3>4, <2>9, <1>3 DEF MachineSet
  <2>15. MachineOf(r, own) /\ Keeps(r, b)
    BY <2>10, <2>12, <2>13, <2>14, MachineSc
  <2> QED BY <2>10, <2>15, KeepsOn
<1>6. CASE r = zfile_reset(m)
  BY <1>6, GzReset
<1>7. CASE zi # 0 /\ r = zfile_seek_index(m, m.c.indexes[zi])
  <2>1. PICK idx \in Seq(GzIndexes) : idx = m.c.indexes
    BY <1>4 DEF GzCaches
  <2>2. \A i \in 1 .. Len(idx) : idx[i].off \in Nat
    <3>1. \A i \in 1 .. Len(idx) : idx[i] \in GzIndexes
      OBVIOUS
    <3> QED BY <3>1 DEF GzIndexes
  <2>3. PICK z : z = IndexBefore(idx, offset)
    OBVIOUS
  <2>4. z \in 0 .. Len(idx) /\ (z # 0 => z \in 1 .. Len(idx))
    <3>1. offset \in Int
      OBVIOUS
    <3> QED BY <3>1, <2>2, <2>3, IndexFound
  <2>5. PICK w : w = idx[z]
    OBVIOUS
  <2>6. GzIndexOf(w, m.f.img) /\ r = zfile_seek_index(m, w)
    BY <2>1, <2>3, <2>4, <2>5, <1>2, <1>4, <1>7
  <2> QED BY <2>6, GzSeekIndex
<1>8. CASE r = m
  BY <1>8 DEF Keeps
<1> QED BY <1>1, <1>5, <1>6, <1>7, <1>8
----------------------------------------------------------------------------
(* The readers together: own is what each cache is of.                     *)

NodesFor(fm) == IF fm = "z" THEN [sig : Nat, cache : Nat, ready : BOOLEAN] ELSE [sig : Nat, cache : Nat]
Answers == {"full", "read error", "size error", "bad read", "bad size"}
Places == {"idle", "goto", "skip", "read", "spin"}
VfilesFor(fm) ==
    [st : {"closed", "header", "open"}, img : Texts, node : Nat, fil : {NoFile} \cup FilesFor(fm),
     noperm : BOOLEAN, faulted : BOOLEAN, pc : Places, op : {"none", "read", "size"},
     off : Nat, n : Nat, zc : Nat, got : Nat, ans : Answers]

\* A node has the cache of its content, or none.
NodeIs(fm, x, own) ==
    /\ x \in NodesFor(fm) /\ x.sig \in 1 .. Len(Images[fm])
    /\ x.cache \in 0 .. Len(own)
    /\ x.cache # 0 => own[x.cache] = Images[fm][x.sig]
    /\ fm \in {"bz", "xz", "zst"} => x.cache # 0

\* The file of a vfile is of the content it was opened on, and so is the cache whose id it has.
FilIs(fm, f, im, own) ==
    /\ FileIs(fm, f, im)
    /\ f.id # 0 => f.id \in 1 .. Len(own) /\ own[f.id] = im

VfileIs(fm, v, own, ns) ==
    /\ v \in VfilesFor(fm)
    /\ v.fil = NoFile \/ FilIs(fm, v.fil, v.img, own)
    /\ v.st = "closed" => v.fil = NoFile
    /\ v.st # "closed" => v.node \in 1 .. Len(ns) /\ v.img = Images[fm][ns[v.node].sig]
    /\ v.st = "open" /\ ~v.noperm => FilIs(fm, v.fil, v.img, own)
    /\ v.pc # "idle" => /\ v.st = "open" /\ FilIs(fm, v.fil, v.img, own)
                        /\ v.zc \in 1 .. Len(own) /\ own[v.zc] = v.img /\ v.fil.id \in {0, v.zc}

Fits(fm, own, bs, cl, ns, cs, s, v) ==
    /\ fm \in Formats /\ own \in Seq(ContentsFor(fm)) /\ bs \in 1 .. Len(Images[fm])
    /\ ns \in Seq(NodesFor(fm)) /\ \A n \in 1 .. Len(ns) : NodeIs(fm, ns[n], own)
    /\ cl \in 0 .. Len(ns)
    /\ cs \in Seq(CachesFor(fm)) /\ Len(cs) = Len(own)
    /\ \A c \in 1 .. Len(cs) : CacheIs(fm, cs[c], c, own[c])
    /\ ScIs(fm, s, own)
    /\ v \in [Handles -> VfilesFor(fm)] /\ \A h \in Handles : VfileIs(fm, v[h], own, ns)

\* The inductive invariant of the readers.
Now(own) == Fits(fmt, own, base, cell, nodes, caches, sc, fd)
Later(own) == Fits(fmt, own, base', cell', nodes', caches', sc', fd')
ReadersInv == \E own : Now(own)

\* The contents of the base file.
LEMMA ImagesAre ==
    ASSUME fmt \in Formats, NEW i \in 1 .. Len(Images[fmt])
    PROVE  Images[fmt][i] \in Contents /\ Images[fmt][i] \in Texts
<1>1. Images[fmt][i] \in Texts
  BY StreamsAssumption DEF Texts
<1>2. fmt = "z" => TrailersFollow(Images[fmt][i])
  <2> SUFFICES ASSUME fmt = "z" PROVE TrailersFollow(Images["z"][i])
    OBVIOUS
  <2>1. "z" \in Formats /\ i \in 1 .. Len(Images["z"])
    OBVIOUS
  <2> QED BY <2>1, GzipAssumption
<1> QED BY <1>1, <1>2 DEF Contents, ContentsFor

\* One vfile changes.
LEMMA FdFits ==
    ASSUME NEW fm, NEW own, NEW bs, NEW cl, NEW ns, NEW cs, NEW s, NEW v, Fits(fm, own, bs, cl, ns, cs, s, v),
           NEW h \in Handles, NEW x, VfileIs(fm, x, own, ns)
    PROVE  Fits(fm, own, bs, cl, ns, cs, s, [v EXCEPT ![h] = x])
<1>1. PICK w : w = [v EXCEPT ![h] = x]
  OBVIOUS
<1>2. v \in [Handles -> VfilesFor(fm)] /\ \A k \in Handles : VfileIs(fm, v[k], own, ns)
  BY DEF Fits
<1>3. x \in VfilesFor(fm)
  BY DEF VfileIs
<1>4. w \in [Handles -> VfilesFor(fm)] /\ \A k \in Handles : w[k] = IF k = h THEN x ELSE v[k]
  BY <1>1, <1>2, <1>3
<1>5. \A k \in Handles : VfileIs(fm, w[k], own, ns)
  BY <1>2, <1>4
<1>6. Fits(fm, own, bs, cl, ns, cs, s, w)
  BY <1>4, <1>5 DEF Fits
<1> QED BY <1>1, <1>6

\* One cache changes.
LEMMA CacheFits ==
    ASSUME NEW fm, NEW own, NEW bs, NEW cl, NEW ns, NEW cs, NEW s, NEW v, Fits(fm, own, bs, cl, ns, cs, s, v),
           NEW c \in 1 .. Len(own), NEW x, CacheIs(fm, x, c, own[c])
    PROVE  Fits(fm, own, bs, cl, ns, [cs EXCEPT ![c] = x], s, v)
<1>1. PICK w : w = [cs EXCEPT ![c] = x]
  OBVIOUS
<1>2. cs \in Seq(CachesFor(fm)) /\ Len(cs) = Len(own) /\ \A k \in 1 .. Len(cs) : CacheIs(fm, cs[k], k, own[k])
  BY DEF Fits
<1>3. x \in CachesFor(fm)
  BY DEF CacheIs
<1>4. w \in Seq(CachesFor(fm)) /\ Len(w) = Len(cs) /\ \A k \in 1 .. Len(w) : w[k] = IF k = c THEN x ELSE cs[k]
  BY <1>1, <1>2, <1>3
<1>5. \A k \in 1 .. Len(w) : CacheIs(fm, w[k], k, own[k])
  BY <1>2, <1>4
<1>6. Fits(fm, own, bs, cl, ns, w, s, v)
  BY <1>2, <1>4, <1>5 DEF Fits
<1> QED BY <1>1, <1>6

\* The stream cache changes.
LEMMA ScFits ==
    ASSUME NEW fm, NEW own, NEW bs, NEW cl, NEW ns, NEW cs, NEW s, NEW v, Fits(fm, own, bs, cl, ns, cs, s, v),
           NEW x, ScIs(fm, x, own)
    PROVE  Fits(fm, own, bs, cl, ns, cs, x, v)
  BY DEF Fits

\* The nodes change, but not what those there are were made for.
LEMMA NodesFit ==
    ASSUME NEW fm, NEW own, NEW bs, NEW cl, NEW ns, NEW cs, NEW s, NEW v, Fits(fm, own, bs, cl, ns, cs, s, v),
           NEW ms \in Seq(NodesFor(fm)), Len(ms) >= Len(ns), \A n \in 1 .. Len(ns) : ms[n].sig = ns[n].sig,
           \A n \in 1 .. Len(ms) : NodeIs(fm, ms[n], own), NEW c2 \in 0 .. Len(ms)
    PROVE  Fits(fm, own, bs, c2, ms, cs, s, v)
<1>1. ASSUME NEW h \in Handles PROVE VfileIs(fm, v[h], own, ms)
  <2>1. VfileIs(fm, v[h], own, ns)
    BY DEF Fits
  <2>2. v[h].st # "closed" => v[h].node \in 1 .. Len(ms) /\ v[h].img = Images[fm][ms[v[h].node].sig]
    <3> SUFFICES ASSUME v[h].st # "closed"
                 PROVE  v[h].node \in 1 .. Len(ms) /\ v[h].img = Images[fm][ms[v[h].node].sig]
      OBVIOUS
    <3>1. v[h].node \in 1 .. Len(ns) /\ v[h].img = Images[fm][ns[v[h].node].sig]
      BY <2>1 DEF VfileIs
    <3>2. Len(ns) \in Nat /\ Len(ms) \in Nat
      BY DEF Fits
    <3>3. v[h].node \in 1 .. Len(ms)
      BY <3>1, <3>2
    <3> QED BY <3>1, <3>3
  <2> QED BY <2>1, <2>2 DEF VfileIs
<1> QED BY <1>1 DEF Fits

\* A node has its cache taken away.
LEMMA NodeEvicted ==
    ASSUME NEW fm \in {"z", "lz"}, NEW own, NEW bs, NEW cl, NEW ns, NEW cs, NEW s, NEW v,
           Fits(fm, own, bs, cl, ns, cs, s, v), NEW k \in 1 .. Len(ns)
    PROVE  Fits(fm, own, bs, cl, [ns EXCEPT ![k].cache = 0], cs, s, v)
<1>1. PICK ms : ms = [ns EXCEPT ![k].cache = 0]
  OBVIOUS
<1>2. ns \in Seq(NodesFor(fm)) /\ cl \in 0 .. Len(ns) /\ \A n \in 1 .. Len(ns) : NodeIs(fm, ns[n], own)
  BY DEF Fits
<1>3. PICK x : x = [ns[k] EXCEPT !.cache = 0]
  OBVIOUS
<1>4. ns[k] \in NodesFor(fm) /\ Len(own) \in Nat
  BY <1>2 DEF Fits
<1>5. x \in NodesFor(fm) /\ x.sig = ns[k].sig /\ x.cache = 0
  <2>1. CASE fm = "z"
    BY <2>1, <1>3, <1>4 DEF NodesFor
  <2>2. CASE fm # "z"
    BY <2>2, <1>3, <1>4 DEF NodesFor
  <2> QED BY <2>1, <2>2
<1>6. NodeIs(fm, x, own)
  BY <1>2, <1>4, <1>5 DEF NodeIs
<1>7. ms \in Seq(NodesFor(fm)) /\ Len(ms) = Len(ns) /\ \A n \in 1 .. Len(ns) : ms[n] = IF n = k THEN x ELSE ns[n]
  BY <1>1, <1>2, <1>3, <1>5
<1>8. Fits(fm, own, bs, cl, ms, cs, s, v)
  <2>1. Len(ms) >= Len(ns) /\ (\A n \in 1 .. Len(ns) : ms[n].sig = ns[n].sig) /\ cl \in 0 .. Len(ms)
    BY <1>2, <1>5, <1>7
  <2>2. \A n \in 1 .. Len(ms) : NodeIs(fm, ms[n], own)
    BY <1>2, <1>6, <1>7
  <2> QED BY <2>1, <2>2, <1>7, NodesFit
<1> QED BY <1>1, <1>8

\* One more cache is made.
LEMMA OwnFits ==
    ASSUME NEW fm, NEW own, NEW bs, NEW cl, NEW ns, NEW cs, NEW s, NEW v, Fits(fm, own, bs, cl, ns, cs, s, v),
           NEW im \in ContentsFor(fm), NEW c, CacheIs(fm, c, Len(cs) + 1, im)
    PROVE  Fits(fm, Append(own, im), bs, cl, ns, Append(cs, c), s, v)
<1>1. PICK w, ds : w = Append(own, im) /\ ds = Append(cs, c)
  OBVIOUS
<1>2. own \in Seq(ContentsFor(fm)) /\ cs \in Seq(CachesFor(fm)) /\ Len(cs) = Len(own)
  BY DEF Fits
<1>3. /\ w \in Seq(ContentsFor(fm)) /\ Len(w) = Len(own) + 1 /\ w[Len(own) + 1] = im
      /\ \A i \in 1 .. Len(own) : w[i] = own[i]
  BY <1>1, <1>2
<1>4. c \in CachesFor(fm)
  BY DEF CacheIs
<1>5. /\ ds \in Seq(CachesFor(fm)) /\ Len(ds) = Len(cs) + 1 /\ ds[Len(cs) + 1] = c
      /\ \A i \in 1 .. Len(cs) : ds[i] = cs[i]
  BY <1>1, <1>2, <1>4
<1>6. PICK l \in Nat : l = Len(own)
  BY <1>2
<1>7. ASSUME NEW i \in 1 .. Len(ds) PROVE CacheIs(fm, ds[i], i, w[i])
  <2>1. CASE i \in 1 .. l
    <3>1. CacheIs(fm, cs[i], i, own[i])
      BY <2>1, <1>2, <1>6 DEF Fits
    <3>2. ds[i] = cs[i] /\ w[i] = own[i]
      BY <2>1, <1>2, <1>3, <1>5, <1>6
    <3> QED BY <3>1, <3>2
  <2>2. CASE i = l + 1
    BY <2>2, <1>2, <1>3, <1>5, <1>6
  <2> QED BY <2>1, <2>2, <1>2, <1>5, <1>6
<1>8. ASSUME NEW n \in 1 .. Len(ns) PROVE NodeIs(fm, ns[n], w)
  <2>1. NodeIs(fm, ns[n], own)
    BY DEF Fits
  <2> QED BY <2>1, <1>3, <1>6 DEF NodeIs
<1>9. ScIs(fm, s, w)
  <2>1. ScIs(fm, s, own)
    BY DEF Fits
  <2> QED BY <2>1, <1>3, <1>6 DEF ScIs
<1>10. ASSUME NEW h \in Handles PROVE VfileIs(fm, v[h], w, ns)
  <2>1. VfileIs(fm, v[h], own, ns)
    BY DEF Fits
  <2>2. FilIs(fm, v[h].fil, v[h].img, own) => FilIs(fm, v[h].fil, v[h].img, w)
    BY <1>3, <1>6 DEF FilIs
  <2>3. v[h].zc \in 1 .. Len(own) /\ own[v[h].zc] = v[h].img => v[h].zc \in 1 .. Len(w) /\ w[v[h].zc] = v[h].img
    BY <1>3, <1>6
  <2> QED BY <2>1, <2>2, <2>3 DEF VfileIs
<1>11. Fits(fm, w, bs, cl, ns, ds, s, v)
  BY <1>2, <1>3, <1>5, <1>7, <1>8, <1>9, <1>10 DEF Fits
<1> QED BY <1>1, <1>11

\* What the invariant says of a vfile.
LEMMA NowOf ==
    ASSUME NEW own, Now(own), NEW h \in Handles
    PROVE  /\ fd[h] \in VfilesFor(fmt) /\ VfileIs(fmt, fd[h], own, nodes) /\ fmt \in Formats
           /\ own \in Seq(Contents) /\ Len(own) \in Nat /\ Len(caches) = Len(own) /\ Len(nodes) \in Nat
           /\ ScOf(sc, own) /\ fd \in [Handles -> VfilesFor(fmt)]
           /\ \A c \in 1 .. Len(own) : CacheOf(caches[c], c, own[c])
           /\ \A n \in 1 .. Len(nodes) : NodeIs(fmt, nodes[n], own)
           /\ caches \in Seq(CachesFor(fmt)) /\ nodes \in Seq(NodesFor(fmt))
           /\ base \in 1 .. Len(Images[fmt]) /\ cell \in 0 .. Len(nodes)
<1>1. Fits(fmt, own, base, cell, nodes, caches, sc, fd)
  BY DEF Now
<1>2. own \in Seq(Contents)
  BY <1>1 DEF Fits, Contents
<1>3. ScOf(sc, own)
  BY <1>1 DEF Fits, ScOf
<1>4. \A c \in 1 .. Len(own) : CacheOf(caches[c], c, own[c])
  BY <1>1 DEF Fits, CacheOf
<1>5. fd \in [Handles -> VfilesFor(fmt)]
  BY <1>1 DEF Fits
<1> QED BY <1>1, <1>2, <1>3, <1>4, <1>5 DEF Fits

\* The machine of a vfile that is in a call.
MachineFor(m, h, own) ==
    MachineOf(m, own) /\ m.f.img = fd[h].img /\ m.c.id = fd[h].zc /\ fd[h].pc # "idle" /\ fd[h].st = "open"

\* The machine of a call is in place.
LEMMA MachineNow ==
    ASSUME NEW own, Now(own), NEW h \in Handles, fd[h].pc # "idle", NEW io \in {"ok", "read", "index"},
           NEW m, m = Machine(h, io)
    PROVE  /\ own \in Seq(Contents) /\ MachineFor(m, h, own) /\ MachineOf(m, own)
           /\ m.res = "ok" /\ m.got = 0 /\ m.f = fd[h].fil /\ m.io = io
<1>1. /\ own \in Seq(Contents) /\ ScOf(sc, own) /\ Len(caches) = Len(own)
      /\ VfileIs(fmt, fd[h], own, nodes) /\ \A c \in 1 .. Len(own) : CacheOf(caches[c], c, own[c])
  BY NowOf
<1>2. PICK z, im, f : z = fd[h].zc /\ im = fd[h].img /\ f = fd[h].fil
  OBVIOUS
<1>3. fd[h].st = "open" /\ FilIs(fmt, f, im, own) /\ z \in 1 .. Len(own) /\ own[z] = im /\ f.id \in {0, z}
  BY <1>1, <1>2 DEF VfileIs
<1>4. FileOf(f, im)
  BY <1>3 DEF FilIs, FileOf
<1>5. PICK c : c = caches[z]
  OBVIOUS
<1>6. CacheOf(c, z, im)
  BY <1>1, <1>3, <1>5
<1>7. c.id = z /\ c \in CacheSet /\ f \in Files /\ f.img = im
  BY <1>4, <1>6 DEF CacheOf, CacheIs, CacheSet, FileOf, FileIs, Files
<1>8. sc \in {NoStream} \cup Saved
  BY <1>1 DEF ScOf, ScIs, Saved
<1>9. m = [f |-> f, c |-> c, sc |-> sc, io |-> io, hit |-> FALSE, res |-> "ok", got |-> 0]
  BY <1>2, <1>5 DEF Machine
<1>10. m \in MachineSet /\ m.f = f /\ m.c = c /\ m.sc = sc /\ m.res = "ok" /\ m.got = 0 /\ m.io = io
  BY <1>7, <1>8, <1>9 DEF MachineSet
<1>11. MachineOf(m, own)
  BY <1>1, <1>3, <1>4, <1>6, <1>7, <1>10 DEF MachineOf
<1>12. MachineFor(m, h, own)
  BY <1>2, <1>3, <1>7, <1>10, <1>11 DEF MachineFor
<1> QED BY <1>1, <1>2, <1>10, <1>11, <1>12

\* What keeps the identity is still the machine of the call.
LEMMA KeepsFor ==
    ASSUME NEW own, NEW h, NEW m, MachineFor(m, h, own), NEW r, MachineOf(r, own), Keeps(r, m)
    PROVE  MachineFor(r, h, own)
  BY DEF MachineFor, Keeps

\* The vfile u in its call, or with the call ended.
OnCall(v, u) ==
    /\ v \in VfilesFor(fmt) /\ v.st = u.st /\ v.img = u.img /\ v.node = u.node /\ v.noperm = u.noperm
    /\ v.pc = "idle" \/ v.zc = u.zc

\* Which vfiles are in the call, or have ended it.
LEMMA OnCalls ==
    ASSUME NEW u \in VfilesFor(fmt), NEW ans \in Answers, NEW pc \in Places, NEW k \in Nat
    PROVE  OnCall(u, u) /\ OnCall(Returned(u, ans), u) /\ OnCall([u EXCEPT !.pc = pc], u) /\ OnCall([u EXCEPT !.got = k], u)
<1>1. OnCall(u, u)
  BY DEF OnCall
<1>2. OnCall(Returned(u, ans), u)
  <2>1. PICK w : w = Returned(u, ans)
    OBVIOUS
  <2>2. w \in VfilesFor(fmt) /\ w.st = u.st /\ w.img = u.img /\ w.node = u.node /\ w.noperm = u.noperm /\ w.pc = "idle"
    BY <2>1 DEF Returned, VfilesFor, Places
  <2> QED BY <2>1, <2>2 DEF OnCall
<1>3. OnCall([u EXCEPT !.pc = pc], u)
  <2>1. PICK w : w = [u EXCEPT !.pc = pc]
    OBVIOUS
  <2>2. w \in VfilesFor(fmt) /\ w.st = u.st /\ w.img = u.img /\ w.node = u.node /\ w.noperm = u.noperm /\ w.zc = u.zc
    BY <2>1 DEF VfilesFor
  <2> QED BY <2>1, <2>2 DEF OnCall
<1>4. OnCall([u EXCEPT !.got = k], u)
  <2>1. PICK w : w = [u EXCEPT !.got = k]
    OBVIOUS
  <2>2. w \in VfilesFor(fmt) /\ w.st = u.st /\ w.img = u.img /\ w.node = u.node /\ w.noperm = u.noperm /\ w.zc = u.zc
    BY <2>1 DEF VfilesFor
  <2> QED BY <2>1, <2>2 DEF OnCall
<1> QED BY <1>1, <1>2, <1>3, <1>4

\* An answered call has ended.
LEMMA Answering ==
    ASSUME NEW h, fd[h] \in VfilesFor(fmt), NEW m, NEW got
    PROVE  OnCall(Answer(h, m, got), fd[h])
<1>1. PICK a : a = IF m.res # "ok" THEN Error(fd[h].op)
                   ELSE IF got = Due(h) THEN "full"
                   ELSE IF fd[h].op = "read" THEN "bad read" ELSE "bad size"
  OBVIOUS
<1>2. a \in Answers
  BY <1>1 DEF Error, Answers
<1>3. Answer(h, m, got) = Returned(fd[h], a)
  BY <1>1 DEF Answer
<1>4. "idle" \in Places /\ 0 \in Nat
  BY DEF Places
<1> QED BY <1>2, <1>3, <1>4, OnCalls

\* A step of a call: the machine is put back.
LEMMA StepLater ==
    ASSUME NEW own, Now(own), NEW h \in Handles, NEW m, MachineFor(m, h, own), NEW v, OnCall(v, fd[h]), Step(h, m, v),
           base' = base, cell' = cell,
           nodes' = nodes \/ (fmt \in {"z", "lz"} /\ nodes' = [nodes EXCEPT ![fd[h].node].cache = 0])
    PROVE  Later(own)
<1>1. /\ own \in Seq(Contents) /\ VfileIs(fmt, fd[h], own, nodes) /\ Len(own) \in Nat
  BY NowOf
<1>2. /\ m \in MachineSet /\ FileOf(m.f, m.f.img) /\ m.f.id \in {0, m.c.id} /\ m.c.id \in 1 .. Len(own)
      /\ m.f.img = own[m.c.id] /\ ScOf(m.sc, own) /\ CacheOf(m.c, m.c.id, m.f.img)
      /\ m.f.img = fd[h].img /\ m.c.id = fd[h].zc /\ fd[h].pc # "idle" /\ fd[h].st = "open"
  BY <1>1, MachineFacts DEF MachineFor
<1>3. PICK f, im, z, c, s : f = m.f /\ im = fd[h].img /\ z = fd[h].zc /\ c = m.c /\ s = m.sc
  OBVIOUS
<1>4. PICK e \in BOOLEAN : e = (v.faulted \/ m.hit)
  OBVIOUS
<1>5. PICK w : w = [v EXCEPT !.fil = f, !.faulted = e]
  OBVIOUS
<1>6. FilIs(fmt, f, im, own) /\ f \in FilesFor(fmt)
  BY <1>1, <1>2, <1>3 DEF FilIs, FileOf, FileIs
<1>7. /\ w \in VfilesFor(fmt) /\ w.fil = f /\ w.st = fd[h].st /\ w.img = im /\ w.node = fd[h].node
      /\ w.pc = "idle" \/ w.zc = z
  <2>1. v \in VfilesFor(fmt)
    BY DEF OnCall
  <2>2. w \in VfilesFor(fmt) /\ w.fil = f /\ w.st = v.st /\ w.img = v.img /\ w.node = v.node /\ w.pc = v.pc /\ w.zc = v.zc
    BY <2>1, <1>5, <1>6 DEF VfilesFor
  <2> QED BY <2>2, <1>3 DEF OnCall
<1>8. VfileIs(fmt, w, own, nodes)
  BY <1>1, <1>2, <1>3, <1>6, <1>7 DEF VfileIs
<1>9. fd' = [fd EXCEPT ![h] = w] /\ caches' = [caches EXCEPT ![z] = c] /\ sc' = s
  BY <1>3, <1>4, <1>5 DEF Step
<1>10. Fits(fmt, own, base, cell, nodes, caches, sc, [fd EXCEPT ![h] = w])
  BY <1>8, FdFits DEF Now
<1>11. Fits(fmt, own, base, cell, nodes, caches', sc, fd')
  <2>1. z \in 1 .. Len(own) /\ CacheIs(fmt, c, z, own[z])
    BY <1>2, <1>3 DEF CacheOf
  <2>2. Fits(fmt, own, base, cell, nodes, [caches EXCEPT ![z] = c], sc, [fd EXCEPT ![h] = w])
    BY <2>1, <1>10, CacheFits
  <2> QED BY <2>2, <1>9
<1>12. Fits(fmt, own, base, cell, nodes, caches', sc', fd')
  <2>1. ScIs(fmt, s, own)
    BY <1>2, <1>3 DEF ScOf
  <2> QED BY <2>1, <1>9, <1>11, ScFits
<1>13. CASE nodes' = nodes
  BY <1>12, <1>13 DEF Later
<1>14. CASE fmt \in {"z", "lz"} /\ nodes' = [nodes EXCEPT ![fd[h].node].cache = 0]
  <2>1. fd[h].node \in 1 .. Len(nodes)
    BY <1>1, <1>2 DEF VfileIs
  <2>2. Fits(fmt, own, base, cell, [nodes EXCEPT ![fd[h].node].cache = 0], caches', sc', fd')
    BY <2>1, <1>12, <1>14, NodeEvicted
  <2> QED BY <2>2, <1>14 DEF Later
<1> QED BY <1>13, <1>14

\* The error of a call is noted in the file.
LEMMA ErrorNoted ==
    ASSUME NEW own \in Seq(Contents), NEW m, MachineOf(m, own),
           NEW r, r = [m EXCEPT !.f.iserror = @ \/ m.res # "ok"]
    PROVE  MachineOf(r, own) /\ Keeps(r, m)
<1>1. m \in MachineSet /\ m.f \in Files /\ FileOf(m.f, m.f.img)
  BY MachineFacts
<1>2. PICK e \in BOOLEAN : e = (m.f.iserror \/ m.res # "ok")
  OBVIOUS
<1>3. PICK g : g = [m.f EXCEPT !.iserror = e]
  OBVIOUS
<1>4. /\ g \in Files /\ g.s = m.f.s /\ g.img = m.f.img /\ g.id = m.f.id
      /\ fmt = "lz" => g.dec = m.f.dec /\ g.total_in = m.f.total_in /\ g.last_member_pos = m.f.last_member_pos
      /\ fmt = "zst" => g.total_in = m.f.total_in /\ g.inBuffer = m.f.inBuffer
  BY <1>1, <1>3, ErrorPut
<1>5. FileOf(g, m.f.img)
  BY <1>1, <1>4, FileSame
<1>6. r = [m EXCEPT !.f = g]
  BY <1>1, <1>2, <1>3 DEF MachineSet
<1>7. MachineOf(r, own) /\ Keeps(r, m)
  BY <1>4, <1>5, <1>6, MachineFile
<1> QED BY <1>7

\* What the step of a call may do to the nodes.
NodesKept(h) == nodes' = nodes \/ (fmt \in {"z", "lz"} /\ nodes' = [nodes EXCEPT ![fd[h].node].cache = 0])

\* A call ends.
LEMMA EndsLater ==
    ASSUME NEW own, Now(own), NEW h \in Handles, NEW m, MachineFor(m, h, own), Ends(h, m),
           base' = base, cell' = cell, NodesKept(h)
    PROVE  Later(own)
<1>1. own \in Seq(Contents) /\ fd[h] \in VfilesFor(fmt) /\ MachineOf(m, own)
  BY NowOf DEF MachineFor
<1>2. CASE fd[h].op = "read"
  <2>1. PICK r : r = [m EXCEPT !.f.iserror = @ \/ m.res # "ok"]
    OBVIOUS
  <2>2. PICK v : v = Answer(h, m, fd[h].got + m.got)
    OBVIOUS
  <2>3. Step(h, r, v)
    BY <1>2, <2>1, <2>2 DEF Ends
  <2>4. MachineFor(r, h, own)
    <3>1. MachineOf(r, own) /\ Keeps(r, m)
      BY <1>1, <2>1, ErrorNoted
    <3> QED BY <3>1, KeepsFor
  <2>5. OnCall(v, fd[h])
    BY <1>1, <2>2, Answering
  <2> QED BY <2>3, <2>4, <2>5, StepLater DEF NodesKept
<1>3. CASE fd[h].op # "read"
  <2>1. PICK v : v = Answer(h, m, m.c.size)
    OBVIOUS
  <2>2. Step(h, m, v)
    BY <1>3, <2>1 DEF Ends
  <2>3. OnCall(v, fd[h])
    BY <1>1, <2>1, Answering
  <2> QED BY <2>2, <2>3, StepLater DEF NodesKept
<1> QED BY <1>2, <1>3

\* A machine that has failed, or whose bytes are not wanted.
LEMMA Failing ==
    ASSUME NEW own \in Seq(Contents), NEW h, NEW m, MachineFor(m, h, own)
    PROVE  MachineFor(Fail(m), h, own) /\ MachineFor([m EXCEPT !.got = 0], h, own)
<1>1. MachineOf(m, own)
  BY DEF MachineFor
<1>2. PICK r : r = Fail(m)
  OBVIOUS
<1>3. MachineFor(r, h, own)
  <2>1. MachineOf(r, own) /\ Keeps(r, m)
    BY <1>1, <1>2, MachineFails
  <2> QED BY <2>1, KeepsFor
<1>4. PICK z \in Nat : z = 0
  OBVIOUS
<1>5. PICK s : s = [m EXCEPT !.got = z]
  OBVIOUS
<1>6. MachineFor(s, h, own)
  <2>1. MachineOf(s, own) /\ Keeps(s, m)
    BY <1>1, <1>5, MachineGot
  <2> QED BY <2>1, KeepsFor
<1> QED BY <1>2, <1>3, <1>4, <1>5, <1>6

\* The io of a step.
LEMMA IoIs == Io \subseteq {"ok", "read", "index"}
  BY DEF Io

\* The step of a call of bzip2, xz or zstd that passes over output.
LEMMA SkipLater ==
    ASSUME NEW own, Now(own), NEW h \in Handles, NEW m0, MachineFor(m0, h, own), NEW m, MachineOf(m, own), Keeps(m, m0),
           IF m0.f.iseof \/ m0.f.s.out = fd[h].off
           THEN IF fd[h].op = "read" THEN Step(h, m0, At(h, "read"))
                ELSE Ends(h, IF m0.c.size = -1 THEN Fail(m0) ELSE m0)
           ELSE IF m.res = "ok" THEN Step(h, m, fd[h])
           ELSE Ends(h, [m EXCEPT !.got = 0]),
           base' = base, cell' = cell, nodes' = nodes
    PROVE  Later(own)
<1>1. own \in Seq(Contents) /\ fd[h] \in VfilesFor(fmt)
  BY NowOf
<1>2. NodesKept(h)
  BY DEF NodesKept
<1>3. MachineFor(m, h, own)
  BY KeepsFor
<1>4. MachineFor(Fail(m0), h, own) /\ MachineFor([m EXCEPT !.got = 0], h, own)
  BY <1>1, <1>3, Failing
<1>5. OnCall(fd[h], fd[h]) /\ OnCall(At(h, "read"), fd[h])
  <2>1. "read" \in Places /\ "full" \in Answers /\ 0 \in Nat
    BY DEF Places, Answers
  <2> QED BY <1>1, <2>1, OnCalls DEF At
<1>6. CASE Step(h, m0, At(h, "read"))
  BY <1>2, <1>5, <1>6, StepLater DEF NodesKept
<1>7. CASE Ends(h, Fail(m0)) \/ Ends(h, m0)
  BY <1>2, <1>4, <1>7, EndsLater
<1>8. CASE Step(h, m, fd[h])
  BY <1>2, <1>3, <1>5, <1>8, StepLater DEF NodesKept
<1>9. CASE Ends(h, [m EXCEPT !.got = 0])
  BY <1>2, <1>4, <1>9, EndsLater
<1> QED BY <1>6, <1>7, <1>8, <1>9

\* More bytes have been given.
LEMMA GotOn ==
    ASSUME NEW own \in Seq(Contents), NEW u \in VfilesFor(fmt), NEW m, MachineOf(m, own)
    PROVE  OnCall([u EXCEPT !.got = @ + m.got], u)
<1>1. m.got \in Nat
  BY MachineFacts DEF MachineSet
<1>2. u.got \in Nat
  BY DEF VfilesFor
<1>3. PICK k \in Nat : k = u.got + m.got
  BY <1>1, <1>2
<1>4. "idle" \in Places /\ "full" \in Answers
  BY DEF Places, Answers
<1>5. OnCall([u EXCEPT !.got = k], u)
  BY <1>4, OnCalls
<1> QED BY <1>3, <1>5

\* The step of a call of bzip2, xz or zstd that gives output.
LEMMA ReadLater ==
    ASSUME NEW own, Now(own), NEW h \in Handles, NEW m0, MachineFor(m0, h, own), NEW m, MachineOf(m, own), Keeps(m, m0),
           IF fd[h].got = fd[h].n \/ m0.f.iseof THEN Ends(h, m0)
           ELSE IF m.res = "ok" THEN Step(h, m, [fd[h] EXCEPT !.got = @ + m.got])
           ELSE Ends(h, m),
           base' = base, cell' = cell, nodes' = nodes
    PROVE  Later(own)
<1>1. own \in Seq(Contents) /\ fd[h] \in VfilesFor(fmt)
  BY NowOf
<1>2. NodesKept(h)
  BY DEF NodesKept
<1>3. MachineFor(m, h, own)
  BY KeepsFor
<1>4. CASE Ends(h, m0) \/ Ends(h, m)
  BY <1>2, <1>3, <1>4, EndsLater
<1>5. CASE Step(h, m, [fd[h] EXCEPT !.got = @ + m.got])
  <2>1. OnCall([fd[h] EXCEPT !.got = @ + m.got], fd[h])
    BY <1>1, GotOn DEF MachineFor
  <2> QED BY <1>2, <1>3, <1>5, <2>1, StepLater DEF NodesKept
<1> QED BY <1>4, <1>5

----------------------------------------------------------------------------
(* Opens, closes and the beginnings of calls.                              *)

\* A closed vfile.
LEMMA ClosedIs ==
    ASSUME NEW fm, NEW own, NEW ns
    PROVE  VfileIs(fm, Closed, own, ns)
<1>1. <<>> \in Texts
  BY DEF Texts
<1>2. PICK v : v = Closed
  OBVIOUS
<1>3. v.fil = NoFile /\ v.st = "closed" /\ v.pc = "idle" /\ v \in VfilesFor(fm)
  BY <1>1, <1>2 DEF Closed, VfilesFor, Places, Answers
<1>4. VfileIs(fm, v, own, ns)
  BY <1>3 DEF VfileIs
<1> QED BY <1>2, <1>4

\* A vfile is closed; the stream cache may have got its stream.
LEMMA CloseLater ==
    ASSUME NEW own, Now(own), NEW h \in Handles, fd' = [fd EXCEPT ![h] = Closed], ScOf(sc', own),
           base' = base, cell' = cell, nodes' = nodes, caches' = caches
    PROVE  Later(own)
<1>1. Fits(fmt, own, base, cell, nodes, caches, sc, [fd EXCEPT ![h] = Closed])
  BY ClosedIs, FdFits DEF Now
<1>2. Fits(fmt, own, base, cell, nodes, caches, sc', [fd EXCEPT ![h] = Closed])
  BY <1>1, ScFits DEF ScOf
<1> QED BY <1>2 DEF Later

\* What is saved of the file of a vfile.
LEMMA FileSaved ==
    ASSUME NEW own, Now(own), NEW h \in Handles, HasFile(h)
    PROVE  LET f == fd[h].fil
           IN /\ FileOf(f, fd[h].img) /\ f \in Files /\ f.s \in StreamSet
              /\ f.id # 0 => f.id \in Nat /\ f.id \in 1 .. Len(own) /\ own[f.id] = fd[h].img /\ StreamOf(f.s, own[f.id])
<1>1. PICK f : f = fd[h].fil
  OBVIOUS
<1>2. FilIs(fmt, f, fd[h].img, own)
  BY <1>1, NowOf DEF VfileIs, HasFile
<1>3. FileOf(f, fd[h].img) /\ f \in Files /\ StreamOf(f.s, fd[h].img)
  BY <1>2 DEF FilIs, FileOf, FileIs, Files
<1>4. f.s \in StreamSet
  BY <1>3 DEF StreamOf
<1>5. f.id # 0 => f.id \in Nat /\ f.id \in 1 .. Len(own) /\ own[f.id] = fd[h].img
  BY <1>2 DEF FilIs
<1> QED BY <1>1, <1>3, <1>4, <1>5

\* The closes of bzip2 and xz save the stream.
LEMMA BzCloseLater ==
    ASSUME fmt \in {"bz", "xz"}, NEW own, Now(own), NEW h \in Handles, CloseCached(h, bzfile_scache_save)
    PROVE  Later(own)
<1>1. ScOf(sc', own)
  <2>0. ScOf(sc, own)
    BY NowOf
  <2>1. CASE ~HasFile(h)
    BY <2>0, <2>1 DEF CloseCached
  <2>2. CASE HasFile(h)
    <3>1. PICK f : f = fd[h].fil
      OBVIOUS
    <3>2. PICK m : m = [f |-> f, sc |-> sc]
      OBVIOUS
    <3>3. sc' = bzfile_scache_save(m).sc
      BY <2>2, <3>1, <3>2 DEF CloseCached
    <3>4. CASE f.id = 0
      BY <2>0, <3>2, <3>3, <3>4 DEF bzfile_scache_save
    <3>5. CASE f.id # 0
      <4>1. f.id \in Nat /\ f.s \in StreamSet /\ f.id \in 1 .. Len(own) /\ StreamOf(f.s, own[f.id])
        BY <2>2, <3>1, <3>5, FileSaved
      <4>2. PICK i \in Nat, s \in StreamSet : i = f.id /\ s = f.s
        BY <4>1
      <4>3. sc' = [id |-> i, s |-> s]
        BY <3>2, <3>3, <3>5, <4>2 DEF bzfile_scache_save
      <4>4. [id |-> i, s |-> s] \in Saved
        BY DEF Saved, SavedFor
      <4> QED BY <4>1, <4>2, <4>3, <4>4 DEF ScOf, ScIs, Saved
    <3> QED BY <3>4, <3>5
  <2> QED BY <2>1, <2>2
<1>2. fd' = [fd EXCEPT ![h] = Closed] /\ base' = base /\ cell' = cell /\ nodes' = nodes /\ caches' = caches
  BY DEF CloseCached
<1> QED BY <1>1, <1>2, CloseLater

\* The close of zstd has no stream cache.
LEMMA ZstCloseLater ==
    ASSUME NEW own, Now(own), NEW h \in Handles, CloseCached(h, zstdfile_destroy)
    PROVE  Later(own)
<1>1. ScOf(sc', own)
  <2>1. ScOf(sc, own)
    BY NowOf
  <2>2. sc' = sc
    BY DEF CloseCached, zstdfile_destroy
  <2> QED BY <2>1, <2>2
<1>2. fd' = [fd EXCEPT ![h] = Closed] /\ base' = base /\ cell' = cell /\ nodes' = nodes /\ caches' = caches
  BY DEF CloseCached
<1> QED BY <1>1, <1>2, CloseLater

\* A node is made.
LEMMA NewNode ==
    ASSUME NEW fm, NEW own, NEW bs, NEW cl, NEW ns, NEW cs, NEW s, NEW v, Fits(fm, own, bs, cl, ns, cs, s, v),
           NEW x, NodeIs(fm, x, own)
    PROVE  /\ Fits(fm, own, bs, Len(ns) + 1, Append(ns, x), cs, s, v)
           /\ Len(ns) + 1 \in 1 .. Len(Append(ns, x)) /\ Append(ns, x)[Len(ns) + 1] = x
<1>1. PICK ms : ms = Append(ns, x)
  OBVIOUS
<1>2. ns \in Seq(NodesFor(fm)) /\ \A n \in 1 .. Len(ns) : NodeIs(fm, ns[n], own)
  BY DEF Fits
<1>3. x \in NodesFor(fm)
  BY DEF NodeIs
<1>4. /\ ms \in Seq(NodesFor(fm)) /\ Len(ms) = Len(ns) + 1 /\ ms[Len(ns) + 1] = x
      /\ \A n \in 1 .. Len(ns) : ms[n] = ns[n]
  BY <1>1, <1>2, <1>3
<1>5. PICK l \in Nat : l = Len(ns)
  BY <1>2
<1>6. \A n \in 1 .. Len(ms) : NodeIs(fm, ms[n], own)
  <2> SUFFICES ASSUME NEW n \in 1 .. Len(ms) PROVE NodeIs(fm, ms[n], own)
    OBVIOUS
  <2>1. n \in 1 .. l \/ n = l + 1
    BY <1>4, <1>5
  <2> QED BY <2>1, <1>2, <1>4, <1>5
<1>7. l + 1 \in 1 .. Len(ms) /\ l + 1 \in 0 .. Len(ms) /\ Len(ms) >= l
  BY <1>4, <1>5
<1>8. Fits(fm, own, bs, l + 1, ms, cs, s, v)
  <2>1. Len(ms) >= Len(ns) /\ \A n \in 1 .. Len(ns) : ms[n].sig = ns[n].sig
    BY <1>4, <1>5, <1>7
  <2> QED BY <2>1, <1>4, <1>6, <1>7, NodesFit
<1> QED BY <1>1, <1>4, <1>5, <1>7, <1>8

\* The node of an open in the handlers whose nodes have their caches from the start.
LEMMA FoundCached ==
    ASSUME fmt # "z", NEW own, Now(own), NEW c, CacheOf(c, Len(caches) + 1, Content), NEW k,
           \/ /\ cell # 0 /\ nodes[cell].sig = base /\ k = cell
              /\ cell' = cell /\ nodes' = nodes /\ caches' = caches
           \/ /\ nodes' = Append(nodes, [sig |-> base, cache |-> Len(caches) + 1]) /\ k = Len(nodes) + 1
              /\ cell' = Len(nodes) + 1 /\ caches' = caches \o <<c>>
    PROVE  \E o : Fits(fmt, o, base, cell', nodes', caches', sc, fd) /\ k \in 1 .. Len(nodes') /\ nodes'[k].sig = base
<1>1. /\ Fits(fmt, own, base, cell, nodes, caches, sc, fd) /\ cell \in 0 .. Len(nodes) /\ Len(caches) = Len(own)
      /\ caches \in Seq(CachesFor(fmt)) /\ fmt \in Formats /\ base \in 1 .. Len(Images[fmt])
      /\ own \in Seq(ContentsFor(fmt)) /\ nodes \in Seq(NodesFor(fmt))
  BY DEF Now, Fits
<1>2. CASE cell # 0 /\ nodes[cell].sig = base /\ k = cell /\ cell' = cell /\ nodes' = nodes /\ caches' = caches
  BY <1>1, <1>2
<1>3. CASE /\ nodes' = Append(nodes, [sig |-> base, cache |-> Len(caches) + 1]) /\ k = Len(nodes) + 1
           /\ cell' = Len(nodes) + 1 /\ caches' = caches \o <<c>>
  <2>1. Content \in ContentsFor(fmt)
    BY <1>1, ImagesAre DEF Content, Contents
  <2>2. PICK o : o = Append(own, Content)
    OBVIOUS
  <2>3. CacheIs(fmt, c, Len(caches) + 1, Content)
    BY DEF CacheOf
  <2>4. Fits(fmt, o, base, cell, nodes, Append(caches, c), sc, fd)
    BY <1>1, <2>1, <2>2, <2>3, OwnFits
  <2>5. caches' = Append(caches, c)
    <3>1. c \in CachesFor(fmt)
      BY <2>3 DEF CacheIs
    <3> QED BY <3>1, <1>1, <1>3
  <2>6. PICK l \in Nat, b \in Nat : l = Len(caches) /\ b = base
    BY <1>1
  <2>7. PICK x : x = [sig |-> b, cache |-> l + 1]
    OBVIOUS
  <2>8. NodeIs(fmt, x, o) /\ x.sig = base
    <3>1. x \in NodesFor(fmt)
      BY <2>7 DEF NodesFor
    <3>2. Len(o) = l + 1 /\ o[l + 1] = Images[fmt][b]
      BY <1>1, <2>1, <2>2, <2>6 DEF Content
    <3>3. x.sig = b /\ x.cache = l + 1 /\ b \in 1 .. Len(Images[fmt])
      BY <1>1, <2>6, <2>7
    <3>4. x.cache \in 0 .. Len(o) /\ x.cache # 0 /\ o[x.cache] = Images[fmt][x.sig]
      BY <3>2, <3>3
    <3> QED BY <3>1, <3>3, <3>4, <2>6 DEF NodeIs
  <2>9. nodes' = Append(nodes, x)
    BY <1>3, <2>6, <2>7
  <2>10. /\ Fits(fmt, o, base, Len(nodes) + 1, Append(nodes, x), Append(caches, c), sc, fd)
         /\ Len(nodes) + 1 \in 1 .. Len(Append(nodes, x)) /\ Append(nodes, x)[Len(nodes) + 1] = x
    BY <2>4, <2>8, NewNode
  <2> QED BY <1>3, <2>5, <2>8, <2>9, <2>10
<1> QED BY <1>2, <1>3

\* A vfile is opened on a node of the present content.
LEMMA OpenLater ==
    ASSUME NEW own, Fits(fmt, own, base, cell', nodes', caches', sc, fd), NEW h \in Handles,
           NEW k \in 1 .. Len(nodes'), nodes'[k].sig = base, NEW f, FileOf(f, Content), f.id = 0, NEW noperm \in BOOLEAN,
           fd' = [fd EXCEPT ![h] = Opened(k, f, noperm)], base' = base, sc' = sc
    PROVE  Later(own)
<1>1. FilIs(fmt, f, Content, own) /\ f \in FilesFor(fmt)
  BY DEF FilIs, FileOf, FileIs
<1>2. fmt \in Formats /\ base \in 1 .. Len(Images[fmt]) /\ nodes' \in Seq(NodesFor(fmt))
  BY DEF Fits
<1>3. Content \in Texts
  BY <1>2, ImagesAre DEF Content
<1>4. PICK v : v = Opened(k, f, noperm)
  OBVIOUS
<1>5. PICK g, im : g = (IF noperm THEN NoFile ELSE f) /\ im = Content
  OBVIOUS
<1>6. v = [Closed EXCEPT !.st = "open", !.img = im, !.node = k, !.noperm = noperm, !.fil = g]
  BY <1>4, <1>5 DEF Opened
<1>7. k \in Nat
  BY <1>2
<1>8. Closed \in VfilesFor(fmt) /\ Closed.pc = "idle"
  BY ClosedIs DEF VfileIs, Closed
<1>9. /\ v \in VfilesFor(fmt) /\ v.st = "open" /\ v.img = im /\ v.node = k /\ v.noperm = noperm /\ v.fil = g
      /\ v.pc = "idle"
  <2>1. im \in Texts /\ g \in {NoFile} \cup FilesFor(fmt)
    BY <1>1, <1>3, <1>5
  <2> QED BY <2>1, <1>6, <1>7, <1>8 DEF VfilesFor
<1>10. im = Images[fmt][nodes'[k].sig]
  BY <1>5 DEF Content
<1>11. VfileIs(fmt, v, own, nodes')
  BY <1>1, <1>5, <1>9, <1>10 DEF VfileIs
<1>12. Fits(fmt, own, base, cell', nodes', caches', sc, [fd EXCEPT ![h] = v])
  BY <1>11, FdFits
<1> QED BY <1>4, <1>12 DEF Later

\* The new files and caches of bzip2, xz and zstd.
LEMMA BzNew ==
    ASSUME fmt \in {"bz", "xz"}, NEW im \in Texts, NEW f, f = av_bzfile_new(im)
    PROVE  FileOf(f, im) /\ f.id = 0 /\ f = av_xzfile_new(im)
<1>1. StreamOf(Fresh(im), im)
  BY FreshStream
<1>2. PICK s \in StreamSet : s = Fresh(im)
  BY <1>1 DEF StreamOf
<1>3. f = [img |-> im, s |-> s, iseof |-> FALSE, iserror |-> FALSE, id |-> 0]
  BY <1>2 DEF av_bzfile_new
<1>4. f \in PlainFiles /\ f.img = im /\ f.s = s /\ f.id = 0
  BY <1>3 DEF PlainFiles
<1>5. f = av_xzfile_new(im)
  BY DEF av_bzfile_new, av_xzfile_new
<1>6. FilesFor(fmt) = PlainFiles /\ fmt # "lz" /\ fmt # "zst"
  BY DEF FilesFor
<1>7. FileOf(f, im)
  BY <1>1, <1>2, <1>4, <1>6 DEF FileOf, FileIs
<1> QED BY <1>4, <1>5, <1>7

\* A new cache has no indexes.
LEMMA CacheNew ==
    ASSUME NEW i \in Nat, NEW im
    PROVE  /\ fmt = "bz" => CacheOf(av_bzcache_new(i), i, im)
           /\ fmt = "xz" => CacheOf(av_xzcache_new(i), i, im)
           /\ fmt = "zst" => CacheOf(av_zstdcache_new(i), i, im)
           /\ fmt = "lz" => CacheOf(av_lzipcache_new(i), i, im)
           /\ fmt = "z" => CacheOf(av_zcache_new(i), i, im)
<1>1. ASSUME fmt = "bz" PROVE CacheOf(av_bzcache_new(i), i, im)
  <2>1. PICK c : c = av_bzcache_new(i)
    OBVIOUS
  <2>2. c \in BzCaches /\ c.id = i /\ c.indexes = <<>>
    <3>1. <<>> \in Seq(InIndexes)
      OBVIOUS
    <3> QED BY <2>1, <3>1 DEF av_bzcache_new, BzCaches
  <2>3. CachesFor(fmt) = BzCaches /\ Len(c.indexes) = 0
    BY <1>1, <2>2 DEF CachesFor
  <2>4. CacheOf(c, i, im)
    BY <1>1, <2>2, <2>3 DEF CacheOf, CacheIs
  <2> QED BY <2>1, <2>4
<1>2. ASSUME fmt = "xz" PROVE CacheOf(av_xzcache_new(i), i, im)
  <2>1. av_xzcache_new(i) \in PlainCaches /\ av_xzcache_new(i).id = i
    BY DEF av_xzcache_new, PlainCaches
  <2> QED BY <1>2, <2>1, SizeCacheSets
<1>3. ASSUME fmt = "zst" PROVE CacheOf(av_zstdcache_new(i), i, im)
  <2>1. av_zstdcache_new(i) \in PlainCaches /\ av_zstdcache_new(i).id = i
    BY DEF av_zstdcache_new, PlainCaches
  <2> QED BY <1>3, <2>1, SizeCacheSets
<1>4. ASSUME fmt = "lz" PROVE CacheOf(av_lzipcache_new(i), i, im)
  <2>1. PICK c : c = av_lzipcache_new(i)
    OBVIOUS
  <2>2. c \in LzCaches /\ c.id = i /\ c.indexes = <<>>
    <3>1. <<>> \in Seq(InIndexes) /\ IndexDistance \in Nat
      BY StreamsAssumption
    <3> QED BY <2>1, <3>1 DEF av_lzipcache_new, LzCaches
  <2>3. CachesFor(fmt) = LzCaches /\ Len(c.indexes) = 0
    BY <1>4, <2>2 DEF CachesFor
  <2>4. CacheOf(c, i, im)
    BY <1>4, <2>2, <2>3 DEF CacheOf, CacheIs
  <2> QED BY <2>1, <2>4
<1>5. ASSUME fmt = "z" PROVE CacheOf(av_zcache_new(i), i, im)
  <2>1. PICK c : c = av_zcache_new(i)
    OBVIOUS
  <2>2. c \in GzCaches /\ c.id = i /\ c.indexes = <<>>
    <3>1. <<>> \in Seq(GzIndexes) /\ IndexDistance \in Nat
      BY StreamsAssumption
    <3> QED BY <2>1, <3>1 DEF av_zcache_new, GzCaches
  <2>3. CachesFor(fmt) = GzCaches /\ Len(c.indexes) = 0
    BY <1>5, <2>2 DEF CachesFor
  <2>4. CacheOf(c, i, im)
    BY <1>5, <2>2, <2>3 DEF CacheOf, CacheIs
  <2> QED BY <2>1, <2>4
<1> QED BY <1>1, <1>2, <1>3, <1>4, <1>5

\* The content that is opened.
LEMMA ContentIs ==
    ASSUME NEW own, Now(own)
    PROVE  Content \in Texts /\ Content \in Contents /\ Len(caches) + 1 \in Nat
<1>1. fmt \in Formats /\ base \in 1 .. Len(Images[fmt]) /\ caches \in Seq(CachesFor(fmt))
  BY DEF Now, Fits
<1>2. Content \in Texts /\ Content \in Contents
  BY <1>1, ImagesAre DEF Content
<1>3. Len(caches) + 1 \in Nat
  BY <1>1
<1> QED BY <1>2, <1>3

\* An open in the handlers whose nodes have their caches from the start.
LEMMA CachedOpenLater ==
    ASSUME fmt # "z", NEW own, Now(own), NEW h \in Handles, NEW c, CacheOf(c, Len(caches) + 1, Content),
           NEW f, FileOf(f, Content), f.id = 0, NEW k,
           \/ /\ cell # 0 /\ nodes[cell].sig = base /\ k = cell
              /\ cell' = cell /\ nodes' = nodes /\ caches' = caches
           \/ /\ nodes' = Append(nodes, [sig |-> base, cache |-> Len(caches) + 1]) /\ k = Len(nodes) + 1
              /\ cell' = Len(nodes) + 1 /\ caches' = caches \o <<c>>,
           NEW noperm \in BOOLEAN, fd' = [fd EXCEPT ![h] = Opened(k, f, noperm)], base' = base, sc' = sc
    PROVE  \E o : Later(o)
<1>1. PICK o : Fits(fmt, o, base, cell', nodes', caches', sc, fd) /\ k \in 1 .. Len(nodes') /\ nodes'[k].sig = base
  BY FoundCached
<1>2. Later(o)
  BY <1>1, OpenLater
<1> QED BY <1>2

\* The open of bzip2.
LEMMA BzOpenLater ==
    ASSUME fmt = "bz", NEW own, Now(own), NEW h \in Handles, bz_open(h)
    PROVE  \E o : Later(o)
<1>1. PICK c : c = av_bzcache_new(Len(caches) + 1)
  OBVIOUS
<1>2. CacheOf(c, Len(caches) + 1, Content)
  BY <1>1, ContentIs, CacheNew
<1>3. PICK f : f = av_bzfile_new(Content)
  OBVIOUS
<1>4. FileOf(f, Content) /\ f.id = 0
  BY <1>3, ContentIs, BzNew
<1>5. PICK k : k = NodeFound(bz_same)
  OBVIOUS
<1>6. PICK noperm \in BOOLEAN : fd' = [fd EXCEPT ![h] = Opened(k, f, noperm)]
  BY <1>3, <1>5 DEF bz_open, OpenCached
<1>7. \/ /\ cell # 0 /\ nodes[cell].sig = base /\ k = cell
         /\ cell' = cell /\ nodes' = nodes /\ caches' = caches
      \/ /\ nodes' = Append(nodes, [sig |-> base, cache |-> Len(caches) + 1]) /\ k = Len(nodes) + 1
         /\ cell' = Len(nodes) + 1 /\ caches' = caches \o <<c>>
  BY <1>1, <1>5 DEF bz_open, OpenCached, FindNode, SameNode, NodeFound, bz_same
<1>8. base' = base /\ sc' = sc
  BY DEF bz_open, OpenCached
<1> QED BY <1>2, <1>4, <1>6, <1>7, <1>8, CachedOpenLater

\* The open of xz.
LEMMA XzOpenLater ==
    ASSUME fmt = "xz", NEW own, Now(own), NEW h \in Handles, xz_open(h)
    PROVE  \E o : Later(o)
<1>1. PICK c : c = av_xzcache_new(Len(caches) + 1)
  OBVIOUS
<1>2. CacheOf(c, Len(caches) + 1, Content)
  BY <1>1, ContentIs, CacheNew
<1>3. PICK f : f = av_xzfile_new(Content)
  OBVIOUS
<1>4. FileOf(f, Content) /\ f.id = 0
  BY <1>3, ContentIs, BzNew
<1>5. PICK k : k = NodeFound(xz_same)
  OBVIOUS
<1>6. PICK noperm \in BOOLEAN : fd' = [fd EXCEPT ![h] = Opened(k, f, noperm)]
  BY <1>3, <1>5 DEF xz_open, OpenCached
<1>7. \/ /\ cell # 0 /\ nodes[cell].sig = base /\ k = cell
         /\ cell' = cell /\ nodes' = nodes /\ caches' = caches
      \/ /\ nodes' = Append(nodes, [sig |-> base, cache |-> Len(caches) + 1]) /\ k = Len(nodes) + 1
         /\ cell' = Len(nodes) + 1 /\ caches' = caches \o <<c>>
  BY <1>1, <1>5 DEF xz_open, OpenCached, FindNode, SameNode, NodeFound, xz_same
<1>8. base' = base /\ sc' = sc
  BY DEF xz_open, OpenCached
<1> QED BY <1>2, <1>4, <1>6, <1>7, <1>8, CachedOpenLater

\* The open of zstd.
LEMMA ZstOpenLater ==
    ASSUME fmt = "zst", NEW own, Now(own), NEW h \in Handles, zstd_open(h)
    PROVE  \E o : Later(o)
<1>1. PICK c : c = av_zstdcache_new(Len(caches) + 1)
  OBVIOUS
<1>2. CacheOf(c, Len(caches) + 1, Content)
  BY <1>1, ContentIs, CacheNew
<1>3. PICK f : f = av_zstdfile_new(Content)
  OBVIOUS
<1>4. FileOf(f, Content) /\ f.id = 0
  BY <1>3, ContentIs, ZstNew
<1>5. PICK k : k = NodeFound(zstd_same)
  OBVIOUS
<1>6. PICK noperm \in BOOLEAN : fd' = [fd EXCEPT ![h] = Opened(k, f, noperm)]
  BY <1>3, <1>5 DEF zstd_open, OpenCached
<1>7. \/ /\ cell # 0 /\ nodes[cell].sig = base /\ k = cell
         /\ cell' = cell /\ nodes' = nodes /\ caches' = caches
      \/ /\ nodes' = Append(nodes, [sig |-> base, cache |-> Len(caches) + 1]) /\ k = Len(nodes) + 1
         /\ cell' = Len(nodes) + 1 /\ caches' = caches \o <<c>>
  BY <1>1, <1>5 DEF zstd_open, OpenCached, FindNode, SameNode, NodeFound, zstd_same
<1>8. base' = base /\ sc' = sc
  BY DEF zstd_open, OpenCached
<1> QED BY <1>2, <1>4, <1>6, <1>7, <1>8, CachedOpenLater

\* A file is given the id of its cache.
LEMMA IdGiven ==
    ASSUME fmt # "lz", NEW f, NEW im, FileOf(f, im), NEW c \in Nat, NEW g, g = [f EXCEPT !.id = c]
    PROVE  FileOf(g, im) /\ g.id = c
<1>1. f \in Files
  BY DEF FileOf, FileIs, Files
<1>2. /\ g \in Files /\ g.id = c /\ g.s = f.s /\ g.img = f.img
      /\ fmt = "zst" => g.total_in = f.total_in /\ g.inBuffer = f.inBuffer
  BY <1>1, IdPut
<1> QED BY <1>2 DEF FileOf, FileIs, Files, ZstPlaced

\* The vfile of a call that begins.
LEMMA BeginsIs ==
    ASSUME NEW own, NEW ns, NEW h, VfileIs(fmt, fd[h], own, ns), fd[h].st = "open", Len(own) \in Nat,
           NEW op \in {"read", "size"}, NEW r \in Nat \X Nat, NEW c \in 1 .. Len(own), own[c] = fd[h].img,
           NEW f, FileOf(f, fd[h].img), f.id \in {0, c}, NEW pc \in Places
    PROVE  VfileIs(fmt, Begins(h, op, r, c, f, pc), own, ns)
<1>1. PICK u : u = fd[h]
  OBVIOUS
<1>2. PICK a \in Nat, b \in Nat : a = r[1] /\ b = r[2]
  OBVIOUS
<1>3. PICK v : v = Begins(h, op, r, c, f, pc)
  OBVIOUS
<1>4. v = [u EXCEPT !.op = op, !.off = a, !.n = b, !.zc = c, !.fil = f, !.pc = pc, !.ans = "full"]
  BY <1>1, <1>2, <1>3 DEF Begins
<1>5. f \in FilesFor(fmt) /\ FilIs(fmt, f, u.img, own)
  BY <1>1 DEF FileOf, FileIs, FilIs
<1>6. u \in VfilesFor(fmt) /\ c \in Nat /\ "full" \in Answers
  BY <1>1 DEF VfileIs, Answers
<1>7. v \in VfilesFor(fmt) /\ v.st = u.st /\ v.img = u.img /\ v.node = u.node /\ v.noperm = u.noperm /\ v.fil = f /\ v.zc = c
  BY <1>4, <1>5, <1>6 DEF VfilesFor
<1>8. VfileIs(fmt, v, own, ns)
  BY <1>1, <1>5, <1>7 DEF VfileIs
<1> QED BY <1>3, <1>8

\* The vfile of a call that has ended.
LEMMA ReturnedIs ==
    ASSUME NEW own, NEW ns, NEW h, VfileIs(fmt, fd[h], own, ns), NEW ans \in Answers
    PROVE  VfileIs(fmt, Returned(fd[h], ans), own, ns)
<1>1. PICK u, v : u = fd[h] /\ v = Returned(u, ans)
  OBVIOUS
<1>2. u \in VfilesFor(fmt)
  BY <1>1 DEF VfileIs
<1>3. v \in VfilesFor(fmt) /\ v.st = u.st /\ v.img = u.img /\ v.node = u.node /\ v.noperm = u.noperm /\ v.fil = u.fil /\ v.pc = "idle"
  BY <1>1, <1>2 DEF VfilesFor, Returned, Places
<1>4. VfileIs(fmt, v, own, ns)
  BY <1>1, <1>3 DEF VfileIs
<1> QED BY <1>1, <1>4

\* The cache of the node of an open vfile.
LEMMA CacheOfNode ==
    ASSUME fmt \in {"bz", "xz", "zst"}, NEW own, Now(own), NEW h \in Handles, fd[h].st = "open"
    PROVE  nodes[fd[h].node].cache \in 1 .. Len(own) /\ own[nodes[fd[h].node].cache] = fd[h].img
<1>1. /\ VfileIs(fmt, fd[h], own, nodes) /\ Len(own) \in Nat
      /\ \A n \in 1 .. Len(nodes) : NodeIs(fmt, nodes[n], own)
  BY NowOf
<1>2. fd[h].node \in 1 .. Len(nodes) /\ fd[h].img = Images[fmt][nodes[fd[h].node].sig]
  BY <1>1 DEF VfileIs
<1>3. NodeIs(fmt, nodes[fd[h].node], own)
  BY <1>1, <1>2
<1> QED BY <1>1, <1>2, <1>3 DEF NodeIs

\* One vfile is changed, and nothing else.
LEMMA FdLater ==
    ASSUME NEW own, Now(own), NEW h \in Handles, NEW v, VfileIs(fmt, v, own, nodes), fd' = [fd EXCEPT ![h] = v],
           base' = base, cell' = cell, nodes' = nodes, caches' = caches, sc' = sc
    PROVE  Later(own)
<1>1. Fits(fmt, own, base, cell, nodes, caches, sc, [fd EXCEPT ![h] = v])
  BY FdFits DEF Now
<1> QED BY <1>1 DEF Later

\* A read begins in these handlers.
LEMMA CachedReadLater ==
    ASSUME fmt \in {"bz", "xz", "zst"}, NEW own, Now(own), NEW h \in Handles, ReadCached(h)
    PROVE  Later(own)
<1>1. fd[h].st = "open" /\ ~fd[h].noperm
  BY DEF ReadCached, Idle
<1>2. PICK c, f0 : c = nodes[fd[h].node].cache /\ f0 = fd[h].fil
  OBVIOUS
<1>3. PICK f : f = [f0 EXCEPT !.id = c]
  OBVIOUS
<1>4. PICK r \in Reads[fmt] :
        fd' = [fd EXCEPT ![h] =
                 IF f.iserror THEN ReadRefused(h)
                 ELSE Begins(h, "read", r, c, f, IF r[1] # f.s.out THEN "goto" ELSE "read")]
  BY <1>2, <1>3 DEF ReadCached
<1>5. VfileIs(fmt, fd[h], own, nodes) /\ Len(own) \in Nat /\ fmt \in Formats
  BY NowOf
<1>6. c \in 1 .. Len(own) /\ own[c] = fd[h].img /\ c \in Nat
  BY <1>1, <1>2, <1>5, CacheOfNode
<1>7. FileOf(f0, fd[h].img)
  BY <1>1, <1>2, <1>5 DEF VfileIs, FilIs, FileOf
<1>8. FileOf(f, fd[h].img) /\ f.id = c
  BY <1>3, <1>6, <1>7, IdGiven
<1>9. r \in Nat \X Nat
  BY <1>5, StreamsAssumption
<1>10. PICK pc \in Places : pc = IF r[1] # f.s.out THEN "goto" ELSE "read"
  BY DEF Places
<1>11. VfileIs(fmt, Begins(h, "read", r, c, f, pc), own, nodes)
  BY <1>1, <1>5, <1>6, <1>8, <1>9, BeginsIs
<1>12. VfileIs(fmt, ReadRefused(h), own, nodes)
  <2>1. "read error" \in Answers
    BY DEF Answers
  <2> QED BY <2>1, <1>5, ReturnedIs DEF ReadRefused
<1>13. PICK v : VfileIs(fmt, v, own, nodes) /\ fd' = [fd EXCEPT ![h] = v]
  <2>1. CASE f.iserror
    BY <2>1, <1>4, <1>12
  <2>2. CASE ~f.iserror
    BY <2>2, <1>4, <1>10, <1>11
  <2> QED BY <2>1, <2>2
<1>14. base' = base /\ cell' = cell /\ nodes' = nodes /\ caches' = caches /\ sc' = sc
  BY DEF ReadCached
<1> QED BY <1>13, <1>14, FdLater

\* The size that is known is answered.
LEMMA SizeAnswer ==
    ASSUME NEW own, NEW ns, NEW h, VfileIs(fmt, fd[h], own, ns), NEW n
    PROVE  VfileIs(fmt, SizeKnown(h, n), own, ns)
<1>1. PICK a : a = IF n = Total(fd[h].img) THEN "full" ELSE "bad size"
  OBVIOUS
<1>2. a \in Answers
  BY <1>1 DEF Answers
<1>3. SizeKnown(h, n) = Returned(fd[h], a)
  BY <1>1 DEF SizeKnown
<1> QED BY <1>2, <1>3, ReturnedIs

\* A search for the size begins in these handlers.
LEMMA CachedSizeLater ==
    ASSUME fmt \in {"bz", "xz", "zst"}, NEW own, Now(own), NEW h \in Handles, Idle(h),
           NEW g, FileOf(g, fd[h].img), g.id = 0, NEW c, c = nodes[fd[h].node].cache,
           NEW f0, f0 = IF HasFile(h) THEN fd[h].fil ELSE g,
           fd' = [fd EXCEPT ![h] =
                    IF caches[c].size # -1
                    THEN SizeKnown(h, caches[c].size)
                    ELSE Begins(h, "size", <<MAXOFF, 0>>, c, [f0 EXCEPT !.id = c], "goto")],
           base' = base, cell' = cell, nodes' = nodes, caches' = caches, sc' = sc
    PROVE  Later(own)
<1>1. fd[h].st = "open"
  BY DEF Idle
<1>2. VfileIs(fmt, fd[h], own, nodes) /\ Len(own) \in Nat
  BY NowOf
<1>3. c \in 1 .. Len(own) /\ own[c] = fd[h].img /\ c \in Nat
  BY <1>1, <1>2, CacheOfNode
<1>4. FileOf(f0, fd[h].img)
  BY FileSaved
<1>5. PICK f : f = [f0 EXCEPT !.id = c]
  OBVIOUS
<1>6. FileOf(f, fd[h].img) /\ f.id = c
  BY <1>3, <1>4, <1>5, IdGiven
<1>7. PICK r \in Nat \X Nat : r = <<MAXOFF, 0>>
  BY DEF MAXOFF
<1>8. "goto" \in Places
  BY DEF Places
<1>9. VfileIs(fmt, Begins(h, "size", r, c, f, "goto"), own, nodes)
  BY <1>1, <1>2, <1>3, <1>6, <1>8, BeginsIs
<1>10. VfileIs(fmt, SizeKnown(h, caches[c].size), own, nodes)
  BY <1>2, SizeAnswer
<1>11. PICK v : VfileIs(fmt, v, own, nodes) /\ fd' = [fd EXCEPT ![h] = v]
  <2>1. CASE caches[c].size # -1
    BY <2>1, <1>10
  <2>2. CASE caches[c].size = -1
    BY <2>2, <1>5, <1>7, <1>9
  <2> QED BY <2>1, <2>2
<1> QED BY <1>11, FdLater

\* The machine of a call before it goes anywhere.
LEMMA GotoOf ==
    ASSUME NEW own, Now(own), NEW h \in Handles, fd[h].pc = "goto", NEW m, m = Machine(h, "ok")
    PROVE  MachineFor(m, h, own) /\ MachineOf(m, own) /\ own \in Seq(Contents) /\ fd[h].off \in Nat /\ m.res = "ok"
<1>1. fd[h].off \in Nat
  BY NowOf DEF VfilesFor
<1>2. fd[h].pc # "idle"
  OBVIOUS
<1>3. "ok" \in {"ok", "read", "index"}
  OBVIOUS
<1> QED BY <1>1, <1>2, <1>3, MachineNow

\* A call has gone to where it begins to pass over output.
LEMMA GotoLater ==
    ASSUME NEW own, Now(own), NEW h \in Handles, NEW m, MachineFor(m, h, own), NEW r, MachineOf(r, own), Keeps(r, m),
           Step(h, r, At(h, "skip")), base' = base, cell' = cell, nodes' = nodes
    PROVE  Later(own)
<1>1. fd[h] \in VfilesFor(fmt)
  BY NowOf
<1>2. OnCall(At(h, "skip"), fd[h])
  <2>1. "skip" \in Places /\ "full" \in Answers /\ 0 \in Nat
    BY DEF Places, Answers
  <2> QED BY <1>1, <2>1, OnCalls DEF At
<1>3. MachineFor(r, h, own)
  BY KeepsFor
<1> QED BY <1>2, <1>3, StepLater

\* The machine of the step of a call that decompresses.
LEMMA StepOf ==
    ASSUME NEW own, Now(own), NEW h \in Handles, fd[h].pc \in {"skip", "read"}, NEW io \in Io, NEW m, m = Machine(h, io)
    PROVE  /\ MachineFor(m, h, own) /\ MachineOf(m, own) /\ own \in Seq(Contents) /\ m.res = "ok"
           /\ Lesser(OutBuf, fd[h].off - m.f.s.out) \in Int /\ fd[h].n - fd[h].got \in Int
<1>1. MachineFor(m, h, own) /\ MachineOf(m, own) /\ own \in Seq(Contents) /\ m.res = "ok"
  <2>1. io \in {"ok", "read", "index"} /\ fd[h].pc # "idle"
    BY IoIs
  <2> QED BY <2>1, MachineNow
<1>2. fd[h].off \in Nat /\ fd[h].n \in Nat /\ fd[h].got \in Nat
  BY NowOf DEF VfilesFor
<1>3. m.f.s.out \in Nat
  <2>1. m.f.s \in StreamSet
    BY <1>1, MachineFacts
  <2> QED BY <2>1 DEF StreamSet
<1>4. OutBuf \in Nat
  BY StreamsAssumption
<1> QED BY <1>1, <1>2, <1>3, <1>4 DEF Lesser

\* The steps of bzip2.
LEMMA BzGotoLater ==
    ASSUME fmt = "bz", NEW own, Now(own), NEW h \in Handles, bzfile_goto(h)
    PROVE  Later(own)
<1>1. PICK m : m = Machine(h, "ok")
  OBVIOUS
<1>2. MachineFor(m, h, own) /\ MachineOf(m, own) /\ own \in Seq(Contents) /\ fd[h].off \in Nat
  BY <1>1, GotoOf DEF bzfile_goto
<1>3. PICK r : r = bzfile_seek(m, fd[h].off)
  OBVIOUS
<1>30. MachineOf(r, own) /\ Keeps(r, m)
  BY <1>2, <1>3, BzSeek
<1>4. Step(h, r, At(h, "skip"))
  BY <1>1, <1>3 DEF bzfile_goto
<1>5. base' = base /\ cell' = cell /\ nodes' = nodes
  BY DEF bzfile_goto
<1> QED BY <1>2, <1>30, <1>4, <1>5, GotoLater

\* Output of bzip2 is passed over.
LEMMA BzSkipLater ==
    ASSUME fmt = "bz", NEW own, Now(own), NEW h \in Handles, bzfile_skip_to(h)
    PROVE  Later(own)
<1>1. PICK io \in Io :
        LET m0 == Machine(h, io)
            m  == bzfile_decompress(m0, Lesser(OutBuf, fd[h].off - m0.f.s.out))
        IN IF m0.f.iseof \/ m0.f.s.out = fd[h].off
           THEN IF fd[h].op = "read" THEN Step(h, m0, At(h, "read"))
                ELSE Ends(h, IF m0.c.size = -1 THEN Fail(m0) ELSE m0)
           ELSE IF m.res = "ok" THEN Step(h, m, fd[h])
           ELSE Ends(h, [m EXCEPT !.got = 0])
  BY DEF bzfile_skip_to, SkipOn
<1>2. PICK m0 : m0 = Machine(h, io)
  OBVIOUS
<1>3. MachineFor(m0, h, own) /\ MachineOf(m0, own) /\ own \in Seq(Contents) /\ Lesser(OutBuf, fd[h].off - m0.f.s.out) \in Int
  <2>1. fd[h].pc \in {"skip", "read"}
    BY DEF bzfile_skip_to, SkipOn
  <2> QED BY <2>1, <1>2, StepOf
<1>4. PICK room \in Int : room = Lesser(OutBuf, fd[h].off - m0.f.s.out)
  BY <1>3
<1>5. PICK m : m = bzfile_decompress(m0, room)
  OBVIOUS
<1>6. MachineOf(m, own) /\ Keeps(m, m0)
  BY <1>3, <1>5, BzDecompress
<1>7. IF m0.f.iseof \/ m0.f.s.out = fd[h].off
      THEN IF fd[h].op = "read" THEN Step(h, m0, At(h, "read"))
           ELSE Ends(h, IF m0.c.size = -1 THEN Fail(m0) ELSE m0)
      ELSE IF m.res = "ok" THEN Step(h, m, fd[h])
      ELSE Ends(h, [m EXCEPT !.got = 0])
  BY <1>1, <1>2, <1>4, <1>5
<1>8. base' = base /\ cell' = cell /\ nodes' = nodes
  BY DEF bzfile_skip_to, SkipOn
<1> QED BY <1>3, <1>6, <1>7, <1>8, SkipLater

\* Output of bzip2 is given.
LEMMA BzReadLater ==
    ASSUME fmt = "bz", NEW own, Now(own), NEW h \in Handles, bzfile_read(h)
    PROVE  Later(own)
<1>1. PICK io \in Io :
        LET m0 == Machine(h, io)
            m  == bzfile_decompress(m0, fd[h].n - fd[h].got)
        IN IF fd[h].got = fd[h].n \/ m0.f.iseof THEN Ends(h, m0)
           ELSE IF m.res = "ok" THEN Step(h, m, [fd[h] EXCEPT !.got = @ + m.got])
           ELSE Ends(h, m)
  BY DEF bzfile_read, ReadOn
<1>2. PICK m0 : m0 = Machine(h, io)
  OBVIOUS
<1>3. MachineFor(m0, h, own) /\ MachineOf(m0, own) /\ own \in Seq(Contents) /\ fd[h].n - fd[h].got \in Int
  <2>1. fd[h].pc \in {"skip", "read"}
    BY DEF bzfile_read, ReadOn
  <2> QED BY <2>1, <1>2, StepOf
<1>4. PICK room \in Int : room = fd[h].n - fd[h].got
  BY <1>3
<1>5. PICK m : m = bzfile_decompress(m0, room)
  OBVIOUS
<1>6. MachineOf(m, own) /\ Keeps(m, m0)
  BY <1>3, <1>5, BzDecompress
<1>7. IF fd[h].got = fd[h].n \/ m0.f.iseof THEN Ends(h, m0)
      ELSE IF m.res = "ok" THEN Step(h, m, [fd[h] EXCEPT !.got = @ + m.got])
      ELSE Ends(h, m)
  BY <1>1, <1>2, <1>4, <1>5
<1>8. base' = base /\ cell' = cell /\ nodes' = nodes
  BY DEF bzfile_read, ReadOn
<1> QED BY <1>3, <1>6, <1>7, <1>8, ReadLater

\* Every step of bzip2.
LEMMA BzLater ==
    ASSUME fmt = "bz", NEW own, Now(own), BzNext
    PROVE  \E o : Later(o)
<1> SUFFICES ASSUME NEW h \in Handles,
                    \/ bz_open(h) \/ bz_close(h) \/ bz_read(h) \/ bz_getattr(h)
                    \/ bzfile_goto(h) \/ bzfile_skip_to(h) \/ bzfile_read(h)
             PROVE  \E o : Later(o)
  BY DEF BzNext
<1>1. CASE bz_open(h)
  BY <1>1, BzOpenLater
<1>2. CASE bz_close(h)
  <2>1. Later(own)
    BY <1>2, BzCloseLater DEF bz_close
  <2> QED BY <2>1
<1>3. CASE bz_read(h)
  <2>1. Later(own)
    BY <1>3, CachedReadLater DEF bz_read
  <2> QED BY <2>1
<1>4. CASE bz_getattr(h)
  <2>1. PICK g : g = av_bzfile_new(fd[h].img)
    OBVIOUS
  <2>2. FileOf(g, fd[h].img) /\ g.id = 0
    <3>1. fd[h].img \in Texts
      BY NowOf DEF VfilesFor
    <3> QED BY <3>1, <2>1, BzNew
  <2>3. PICK c, f0 : c = nodes[fd[h].node].cache /\ f0 = IF HasFile(h) THEN fd[h].fil ELSE g
    OBVIOUS
  <2>4. fd' = [fd EXCEPT ![h] =
                 IF caches[c].size # -1
                 THEN SizeKnown(h, caches[c].size)
                 ELSE Begins(h, "size", <<MAXOFF, 0>>, c, [f0 EXCEPT !.id = c], "goto")]
    BY <1>4, <2>1, <2>3 DEF bz_getattr, SizeCached
  <2>5. Idle(h) /\ base' = base /\ cell' = cell /\ nodes' = nodes /\ caches' = caches /\ sc' = sc
    BY <1>4 DEF bz_getattr, SizeCached
  <2>6. Later(own)
    BY <2>2, <2>3, <2>4, <2>5, CachedSizeLater
  <2> QED BY <2>6
<1>5. CASE bzfile_goto(h)
  <2>1. Later(own)
    BY <1>5, BzGotoLater
  <2> QED BY <2>1
<1>6. CASE bzfile_skip_to(h)
  <2>1. Later(own)
    BY <1>6, BzSkipLater
  <2> QED BY <2>1
<1>7. CASE bzfile_read(h)
  <2>1. Later(own)
    BY <1>7, BzReadLater
  <2> QED BY <2>1
<1> QED BY <1>1, <1>2, <1>3, <1>4, <1>5, <1>6, <1>7

\* The close of xz.
LEMMA XzCloseLater ==
    ASSUME fmt = "xz", NEW own, Now(own), NEW h \in Handles, xz_close(h)
    PROVE  Later(own)
<1>1. CloseCached(h, bzfile_scache_save)
  BY XzAsBz DEF xz_close, CloseCached
<1> QED BY <1>1, BzCloseLater

\* The steps of xz.
LEMMA XzGotoLater ==
    ASSUME fmt = "xz", NEW own, Now(own), NEW h \in Handles, xzfile_goto(h)
    PROVE  Later(own)
<1>1. PICK m : m = Machine(h, "ok")
  OBVIOUS
<1>2. MachineFor(m, h, own) /\ MachineOf(m, own) /\ own \in Seq(Contents) /\ fd[h].off \in Nat
  BY <1>1, GotoOf DEF xzfile_goto
<1>3. PICK r : r = IF fd[h].op = "size" \/ m.f.s.out > fd[h].off THEN xzfile_reset(m) ELSE m
  OBVIOUS
<1>30. MachineOf(r, own) /\ Keeps(r, m)
  <2>1. CASE r = m
    BY <2>1, <1>2 DEF Keeps
  <2>2. CASE r = xzfile_reset(m)
    BY <2>2, <1>2, BzReset, XzAsBz
  <2> QED BY <2>1, <2>2, <1>3
<1>4. Step(h, r, At(h, "skip"))
  BY <1>1, <1>3 DEF xzfile_goto
<1>5. base' = base /\ cell' = cell /\ nodes' = nodes
  BY DEF xzfile_goto
<1> QED BY <1>2, <1>30, <1>4, <1>5, GotoLater

\* Output of xz is passed over.
LEMMA XzSkipLater ==
    ASSUME fmt = "xz", NEW own, Now(own), NEW h \in Handles, xzfile_skip_to(h)
    PROVE  Later(own)
<1>1. PICK io \in Io :
        LET m0 == Machine(h, io)
            m  == xzfile_decompress(m0, Lesser(OutBuf, fd[h].off - m0.f.s.out))
        IN IF m0.f.iseof \/ m0.f.s.out = fd[h].off
           THEN IF fd[h].op = "read" THEN Step(h, m0, At(h, "read"))
                ELSE Ends(h, IF m0.c.size = -1 THEN Fail(m0) ELSE m0)
           ELSE IF m.res = "ok" THEN Step(h, m, fd[h])
           ELSE Ends(h, [m EXCEPT !.got = 0])
  BY DEF xzfile_skip_to, SkipOn
<1>2. PICK m0 : m0 = Machine(h, io)
  OBVIOUS
<1>3. MachineFor(m0, h, own) /\ MachineOf(m0, own) /\ own \in Seq(Contents) /\ Lesser(OutBuf, fd[h].off - m0.f.s.out) \in Int
  <2>1. fd[h].pc \in {"skip", "read"}
    BY DEF xzfile_skip_to, SkipOn
  <2> QED BY <2>1, <1>2, StepOf
<1>4. PICK room \in Int : room = Lesser(OutBuf, fd[h].off - m0.f.s.out)
  BY <1>3
<1>5. PICK m : m = xzfile_decompress(m0, room)
  OBVIOUS
<1>6. MachineOf(m, own) /\ Keeps(m, m0)
  BY <1>3, <1>5, XzDecompress
<1>7. IF m0.f.iseof \/ m0.f.s.out = fd[h].off
      THEN IF fd[h].op = "read" THEN Step(h, m0, At(h, "read"))
           ELSE Ends(h, IF m0.c.size = -1 THEN Fail(m0) ELSE m0)
      ELSE IF m.res = "ok" THEN Step(h, m, fd[h])
      ELSE Ends(h, [m EXCEPT !.got = 0])
  BY <1>1, <1>2, <1>4, <1>5
<1>8. base' = base /\ cell' = cell /\ nodes' = nodes
  BY DEF xzfile_skip_to, SkipOn
<1> QED BY <1>3, <1>6, <1>7, <1>8, SkipLater

\* Output of xz is given.
LEMMA XzReadLater ==
    ASSUME fmt = "xz", NEW own, Now(own), NEW h \in Handles, xzfile_read(h)
    PROVE  Later(own)
<1>1. PICK io \in Io :
        LET m0 == Machine(h, io)
            m  == xzfile_decompress(m0, fd[h].n - fd[h].got)
        IN IF fd[h].got = fd[h].n \/ m0.f.iseof THEN Ends(h, m0)
           ELSE IF m.res = "ok" THEN Step(h, m, [fd[h] EXCEPT !.got = @ + m.got])
           ELSE Ends(h, m)
  BY DEF xzfile_read, ReadOn
<1>2. PICK m0 : m0 = Machine(h, io)
  OBVIOUS
<1>3. MachineFor(m0, h, own) /\ MachineOf(m0, own) /\ own \in Seq(Contents) /\ fd[h].n - fd[h].got \in Int
  <2>1. fd[h].pc \in {"skip", "read"}
    BY DEF xzfile_read, ReadOn
  <2> QED BY <2>1, <1>2, StepOf
<1>4. PICK room \in Int : room = fd[h].n - fd[h].got
  BY <1>3
<1>5. PICK m : m = xzfile_decompress(m0, room)
  OBVIOUS
<1>6. MachineOf(m, own) /\ Keeps(m, m0)
  BY <1>3, <1>5, XzDecompress
<1>7. IF fd[h].got = fd[h].n \/ m0.f.iseof THEN Ends(h, m0)
      ELSE IF m.res = "ok" THEN Step(h, m, [fd[h] EXCEPT !.got = @ + m.got])
      ELSE Ends(h, m)
  BY <1>1, <1>2, <1>4, <1>5
<1>8. base' = base /\ cell' = cell /\ nodes' = nodes
  BY DEF xzfile_read, ReadOn
<1> QED BY <1>3, <1>6, <1>7, <1>8, ReadLater

\* Every step of xz.
LEMMA XzLater ==
    ASSUME fmt = "xz", NEW own, Now(own), XzNext
    PROVE  \E o : Later(o)
<1> SUFFICES ASSUME NEW h \in Handles,
                    \/ xz_open(h) \/ xz_close(h) \/ xz_read(h) \/ xz_getattr(h)
                    \/ xzfile_goto(h) \/ xzfile_skip_to(h) \/ xzfile_read(h)
             PROVE  \E o : Later(o)
  BY DEF XzNext
<1>1. CASE xz_open(h)
  BY <1>1, XzOpenLater
<1>2. CASE xz_close(h)
  <2>1. Later(own)
    BY <1>2, XzCloseLater
  <2> QED BY <2>1
<1>3. CASE xz_read(h)
  <2>1. Later(own)
    BY <1>3, CachedReadLater DEF xz_read
  <2> QED BY <2>1
<1>4. CASE xz_getattr(h)
  <2>1. PICK g : g = av_xzfile_new(fd[h].img)
    OBVIOUS
  <2>2. FileOf(g, fd[h].img) /\ g.id = 0
    <3>1. fd[h].img \in Texts
      BY NowOf DEF VfilesFor
    <3> QED BY <3>1, <2>1, BzNew
  <2>3. PICK c, f0 : c = nodes[fd[h].node].cache /\ f0 = IF HasFile(h) THEN fd[h].fil ELSE g
    OBVIOUS
  <2>4. fd' = [fd EXCEPT ![h] =
                 IF caches[c].size # -1
                 THEN SizeKnown(h, caches[c].size)
                 ELSE Begins(h, "size", <<MAXOFF, 0>>, c, [f0 EXCEPT !.id = c], "goto")]
    BY <1>4, <2>1, <2>3 DEF xz_getattr, SizeCached
  <2>5. Idle(h) /\ base' = base /\ cell' = cell /\ nodes' = nodes /\ caches' = caches /\ sc' = sc
    BY <1>4 DEF xz_getattr, SizeCached
  <2>6. Later(own)
    BY <2>2, <2>3, <2>4, <2>5, CachedSizeLater
  <2> QED BY <2>6
<1>5. CASE xzfile_goto(h)
  <2>1. Later(own)
    BY <1>5, XzGotoLater
  <2> QED BY <2>1
<1>6. CASE xzfile_skip_to(h)
  <2>1. Later(own)
    BY <1>6, XzSkipLater
  <2> QED BY <2>1
<1>7. CASE xzfile_read(h)
  <2>1. Later(own)
    BY <1>7, XzReadLater
  <2> QED BY <2>1
<1> QED BY <1>1, <1>2, <1>3, <1>4, <1>5, <1>6, <1>7

\* The steps of zstd.
LEMMA ZstGotoLater ==
    ASSUME fmt = "zst", NEW own, Now(own), NEW h \in Handles, zstdfile_goto(h)
    PROVE  Later(own)
<1>1. PICK m : m = Machine(h, "ok")
  OBVIOUS
<1>2. MachineFor(m, h, own) /\ MachineOf(m, own) /\ own \in Seq(Contents) /\ fd[h].off \in Nat
  BY <1>1, GotoOf DEF zstdfile_goto
<1>3. PICK r : r = IF fd[h].op = "size" \/ m.f.s.out > fd[h].off THEN zstdfile_reset(m) ELSE m
  OBVIOUS
<1>30. MachineOf(r, own) /\ Keeps(r, m)
  <2>1. CASE r = m
    BY <2>1, <1>2 DEF Keeps
  <2>2. CASE r = zstdfile_reset(m)
    BY <2>2, <1>2, ZstReset
  <2> QED BY <2>1, <2>2, <1>3
<1>4. Step(h, r, At(h, "skip"))
  BY <1>1, <1>3 DEF zstdfile_goto
<1>5. base' = base /\ cell' = cell /\ nodes' = nodes
  BY DEF zstdfile_goto
<1> QED BY <1>2, <1>30, <1>4, <1>5, GotoLater

\* Output of zstd is passed over.
LEMMA ZstSkipLater ==
    ASSUME fmt = "zst", NEW own, Now(own), NEW h \in Handles, zstdfile_skip_to(h)
    PROVE  Later(own)
<1>1. PICK io \in Io :
        LET m0 == Machine(h, io)
            m  == zstdfile_decompress(m0, Lesser(OutBuf, fd[h].off - m0.f.s.out))
        IN IF m0.f.iseof \/ m0.f.s.out = fd[h].off
           THEN IF fd[h].op = "read" THEN Step(h, m0, At(h, "read"))
                ELSE Ends(h, IF m0.c.size = -1 THEN Fail(m0) ELSE m0)
           ELSE IF m.res = "ok" THEN Step(h, m, fd[h])
           ELSE Ends(h, [m EXCEPT !.got = 0])
  BY DEF zstdfile_skip_to, SkipOn
<1>2. PICK m0 : m0 = Machine(h, io)
  OBVIOUS
<1>3. MachineFor(m0, h, own) /\ MachineOf(m0, own) /\ own \in Seq(Contents) /\ Lesser(OutBuf, fd[h].off - m0.f.s.out) \in Int
  <2>1. fd[h].pc \in {"skip", "read"}
    BY DEF zstdfile_skip_to, SkipOn
  <2> QED BY <2>1, <1>2, StepOf
<1>4. PICK room \in Int : room = Lesser(OutBuf, fd[h].off - m0.f.s.out)
  BY <1>3
<1>5. PICK m : m = zstdfile_decompress(m0, room)
  OBVIOUS
<1>6. MachineOf(m, own) /\ Keeps(m, m0)
  BY <1>3, <1>5, ZstDecompress
<1>7. IF m0.f.iseof \/ m0.f.s.out = fd[h].off
      THEN IF fd[h].op = "read" THEN Step(h, m0, At(h, "read"))
           ELSE Ends(h, IF m0.c.size = -1 THEN Fail(m0) ELSE m0)
      ELSE IF m.res = "ok" THEN Step(h, m, fd[h])
      ELSE Ends(h, [m EXCEPT !.got = 0])
  BY <1>1, <1>2, <1>4, <1>5
<1>8. base' = base /\ cell' = cell /\ nodes' = nodes
  BY DEF zstdfile_skip_to, SkipOn
<1> QED BY <1>3, <1>6, <1>7, <1>8, SkipLater

\* Output of zstd is given.
LEMMA ZstReadLater ==
    ASSUME fmt = "zst", NEW own, Now(own), NEW h \in Handles, zstdfile_read(h)
    PROVE  Later(own)
<1>1. PICK io \in Io :
        LET m0 == Machine(h, io)
            m  == zstdfile_decompress(m0, fd[h].n - fd[h].got)
        IN IF fd[h].got = fd[h].n \/ m0.f.iseof THEN Ends(h, m0)
           ELSE IF m.res = "ok" THEN Step(h, m, [fd[h] EXCEPT !.got = @ + m.got])
           ELSE Ends(h, m)
  BY DEF zstdfile_read, ReadOn
<1>2. PICK m0 : m0 = Machine(h, io)
  OBVIOUS
<1>3. MachineFor(m0, h, own) /\ MachineOf(m0, own) /\ own \in Seq(Contents) /\ fd[h].n - fd[h].got \in Int
  <2>1. fd[h].pc \in {"skip", "read"}
    BY DEF zstdfile_read, ReadOn
  <2> QED BY <2>1, <1>2, StepOf
<1>4. PICK room \in Int : room = fd[h].n - fd[h].got
  BY <1>3
<1>5. PICK m : m = zstdfile_decompress(m0, room)
  OBVIOUS
<1>6. MachineOf(m, own) /\ Keeps(m, m0)
  BY <1>3, <1>5, ZstDecompress
<1>7. IF fd[h].got = fd[h].n \/ m0.f.iseof THEN Ends(h, m0)
      ELSE IF m.res = "ok" THEN Step(h, m, [fd[h] EXCEPT !.got = @ + m.got])
      ELSE Ends(h, m)
  BY <1>1, <1>2, <1>4, <1>5
<1>8. base' = base /\ cell' = cell /\ nodes' = nodes
  BY DEF zstdfile_read, ReadOn
<1> QED BY <1>3, <1>6, <1>7, <1>8, ReadLater

\* Every step of zstd.
LEMMA ZstLater ==
    ASSUME fmt = "zst", NEW own, Now(own), ZstdNext
    PROVE  \E o : Later(o)
<1> SUFFICES ASSUME NEW h \in Handles,
                    \/ zstd_open(h) \/ zstd_close(h) \/ zstd_read(h) \/ zstd_getattr(h)
                    \/ zstdfile_goto(h) \/ zstdfile_skip_to(h) \/ zstdfile_read(h)
             PROVE  \E o : Later(o)
  BY DEF ZstdNext
<1>1. CASE zstd_open(h)
  BY <1>1, ZstOpenLater
<1>2. CASE zstd_close(h)
  <2>1. Later(own)
    BY <1>2, ZstCloseLater DEF zstd_close
  <2> QED BY <2>1
<1>3. CASE zstd_read(h)
  <2>1. Later(own)
    BY <1>3, CachedReadLater DEF zstd_read
  <2> QED BY <2>1
<1>4. CASE zstd_getattr(h)
  <2>1. PICK g : g = av_zstdfile_new(fd[h].img)
    OBVIOUS
  <2>2. FileOf(g, fd[h].img) /\ g.id = 0
    <3>1. fd[h].img \in Texts
      BY NowOf DEF VfilesFor
    <3> QED BY <3>1, <2>1, ZstNew
  <2>3. PICK c, f0 : c = nodes[fd[h].node].cache /\ f0 = IF HasFile(h) THEN fd[h].fil ELSE g
    OBVIOUS
  <2>4. fd' = [fd EXCEPT ![h] =
                 IF caches[c].size # -1
                 THEN SizeKnown(h, caches[c].size)
                 ELSE Begins(h, "size", <<MAXOFF, 0>>, c, [f0 EXCEPT !.id = c], "goto")]
    BY <1>4, <2>1, <2>3 DEF zstd_getattr, SizeCached
  <2>5. Idle(h) /\ base' = base /\ cell' = cell /\ nodes' = nodes /\ caches' = caches /\ sc' = sc
    BY <1>4 DEF zstd_getattr, SizeCached
  <2>6. Later(own)
    BY <2>2, <2>3, <2>4, <2>5, CachedSizeLater
  <2> QED BY <2>6
<1>5. CASE zstdfile_goto(h)
  <2>1. Later(own)
    BY <1>5, ZstGotoLater
  <2> QED BY <2>1
<1>6. CASE zstdfile_skip_to(h)
  <2>1. Later(own)
    BY <1>6, ZstSkipLater
  <2> QED BY <2>1
<1>7. CASE zstdfile_read(h)
  <2>1. Later(own)
    BY <1>7, ZstReadLater
  <2> QED BY <2>1
<1> QED BY <1>1, <1>2, <1>3, <1>4, <1>5, <1>6, <1>7

----------------------------------------------------------------------------
(* The handlers whose nodes get their caches when they are needed.         *)

\* The node of an open.
LEMMA FoundBare ==
    ASSUME NEW own, Now(own), NEW x, NodeIs(fmt, x, own), x.sig = base, NEW k,
           \/ /\ cell # 0 /\ nodes[cell].sig = base /\ k = cell
              /\ cell' = cell /\ nodes' = nodes /\ caches' = caches
           \/ /\ nodes' = Append(nodes, x) /\ k = Len(nodes) + 1
              /\ cell' = Len(nodes) + 1 /\ caches' = caches \o <<>>
    PROVE  Fits(fmt, own, base, cell', nodes', caches', sc, fd) /\ k \in 1 .. Len(nodes') /\ nodes'[k].sig = base
<1>1. /\ Fits(fmt, own, base, cell, nodes, caches, sc, fd) /\ cell \in 0 .. Len(nodes)
      /\ caches \in Seq(CachesFor(fmt)) /\ nodes \in Seq(NodesFor(fmt))
  BY DEF Now, Fits
<1>2. CASE cell # 0 /\ nodes[cell].sig = base /\ k = cell /\ cell' = cell /\ nodes' = nodes /\ caches' = caches
  BY <1>1, <1>2
<1>3. CASE /\ nodes' = Append(nodes, x) /\ k = Len(nodes) + 1
           /\ cell' = Len(nodes) + 1 /\ caches' = caches \o <<>>
  <2>1. caches' = caches
    BY <1>1, <1>3
  <2>2. /\ Fits(fmt, own, base, Len(nodes) + 1, Append(nodes, x), caches, sc, fd)
        /\ Len(nodes) + 1 \in 1 .. Len(Append(nodes, x)) /\ Append(nodes, x)[Len(nodes) + 1] = x
    BY <1>1, NewNode
  <2> QED BY <1>3, <2>1, <2>2
<1> QED BY <1>2, <1>3

\* A node is given a cache of its content.
LEMMA NodeGiven ==
    ASSUME NEW fm, NEW own, NEW bs, NEW cl, NEW ns, NEW cs, NEW s, NEW v,
           Fits(fm, own, bs, cl, ns, cs, s, v), NEW k \in 1 .. Len(ns), NEW c \in 1 .. Len(own),
           own[c] = Images[fm][ns[k].sig]
    PROVE  Fits(fm, own, bs, cl, [ns EXCEPT ![k].cache = c], cs, s, v)
<1>1. PICK ms : ms = [ns EXCEPT ![k].cache = c]
  OBVIOUS
<1>2. ns \in Seq(NodesFor(fm)) /\ cl \in 0 .. Len(ns) /\ \A n \in 1 .. Len(ns) : NodeIs(fm, ns[n], own)
  BY DEF Fits
<1>3. PICK x : x = [ns[k] EXCEPT !.cache = c]
  OBVIOUS
<1>4. ns[k] \in NodesFor(fm) /\ Len(own) \in Nat
  BY <1>2 DEF Fits
<1>5. x \in NodesFor(fm) /\ x.sig = ns[k].sig /\ x.cache = c
  <2>0. c \in Nat
    BY <1>4
  <2>1. CASE fm = "z"
    BY <2>0, <2>1, <1>3, <1>4 DEF NodesFor
  <2>2. CASE fm # "z"
    BY <2>0, <2>2, <1>3, <1>4 DEF NodesFor
  <2> QED BY <2>1, <2>2
<1>6. NodeIs(fm, x, own)
  BY <1>2, <1>4, <1>5 DEF NodeIs
<1>7. ms \in Seq(NodesFor(fm)) /\ Len(ms) = Len(ns) /\ \A n \in 1 .. Len(ns) : ms[n] = IF n = k THEN x ELSE ns[n]
  BY <1>1, <1>2, <1>3, <1>5
<1>8. Fits(fm, own, bs, cl, ms, cs, s, v)
  <2>1. Len(ms) >= Len(ns) /\ (\A n \in 1 .. Len(ns) : ms[n].sig = ns[n].sig) /\ cl \in 0 .. Len(ms)
    BY <1>2, <1>5, <1>7
  <2>2. \A n \in 1 .. Len(ms) : NodeIs(fm, ms[n], own)
    BY <1>2, <1>6, <1>7
  <2> QED BY <2>1, <2>2, <1>7, NodesFit
<1> QED BY <1>1, <1>8

\* The cache c of the node of h is there, of the content of h.
Made(h, c) ==
    \E o : /\ Fits(fmt, o, base, cell, nodes', caches', sc, fd) /\ Len(o) \in Nat
           /\ c \in 1 .. Len(o) /\ o[c] = fd[h].img /\ VfileIs(fmt, fd[h], o, nodes')

\* The cache of the node of an open vfile, made if there is none.
LEMMA CacheMadeFits ==
    ASSUME NEW own, Now(own), NEW h \in Handles, fd[h].st = "open", NEW n, n = fd[h].node, NEW new,
           CacheOf(new, Len(caches) + 1, fd[h].img), NEW c,
           c = IF nodes[n].cache # 0 THEN nodes[n].cache ELSE Len(caches) + 1,
           IF nodes[n].cache # 0 THEN nodes' = nodes /\ caches' = caches
           ELSE caches' = Append(caches, new) /\ nodes' = [nodes EXCEPT ![n].cache = Len(caches) + 1]
    PROVE  Made(h, c)
<1>1. /\ Fits(fmt, own, base, cell, nodes, caches, sc, fd) /\ VfileIs(fmt, fd[h], own, nodes)
      /\ Len(caches) = Len(own) /\ Len(own) \in Nat /\ \A i \in 1 .. Len(nodes) : NodeIs(fmt, nodes[i], own)
      /\ own \in Seq(Contents) /\ fmt \in Formats
  BY NowOf DEF Now
<1>2. PICK im : im = fd[h].img
  OBVIOUS
<1>3. n \in 1 .. Len(nodes) /\ im = Images[fmt][nodes[n].sig]
  BY <1>1, <1>2 DEF VfileIs
<1>4. NodeIs(fmt, nodes[n], own)
  BY <1>1, <1>3
<1>5. CASE nodes[n].cache # 0
  <2>1. c \in 1 .. Len(own) /\ own[c] = im
    BY <1>1, <1>3, <1>4, <1>5 DEF NodeIs
  <2> QED BY <2>1, <1>1, <1>2, <1>5 DEF Made
<1>6. CASE nodes[n].cache = 0
  <2>1. im \in ContentsFor(fmt)
    BY <1>1, <1>3, <1>4, ImagesAre DEF NodeIs, Contents
  <2>2. PICK o : o = Append(own, im)
    OBVIOUS
  <2>3. Fits(fmt, o, base, cell, nodes, Append(caches, new), sc, fd)
    <3>1. CacheIs(fmt, new, Len(caches) + 1, im)
      BY <1>2 DEF CacheOf
    <3> QED BY <3>1, <1>1, <2>1, <2>2, OwnFits
  <2>4. Len(o) = Len(own) + 1 /\ o[Len(own) + 1] = im /\ Len(o) \in Nat
    <3>1. own \in Seq(ContentsFor(fmt))
      BY <1>1 DEF Contents
    <3> QED BY <3>1, <2>1, <2>2
  <2>5. c \in 1 .. Len(o) /\ o[c] = im /\ c = Len(caches) + 1
    BY <1>1, <1>6, <2>4
  <2>6. Fits(fmt, o, base, cell, [nodes EXCEPT ![n].cache = c], Append(caches, new), sc, fd)
    BY <1>3, <2>3, <2>5, NodeGiven
  <2>7. Fits(fmt, o, base, cell, nodes', caches', sc, fd)
    BY <1>6, <2>5, <2>6
  <2>8. VfileIs(fmt, fd[h], o, nodes')
    BY <2>7 DEF Fits
  <2> QED BY <1>2, <2>4, <2>5, <2>7, <2>8 DEF Made
<1> QED BY <1>5, <1>6

\* A call begins with the cache made.
LEMMA MadeLater ==
    ASSUME NEW o, Fits(fmt, o, base, cell, nodes', caches', sc, fd), NEW h \in Handles, NEW v, VfileIs(fmt, v, o, nodes'),
           fd' = [fd EXCEPT ![h] = v], base' = base, cell' = cell, sc' = sc
    PROVE  Later(o)
<1>1. Fits(fmt, o, base, cell, nodes', caches', sc, [fd EXCEPT ![h] = v])
  BY FdFits
<1> QED BY <1>1 DEF Later

\* A read of a file in error: the node loses its cache.
LEMMA RefusedLater ==
    ASSUME fmt \in {"z", "lz"}, NEW own, Now(own), NEW h \in Handles, fd[h].st = "open",
           fd' = [fd EXCEPT ![h] = ReadRefused(h)], nodes' = [nodes EXCEPT ![fd[h].node].cache = 0],
           base' = base, cell' = cell, caches' = caches, sc' = sc
    PROVE  Later(own)
<1>1. VfileIs(fmt, fd[h], own, nodes) /\ Fits(fmt, own, base, cell, nodes, caches, sc, fd)
  BY NowOf DEF Now
<1>2. fd[h].node \in 1 .. Len(nodes)
  BY <1>1 DEF VfileIs
<1>3. PICK v : v = ReadRefused(h)
  OBVIOUS
<1>4. VfileIs(fmt, v, own, nodes)
  <2>1. "read error" \in Answers
    BY DEF Answers
  <2> QED BY <2>1, <1>1, <1>3, ReturnedIs DEF ReadRefused
<1>5. Fits(fmt, own, base, cell, nodes, caches, sc, [fd EXCEPT ![h] = v])
  BY <1>1, <1>4, FdFits
<1>6. Fits(fmt, own, base, cell, [nodes EXCEPT ![fd[h].node].cache = 0], caches, sc, [fd EXCEPT ![h] = v])
  BY <1>2, <1>5, NodeEvicted
<1> QED BY <1>3, <1>6 DEF Later

\* A node loses its cache by itself.
LEMMA EvictedLater ==
    ASSUME fmt \in {"z", "lz"}, NEW own, Now(own), NEW n \in 1 .. Len(nodes), nodes' = [nodes EXCEPT ![n].cache = 0],
           base' = base, cell' = cell, caches' = caches, sc' = sc, fd' = fd
    PROVE  Later(own)
<1>1. Fits(fmt, own, base, cell, nodes, caches, sc, fd)
  BY DEF Now
<1>2. Fits(fmt, own, base, cell, [nodes EXCEPT ![n].cache = 0], caches, sc, fd)
  BY <1>1, NodeEvicted
<1> QED BY <1>2 DEF Later

----------------------------------------------------------------------------
(* The steps of lzip.                                                      *)

\* The open of lzip.
LEMMA LzOpenLater ==
    ASSUME fmt = "lz", NEW own, Now(own), NEW h \in Handles, lzip_open(h)
    PROVE  Later(own)
<1>1. PICK f : f = av_lzipfile_new(Content)
  OBVIOUS
<1>2. FileOf(f, Content) /\ f.id = 0
  BY <1>1, ContentIs, LzNew
<1>3. PICK b \in Nat : b = base
  BY NowOf
<1>4. PICK x : x = [sig |-> b, cache |-> 0]
  OBVIOUS
<1>5. NodeIs(fmt, x, own) /\ x.sig = base
  <2>1. b \in 1 .. Len(Images[fmt]) /\ Len(own) \in Nat
    BY <1>3, NowOf
  <2>2. x \in NodesFor(fmt) /\ x.sig = b /\ x.cache = 0
    BY <1>4 DEF NodesFor
  <2> QED BY <1>3, <2>1, <2>2 DEF NodeIs
<1>6. PICK k : k = NodeFound(lzip_same)
  OBVIOUS
<1>7. PICK noperm \in BOOLEAN : fd' = [fd EXCEPT ![h] = Opened(k, f, noperm)]
  BY <1>1, <1>6 DEF lzip_open
<1>8. \/ /\ cell # 0 /\ nodes[cell].sig = base /\ k = cell
         /\ cell' = cell /\ nodes' = nodes /\ caches' = caches
      \/ /\ nodes' = Append(nodes, x) /\ k = Len(nodes) + 1
         /\ cell' = Len(nodes) + 1 /\ caches' = caches \o <<>>
  BY <1>3, <1>4, <1>6 DEF lzip_open, FindNode, SameNode, NodeFound, lzip_same
<1>9. Fits(fmt, own, base, cell', nodes', caches', sc, fd) /\ k \in 1 .. Len(nodes') /\ nodes'[k].sig = base
  BY <1>5, <1>8, FoundBare
<1>10. base' = base /\ sc' = sc
  BY DEF lzip_open
<1> QED BY <1>2, <1>7, <1>9, <1>10, OpenLater

\* The close of lzip.
LEMMA LzCloseLater ==
    ASSUME NEW own, Now(own), NEW h \in Handles, lzip_close(h)
    PROVE  Later(own)
<1>1. ScOf(sc', own)
  <2>1. ScOf(sc, own)
    BY NowOf
  <2> QED BY <2>1 DEF lzip_close
<1>2. fd' = [fd EXCEPT ![h] = Closed] /\ base' = base /\ cell' = cell /\ nodes' = nodes /\ caches' = caches
  BY DEF lzip_close
<1> QED BY <1>1, <1>2, CloseLater

\* lzip_getcache, with the cache made if there is none.
LEMMA LzMade ==
    ASSUME fmt = "lz", NEW own, Now(own), NEW h \in Handles, fd[h].st = "open", LzipCacheMade(fd[h].node),
           NEW c, c = lzip_getcache(fd[h].node)
    PROVE  Made(h, c)
<1>1. PICK new : new = av_lzipcache_new(Len(caches) + 1)
  OBVIOUS
<1>2. CacheOf(new, Len(caches) + 1, fd[h].img)
  BY <1>1, ContentIs, CacheNew
<1>3. PICK n : n = fd[h].node
  OBVIOUS
<1>4. c = IF nodes[n].cache # 0 THEN nodes[n].cache ELSE Len(caches) + 1
  BY <1>3 DEF lzip_getcache
<1>5. IF nodes[n].cache # 0 THEN nodes' = nodes /\ caches' = caches
      ELSE caches' = Append(caches, new) /\ nodes' = [nodes EXCEPT ![n].cache = Len(caches) + 1]
  BY <1>1, <1>3 DEF LzipCacheMade
<1> QED BY <1>2, <1>3, <1>4, <1>5, CacheMadeFits

\* A read of lzip begins.
LEMMA LzReadBegins ==
    ASSUME fmt = "lz", NEW own, Now(own), NEW h \in Handles, lzip_read(h)
    PROVE  \E o : Later(o)
<1>1. fd[h].st = "open" /\ ~fd[h].noperm /\ base' = base /\ cell' = cell /\ sc' = sc
  BY DEF lzip_read, Idle
<1>2. PICK c, f : c = lzip_getcache(fd[h].node) /\ f = fd[h].fil
  OBVIOUS
<1>3. PICK r \in Reads[fmt] :
        IF f.iserror
        THEN /\ fd' = [fd EXCEPT ![h] = ReadRefused(h)]
             /\ nodes' = [nodes EXCEPT ![fd[h].node].cache = 0]
             /\ caches' = caches
        ELSE /\ LzipCacheMade(fd[h].node)
             /\ fd' = [fd EXCEPT ![h] = Begins(h, "read", r, c, f, IF r[1] # f.s.out THEN "goto" ELSE "read")]
  BY <1>2 DEF lzip_read
<1>4. VfileIs(fmt, fd[h], own, nodes) /\ fmt \in Formats
  BY NowOf
<1>5. FileOf(f, fd[h].img) /\ f.id = 0
  <2>1. FileOf(f, fd[h].img)
    BY <1>1, <1>2, <1>4 DEF VfileIs, FilIs, FileOf
  <2> QED BY <2>1, LzSets DEF LzPlaced
<1>6. CASE f.iserror
  <2>1. Later(own)
    BY <1>1, <1>3, <1>6, RefusedLater
  <2> QED BY <2>1
<1>7. CASE ~f.iserror
  <2>1. PICK o : /\ Fits(fmt, o, base, cell, nodes', caches', sc, fd) /\ Len(o) \in Nat
                 /\ c \in 1 .. Len(o) /\ o[c] = fd[h].img /\ VfileIs(fmt, fd[h], o, nodes')
    BY <1>1, <1>2, <1>3, <1>7, LzMade DEF Made
  <2>2. PICK ns : ns = nodes'
    OBVIOUS
  <2>3. r \in Nat \X Nat
    BY <1>4, StreamsAssumption
  <2>4. PICK pc \in Places : pc = IF r[1] # f.s.out THEN "goto" ELSE "read"
    BY DEF Places
  <2>5. PICK v : v = Begins(h, "read", r, c, f, pc)
    OBVIOUS
  <2>6. VfileIs(fmt, v, o, ns)
    BY <1>1, <1>5, <2>1, <2>2, <2>3, <2>5, BeginsIs
  <2>7. fd' = [fd EXCEPT ![h] = v]
    BY <1>3, <1>7, <2>4, <2>5
  <2>8. Later(o)
    BY <1>1, <2>1, <2>2, <2>6, <2>7, MadeLater
  <2> QED BY <2>8
<1> QED BY <1>6, <1>7

\* A search of lzip for the size begins.
LEMMA LzSizeBegins ==
    ASSUME fmt = "lz", NEW own, Now(own), NEW h \in Handles, lzip_getattr(h)
    PROVE  \E o : Later(o)
<1>1. fd[h].st = "open" /\ base' = base /\ cell' = cell /\ sc' = sc
  BY DEF lzip_getattr, Idle
<1>2. PICK c, g : c = lzip_getcache(fd[h].node) /\ g = av_lzipfile_new(fd[h].img)
  OBVIOUS
<1>3. PICK size, f : size = (IF c > Len(caches) THEN -1 ELSE caches[c].size) /\ f = IF HasFile(h) THEN fd[h].fil ELSE g
  OBVIOUS
<1>4. /\ LzipCacheMade(fd[h].node)
      /\ fd' = [fd EXCEPT ![h] =
              IF size # -1
              THEN SizeKnown(h, size)
              ELSE Begins(h, "size", <<MAXOFF, 0>>, c, f, "goto")]
  BY <1>2, <1>3 DEF lzip_getattr
<1>5. FileOf(f, fd[h].img) /\ f.id = 0
  <2>1. fd[h].img \in Texts
    BY NowOf DEF VfilesFor
  <2>2. FileOf(g, fd[h].img)
    BY <1>2, <2>1, LzNew
  <2>3. FileOf(f, fd[h].img)
    BY <1>3, <2>2, FileSaved
  <2> QED BY <2>3, LzSets DEF LzPlaced
<1>6. PICK o : /\ Fits(fmt, o, base, cell, nodes', caches', sc, fd) /\ Len(o) \in Nat
               /\ c \in 1 .. Len(o) /\ o[c] = fd[h].img /\ VfileIs(fmt, fd[h], o, nodes')
  BY <1>1, <1>2, <1>4, LzMade DEF Made
<1>7. PICK ns : ns = nodes'
  OBVIOUS
<1>8. PICK r \in Nat \X Nat : r = <<MAXOFF, 0>>
  BY DEF MAXOFF
<1>9. "goto" \in Places
  BY DEF Places
<1>10. PICK v : v = Begins(h, "size", r, c, f, "goto")
  OBVIOUS
<1>11. VfileIs(fmt, v, o, ns)
  BY <1>1, <1>5, <1>6, <1>7, <1>9, <1>10, BeginsIs
<1>12. VfileIs(fmt, SizeKnown(h, size), o, ns)
  BY <1>6, <1>7, SizeAnswer
<1>13. PICK w : VfileIs(fmt, w, o, ns) /\ fd' = [fd EXCEPT ![h] = w]
  <2>1. CASE size # -1
    BY <2>1, <1>4, <1>12
  <2>2. CASE size = -1
    BY <2>2, <1>4, <1>8, <1>10, <1>11
  <2> QED BY <2>1, <2>2
<1>14. Later(o)
  BY <1>1, <1>6, <1>7, <1>13, MadeLater
<1> QED BY <1>14

\* A call of lzip ends.
LEMMA LzEndsLater ==
    ASSUME fmt = "lz", NEW own, Now(own), NEW h \in Handles, NEW m, MachineFor(m, h, own), lzip_ends(h, m),
           base' = base, cell' = cell
    PROVE  Later(own)
<1>1. Ends(h, m) /\ NodesKept(h)
  BY DEF lzip_ends, NodesKept
<1> QED BY <1>1, EndsLater

\* One turn of the loops of lzip.
LEMMA LzTurn ==
    ASSUME fmt = "lz", NEW own, Now(own), NEW h \in Handles, NEW m, MachineFor(m, h, own), Turn(h, m),
           base' = base, cell' = cell
    PROVE  Later(own)
<1>1. own \in Seq(Contents) /\ fd[h] \in VfilesFor(fmt) /\ MachineOf(m, own)
  BY NowOf DEF MachineFor
<1>2. CASE m.res # "ok"
  <2>1. PICK r : r = IF fd[h].pc = "skip" THEN [m EXCEPT !.got = 0] ELSE m
    OBVIOUS
  <2>2. MachineFor(r, h, own)
    BY <1>1, <2>1, Failing
  <2>3. lzip_ends(h, r)
    BY <1>2, <2>1 DEF Turn
  <2> QED BY <2>2, <2>3, LzEndsLater
<1>3. CASE m.res = "ok"
  <2>1. nodes' = nodes
    BY <1>3 DEF Turn
  <2>2. PICK v : OnCall(v, fd[h]) /\ Step(h, m, v)
    <3>1. CASE m.f = fd[h].fil
      <4>1. OnCall(At(h, "spin"), fd[h])
        <5>1. "spin" \in Places /\ "full" \in Answers /\ 0 \in Nat
          BY DEF Places, Answers
        <5> QED BY <1>1, <5>1, OnCalls DEF At
      <4> QED BY <3>1, <1>3, <4>1 DEF Turn
    <3>2. CASE m.f # fd[h].fil
      <4>1. PICK v : v = [fd[h] EXCEPT !.got = IF fd[h].pc = "skip" THEN @ ELSE @ + m.got]
        OBVIOUS
      <4>2. Step(h, m, v)
        BY <3>2, <1>3, <4>1 DEF Turn
      <4>3. OnCall(v, fd[h])
        <5>1. CASE fd[h].pc = "skip"
          <6>1. PICK k \in Nat : k = fd[h].got
            BY <1>1 DEF VfilesFor
          <6>2. v = [fd[h] EXCEPT !.got = k]
            BY <4>1, <5>1, <6>1
          <6>3. "idle" \in Places /\ "full" \in Answers
            BY DEF Places, Answers
          <6> QED BY <1>1, <6>2, <6>3, OnCalls
        <5>2. CASE fd[h].pc # "skip"
          <6>1. v = [fd[h] EXCEPT !.got = @ + m.got]
            BY <4>1, <5>2
          <6> QED BY <1>1, <6>1, GotOn
        <5> QED BY <5>1, <5>2
      <4> QED BY <4>2, <4>3
    <3> QED BY <3>1, <3>2
  <2> QED BY <2>1, <2>2, StepLater
<1> QED BY <1>2, <1>3

\* The seek of lzip.
LEMMA LzGotoLater ==
    ASSUME fmt = "lz", NEW own, Now(own), NEW h \in Handles, lzipfile_goto(h)
    PROVE  Later(own)
<1>1. PICK m : m = Machine(h, "ok")
  OBVIOUS
<1>2. MachineFor(m, h, own) /\ MachineOf(m, own) /\ own \in Seq(Contents) /\ fd[h].off \in Nat
  BY <1>1, GotoOf DEF lzipfile_goto
<1>3. PICK r : r = IF fd[h].op = "size" THEN lzipfile_reset(m) ELSE lzipfile_seek(m, fd[h].off)
  OBVIOUS
<1>4. MachineOf(r, own) /\ Keeps(r, m)
  <2>1. CASE r = lzipfile_reset(m)
    BY <2>1, <1>2, LzReset
  <2>2. CASE r = lzipfile_seek(m, fd[h].off)
    BY <2>2, <1>2, LzSeek
  <2> QED BY <2>1, <2>2, <1>3
<1>5. Step(h, r, At(h, "skip"))
  BY <1>1, <1>3 DEF lzipfile_goto
<1>6. base' = base /\ cell' = cell /\ nodes' = nodes
  BY DEF lzipfile_goto
<1> QED BY <1>2, <1>4, <1>5, <1>6, GotoLater

\* Output of lzip is passed over.
LEMMA LzSkipLater ==
    ASSUME fmt = "lz", NEW own, Now(own), NEW h \in Handles, lzipfile_skip_to(h)
    PROVE  Later(own)
<1>1. PICK io \in Io :
        LET m == Machine(h, io)
        IN IF m.f.iseof \/ m.f.s.out = fd[h].off
           THEN IF fd[h].op = "read" THEN Step(h, m, At(h, "read")) /\ UNCHANGED nodes
                ELSE lzip_ends(h, IF m.c.size = -1 THEN Fail(m) ELSE m)
           ELSE Turn(h, lzipfile_decompress(m, Lesser(OutBuf, fd[h].off - m.f.s.out)))
  BY DEF lzipfile_skip_to
<1>2. PICK m0 : m0 = Machine(h, io)
  OBVIOUS
<1>3. MachineFor(m0, h, own) /\ MachineOf(m0, own) /\ own \in Seq(Contents) /\ Lesser(OutBuf, fd[h].off - m0.f.s.out) \in Int
  <2>1. fd[h].pc \in {"skip", "read"}
    BY DEF lzipfile_skip_to
  <2> QED BY <2>1, <1>2, StepOf
<1>4. PICK room \in Int : room = Lesser(OutBuf, fd[h].off - m0.f.s.out)
  BY <1>3
<1>5. PICK m : m = lzipfile_decompress(m0, room)
  OBVIOUS
<1>6. MachineFor(m, h, own)
  <2>1. MachineOf(m, own) /\ Keeps(m, m0)
    BY <1>3, <1>5, LzDecompress
  <2> QED BY <2>1, <1>3, KeepsFor
<1>7. \/ Step(h, m0, At(h, "read")) /\ nodes' = nodes
      \/ lzip_ends(h, Fail(m0)) \/ lzip_ends(h, m0) \/ Turn(h, m)
  BY <1>1, <1>2, <1>4, <1>5
<1>8. base' = base /\ cell' = cell
  BY DEF lzipfile_skip_to
<1>9. CASE Step(h, m0, At(h, "read")) /\ nodes' = nodes
  <2>1. OnCall(At(h, "read"), fd[h])
    <3>1. "read" \in Places /\ "full" \in Answers /\ 0 \in Nat /\ fd[h] \in VfilesFor(fmt)
      BY NowOf DEF Places, Answers
    <3> QED BY <3>1, OnCalls DEF At
  <2> QED BY <2>1, <1>3, <1>8, <1>9, StepLater
<1>10. CASE lzip_ends(h, Fail(m0)) \/ lzip_ends(h, m0)
  <2>1. MachineFor(Fail(m0), h, own)
    BY <1>3, Failing
  <2> QED BY <2>1, <1>3, <1>8, <1>10, LzEndsLater
<1>11. CASE Turn(h, m)
  BY <1>6, <1>8, <1>11, LzTurn
<1> QED BY <1>7, <1>9, <1>10, <1>11

\* Output of lzip is given.
LEMMA LzReadLater ==
    ASSUME fmt = "lz", NEW own, Now(own), NEW h \in Handles, lzipfile_read(h)
    PROVE  Later(own)
<1>1. PICK io \in Io :
        LET m == Machine(h, io)
        IN IF fd[h].got = fd[h].n \/ m.f.iseof THEN lzip_ends(h, m)
           ELSE Turn(h, lzipfile_decompress(m, fd[h].n - fd[h].got))
  BY DEF lzipfile_read
<1>2. PICK m0 : m0 = Machine(h, io)
  OBVIOUS
<1>3. MachineFor(m0, h, own) /\ MachineOf(m0, own) /\ own \in Seq(Contents) /\ fd[h].n - fd[h].got \in Int
  <2>1. fd[h].pc \in {"skip", "read"}
    BY DEF lzipfile_read
  <2> QED BY <2>1, <1>2, StepOf
<1>4. PICK room \in Int : room = fd[h].n - fd[h].got
  BY <1>3
<1>5. PICK m : m = lzipfile_decompress(m0, room)
  OBVIOUS
<1>6. MachineFor(m, h, own)
  <2>1. MachineOf(m, own) /\ Keeps(m, m0)
    BY <1>3, <1>5, LzDecompress
  <2> QED BY <2>1, <1>3, KeepsFor
<1>7. lzip_ends(h, m0) \/ Turn(h, m)
  BY <1>1, <1>2, <1>4, <1>5
<1>8. base' = base /\ cell' = cell
  BY DEF lzipfile_read
<1> QED BY <1>3, <1>6, <1>7, <1>8, LzEndsLater, LzTurn

\* Every step of lzip.
LEMMA LzLater ==
    ASSUME fmt = "lz", NEW own, Now(own), LzipNext
    PROVE  \E o : Later(o)
<1>1. CASE lzip_evict
  <2>1. PICK n \in 1 .. Len(nodes) : nodes' = [nodes EXCEPT ![n].cache = 0]
    BY <1>1 DEF lzip_evict
  <2>2. base' = base /\ cell' = cell /\ caches' = caches /\ sc' = sc /\ fd' = fd
    BY <1>1 DEF lzip_evict
  <2>3. Later(own)
    BY <2>1, <2>2, EvictedLater
  <2> QED BY <2>3
<1>2. ASSUME NEW h \in Handles,
             \/ lzip_open(h) \/ lzip_close(h) \/ lzip_read(h) \/ lzip_getattr(h)
             \/ lzipfile_goto(h) \/ lzipfile_skip_to(h) \/ lzipfile_read(h)
      PROVE  \E o : Later(o)
  <2>1. CASE lzip_read(h)
    BY <2>1, LzReadBegins
  <2>2. CASE lzip_getattr(h)
    BY <2>2, LzSizeBegins
  <2>3. CASE lzip_open(h) \/ lzip_close(h) \/ lzipfile_goto(h) \/ lzipfile_skip_to(h) \/ lzipfile_read(h)
    <3>1. Later(own)
      BY <2>3, LzOpenLater, LzCloseLater, LzGotoLater, LzSkipLater, LzReadLater
    <3> QED BY <3>1
  <2> QED BY <1>2, <2>1, <2>2, <2>3
<1> QED BY <1>1, <1>2 DEF LzipNext

----------------------------------------------------------------------------
(* The steps of gzip.                                                      *)

\* The lock of the cache is taken or left.
LEMMA GzLocked ==
    ASSUME fmt = "z", NEW own \in Seq(Contents), NEW m, MachineOf(m, own), NEW e \in BOOLEAN,
           NEW r, r = [m EXCEPT !.c.lock = e]
    PROVE  MachineOf(r, own) /\ Keeps(r, m)
<1>1. PICK im : im = m.f.img /\ CacheOf(m.c, m.c.id, im)
  BY MachineFacts
<1>2. m \in MachineSet /\ m.c \in GzCaches /\ \A k \in 1 .. Len(m.c.indexes) : GzIndexOf(m.c.indexes[k], im)
  <2>1. m \in MachineSet
    BY MachineFacts
  <2> QED BY <2>1, <1>1, GzSets
<1>3. PICK c : c = [m.c EXCEPT !.lock = e]
  OBVIOUS
<1>4. c \in GzCaches /\ c.id = m.c.id /\ c.indexes = m.c.indexes
  BY <1>2, <1>3 DEF GzCaches
<1>5. CacheOf(c, m.c.id, im)
  BY <1>2, <1>4, GzSets
<1>6. r = [m EXCEPT !.c = c]
  BY <1>2, <1>3 DEF MachineSet
<1>7. MachineOf(r, own) /\ Keeps(r, m)
  BY <1>1, <1>5, <1>6, MachineCache
<1> QED BY <1>7

\* The lock is left, and a machine is given up.
LEMMA GzUnlocked ==
    ASSUME fmt = "z", NEW own \in Seq(Contents), NEW h, NEW m, MachineFor(m, h, own)
    PROVE  /\ MachineFor([m EXCEPT !.c.lock = TRUE], h, own)
           /\ MachineFor([m EXCEPT !.c.lock = FALSE], h, own)
           /\ MachineFor([m EXCEPT !.c.lock = FALSE, !.got = 0], h, own)
<1>1. MachineOf(m, own)
  BY DEF MachineFor
<1>2. ASSUME NEW e \in BOOLEAN PROVE MachineFor([m EXCEPT !.c.lock = e], h, own)
  <2>1. PICK r : r = [m EXCEPT !.c.lock = e]
    OBVIOUS
  <2>2. MachineOf(r, own) /\ Keeps(r, m)
    BY <1>1, <2>1, GzLocked
  <2>3. MachineFor(r, h, own)
    BY <2>2, KeepsFor
  <2> QED BY <2>1, <2>3
<1>3. PICK no \in BOOLEAN, yes \in BOOLEAN : no = FALSE /\ yes = TRUE
  OBVIOUS
<1>4. MachineFor([m EXCEPT !.c.lock = yes], h, own) /\ MachineFor([m EXCEPT !.c.lock = no], h, own)
  BY <1>2
<1>5. PICK u : u = [m EXCEPT !.c.lock = no]
  OBVIOUS
<1>6. PICK w : w = [u EXCEPT !.got = 0]
  OBVIOUS
<1>7. MachineFor(w, h, own)
  BY <1>4, <1>5, <1>6, Failing
<1>8. w = [m EXCEPT !.c.lock = FALSE, !.got = 0]
  <2>1. m \in MachineSet
    BY <1>1, MachineFacts
  <2> QED BY <2>1, <1>3, <1>5, <1>6 DEF MachineSet
<1> QED BY <1>3, <1>4, <1>7, <1>8

\* A call ends.
LEMMA GzReadEndsLater ==
    ASSUME fmt = "z", NEW own, Now(own), NEW h \in Handles, NEW m, MachineFor(m, h, own), gz_read_ends(h, m),
           base' = base, cell' = cell
    PROVE  Later(own)
<1>1. own \in Seq(Contents) /\ fd[h] \in VfilesFor(fmt) /\ MachineOf(m, own)
  BY NowOf DEF MachineFor
<1>2. PICK r : r = [m EXCEPT !.f.iserror = @ \/ m.res # "ok"]
  OBVIOUS
<1>3. PICK v : v = Answer(h, m, fd[h].got + m.got)
  OBVIOUS
<1>4. Step(h, r, v) /\ NodesKept(h)
  BY <1>2, <1>3 DEF gz_read_ends, NodesKept
<1>5. MachineFor(r, h, own)
  <2>1. MachineOf(r, own) /\ Keeps(r, m)
    BY <1>1, <1>2, ErrorNoted
  <2> QED BY <2>1, KeepsFor
<1>6. OnCall(v, fd[h])
  BY <1>1, <1>3, Answering
<1> QED BY <1>4, <1>5, <1>6, StepLater DEF NodesKept

\* A call of gzip ends.
LEMMA GzEndsLater ==
    ASSUME fmt = "z", NEW own, Now(own), NEW h \in Handles, NEW m, MachineFor(m, h, own), gz_ends(h, m),
           base' = base, cell' = cell
    PROVE  Later(own)
<1>1. CASE fd[h].op = "read"
  BY <1>1, GzReadEndsLater DEF gz_ends
<1>2. CASE fd[h].op # "read"
  <2>1. PICK v : v = Answer(h, m, m.c.size)
    OBVIOUS
  <2>2. Step(h, m, v) /\ nodes' = nodes
    BY <1>2, <2>1 DEF gz_ends
  <2>3. OnCall(v, fd[h])
    BY <2>1, NowOf, Answering
  <2> QED BY <2>2, <2>3, StepLater
<1> QED BY <1>1, <1>2

\* A call of gzip goes on.
LEMMA GzStepLater ==
    ASSUME fmt = "z", NEW own, Now(own), NEW h \in Handles, NEW m, MachineFor(m, h, own), NEW v,
           Step(h, m, v) /\ nodes' = nodes, v = fd[h] \/ v = At(h, "skip") \/ v = At(h, "read"),
           base' = base, cell' = cell
    PROVE  Later(own)
<1>1. OnCall(v, fd[h])
  <2>1. "read" \in Places /\ "skip" \in Places /\ "full" \in Answers /\ 0 \in Nat /\ fd[h] \in VfilesFor(fmt)
    BY NowOf DEF Places, Answers
  <2> QED BY <2>1, OnCalls DEF At
<1> QED BY <1>1, StepLater

\* The seek of gzip, which keeps the lock of the cache.
LEMMA GzGotoLater ==
    ASSUME fmt = "z", NEW own, Now(own), NEW h \in Handles, zfile_goto(h)
    PROVE  Later(own)
<1>1. PICK io \in Io :
        LET m == zfile_seek(Machine(h, io), fd[h].off)
        IN IF m.res = "ok"
           THEN Step(h, [m EXCEPT !.c.lock = TRUE], At(h, "skip")) /\ UNCHANGED nodes
           ELSE gz_ends(h, m)
  BY DEF zfile_goto
<1>2. PICK m0 : m0 = Machine(h, io)
  OBVIOUS
<1>3. MachineFor(m0, h, own) /\ MachineOf(m0, own) /\ own \in Seq(Contents) /\ fd[h].off \in Nat /\ m0.res = "ok"
  <2>1. fd[h].pc # "idle" /\ io \in {"ok", "read", "index"}
    BY IoIs DEF zfile_goto
  <2>2. fd[h].off \in Nat
    BY NowOf DEF VfilesFor
  <2> QED BY <2>1, <2>2, <1>2, MachineNow
<1>4. PICK m : m = zfile_seek(m0, fd[h].off)
  OBVIOUS
<1>5. MachineFor(m, h, own)
  <2>1. MachineOf(m, own) /\ Keeps(m, m0)
    BY <1>3, <1>4, GzSeek
  <2> QED BY <2>1, <1>3, KeepsFor
<1>6. \/ Step(h, [m EXCEPT !.c.lock = TRUE], At(h, "skip")) /\ nodes' = nodes
      \/ gz_ends(h, m)
  BY <1>1, <1>2, <1>4
<1>7. base' = base /\ cell' = cell
  BY DEF zfile_goto
<1>8. CASE Step(h, [m EXCEPT !.c.lock = TRUE], At(h, "skip")) /\ nodes' = nodes
  <2>1. MachineFor([m EXCEPT !.c.lock = TRUE], h, own)
    BY <1>3, <1>5, GzUnlocked
  <2> QED BY <2>1, <1>7, <1>8, GzStepLater
<1>9. CASE gz_ends(h, m)
  BY <1>5, <1>7, <1>9, GzEndsLater
<1> QED BY <1>6, <1>8, <1>9

\* Output of gzip is passed over.
LEMMA GzSkipLater ==
    ASSUME fmt = "z", NEW own, Now(own), NEW h \in Handles, zfile_skip_to(h)
    PROVE  Later(own)
<1>1. PICK io \in Io :
        LET m0 == Machine(h, io)
            s  == m0.f.s
            m  == zfile_inflate(m0, Lesser(OutBuf, fd[h].off - s.out))
            unlocked == [m EXCEPT !.c.lock = FALSE, !.got = 0]
        IN IF s.out >= fd[h].off \/ m0.f.iseof
           THEN LET u == [m0 EXCEPT !.c.lock = FALSE]
                IN IF fd[h].op = "read"
                   THEN Step(h, u, At(h, "read")) /\ UNCHANGED nodes
                   ELSE gz_ends(h, IF m0.c.size = -1 THEN Fail(u) ELSE u)
           ELSE IF m.res = "ok" THEN Step(h, m, fd[h]) /\ UNCHANGED nodes
           ELSE gz_ends(h, unlocked)
  BY DEF zfile_skip_to
<1>2. PICK m0 : m0 = Machine(h, io)
  OBVIOUS
<1>3. MachineFor(m0, h, own) /\ MachineOf(m0, own) /\ own \in Seq(Contents) /\ Lesser(OutBuf, fd[h].off - m0.f.s.out) \in Int
  <2>1. fd[h].pc \in {"skip", "read"}
    BY DEF zfile_skip_to
  <2> QED BY <2>1, <1>2, StepOf
<1>4. PICK room \in Int : room = Lesser(OutBuf, fd[h].off - m0.f.s.out)
  BY <1>3
<1>5. PICK m : m = zfile_inflate(m0, room)
  OBVIOUS
<1>6. MachineFor(m, h, own)
  <2>1. MachineOf(m, own) /\ Keeps(m, m0)
    BY <1>3, <1>5, GzInflate
  <2> QED BY <2>1, <1>3, KeepsFor
<1>7. PICK u, w : u = [m0 EXCEPT !.c.lock = FALSE] /\ w = [m EXCEPT !.c.lock = FALSE, !.got = 0]
  OBVIOUS
<1>8. MachineFor(u, h, own) /\ MachineFor(w, h, own) /\ MachineFor(Fail(u), h, own)
  BY <1>3, <1>6, <1>7, GzUnlocked, Failing
<1>9. \/ Step(h, u, At(h, "read")) /\ nodes' = nodes
      \/ gz_ends(h, Fail(u)) \/ gz_ends(h, u)
      \/ Step(h, m, fd[h]) /\ nodes' = nodes
      \/ gz_ends(h, w)
  BY <1>1, <1>2, <1>4, <1>5, <1>7
<1>10. base' = base /\ cell' = cell
  BY DEF zfile_skip_to
<1>11. CASE Step(h, u, At(h, "read")) /\ nodes' = nodes
  BY <1>8, <1>10, <1>11, GzStepLater
<1>12. CASE Step(h, m, fd[h]) /\ nodes' = nodes
  BY <1>6, <1>10, <1>12, GzStepLater
<1>13. CASE gz_ends(h, Fail(u)) \/ gz_ends(h, u) \/ gz_ends(h, w)
  BY <1>8, <1>10, <1>13, GzEndsLater
<1> QED BY <1>9, <1>11, <1>12, <1>13

\* Output of gzip is given.
LEMMA GzReadLater ==
    ASSUME fmt = "z", NEW own, Now(own), NEW h \in Handles, zfile_read(h)
    PROVE  Later(own)
<1>1. PICK io \in Io :
        LET m0 == Machine(h, io)
            m  == zfile_inflate(m0, fd[h].n - fd[h].got)
        IN IF fd[h].got = fd[h].n \/ m0.f.iseof THEN gz_read_ends(h, m0)
           ELSE IF m.res = "ok"
           THEN Step(h, m, [fd[h] EXCEPT !.got = @ + m.got]) /\ UNCHANGED nodes
           ELSE gz_read_ends(h, m)
  BY DEF zfile_read
<1>2. PICK m0 : m0 = Machine(h, io)
  OBVIOUS
<1>3. MachineFor(m0, h, own) /\ MachineOf(m0, own) /\ own \in Seq(Contents) /\ fd[h].n - fd[h].got \in Int
  <2>1. fd[h].pc \in {"skip", "read"}
    BY DEF zfile_read
  <2> QED BY <2>1, <1>2, StepOf
<1>4. PICK room \in Int : room = fd[h].n - fd[h].got
  BY <1>3
<1>5. PICK m : m = zfile_inflate(m0, room)
  OBVIOUS
<1>6. MachineFor(m, h, own) /\ MachineOf(m, own)
  <2>1. MachineOf(m, own) /\ Keeps(m, m0)
    BY <1>3, <1>5, GzInflate
  <2> QED BY <2>1, <1>3, KeepsFor
<1>7. PICK v : v = [fd[h] EXCEPT !.got = @ + m.got]
  OBVIOUS
<1>8. gz_read_ends(h, m0) \/ gz_read_ends(h, m) \/ (Step(h, m, v) /\ nodes' = nodes)
  BY <1>1, <1>2, <1>4, <1>5, <1>7
<1>9. base' = base /\ cell' = cell
  BY DEF zfile_read
<1>10. CASE Step(h, m, v) /\ nodes' = nodes
  <2>1. OnCall(v, fd[h])
    BY <1>3, <1>6, <1>7, NowOf, GotOn
  <2> QED BY <2>1, <1>6, <1>9, <1>10, StepLater
<1>11. CASE gz_read_ends(h, m0) \/ gz_read_ends(h, m)
  BY <1>3, <1>6, <1>9, <1>11, GzReadEndsLater
<1> QED BY <1>8, <1>10, <1>11

----------------------------------------------------------------------------
(* The steps of the handler of gzip.                                       *)

\* A vfile waits for its node.
LEMMA GzOpenLater ==
    ASSUME fmt = "z", NEW own, Now(own), NEW h \in Handles, gz_open(h)
    PROVE  Later(own)
<1>1. PICK b \in Nat : b = base
  BY NowOf
<1>2. PICK x : x = [sig |-> b, cache |-> 0, ready |-> FALSE]
  OBVIOUS
<1>3. NodeIs(fmt, x, own) /\ x.sig = base
  <2>1. b \in 1 .. Len(Images[fmt]) /\ Len(own) \in Nat
    BY <1>1, NowOf
  <2>2. x \in NodesFor(fmt) /\ x.sig = b /\ x.cache = 0
    BY <1>2 DEF NodesFor
  <2> QED BY <1>1, <2>1, <2>2 DEF NodeIs
<1>4. PICK k : k = NodeFound(gz_same)
  OBVIOUS
<1>5. \/ /\ cell # 0 /\ nodes[cell].sig = base /\ k = cell
         /\ cell' = cell /\ nodes' = nodes /\ caches' = caches
      \/ /\ nodes' = Append(nodes, x) /\ k = Len(nodes) + 1
         /\ cell' = Len(nodes) + 1 /\ caches' = caches \o <<>>
  BY <1>1, <1>2, <1>4 DEF gz_open, FindNode, SameNode, NodeFound, gz_same, gz_new_node
<1>6. Fits(fmt, own, base, cell', nodes', caches', sc, fd) /\ k \in 1 .. Len(nodes') /\ nodes'[k].sig = base
  BY <1>3, <1>5, FoundBare
<1>7. PICK im : im = Content
  OBVIOUS
<1>8. PICK u, v : u = Opened(k, NoFile, FALSE) /\ v = [u EXCEPT !.st = "header"]
  OBVIOUS
<1>9. fd' = [fd EXCEPT ![h] = v] /\ base' = base /\ sc' = sc
  BY <1>4, <1>8 DEF gz_open
<1>10. v \in VfilesFor(fmt) /\ v.st = "header" /\ v.img = im /\ v.node = k /\ v.fil = NoFile /\ v.pc = "idle"
  <2>1. im \in Texts
    BY <1>7, ContentIs
  <2>2. k \in Nat
    <3>1. nodes' \in Seq(NodesFor(fmt))
      BY <1>6 DEF Fits
    <3> QED BY <3>1, <1>6
  <2>3. Closed \in VfilesFor(fmt) /\ Closed.pc = "idle"
    BY ClosedIs DEF VfileIs, Closed
  <2>4. u = [Closed EXCEPT !.st = "open", !.img = im, !.node = k, !.noperm = FALSE, !.fil = NoFile]
    BY <1>7, <1>8 DEF Opened
  <2>5. u \in VfilesFor(fmt) /\ u.img = im /\ u.node = k /\ u.fil = NoFile /\ u.pc = "idle"
    BY <2>1, <2>2, <2>3, <2>4 DEF VfilesFor
  <2> QED BY <2>5, <1>8 DEF VfilesFor
<1>11. im = Images[fmt][nodes'[k].sig]
  BY <1>6, <1>7 DEF Content
<1>12. VfileIs(fmt, v, own, nodes')
  BY <1>6, <1>10, <1>11 DEF VfileIs
<1>13. Fits(fmt, own, base, cell', nodes', caches', sc, [fd EXCEPT ![h] = v])
  BY <1>6, <1>12, FdFits
<1> QED BY <1>9, <1>13 DEF Later

\* A node is ready.
LEMMA NodeReady ==
    ASSUME NEW own, NEW bs, NEW cl, NEW ns, NEW cs, NEW s, NEW v, Fits("z", own, bs, cl, ns, cs, s, v),
           NEW k \in 1 .. Len(ns)
    PROVE  Fits("z", own, bs, cl, [ns EXCEPT ![k].ready = TRUE], cs, s, v)
<1>1. PICK ms : ms = [ns EXCEPT ![k].ready = TRUE]
  OBVIOUS
<1>2. ns \in Seq(NodesFor("z")) /\ cl \in 0 .. Len(ns) /\ \A n \in 1 .. Len(ns) : NodeIs("z", ns[n], own)
  BY DEF Fits
<1>3. PICK x : x = [ns[k] EXCEPT !.ready = TRUE]
  OBVIOUS
<1>4. ns[k] \in NodesFor("z")
  BY <1>2
<1>5. x \in NodesFor("z") /\ x.sig = ns[k].sig /\ x.cache = ns[k].cache
  BY <1>3, <1>4 DEF NodesFor
<1>6. NodeIs("z", x, own)
  BY <1>2, <1>5 DEF NodeIs
<1>7. ms \in Seq(NodesFor("z")) /\ Len(ms) = Len(ns) /\ \A n \in 1 .. Len(ns) : ms[n] = IF n = k THEN x ELSE ns[n]
  BY <1>1, <1>2, <1>3, <1>5
<1>8. Fits("z", own, bs, cl, ms, cs, s, v)
  <2>1. Len(ms) >= Len(ns) /\ (\A n \in 1 .. Len(ns) : ms[n].sig = ns[n].sig) /\ cl \in 0 .. Len(ms)
    BY <1>2, <1>5, <1>7
  <2>2. \A n \in 1 .. Len(ms) : NodeIs("z", ms[n], own)
    BY <1>2, <1>6, <1>7
  <2> QED BY <2>1, <2>2, <1>7, NodesFit
<1> QED BY <1>1, <1>8

\* The header of a file is read, or the node is thrown away.
LEMMA GzGetnodeLater ==
    ASSUME fmt = "z", NEW own, Now(own), NEW h \in Handles, gz_getnode(h)
    PROVE  Later(own)
<1>1. PICK n, im : n = fd[h].node /\ im = fd[h].img
  OBVIOUS
<1>2. PICK io \in Io \ {"index"}, noperm \in BOOLEAN :
         LET z == av_zfile_new(im, io)
             bad == ~nodes[n].ready /\ io = "read"
         IN /\ io = "ok" \/ bad \/ (~noperm /\ z.hit)
            /\ faults' = IF io = "ok" THEN faults ELSE faults - 1
            /\ IF bad THEN /\ fd' = [fd EXCEPT ![h] = Closed]
                           /\ cell' = 0
                           /\ UNCHANGED nodes
               ELSE /\ fd' = [fd EXCEPT ![h].st = "open", ![h].noperm = noperm,
                                        ![h].fil = IF noperm THEN NoFile ELSE z.f,
                                        ![h].faulted = io # "ok"]
                    /\ nodes' = [nodes EXCEPT ![n].ready = TRUE]
                    /\ UNCHANGED cell
  BY <1>1 DEF gz_getnode
<1>3. fd[h].st = "header" /\ base' = base /\ caches' = caches /\ sc' = sc
  BY DEF gz_getnode
<1>4. /\ VfileIs(fmt, fd[h], own, nodes) /\ Fits(fmt, own, base, cell, nodes, caches, sc, fd)
      /\ fd \in [Handles -> VfilesFor(fmt)] /\ \A k \in 1 .. Len(nodes) : NodeIs(fmt, nodes[k], own)
      /\ nodes \in Seq(NodesFor(fmt)) /\ fmt \in Formats
  BY NowOf DEF Now
<1>5. n \in 1 .. Len(nodes) /\ im = Images[fmt][nodes[n].sig]
  BY <1>1, <1>3, <1>4 DEF VfileIs
<1>6. CASE fd' = [fd EXCEPT ![h] = Closed] /\ cell' = 0 /\ nodes' = nodes
  <2>1. Fits(fmt, own, base, cell, nodes, caches, sc, [fd EXCEPT ![h] = Closed])
    BY <1>4, ClosedIs, FdFits
  <2>2. Fits(fmt, own, base, 0, nodes, caches, sc, [fd EXCEPT ![h] = Closed])
    <3>1. Len(nodes) \in Nat
      BY <1>4
    <3> QED BY <3>1, <2>1 DEF Fits
  <2> QED BY <2>2, <1>3, <1>6 DEF Later
<1>7. PICK g, e : g = (IF noperm THEN NoFile ELSE av_zfile_new(im, io).f) /\ e = (io # "ok") /\ e \in BOOLEAN
  OBVIOUS
<1>8. CASE /\ fd' = [fd EXCEPT ![h].st = "open", ![h].noperm = noperm, ![h].fil = g, ![h].faulted = e]
           /\ nodes' = [nodes EXCEPT ![n].ready = TRUE] /\ cell' = cell
  <2>1. im \in Contents
    <3>1. nodes[n].sig \in 1 .. Len(Images[fmt])
      BY <1>4, <1>5 DEF NodeIs
    <3> QED BY <3>1, <1>4, <1>5, ImagesAre
  <2>2. io \in {"ok", "read"}
    BY IoIs
  <2>3. ~noperm => FilIs(fmt, g, im, own) /\ g \in FilesFor(fmt)
    <3> SUFFICES ASSUME ~noperm PROVE FilIs(fmt, g, im, own) /\ g \in FilesFor(fmt)
      OBVIOUS
    <3>1. FileOf(g, im) /\ g.id = 0
      BY <1>7, <2>1, <2>2, GzNew
    <3> QED BY <3>1 DEF FileOf, FileIs, FilIs
  <2>4. PICK u : u = fd[h] /\ u \in VfilesFor(fmt)
    BY <1>4
  <2>5. PICK v : v = [u EXCEPT !.st = "open", !.noperm = noperm, !.fil = g, !.faulted = e]
    OBVIOUS
  <2>6. /\ v \in VfilesFor(fmt) /\ v.st = "open" /\ v.img = im /\ v.node = n /\ v.fil = g /\ v.noperm = noperm
        /\ v.pc = u.pc
    <3>1. g \in {NoFile} \cup FilesFor(fmt)
      BY <1>7, <2>3
    <3>2. im \in Contents /\ noperm \in BOOLEAN /\ e \in BOOLEAN
      BY <2>1, <1>7
    <3>3. u.img = im /\ u.node = n
      BY <1>1, <2>4
    <3> QED BY ONLY <3>1, <3>2, <3>3, <2>4, <2>5 DEF VfilesFor
  <2>7. v.pc = "idle"
    BY <1>3, <1>4, <2>4, <2>6 DEF VfileIs
  <2>8. VfileIs(fmt, v, own, nodes)
    BY <1>5, <1>7, <2>3, <2>6, <2>7 DEF VfileIs
  <2>9. Fits(fmt, own, base, cell, nodes, caches, sc, [fd EXCEPT ![h] = v])
    BY <1>4, <2>8, FdFits
  <2>10. fd' = [fd EXCEPT ![h] = v]
    BY <1>4, <1>8, <2>4, <2>5
  <2>11. Fits(fmt, own, base, cell, [nodes EXCEPT ![n].ready = TRUE], caches, sc, [fd EXCEPT ![h] = v])
    BY <1>5, <2>9, NodeReady
  <2> QED BY <1>3, <1>8, <2>10, <2>11 DEF Later
<1> QED BY <1>2, <1>6, <1>7, <1>8

\* The close of gzip saves the stream.
LEMMA GzCloseLater ==
    ASSUME fmt = "z", NEW own, Now(own), NEW h \in Handles, gz_close(h)
    PROVE  Later(own)
<1>1. ScOf(sc', own)
  <2>0. ScOf(sc, own)
    BY NowOf
  <2>1. CASE ~HasFile(h)
    BY <2>0, <2>1 DEF gz_close
  <2>2. CASE HasFile(h)
    <3>1. PICK f : f = fd[h].fil
      OBVIOUS
    <3>2. PICK m : m = [f |-> f, sc |-> sc]
      OBVIOUS
    <3>3. sc' = zfile_scache_save(m).sc
      BY <2>2, <3>1, <3>2 DEF gz_close
    <3>4. CASE f.id = 0 \/ f.iseof
      BY <2>0, <3>2, <3>3, <3>4 DEF zfile_scache_save
    <3>5. CASE ~(f.id = 0 \/ f.iseof)
      <4>1. /\ f.id \in Nat /\ f.s \in StreamSet /\ f.id \in 1 .. Len(own) /\ StreamOf(f.s, own[f.id])
            /\ f \in GzFiles
        BY <2>2, <3>1, <3>5, FileSaved, GzSets
      <4>2. PICK im : im = own[f.id]
        OBVIOUS
      <4>3. PICK s : s = [f.s EXCEPT !.avail = 0]
        OBVIOUS
      <4>4. s \in StreamSet /\ s.in = f.s.in /\ s.out = f.s.out /\ s.avail = 0 /\ s.src = f.s.src
        BY <4>1, <4>3 DEF StreamSet
      <4>5. StreamOf(s, im)
        <5>1. f.s.src = im /\ f.s.in + f.s.avail <= Len(im) /\ f.s.out = Data(im, 0, f.s.in)
          BY <4>1, <4>2 DEF StreamOf
        <5>2. f.s.in \in Nat /\ f.s.avail \in Nat /\ Len(im) \in Nat
          BY <4>1, <4>2, <5>1 DEF StreamSet, Texts
        <5>3. s.in + s.avail <= Len(im)
          BY <4>4, <5>1, <5>2
        <5> QED BY <4>4, <5>1, <5>3 DEF StreamOf
      <4>6. PICK i \in Nat, p \in BOOLEAN, q \in BOOLEAN : i = f.id /\ p = f.calccrc /\ q = f.iseof
        BY <4>1 DEF GzFiles
      <4>7. sc' = [id |-> i, s |-> s, calccrc |-> p, iseof |-> q]
        BY <3>2, <3>3, <3>5, <4>3, <4>6 DEF zfile_scache_save
      <4>8. [id |-> i, s |-> s, calccrc |-> p, iseof |-> q] \in Saved
        BY <4>4, GzSets
      <4> QED BY <4>1, <4>2, <4>5, <4>6, <4>7, <4>8 DEF ScOf, ScIs, Saved
    <3> QED BY <3>4, <3>5
  <2> QED BY <2>1, <2>2
<1>2. fd' = [fd EXCEPT ![h] = Closed] /\ base' = base /\ cell' = cell /\ nodes' = nodes /\ caches' = caches
  BY DEF gz_close
<1> QED BY <1>1, <1>2, CloseLater

\* gz_getcache, with the cache made if there is none.
LEMMA GzMade ==
    ASSUME fmt = "z", NEW own, Now(own), NEW h \in Handles, fd[h].st = "open", CacheMade(fd[h].node),
           NEW c, c = gz_getcache(fd[h].node)
    PROVE  Made(h, c)
<1>1. PICK new : new = av_zcache_new(Len(caches) + 1)
  OBVIOUS
<1>2. CacheOf(new, Len(caches) + 1, fd[h].img)
  BY <1>1, ContentIs, CacheNew
<1>3. PICK n : n = fd[h].node
  OBVIOUS
<1>4. c = IF nodes[n].cache # 0 THEN nodes[n].cache ELSE Len(caches) + 1
  BY <1>3 DEF gz_getcache
<1>5. IF nodes[n].cache # 0 THEN nodes' = nodes /\ caches' = caches
      ELSE caches' = Append(caches, new) /\ nodes' = [nodes EXCEPT ![n].cache = Len(caches) + 1]
  BY <1>1, <1>3 DEF CacheMade
<1> QED BY <1>2, <1>3, <1>4, <1>5, CacheMadeFits

\* A read of gzip begins.
LEMMA GzReadBegins ==
    ASSUME fmt = "z", NEW own, Now(own), NEW h \in Handles, gz_read(h)
    PROVE  \E o : Later(o)
<1>1. fd[h].st = "open" /\ ~fd[h].noperm /\ base' = base /\ cell' = cell /\ sc' = sc
  BY DEF gz_read, Idle
<1>2. PICK c, f0 : c = gz_getcache(fd[h].node) /\ f0 = fd[h].fil
  OBVIOUS
<1>3. PICK f : f = [f0 EXCEPT !.id = c]
  OBVIOUS
<1>4. PICK r \in Reads[fmt] :
        IF f0.iserror
        THEN /\ fd' = [fd EXCEPT ![h] = ReadRefused(h)]
             /\ nodes' = [nodes EXCEPT ![fd[h].node].cache = 0]
             /\ caches' = caches
        ELSE /\ CacheMade(fd[h].node)
             /\ fd' = [fd EXCEPT ![h] = Begins(h, "read", r, c, f, IF r[1] # f.s.out THEN "goto" ELSE "read")]
  BY <1>2, <1>3 DEF gz_read
<1>5. VfileIs(fmt, fd[h], own, nodes) /\ fmt \in Formats
  BY NowOf
<1>6. FileOf(f0, fd[h].img)
  BY <1>1, <1>2, <1>5 DEF VfileIs, FilIs, FileOf
<1>7. CASE f0.iserror
  <2>1. Later(own)
    BY <1>1, <1>4, <1>7, RefusedLater
  <2> QED BY <2>1
<1>8. CASE ~f0.iserror
  <2>1. PICK o : /\ Fits(fmt, o, base, cell, nodes', caches', sc, fd) /\ Len(o) \in Nat
                 /\ c \in 1 .. Len(o) /\ o[c] = fd[h].img /\ VfileIs(fmt, fd[h], o, nodes')
    BY <1>1, <1>2, <1>4, <1>8, GzMade DEF Made
  <2>2. PICK ns : ns = nodes'
    OBVIOUS
  <2>3. r \in Nat \X Nat
    BY <1>5, StreamsAssumption
  <2>4. PICK pc \in Places : pc = IF r[1] # f.s.out THEN "goto" ELSE "read"
    BY DEF Places
  <2>5. PICK v : v = Begins(h, "read", r, c, f, pc)
    OBVIOUS
  <2>6. FileOf(f, fd[h].img) /\ f.id = c
    <3>1. c \in Nat /\ fmt # "lz"
      BY <2>1
    <3> QED BY <3>1, <1>3, <1>6, IdGiven
  <2>7. VfileIs(fmt, v, o, ns)
    BY <1>1, <2>1, <2>2, <2>3, <2>5, <2>6, BeginsIs
  <2>8. fd' = [fd EXCEPT ![h] = v]
    BY <1>4, <1>8, <2>4, <2>5
  <2>9. Later(o)
    BY <1>1, <2>1, <2>2, <2>7, <2>8, MadeLater
  <2> QED BY <2>9
<1> QED BY <1>7, <1>8

\* A fault is noted.
LEMMA FaultedIs ==
    ASSUME NEW own, NEW ns, NEW v, VfileIs(fmt, v, own, ns), NEW e \in BOOLEAN
    PROVE  VfileIs(fmt, [v EXCEPT !.faulted = @ \/ e], own, ns)
<1>1. PICK g \in BOOLEAN : g = (v.faulted \/ e)
  OBVIOUS
<1>2. PICK w : w = [v EXCEPT !.faulted = g]
  OBVIOUS
<1>3. v \in VfilesFor(fmt)
  BY DEF VfileIs
<1>4. /\ w \in VfilesFor(fmt) /\ w.st = v.st /\ w.img = v.img /\ w.node = v.node /\ w.noperm = v.noperm
      /\ w.fil = v.fil /\ w.pc = v.pc /\ w.zc = v.zc
  BY <1>2, <1>3 DEF VfilesFor
<1>5. VfileIs(fmt, w, own, ns)
  BY <1>4 DEF VfileIs
<1> QED BY <1>1, <1>2, <1>5

\* A search of gzip for the size begins.
LEMMA GzSizeBegins ==
    ASSUME fmt = "z", NEW own, Now(own), NEW h \in Handles, gz_getsize(h)
    PROVE  \E o : Later(o)
<1>1. fd[h].st = "open" /\ base' = base /\ cell' = cell /\ sc' = sc /\ CacheMade(fd[h].node)
  BY DEF gz_getsize, Idle
<1>2. PICK c, im : c = gz_getcache(fd[h].node) /\ im = fd[h].img
  OBVIOUS
<1>3. PICK size : size = IF c > Len(caches) THEN -1 ELSE caches[c].size
  OBVIOUS
<1>4. PICK io \in Io \ {"index"} :
        LET z == av_zfile_new(im, io)
            f == IF HasFile(h) THEN fd[h].fil ELSE z.f
        IN fd' = [fd EXCEPT ![h] =
              IF size # -1 THEN SizeKnown(h, size)
              ELSE [Begins(h, "size", <<MAXOFF, 0>>, c, [f EXCEPT !.id = c], "goto")
                       EXCEPT !.faulted = @ \/ io # "ok"]]
  BY <1>2, <1>3 DEF gz_getsize
<1>5. PICK f0 : f0 = IF HasFile(h) THEN fd[h].fil ELSE av_zfile_new(im, io).f
  OBVIOUS
<1>6. PICK f, e : f = [f0 EXCEPT !.id = c] /\ e = (io # "ok") /\ e \in BOOLEAN
  OBVIOUS
<1>7. FileOf(f0, im)
  <2>1. CASE HasFile(h)
    BY <2>1, <1>2, <1>5, FileSaved
  <2>2. CASE ~HasFile(h)
    <3>1. /\ VfileIs(fmt, fd[h], own, nodes) /\ fmt \in Formats
          /\ \A k \in 1 .. Len(nodes) : NodeIs(fmt, nodes[k], own)
      BY NowOf
    <3>2. fd[h].node \in 1 .. Len(nodes) /\ im = Images[fmt][nodes[fd[h].node].sig]
      BY <1>1, <1>2, <3>1 DEF VfileIs
    <3>3. nodes[fd[h].node].sig \in 1 .. Len(Images[fmt])
      BY <3>1, <3>2 DEF NodeIs
    <3>4. im \in Contents
      BY <3>1, <3>2, <3>3, ImagesAre
    <3>5. io \in {"ok", "read"}
      BY IoIs
    <3> QED BY <2>2, <3>4, <3>5, <1>5, GzNew
  <2> QED BY <2>1, <2>2
<1>8. PICK o : /\ Fits(fmt, o, base, cell, nodes', caches', sc, fd) /\ Len(o) \in Nat
               /\ c \in 1 .. Len(o) /\ o[c] = fd[h].img /\ VfileIs(fmt, fd[h], o, nodes')
  BY <1>1, <1>2, GzMade DEF Made
<1>9. PICK ns : ns = nodes'
  OBVIOUS
<1>10. PICK r \in Nat \X Nat : r = <<MAXOFF, 0>>
  BY DEF MAXOFF
<1>11. FileOf(f, fd[h].img) /\ f.id = c
  <2>1. c \in Nat /\ fmt # "lz"
    BY <1>8
  <2> QED BY <2>1, <1>2, <1>6, <1>7, IdGiven
<1>12. PICK u : u = Begins(h, "size", r, c, f, "goto")
  OBVIOUS
<1>13. VfileIs(fmt, u, o, ns)
  <2>1. "goto" \in Places
    BY DEF Places
  <2> QED BY <2>1, <1>1, <1>8, <1>9, <1>11, <1>12, BeginsIs
<1>14. VfileIs(fmt, [u EXCEPT !.faulted = @ \/ e], o, ns)
  BY <1>6, <1>13, FaultedIs
<1>15. VfileIs(fmt, SizeKnown(h, size), o, ns)
  BY <1>8, <1>9, SizeAnswer
<1>16. PICK w : VfileIs(fmt, w, o, ns) /\ fd' = [fd EXCEPT ![h] = w]
  <2>1. CASE size # -1
    BY <2>1, <1>4, <1>15
  <2>2. CASE size = -1
    BY <2>2, <1>4, <1>5, <1>6, <1>10, <1>12, <1>14
  <2> QED BY <2>1, <2>2
<1>17. Later(o)
  BY <1>1, <1>8, <1>9, <1>16, MadeLater
<1> QED BY <1>17

\* Every step of gzip.
LEMMA GzLater ==
    ASSUME fmt = "z", NEW own, Now(own), GzNext
    PROVE  \E o : Later(o)
<1>1. CASE gz_evict
  <2>1. PICK n \in 1 .. Len(nodes) : nodes' = [nodes EXCEPT ![n].cache = 0]
    BY <1>1 DEF gz_evict
  <2>2. base' = base /\ cell' = cell /\ caches' = caches /\ sc' = sc /\ fd' = fd
    BY <1>1 DEF gz_evict
  <2>3. Later(own)
    BY <2>1, <2>2, EvictedLater
  <2> QED BY <2>3
<1>2. ASSUME NEW h \in Handles,
             \/ gz_open(h) \/ gz_getnode(h) \/ gz_close(h) \/ gz_read(h) \/ gz_getsize(h)
             \/ zfile_goto(h) \/ zfile_skip_to(h) \/ zfile_read(h)
      PROVE  \E o : Later(o)
  <2>1. CASE gz_read(h)
    BY <2>1, GzReadBegins
  <2>2. CASE gz_getsize(h)
    BY <2>2, GzSizeBegins
  <2>3. CASE gz_open(h) \/ gz_getnode(h) \/ gz_close(h) \/ zfile_goto(h) \/ zfile_skip_to(h) \/ zfile_read(h)
    <3>1. Later(own)
      BY <2>3, GzOpenLater, GzGetnodeLater, GzCloseLater, GzGotoLater, GzSkipLater, GzReadLater
    <3> QED BY <3>1
  <2> QED BY <1>2, <2>1, <2>2, <2>3
<1> QED BY <1>1, <1>2 DEF GzNext

----------------------------------------------------------------------------
(* The readers.                                                            *)

\* The base file is replaced.
LEMMA ReplaceLater ==
    ASSUME NEW own, Now(own), Replace
    PROVE  Later(own)
<1>1. Fits(fmt, own, base, cell, nodes, caches, sc, fd)
  BY DEF Now
<1>2. PICK b : b = base + 1
  OBVIOUS
<1>3. b \in 1 .. Len(Images[fmt])
  <2>1. base \in 1 .. Len(Images[fmt]) /\ base < Len(Images[fmt])
    BY <1>1 DEF Replace, Fits
  <2>2. Len(Images[fmt]) \in Nat
    BY <1>1, StreamsAssumption DEF Fits
  <2> QED BY <2>1, <2>2, <1>2
<1>4. Fits(fmt, own, b, cell, nodes, caches, sc, fd)
  BY <1>1, <1>3 DEF Fits
<1>5. base' = b /\ cell' = cell /\ nodes' = nodes /\ caches' = caches /\ sc' = sc /\ fd' = fd
  BY <1>2 DEF Replace
<1> QED BY <1>4, <1>5 DEF Later

\* The node leaves the file cache.
LEMMA ExpireLater ==
    ASSUME NEW own, Now(own), Expire
    PROVE  Later(own)
<1>1. Fits(fmt, own, base, cell, nodes, caches, sc, fd) /\ Len(nodes) \in Nat
  BY NowOf DEF Now, Fits
<1>2. Fits(fmt, own, base, 0, nodes, caches, sc, fd)
  BY <1>1 DEF Fits
<1>3. base' = base /\ cell' = 0 /\ nodes' = nodes /\ caches' = caches /\ sc' = sc /\ fd' = fd
  BY DEF Expire
<1> QED BY <1>2, <1>3 DEF Later

\* The handler stays the same.
LEMMA FmtKept == ReadersNext => fmt' = fmt
<1>1. ASSUME NEW h PROVE
        /\ gz_open(h) \/ gz_getnode(h) \/ gz_close(h) \/ gz_read(h) \/ gz_getsize(h)
             \/ zfile_goto(h) \/ zfile_skip_to(h) \/ zfile_read(h) => fmt' = fmt
        /\ lzip_open(h) \/ lzip_close(h) \/ lzip_read(h) \/ lzip_getattr(h)
             \/ lzipfile_goto(h) \/ lzipfile_skip_to(h) \/ lzipfile_read(h) => fmt' = fmt
  BY DEF gz_open, gz_getnode, gz_close, gz_read, gz_getsize, zfile_goto, zfile_skip_to, zfile_read, lzip_open,
         lzip_close, lzip_read, lzip_getattr, lzipfile_goto, lzipfile_skip_to, lzipfile_read
<1>2. GzNext => fmt' = fmt
  BY <1>1 DEF GzNext, gz_evict
<1>3. LzipNext => fmt' = fmt
  BY <1>1 DEF LzipNext, lzip_evict
<1>4. ASSUME NEW h PROVE bz_open(h) \/ bz_close(h) \/ bz_read(h) \/ bz_getattr(h)
                           \/ bzfile_goto(h) \/ bzfile_skip_to(h) \/ bzfile_read(h) => fmt' = fmt
  BY DEF bz_open, bz_close, bz_read, bz_getattr, bzfile_goto, bzfile_skip_to, bzfile_read,
         OpenCached, CloseCached, ReadCached, SizeCached, SkipOn, ReadOn
<1>5. ASSUME NEW h PROVE xz_open(h) \/ xz_close(h) \/ xz_read(h) \/ xz_getattr(h)
                           \/ xzfile_goto(h) \/ xzfile_skip_to(h) \/ xzfile_read(h) => fmt' = fmt
  BY DEF xz_open, xz_close, xz_read, xz_getattr, xzfile_goto, xzfile_skip_to, xzfile_read,
         OpenCached, CloseCached, ReadCached, SizeCached, SkipOn, ReadOn
<1>6. ASSUME NEW h PROVE zstd_open(h) \/ zstd_close(h) \/ zstd_read(h) \/ zstd_getattr(h)
                           \/ zstdfile_goto(h) \/ zstdfile_skip_to(h) \/ zstdfile_read(h) => fmt' = fmt
  BY DEF zstd_open, zstd_close, zstd_read, zstd_getattr, zstdfile_goto, zstdfile_skip_to, zstdfile_read,
         OpenCached, CloseCached, ReadCached, SizeCached, SkipOn, ReadOn
<1>7. (BzNext => fmt' = fmt) /\ (XzNext => fmt' = fmt) /\ (ZstdNext => fmt' = fmt)
  BY <1>4, <1>5, <1>6 DEF BzNext, XzNext, ZstdNext
<1>8. (Replace => fmt' = fmt) /\ (Expire => fmt' = fmt)
  BY DEF Replace, Expire
<1> QED BY <1>2, <1>3, <1>7, <1>8 DEF ReadersNext

\* At the start there are no nodes and no caches.
LEMMA ReadersStart == ReadersInit => ReadersInv
<1> SUFFICES ASSUME ReadersInit PROVE Now(<<>>)
  BY DEF ReadersInv
<1>1. /\ fmt \in Formats /\ base = 1 /\ cell = 0 /\ nodes = <<>> /\ caches = <<>> /\ sc = NoStream
      /\ fd = [h \in Handles |-> Closed]
  BY DEF ReadersInit
<1>2. 1 \in 1 .. Len(Images[fmt])
  <2>1. Images[fmt] \in Seq(Seq(Tokens)) /\ Images[fmt] # <<>>
    BY <1>1, StreamsAssumption
  <2>2. Len(Images[fmt]) \in Nat /\ Len(Images[fmt]) # 0
    BY <2>1
  <2> QED BY <2>2
<1>3. Closed \in VfilesFor(fmt)
  BY ClosedIs DEF VfileIs
<1>4. fd \in [Handles -> VfilesFor(fmt)] /\ \A h \in Handles : VfileIs(fmt, fd[h], <<>>, nodes)
  BY <1>1, <1>3, ClosedIs
<1>5. ScIs(fmt, sc, <<>>)
  BY <1>1 DEF ScIs
<1>6. <<>> \in Seq(ContentsFor(fmt)) /\ <<>> \in Seq(NodesFor(fmt)) /\ <<>> \in Seq(CachesFor(fmt)) /\ Len(<<>>) = 0
  OBVIOUS
<1> QED BY <1>1, <1>2, <1>4, <1>5, <1>6 DEF Now, Fits

\* A step of any reader, a new content and an expired node.
LEMMA ReadersStep ==
    ASSUME NEW own, Now(own), ReadersNext
    PROVE  \E o : Later(o)
<1>1. CASE fmt = "z" /\ GzNext
  BY <1>1, GzLater
<1>2. CASE fmt = "bz" /\ BzNext
  BY <1>2, BzLater
<1>3. CASE fmt = "xz" /\ XzNext
  BY <1>3, XzLater
<1>4. CASE fmt = "lz" /\ LzipNext
  BY <1>4, LzLater
<1>5. CASE fmt = "zst" /\ ZstdNext
  BY <1>5, ZstLater
<1>6. CASE Replace \/ Expire
  <2>1. Later(own)
    BY <1>6, ReplaceLater, ExpireLater
  <2> QED BY <2>1
<1> QED BY <1>1, <1>2, <1>3, <1>4, <1>5, <1>6 DEF ReadersNext

\* The invariant is kept by every step.
LEMMA ReadersKept == ReadersInv /\ [ReadersNext]_reader_vars => ReadersInv'
<1> SUFFICES ASSUME ReadersInv, [ReadersNext]_reader_vars PROVE ReadersInv'
  OBVIOUS
<1>1. PICK own : Now(own)
  BY DEF ReadersInv
<1>2. fmt' = fmt
  BY FmtKept DEF reader_vars
<1>3. \E o : Later(o)
  <2>1. CASE ReadersNext
    BY <2>1, <1>1, ReadersStep
  <2>2. CASE UNCHANGED reader_vars
    <3>1. Later(own)
      BY <2>2, <1>1 DEF reader_vars, Now, Later
    <3> QED BY <3>1
  <2> QED BY <2>1, <2>2
<1>4. PICK o : Fits(fmt, o, base', cell', nodes', caches', sc', fd')
  BY <1>3 DEF Later
<1> QED BY <1>2, <1>4 DEF ReadersInv, Now

\* What the invariant says of the streams.
LEMMA InvInPlace == ReadersInv => InPlace
<1> SUFFICES ASSUME ReadersInv PROVE InPlace
  OBVIOUS
<1>1. PICK own : Now(own)
  BY DEF ReadersInv
<1>2. ASSUME NEW h \in Handles, HasFile(h)
      PROVE  StreamInPlace(fd[h].fil.s) /\ fd[h].fil.s.src = fd[h].img
  <2>1. FilIs(fmt, fd[h].fil, fd[h].img, own)
    BY <1>1, <1>2, NowOf DEF VfileIs, HasFile
  <2>2. StreamOf(fd[h].fil.s, fd[h].img)
    BY <2>1 DEF FilIs, FileIs
  <2> QED BY <2>2 DEF StreamOf, StreamInPlace
<1>3. sc.id # 0 => StreamInPlace(sc.s)
  <2>1. ScIs(fmt, sc, own)
    BY <1>1 DEF Now, Fits
  <2>2. CASE sc = NoStream
    BY <2>2 DEF NoStream
  <2>3. CASE StreamOf(sc.s, own[sc.id])
    BY <2>3 DEF StreamOf, StreamInPlace
  <2> QED BY <2>1, <2>2, <2>3 DEF ScIs
<1> QED BY <1>2, <1>3 DEF InPlace

\* Whatever the vfiles of a reader do, and whatever fails, each stream has given the bytes
\* of the input it has read, of the content its vfile was opened on: the seek functions of
\* zread.c, bzread.c, xzread.c, lzipread.c and zstdread.c, which exchange streams with the
\* stream cache and make them anew at an index, never put a stream in another place than it
\* says, nor take one of another file.
THEOREM InPlaceCorrect == ReadersSpec => []InPlace
<1> QED BY ReadersStart, ReadersKept, InvInPlace, PTL DEF ReadersSpec
=============================================================================
