--------------------------- MODULE SerialFileProofs ---------------------------
(***************************************************************************)
(* Proofs about SerialFile and about the programs it gets its data from.   *)
(* Of SerialFile: what the temporary file holds, and that the calls do     *)
(* what TranslatedFile promises, for files, blocks and reads of any size   *)
(* and whatever fails on the way.  Of Programs: that what goes through a   *)
(* program arrives as it was, for files, pipes and buffers of any size,    *)
(* however the program and its caller take turns.                          *)
(***************************************************************************)
EXTENDS SerialFile, Programs, SequenceTheorems, WellFoundedInduction, TLAPS

----------------------------------------------------------------------------
(* Contents of files.                                                      *)

\* A part of the contents as a subsequence.
LEMMA PartIsSubSeq ==
    ASSUME NEW s \in Seq(Bytes), NEW o \in Nat, NEW n \in Nat
    PROVE  /\ Abstract!Part(s, o, n) \in Seq(Bytes)
           /\ o + n <= Len(s) => Abstract!Part(s, o, n) = SubSeq(s, o + 1, o + n)
           /\ Len(s) <= o + n => Abstract!Part(s, o, n) = SubSeq(s, o + 1, Len(s))
<1>1. PICK len \in Nat : len = Len(s)
  OBVIOUS
<1>2. \A i \in 1..len : s[i] \in Bytes
  BY <1>1
<1>3. SubSeq(s, o + 1, IF o + n < len THEN o + n ELSE len) \in Seq(Bytes)
  <2>1. PICK m \in Nat : m = IF o + n < len THEN o + n ELSE len
    OBVIOUS
  <2>2. \A i \in (o + 1)..m : s[i] \in Bytes
    BY <1>2, <2>1
  <2>3. SubSeq(s, o + 1, m) \in Seq(Bytes)
    BY <2>2, SubSeqProperties
  <2> QED BY <2>1, <2>3
<1>4. Abstract!Part(s, o, n) = SubSeq(s, o + 1, IF o + n < len THEN o + n ELSE len)
  BY <1>1 DEF Abstract!Part
<1> QED BY <1>1, <1>3, <1>4

\* Nothing of s at or beyond its end, all of it from the beginning.
LEMMA PartEnds ==
    ASSUME NEW s \in Seq(Bytes), NEW o \in Nat, NEW n \in Nat
    PROVE  /\ Len(s) <= o => Abstract!Part(s, o, n) = <<>>
           /\ Len(s) <= n => Abstract!Part(s, 0, n) = s
           /\ Abstract!Part(s, o, 0) = <<>>
<1>1. PICK len \in Nat : len = Len(s)
  OBVIOUS
<1>2. len <= o => Abstract!Part(s, o, n) = <<>>
  <2> SUFFICES ASSUME len <= o PROVE Abstract!Part(s, o, n) = <<>>
    OBVIOUS
  <2>1. Len(s) <= o + n
    BY <1>1
  <2>2. Abstract!Part(s, o, n) = SubSeq(s, o + 1, len)
    BY <1>1, <2>1, PartIsSubSeq
  <2>3. SubSeq(s, o + 1, len) = <<>>
    BY SubSeqEmpty
  <2> QED BY <2>2, <2>3
<1>3. len <= n => Abstract!Part(s, 0, n) = s
  <2> SUFFICES ASSUME len <= n PROVE Abstract!Part(s, 0, n) = s
    OBVIOUS
  <2>1. PICK z \in Nat : z = 0
    OBVIOUS
  <2>2. Len(s) <= z + n
    BY <1>1, <2>1
  <2>3. Abstract!Part(s, z, n) = SubSeq(s, z + 1, Len(s))
    BY <2>2, PartIsSubSeq
  <2>4. SubSeq(s, 1, len) = s
    BY <1>1, SubSeqFull
  <2> QED BY <1>1, <2>1, <2>3, <2>4
<1>4. Abstract!Part(s, o, 0) = <<>>
  <2>1. CASE o <= len
    <3>1. Abstract!Part(s, o, 0) = SubSeq(s, o + 1, o)
      BY <1>1, <2>1, PartIsSubSeq
    <3>2. SubSeq(s, o + 1, o) = <<>>
      BY SubSeqEmpty
    <3> QED BY <3>1, <3>2
  <2>2. CASE len <= o
    <3>1. Abstract!Part(s, o, 0) = SubSeq(s, o + 1, len)
      BY <1>1, <2>2, PartIsSubSeq
    <3>2. SubSeq(s, o + 1, len) = <<>>
      BY <2>2, SubSeqEmpty
    <3> QED BY <3>1, <3>2
  <2> QED BY <2>1, <2>2
<1> QED BY <1>1, <1>2, <1>3, <1>4

\* A part of the beginning of s is a part of s.
LEMMA PartOfPrefix ==
    ASSUME NEW s \in Seq(Bytes), NEW k \in Nat, k <= Len(s), NEW o \in Nat, NEW n \in Nat,
           o + n <= k
    PROVE  Abstract!Part(SubSeq(s, 1, k), o, n) = Abstract!Part(s, o, n)
<1>1. PICK len \in Nat : len = Len(s)
  OBVIOUS
<1>2. \A i \in 1..len : s[i] \in Bytes
  BY <1>1
<1>3. PICK l : l = SubSeq(s, 1, k)
  OBVIOUS
<1>4. l \in Seq(Bytes) /\ Len(l) = k /\ \A i \in 1..k : l[i] = s[i]
  <2>1. \A i \in 1..k : s[i] \in Bytes
    BY <1>1, <1>2
  <2> QED BY <1>3, <2>1, SubSeqProperties
<1>5. /\ Abstract!Part(l, o, n) = SubSeq(l, o + 1, o + n)
      /\ Abstract!Part(s, o, n) = SubSeq(s, o + 1, o + n)
  <2>1. o + n <= Len(l) /\ o + n <= Len(s)
    BY <1>4
  <2> QED BY <1>4, <2>1, PartIsSubSeq
<1>6. SubSeq(l, o + 1, o + n) = SubSeq(s, o + 1, o + n)
  <2>1. \A i \in (o + 1)..(o + n) : l[i] = s[i] /\ s[i] \in Bytes
    BY <1>1, <1>2, <1>4
  <2>2. /\ SubSeq(l, o + 1, o + n) \in Seq(Bytes) /\ Len(SubSeq(l, o + 1, o + n)) = n
        /\ \A i \in 1..n : SubSeq(l, o + 1, o + n)[i] = l[o + i]
    <3>1. \A i \in (o + 1)..(o + n) : l[i] \in Bytes
      BY <2>1
    <3> QED BY <3>1, SubSeqProperties
  <2>3. /\ SubSeq(s, o + 1, o + n) \in Seq(Bytes) /\ Len(SubSeq(s, o + 1, o + n)) = n
        /\ \A i \in 1..n : SubSeq(s, o + 1, o + n)[i] = s[o + i]
    <3>1. \A i \in (o + 1)..(o + n) : s[i] \in Bytes
      BY <2>1
    <3> QED BY <3>1, SubSeqProperties
  <2>4. \A i \in 1..n : SubSeq(l, o + 1, o + n)[i] = SubSeq(s, o + 1, o + n)[i]
    BY <2>1, <2>2, <2>3
  <2> QED BY <2>2, <2>3, <2>4, SeqEqual
<1> QED BY <1>3, <1>5, <1>6


\* A piece of s, and the next one.
LEMMA Pieces ==
    ASSUME NEW s \in Seq(Bytes), NEW m \in Nat, NEW k \in Nat, NEW j \in Nat,
           m <= k, k <= j, j <= Len(s)
    PROVE  /\ SubSeq(s, m + 1, k) \in Seq(Bytes) /\ Len(SubSeq(s, m + 1, k)) = k - m
           /\ SubSeq(s, m + 1, k) \o SubSeq(s, k + 1, j) = SubSeq(s, m + 1, j)
<1>1. PICK len \in Nat : len = Len(s)
  OBVIOUS
<1>2. \A i \in 1..len : s[i] \in Bytes
  BY <1>1
<1>3. SubSeq(s, m + 1, k) \in Seq(Bytes) /\ Len(SubSeq(s, m + 1, k)) = k - m
  <2>1. \A i \in (m + 1)..k : s[i] \in Bytes
    BY <1>1, <1>2
  <2> QED BY <2>1, SubSeqProperties
<1>4. SubSeq(s, m + 1, k) \o SubSeq(s, k + 1, j) = SubSeq(s, m + 1, j)
  <2>1. m + 1 \in 1..(Len(s) + 1) /\ k \in ((m + 1) - 1)..Len(s) /\ j \in k..Len(s)
    BY <1>1
  <2> QED BY <2>1, ConcatAdjacentSubSeq
<1> QED BY <1>3, <1>4

\* The beginning of s.
LEMMA Beginning ==
    ASSUME NEW s \in Seq(Bytes), NEW k \in Nat, NEW j \in Nat, k <= j, j <= Len(s)
    PROVE  /\ SubSeq(s, 1, k) \in Seq(Bytes) /\ Len(SubSeq(s, 1, k)) = k
           /\ SubSeq(s, 1, k) \o SubSeq(s, k + 1, j) = SubSeq(s, 1, j)
           /\ SubSeq(s, 1, k) \in Abstract!Prefixes(s)
           /\ Abstract!Part(s, 0, k) = SubSeq(s, 1, k)
           /\ SubSeq(s, 1, Len(s)) = s
<1>1. PICK z \in Nat : z = 0
  OBVIOUS
<1>2. /\ SubSeq(s, z + 1, k) \in Seq(Bytes) /\ Len(SubSeq(s, z + 1, k)) = k - z
      /\ SubSeq(s, z + 1, k) \o SubSeq(s, k + 1, j) = SubSeq(s, z + 1, j)
  BY <1>1, Pieces
<1>3. Abstract!Part(s, z, k) = SubSeq(s, z + 1, z + k)
  <2>1. z + k <= Len(s)
    BY <1>1
  <2> QED BY <2>1, PartIsSubSeq
<1>4. Abstract!Part(s, 0, k) = SubSeq(s, 1, k)
  BY <1>1, <1>3
<1>5. SubSeq(s, 1, k) \in Abstract!Prefixes(s)
  <2>1. k \in 0..Len(s)
    OBVIOUS
  <2> QED BY <1>4, <2>1 DEF Abstract!Prefixes
<1>6. SubSeq(s, 1, Len(s)) = s
  BY SubSeqFull
<1> QED BY <1>1, <1>2, <1>4, <1>5, <1>6

\* Contents with a part written over.
LEMMA OverlaidTypes ==
    ASSUME NEW s \in Seq(Bytes), NEW o \in Nat, NEW d \in Seq(Bytes)
    PROVE  /\ Abstract!Overlaid(s, o, d) \in Seq(Bytes)
           /\ Len(Abstract!Overlaid(s, o, d)) = IF o + Len(d) > Len(s) THEN o + Len(d) ELSE Len(s)
           /\ \A i \in 1..Len(Abstract!Overlaid(s, o, d)) :
                 Abstract!Overlaid(s, o, d)[i] =
                    IF i > o /\ i <= o + Len(d) THEN d[i - o] ELSE IF i <= Len(s) THEN s[i] ELSE Zero
<1>1. PICK len, dlen \in Nat : len = Len(s) /\ dlen = Len(d)
  OBVIOUS
<1>2. /\ \A i \in 1..len : s[i] \in Bytes
      /\ \A i \in 1..dlen : d[i] \in Bytes
  BY <1>1
<1>3. PICK size \in Nat : size = IF o + dlen > len THEN o + dlen ELSE len
  OBVIOUS
<1>4. PICK v : v = [i \in 1..size |-> IF i > o /\ i <= o + dlen THEN d[i - o]
                                      ELSE IF i <= len THEN s[i] ELSE Zero]
  OBVIOUS
<1>5. v = Abstract!Overlaid(s, o, d)
  BY <1>1, <1>3, <1>4 DEF Abstract!Overlaid
<1>6. \A i \in 1..size : v[i] \in Bytes
  <2> TAKE i \in 1..size
  <2>1. CASE i > o /\ i <= o + dlen
    <3>1. i - o \in 1..dlen
      BY <1>3, <2>1
    <3> QED BY <1>2, <1>4, <2>1, <3>1
  <2>2. CASE ~(i > o /\ i <= o + dlen)
    <3>1. v[i] = IF i <= len THEN s[i] ELSE Zero
      BY <1>4, <2>2
    <3> QED BY <1>2, <3>1, WriteAssumption
  <2> QED BY <2>1, <2>2
<1>7. v \in Seq(Bytes) /\ Len(v) = size
  <2>1. v \in [1..size -> Bytes]
    BY <1>4, <1>6
  <2> QED BY <2>1
<1>8. \A i \in 1..size : v[i] = IF i > o /\ i <= o + dlen THEN d[i - o]
                                ELSE IF i <= len THEN s[i] ELSE Zero
  BY <1>4
<1> QED BY <1>1, <1>3, <1>5, <1>7, <1>8

\* What arrives goes to the end.
LEMMA OverlaidAppends ==
    ASSUME NEW s \in Seq(Bytes), NEW d \in Seq(Bytes)
    PROVE  Abstract!Overlaid(s, Len(s), d) = s \o d
<1>1. PICK len, dlen \in Nat : len = Len(s) /\ dlen = Len(d)
  OBVIOUS
<1>2. PICK v : v = Abstract!Overlaid(s, len, d)
  OBVIOUS
<1>3. /\ v \in Seq(Bytes) /\ Len(v) = IF len + dlen > len THEN len + dlen ELSE len
      /\ \A i \in 1..Len(v) :
            v[i] = IF i > len /\ i <= len + dlen THEN d[i - len] ELSE IF i <= len THEN s[i] ELSE Zero
  <2>1. s \in Seq(Bytes) /\ d \in Seq(Bytes) /\ len \in Nat
    OBVIOUS
  <2>2. /\ v \in Seq(Bytes) /\ Len(v) = IF len + Len(d) > Len(s) THEN len + Len(d) ELSE Len(s)
        /\ \A i \in 1..Len(v) :
              v[i] = IF i > len /\ i <= len + Len(d) THEN d[i - len]
                     ELSE IF i <= Len(s) THEN s[i] ELSE Zero
    BY ONLY <1>2, <2>1, OverlaidTypes
  <2> QED BY ONLY <1>1, <2>2
<1>4. Len(v) = len + dlen
  BY <1>3
<1>5. PICK c : c = s \o d
  OBVIOUS
<1>6. /\ c \in Seq(Bytes) /\ Len(c) = len + dlen
      /\ \A i \in 1..(len + dlen) : c[i] = IF i <= len THEN s[i] ELSE d[i - len]
  BY <1>1, <1>5, ConcatProperties
<1>7. ASSUME NEW i \in 1..Len(v) PROVE v[i] = c[i]
  <2>1. len \in Nat /\ dlen \in Nat /\ i \in 1..(len + dlen)
    BY <1>4
  <2>2. v[i] = IF i > len /\ i <= len + dlen THEN d[i - len] ELSE IF i <= len THEN s[i] ELSE Zero
    BY <1>3
  <2>3. c[i] = IF i <= len THEN s[i] ELSE d[i - len]
    BY ONLY <1>6, <2>1
  <2> QED BY ONLY <2>1, <2>2, <2>3
<1>8. v = c
  BY <1>3, <1>4, <1>6, <1>7, SeqEqual
<1> QED BY <1>1, <1>2, <1>5, <1>8


----------------------------------------------------------------------------
(* The inductive invariant.                                                *)

\* Where a call is, what state the file is in there, and how much it may still get.
Control ==
    /\ conn <=> state = "SF_READ"
    /\ state = "SF_BEGIN" => ~dirty /\ numbytes = 0 /\ sent = 0
    /\ state # "SF_BEGIN" => fd
    /\ dirty => state = "SF_FINI"
    /\ pc = "start" => state = "SF_BEGIN"
    /\ pc = "fetch" => state = "SF_READ" /\ want > 0
    /\ pc \in {"loop", "store", "finish"} => state # "SF_BEGIN"
    /\ pc = "store" => ~dirty /\ (state = "SF_READ" => buf # <<>>)
    /\ pc = "finish" => op # "pread" /\ Enough
    /\ pc \in {"fetch", "store"} /\ Direct => Len(buf) + want <= nbyte
    /\ pc = "failed" /\ err = "EAGAIN" => ~dirty
    /\ pc \notin {"fetch", "store", "failed"} => buf = <<>>

\* Without changes the temporary file is the first numbytes bytes of the source, and what
\* a call has got from the connection are the next ones.
Arrived ==
    /\ numbytes = Len(local)
    /\ ~dirty => numbytes <= Len(source) /\ local = SubSeq(source, 1, numbytes)
    /\ pc # "failed" /\ (state = "SF_READ" \/ pc = "store") =>
          /\ sent = numbytes + Len(buf) /\ sent <= Len(source)
          /\ buf = SubSeq(source, numbytes + 1, sent)
    /\ state = "SF_FINI" /\ pc = "store" => sent = Len(source)

Arguments ==
    /\ op = "pread" => offset \in Offsets /\ nbyte \in Reads /\ data = <<>>
    /\ op \in {"size", "startget"} => offset = 0 /\ nbyte = 0 /\ data = <<>>
    /\ op = "truncate" => offset \in Lengths \ {0} /\ nbyte = 0 /\ data = <<>>
    /\ op = "pwrite" => offset \in Offsets /\ nbyte = 0 /\ data \in Writes

Typed ==
    /\ state \in States /\ pc \in Places /\ op \in Ops /\ err \in Errors
    /\ fd \in BOOLEAN /\ dirty \in BOOLEAN /\ conn \in BOOLEAN
    /\ retried \in BOOLEAN /\ crashed \in BOOLEAN
    /\ numbytes \in Nat /\ sent \in Nat /\ offset \in Nat /\ nbyte \in Nat /\ want \in Nat
    /\ local \in Seq(Bytes) /\ source \in Seq(Bytes) /\ data \in Seq(Bytes) /\ buf \in Seq(Bytes)

Answerable(a) == a.ok \in BOOLEAN /\ a.data \in Seq(Bytes) /\ a.size \in Nat

IInv == Typed /\ Answerable(reply.is) /\ Control /\ Arrived /\ Arguments

\* The answers.
LEMMA AnswersTyped ==
    /\ Answerable(Abstract!Done) /\ Answerable(Abstract!Error)
    /\ \A n \in Nat : Answerable(Abstract!Size(n))
    /\ \A d \in Seq(Bytes) : Answerable(Abstract!Data(d))
BY DEF Answerable, Abstract!Done, Abstract!Error, Abstract!Size, Abstract!Data

\* The file as it is when no call is under way.
Resting ==
    /\ state \in States /\ source \in Seq(Bytes) /\ local \in Seq(Bytes)
    /\ fd \in BOOLEAN /\ dirty \in BOOLEAN /\ conn \in BOOLEAN /\ crashed \in BOOLEAN
    /\ numbytes \in Nat /\ sent \in Nat
    /\ conn <=> state = "SF_READ"
    /\ state = "SF_BEGIN" => ~dirty /\ numbytes = 0 /\ sent = 0
    /\ state # "SF_BEGIN" => fd
    /\ dirty => state = "SF_FINI"
    /\ numbytes = Len(local)
    /\ ~dirty => numbytes <= Len(source) /\ local = SubSeq(source, 1, numbytes)
    /\ state = "SF_READ" => sent = numbytes

\* A call that has answered keeps the invariant.
LEMMA RestIsSafe ==
    ASSUME Resting', pc' = "idle", buf' = <<>>, Arguments', Answerable(reply.is)',
           retried' \in BOOLEAN, op' \in Ops, err' \in Errors,
           offset' \in Nat, nbyte' \in Nat, want' \in Nat, data' \in Seq(Bytes)
    PROVE  IInv'
<1>1. Typed'
  BY DEF Resting, Typed, Places
<1>2. Control'
  BY DEF Resting, Control
<1>3. Arrived'
  <2>1. ASSUME state' = "SF_READ"
        PROVE  /\ sent' = numbytes' + Len(buf') /\ sent' <= Len(source')
               /\ buf' = SubSeq(source', numbytes' + 1, sent')
    <3>1. Len(buf') = 0 /\ numbytes' \in Nat /\ sent' = numbytes' /\ sent' <= Len(source')
      BY <2>1 DEF Resting
    <3>2. PICK k \in Nat : k = numbytes'
      BY <3>1
    <3>3. SubSeq(source', k + 1, k) = <<>>
      BY SubSeqEmpty
    <3> QED BY <3>1, <3>2, <3>3 DEF Resting
  <2> QED BY <2>1 DEF Resting, Arrived
<1> QED BY <1>1, <1>2, <1>3 DEF IInv

\* An answer is given.
LEMMA Returned ==
    ASSUME IInv, NEW a, Return(a), Answerable(a)
    PROVE  /\ Answerable(reply.is)' /\ Arguments'
           /\ pc' = "idle" /\ buf' = <<>> /\ retried' = FALSE /\ op' = "size" /\ err' = "EIO"
           /\ offset' = 0 /\ nbyte' = 0 /\ want' = 0 /\ data' = <<>>
           /\ reply' = [to |-> Abstract!Call(op, offset, nbyte, data), is |-> a]
<1>1. /\ pc' = "idle" /\ buf' = <<>> /\ retried' = FALSE /\ op' = "size" /\ err' = "EIO"
      /\ offset' = 0 /\ nbyte' = 0 /\ want' = 0 /\ data' = <<>>
      /\ reply' = [to |-> Abstract!Call(op, offset, nbyte, data), is |-> a]
  BY DEF Return, Abstract!Reply
<1>2. reply'.is = a
  BY <1>1
<1>3. Arguments'
  BY <1>1 DEF Arguments
<1> QED BY <1>1, <1>2, <1>3 DEF Answerable

\* A call begins, with arguments of its kind.
Called(what, position, n, bytes) ==
    /\ what \in Ops /\ position \in Nat /\ n \in Nat /\ bytes \in Seq(Bytes)
    /\ what = "pread" => position \in Offsets /\ n \in Reads /\ bytes = <<>>
    /\ what \in {"size", "startget"} => position = 0 /\ n = 0 /\ bytes = <<>>
    /\ what = "truncate" => position \in Lengths \ {0} /\ n = 0 /\ bytes = <<>>
    /\ what = "pwrite" => position \in Offsets /\ n = 0 /\ bytes \in Writes

\* A call that begins keeps the invariant.
LEMMA BeginSafe ==
    ASSUME IInv, NEW what, NEW position, NEW n, NEW bytes, Called(what, position, n, bytes),
           Begin(what, position, n, bytes)
    PROVE  IInv'
<1>1. /\ pc = "idle" /\ op' = what /\ offset' = position /\ nbyte' = n /\ data' = bytes
      /\ pc' = IF state = "SF_BEGIN" THEN "start"
               ELSE IF state = "SF_FINI" /\ what # "pread" THEN "finish" ELSE "loop"
      /\ UNCHANGED <<reply, crashed, source, state, fd, local, numbytes, dirty, conn, sent,
                     retried, want, buf, err>>
  BY DEF Begin, Ready, Goto, file, xfer
<1>2. Typed'
  BY <1>1 DEF IInv, Typed, Places, Called
<1>3. Control'
  BY <1>1 DEF IInv, Control, Enough
<1>4. Arrived'
  BY <1>1 DEF IInv, Control, Arrived
<1>5. Arguments'
  BY <1>1 DEF Arguments, Called
<1>6. Answerable(reply.is)'
  BY <1>1 DEF IInv, Answerable
<1> QED BY <1>2, <1>3, <1>4, <1>5, <1>6 DEF IInv

\* Begin keeps the invariant.
LEMMA SafeBegin ==
    ASSUME IInv, Pread \/ Size \/ StartGet \/ Truncate \/ Pwrite
    PROVE  IInv'
<1>1. CASE Pread
  <2>1. PICK position \in Offsets, n \in Reads : Begin("pread", position, n, <<>>)
    BY <1>1 DEF Pread
  <2>2. Called("pread", position, n, <<>>)
    BY SizeAssumption DEF Called, Ops
  <2> QED BY <2>1, <2>2, BeginSafe
<1>2. CASE Size
  <2>1. Called("size", 0, 0, <<>>)
    BY DEF Called, Ops
  <2> QED BY <1>2, <2>1, BeginSafe DEF Size
<1>3. CASE StartGet
  <2>1. Called("startget", 0, 0, <<>>)
    BY DEF Called, Ops
  <2> QED BY <1>3, <2>1, BeginSafe DEF StartGet
<1>4. CASE Truncate
  <2>1. PICK length \in Lengths \ {0} : Begin("truncate", length, 0, <<>>)
    BY <1>4 DEF Truncate
  <2>2. Called("truncate", length, 0, <<>>)
    BY SizeAssumption DEF Called, Ops
  <2> QED BY <2>1, <2>2, BeginSafe
<1>5. CASE Pwrite
  <2>1. PICK position \in Offsets, bytes \in Writes : Begin("pwrite", position, 0, bytes)
    BY <1>5 DEF Pwrite
  <2>2. Called("pwrite", position, 0, bytes)
    BY SizeAssumption, WriteAssumption DEF Called, Ops
  <2> QED BY <2>1, <2>2, BeginSafe
<1> QED BY <1>1, <1>2, <1>3, <1>4, <1>5


\* A step fails.
LEMMA SafeFailure ==
    ASSUME IInv, StartFails \/ AnswerFails \/ FetchFails \/ StoreFails
    PROVE  IInv'
<1>1. /\ pc' = "failed" /\ err' \in Errors /\ (err' = "EAGAIN" => ~dirty) /\ fd' \in BOOLEAN
      /\ (state # "SF_BEGIN" => fd' = fd)
      /\ UNCHANGED <<state, local, numbytes, dirty, conn, sent, call, want, buf,
                     reply, crashed, source>>
  <2> USE DEF FailWith, Goto, Errors, IInv, Typed, Control, call, file
  <2>1. CASE StartFails
    BY <2>1 DEF StartFails
  <2>2. CASE AnswerFails
    BY <2>2 DEF AnswerFails
  <2>3. CASE FetchFails
    BY <2>3 DEF FetchFails
  <2>4. CASE StoreFails
    BY <2>4 DEF StoreFails
  <2> QED BY <2>1, <2>2, <2>3, <2>4
<1>2. Typed'
  BY <1>1 DEF IInv, Typed, Places, call
<1>3. Control'
  BY <1>1 DEF IInv, Control, call
<1>4. Arrived'
  BY <1>1 DEF IInv, Arrived
<1>5. Arguments'
  BY <1>1 DEF IInv, Arguments, call
<1> QED BY <1>1, <1>2, <1>3, <1>4, <1>5 DEF IInv, Answerable

\* Nothing is left after a reset.
LEMMA ResetLeaves ==
    ASSUME Reset, source' \in Seq(Bytes)
    PROVE  /\ state' = "SF_BEGIN" /\ fd' = FALSE /\ local' = <<>> /\ numbytes' = 0
           /\ dirty' = FALSE /\ conn' = FALSE /\ sent' = 0
           /\ Len(local') = 0 /\ local' \in Seq(Bytes)
           /\ local' = SubSeq(source', 1, 0) /\ 0 <= Len(source')
<1>1. PICK s \in Seq(Bytes) : s = source'
  OBVIOUS
<1>2. SubSeq(s, 1, 0) = <<>>
  BY SubSeqEmpty
<1> QED BY <1>1, <1>2 DEF Reset

\* Retry keeps the invariant.
LEMMA SafeRetry ==
    ASSUME IInv, Retry
    PROVE  IInv'
<1>1. /\ Reset /\ retried' = TRUE /\ want' = 0 /\ buf' = <<>> /\ err' = "EIO" /\ pc' = "start"
      /\ UNCHANGED <<op, offset, nbyte, data, reply, crashed, source>>
  BY DEF Retry, Goto
<1>2. source' \in Seq(Bytes)
  BY <1>1 DEF IInv, Typed
<1>3. /\ state' = "SF_BEGIN" /\ fd' = FALSE /\ local' = <<>> /\ numbytes' = 0
      /\ dirty' = FALSE /\ conn' = FALSE /\ sent' = 0
      /\ Len(local') = 0 /\ local' \in Seq(Bytes)
      /\ local' = SubSeq(source', 1, 0) /\ 0 <= Len(source')
  BY <1>1, <1>2, ResetLeaves
<1>4. Typed'
  BY <1>1, <1>3 DEF IInv, Typed, States, Places, Errors
<1>5. Control' /\ Arrived'
  BY <1>1, <1>3 DEF Control, Arrived
<1>6. Arguments'
  BY <1>1 DEF IInv, Arguments
<1> QED BY <1>1, <1>4, <1>5, <1>6 DEF IInv, Answerable

\* A call returns and leaves the file in order.
LEMMA ReturnIsSafe ==
    ASSUME IInv, NEW a, Return(a), Answerable(a), Resting'
    PROVE  IInv'
<1>1. /\ Answerable(reply.is)' /\ Arguments'
      /\ pc' = "idle" /\ buf' = <<>> /\ retried' = FALSE /\ op' = "size" /\ err' = "EIO"
      /\ offset' = 0 /\ nbyte' = 0 /\ want' = 0 /\ data' = <<>>
  BY Returned
<1>2. /\ retried' \in BOOLEAN /\ op' \in Ops /\ err' \in Errors
      /\ offset' \in Nat /\ nbyte' \in Nat /\ want' \in Nat /\ data' \in Seq(Bytes)
  <2>1. /\ retried' = FALSE /\ op' = "size" /\ err' = "EIO"
        /\ offset' = 0 /\ nbyte' = 0 /\ want' = 0 /\ data' = <<>>
    BY <1>1
  <2>2. retried' \in BOOLEAN
    BY <2>1
  <2>3. op' \in Ops /\ err' \in Errors
    BY <2>1 DEF Ops, Errors
  <2>4. offset' \in Nat /\ nbyte' \in Nat /\ want' \in Nat
    BY <2>1
  <2>5. data' \in Seq(Bytes)
    BY <2>1
  <2> QED BY <2>2, <2>3, <2>4, <2>5
<1> QED BY <1>1, <1>2, RestIsSafe

\* The same of a call that returns at once.
LEMMA ReturnAtOnceIsSafe ==
    ASSUME IInv, Ready, NEW what, NEW a, ReturnAtOnce(what, a), Answerable(a), Resting'
    PROVE  IInv'
<1>1. /\ reply' = [to |-> Abstract!Call(what, 0, 0, <<>>), is |-> a] /\ pc' = "idle"
      /\ UNCHANGED <<call, xfer>>
  BY DEF ReturnAtOnce, Abstract!Reply, Ready
<1>2. reply'.is = a
  BY <1>1
<1>3. Answerable(reply.is)'
  BY <1>2 DEF Answerable
<1>4. buf' = <<>> /\ Arguments'
  BY <1>1 DEF Ready, IInv, Control, Arguments, call, xfer
<1>5. /\ retried' \in BOOLEAN /\ op' \in Ops /\ err' \in Errors
      /\ offset' \in Nat /\ nbyte' \in Nat /\ want' \in Nat /\ data' \in Seq(Bytes)
  BY <1>1 DEF IInv, Typed, call, xfer
<1> QED BY <1>1, <1>3, <1>4, <1>5, RestIsSafe

\* A reset leaves the file at rest.
LEMMA ResetRests ==
    ASSUME Reset, source' \in Seq(Bytes), crashed' \in BOOLEAN
    PROVE  Resting'
<1>1. /\ state' = "SF_BEGIN" /\ fd' = FALSE /\ local' = <<>> /\ numbytes' = 0
      /\ dirty' = FALSE /\ conn' = FALSE /\ sent' = 0
      /\ Len(local') = 0 /\ local' \in Seq(Bytes)
      /\ local' = SubSeq(source', 1, 0) /\ 0 <= Len(source')
  BY ResetLeaves
<1> QED BY <1>1 DEF Resting, States

\* GiveUp keeps the invariant.
LEMMA SafeGiveUp ==
    ASSUME IInv, GiveUp \/ WriteFails
    PROVE  IInv'
<1>1. Reset /\ Return(Abstract!Error) /\ UNCHANGED <<source, crashed>>
  BY DEF GiveUp, WriteFails
<1>2. Resting'
  BY <1>1, ResetRests DEF IInv, Typed
<1> QED BY <1>1, <1>2, ReturnIsSafe, AnswersTyped

\* The file does not change.
LEMMA SafeAnswer ==
    ASSUME IInv, Answer \/ Answered
    PROVE  IInv'
<1>1. UNCHANGED <<file, source, crashed>> /\ pc \in {"loop", "finish"}
  BY DEF Answer, Answered
<1>2. Resting'
  <2>1. buf = <<>> /\ Len(buf) = 0
    BY <1>1 DEF IInv, Control
  <2> QED BY <1>1, <2>1 DEF IInv, Typed, Control, Arrived, Resting, file
<1>3. CASE Answer
  <2>1. PICK d : d = Abstract!Part(local, offset, nbyte)
    OBVIOUS
  <2>2. d \in Seq(Bytes)
    BY <2>1, PartIsSubSeq DEF IInv, Typed
  <2>3. Return(Abstract!Data(d))
    BY <1>3, <2>1 DEF Answer
  <2> QED BY <1>2, <2>2, <2>3, ReturnIsSafe, AnswersTyped
<1>4. CASE Answered
  <2>1. PICK a : a = IF op = "size" THEN Abstract!Size(numbytes) ELSE Abstract!Done
    OBVIOUS
  <2>2. Answerable(a)
    BY <2>1, AnswersTyped DEF IInv, Typed
  <2>3. Return(a)
    BY <1>4, <2>1 DEF Answered
  <2> QED BY <1>2, <2>2, <2>3, ReturnIsSafe
<1> QED BY <1>3, <1>4


\* TruncateAll keeps the invariant.
LEMMA SafeTruncateAll ==
    ASSUME IInv, TruncateAll
    PROVE  IInv'
<1>1. Ready /\ UNCHANGED <<source, crashed>> /\ buf = <<>> /\ Len(buf) = 0
  BY DEF TruncateAll, Ready, IInv, Control
<1>2. /\ source' \in Seq(Bytes) /\ crashed' \in BOOLEAN
  BY <1>1 DEF IInv, Typed
<1>3. CASE UNCHANGED file /\ ReturnAtOnce("truncate", Abstract!Done)
  <2>1. Resting'
    BY <1>1, <1>3 DEF Ready, IInv, Typed, Control, Arrived, Resting, file
  <2> QED BY <1>1, <1>3, <2>1, ReturnAtOnceIsSafe, AnswersTyped
<1>4. CASE /\ state' = "SF_FINI" /\ fd' = TRUE /\ local' = <<>> /\ numbytes' = 0
           /\ dirty' = TRUE /\ conn' = FALSE /\ sent' = 0
           /\ ReturnAtOnce("truncate", Abstract!Done)
  <2>1. Len(local') = 0 /\ local' \in Seq(Bytes)
    BY <1>4
  <2>2. Resting'
    BY <1>2, <1>4, <2>1 DEF Resting, States
  <2> QED BY <1>1, <1>4, <2>2, ReturnAtOnceIsSafe, AnswersTyped
<1>5. CASE Reset /\ ReturnAtOnce("truncate", Abstract!Error)
  <2>1. Resting'
    BY <1>2, <1>5, ResetRests
  <2> QED BY <1>1, <1>5, <2>1, ReturnAtOnceIsSafe, AnswersTyped
<1> QED BY <1>3, <1>4, <1>5 DEF TruncateAll

\* Flush keeps the invariant.
LEMMA SafeFlush ==
    ASSUME IInv, FlushClean \/ FlushDirty \/ FlushFails
    PROVE  IInv'
<1>1. Ready /\ buf = <<>> /\ Len(buf) = 0
  BY DEF FlushClean, FlushDirty, FlushFails, Ready, IInv, Control
<1>2. CASE FlushClean
  <2>1. UNCHANGED <<file, source, crashed>> /\ ReturnAtOnce("flush", Abstract!Done)
    BY <1>2 DEF FlushClean
  <2>2. Resting'
    BY <1>1, <2>1 DEF Ready, IInv, Typed, Control, Arrived, Resting, file
  <2> QED BY <1>1, <2>1, <2>2, ReturnAtOnceIsSafe, AnswersTyped
<1>3. CASE FlushDirty
  <2>1. /\ source' = local /\ dirty' = FALSE /\ ReturnAtOnce("flush", Abstract!Done)
        /\ UNCHANGED <<state, fd, local, numbytes, conn, sent, crashed>>
    BY <1>3 DEF FlushDirty
  <2>2. PICK l \in Seq(Bytes) : l = local
    BY DEF IInv, Typed
  <2>3. SubSeq(l, 1, Len(l)) = l
    BY SubSeqFull
  <2>4. state = "SF_FINI"
    BY <1>3 DEF FlushDirty, IInv, Control
  <2>5. /\ local' = l /\ source' = l /\ local' = SubSeq(source', 1, numbytes')
        /\ numbytes' = Len(local') /\ numbytes' <= Len(source')
    <3>1. numbytes' = Len(l) /\ Len(l) \in Nat
      BY <2>1, <2>2 DEF IInv, Arrived
    <3>2. local' = l /\ source' = l
      BY <2>1, <2>2
    <3> QED BY <2>3, <3>1, <3>2
  <2>6. Resting'
    BY <2>1, <2>2, <2>4, <2>5 DEF IInv, Typed, Control, Resting
  <2> QED BY <1>1, <2>1, <2>6, ReturnAtOnceIsSafe, AnswersTyped
<1>4. CASE FlushFails
  <2>1. Reset /\ ReturnAtOnce("flush", Abstract!Error)
    BY <1>4 DEF FlushFails
  <2>2. source' \in Seq(Bytes) /\ crashed' \in BOOLEAN
    <3>1. CASE source' \in {source, <<>>} /\ crashed' \in BOOLEAN
      <4>1. <<>> \in Seq(Bytes) /\ source \in Seq(Bytes)
        BY DEF IInv, Typed
      <4>2. source' = source \/ source' = <<>>
        BY <3>1
      <4> QED BY <3>1, <4>1, <4>2
    <3>2. CASE source' \in Abstract!Prefixes(local) /\ UNCHANGED crashed
      <4>1. PICK l \in Seq(Bytes) : l = local
        BY DEF IInv, Typed
      <4>2. PICK n \in 0..Len(l), z \in Nat : source' = Abstract!Part(l, z, n)
        BY <3>2, <4>1 DEF Abstract!Prefixes
      <4>3. Abstract!Part(l, z, n) \in Seq(Bytes)
        BY PartIsSubSeq
      <4> QED BY <3>2, <4>2, <4>3 DEF IInv, Typed
    <3> QED BY <1>4, <3>1, <3>2 DEF FlushFails
  <2>3. Resting'
    BY <2>1, <2>2, ResetRests
  <2> QED BY <1>1, <2>1, <2>3, ReturnAtOnceIsSafe, AnswersTyped
<1> QED BY <1>2, <1>3, <1>4

\* Truncated keeps the invariant.
LEMMA SafeTruncated ==
    ASSUME IInv, Truncated
    PROVE  IInv'
<1>1. /\ pc = "finish" /\ state' = "SF_FINI" /\ conn' = FALSE
      /\ Return(Abstract!Done) /\ UNCHANGED <<fd, sent, source, crashed>>
  BY DEF Truncated
<1>2. PICK l \in Seq(Bytes), o \in Nat : l = local /\ o = offset
  BY DEF IInv, Typed
<1>3. fd /\ numbytes = Len(l)
  BY <1>1, <1>2 DEF IInv, Control, Arrived
<1>4. CASE numbytes > offset
  <2>1. local' = Abstract!Part(l, 0, o) /\ numbytes' = o /\ dirty' = TRUE
    BY <1>2, <1>4 DEF Truncated
  <2>2. Abstract!Part(l, 0, o) \in Seq(Bytes) /\ Len(Abstract!Part(l, 0, o)) = o
    <3>1. o <= Len(l) /\ Len(l) \in Nat
      BY <1>2, <1>3, <1>4
    <3>2. PICK k \in Nat : k = Len(l)
      BY <3>1
    <3>3. SubSeq(l, 1, o) \in Seq(Bytes) /\ Len(SubSeq(l, 1, o)) = o
          /\ Abstract!Part(l, 0, o) = SubSeq(l, 1, o)
      BY <3>1, <3>2, Beginning
    <3> QED BY <3>3
  <2>3. Resting'
    BY <1>1, <1>3, <2>1, <2>2 DEF Resting, States, IInv, Typed
  <2> QED BY <1>1, <2>3, ReturnIsSafe, AnswersTyped
<1>5. CASE ~(numbytes > offset)
  <2>1. UNCHANGED <<local, numbytes, dirty>>
    BY <1>5 DEF Truncated
  <2>2. Resting'
    BY <1>1, <1>3, <2>1 DEF Resting, States, IInv, Typed, Control, Arrived
  <2> QED BY <1>1, <2>2, ReturnIsSafe, AnswersTyped
<1> QED BY <1>4, <1>5

\* Written keeps the invariant.
LEMMA SafeWritten ==
    ASSUME IInv, Written
    PROVE  IInv'
<1>1. /\ pc = "finish" /\ op = "pwrite" /\ dirty' = TRUE
      /\ local' = Abstract!Overlaid(local, offset, data)
      /\ numbytes' = IF offset + Len(data) > numbytes THEN offset + Len(data) ELSE numbytes
      /\ Return(Abstract!Size(Len(data))) /\ UNCHANGED <<state, fd, conn, sent, source, crashed>>
  BY DEF Written
<1>2. PICK l \in Seq(Bytes), o \in Nat, d \in Seq(Bytes) : l = local /\ o = offset /\ d = data
  BY DEF IInv, Typed
<1>3. state = "SF_FINI" /\ fd /\ numbytes = Len(l) /\ ~conn
  BY <1>1, <1>2 DEF IInv, Control, Arrived, Enough, Reached
<1>4. /\ Abstract!Overlaid(l, o, d) \in Seq(Bytes)
      /\ Len(Abstract!Overlaid(l, o, d)) = IF o + Len(d) > Len(l) THEN o + Len(d) ELSE Len(l)
  BY OverlaidTypes
<1>5. numbytes' = Len(local') /\ numbytes' \in Nat /\ local' \in Seq(Bytes)
  BY <1>1, <1>2, <1>3, <1>4
<1>6. Resting'
  BY <1>1, <1>3, <1>5 DEF Resting, IInv, Typed
<1>7. PICK n \in Nat : n = Len(d)
  BY <1>2
<1> QED BY <1>1, <1>2, <1>6, <1>7, ReturnIsSafe, AnswersTyped


----------------------------------------------------------------------------
(* What arrives from the source.                                           *)

\* Nothing has arrived that is not in the temporary file.
LEMMA NothingMore ==
    ASSUME NEW s, NEW k \in Nat
    PROVE  SubSeq(s, k + 1, k) = <<>>
BY SubSeqEmpty

\* Started keeps the invariant.
LEMMA SafeStarted ==
    ASSUME IInv, Started
    PROVE  IInv'
<1>1. /\ pc = "start" /\ pc' = "loop" /\ state' = "SF_READ" /\ fd' = TRUE /\ conn' = TRUE
      /\ UNCHANGED <<local, numbytes, dirty, sent, call, want, buf, err, reply, crashed, source>>
  BY DEF Started, Goto, xfer
<1>2. state = "SF_BEGIN" /\ ~dirty /\ numbytes = 0 /\ sent = 0 /\ buf = <<>> /\ Len(buf) = 0
  BY <1>1 DEF IInv, Control
<1>3. Typed'
  BY <1>1 DEF IInv, Typed, Places, States, call
<1>4. Control'
  BY <1>1, <1>2 DEF IInv, Control, call
<1>5. Arrived'
  <2>1. PICK k \in Nat : k = 0
    OBVIOUS
  <2>2. SubSeq(source, k + 1, k) = <<>>
    BY NothingMore
  <2>3. numbytes' = 0 /\ sent' = 0 /\ source' = source /\ buf' = <<>> /\ Len(source) \in Nat
    BY <1>1, <1>2 DEF IInv, Typed
  <2>4. /\ sent' = numbytes' + Len(buf') /\ sent' <= Len(source')
        /\ buf' = SubSeq(source', numbytes' + 1, sent')
    BY <2>1, <2>2, <2>3
  <2> QED BY <1>1, <1>2, <2>4 DEF IInv, Arrived
<1>6. Arguments'
  BY <1>1 DEF IInv, Arguments, call
<1> QED BY <1>1, <1>3, <1>4, <1>5, <1>6 DEF IInv, Answerable

\* GotEnough keeps the invariant.
LEMMA SafeGotEnough ==
    ASSUME IInv, GotEnough
    PROVE  IInv'
<1>1. /\ pc = "loop" /\ pc' = "finish" /\ Enough /\ op # "pread"
      /\ UNCHANGED <<state, fd, local, numbytes, dirty, conn, sent, op, offset, nbyte, data, retried,
                     want, buf, err, reply, crashed, source>>
  BY DEF GotEnough, Goto, xfer, file, call
<1>2. Typed'
  BY <1>1 DEF IInv, Typed, Places
<1>3. Control'
  BY <1>1 DEF IInv, Control, Enough, Reached
<1>4. Arrived' /\ Arguments'
  BY <1>1 DEF IInv, Arrived, Arguments
<1> QED BY <1>1, <1>2, <1>3, <1>4 DEF IInv, Answerable

\* More keeps the invariant.
LEMMA SafeMore ==
    ASSUME IInv, More
    PROVE  IInv'
<1>1. /\ pc = "loop" /\ pc' = "fetch" /\ ~Enough /\ want' = Wanted
      /\ UNCHANGED <<state, fd, local, numbytes, dirty, conn, sent, op, offset, nbyte, data, retried,
                     buf, err, reply, crashed, source>>
  BY DEF More, Goto, file, call
<1>2. state = "SF_READ" /\ buf = <<>> /\ Len(buf) = 0
  BY <1>1 DEF IInv, Control, Typed, States, Enough
<1>3. Wanted \in Nat /\ Wanted > 0 /\ (Direct => Wanted = nbyte)
  BY SizeAssumption DEF Wanted, Direct, IInv, Arguments, Typed
<1>4. Typed'
  BY <1>1, <1>3 DEF IInv, Typed, Places
<1>5. Control'
  BY <1>1, <1>2, <1>3 DEF IInv, Control, Direct, Typed
<1>6. Arrived' /\ Arguments'
  BY <1>1 DEF IInv, Arrived, Arguments
<1> QED BY <1>1, <1>4, <1>5, <1>6 DEF IInv, Answerable

\* Delivered keeps the invariant.
LEMMA SafeDelivered ==
    ASSUME IInv, Delivered
    PROVE  IInv'
<1>1. PICK k \in 1..want :
         /\ sent + k <= Len(source) /\ buf' = buf \o SubSeq(source, sent + 1, sent + k)
         /\ sent' = sent + k /\ want' = want - k
         /\ pc = "fetch" /\ pc' = IF want' = 0 THEN "store" ELSE "fetch"
         /\ UNCHANGED <<state, fd, local, numbytes, dirty, conn, call, err, reply, crashed, source>>
  BY DEF Delivered, Goto
<1>2. PICK s \in Seq(Bytes), m \in Nat, e \in Nat, j \in Nat :
         s = source /\ m = numbytes /\ e = sent /\ j = sent + k
  BY <1>1 DEF IInv, Typed
<1>3. /\ state = "SF_READ" /\ ~dirty /\ want \in Nat
      /\ e = m + Len(buf) /\ j = e + k /\ j <= Len(s) /\ buf = SubSeq(s, m + 1, e)
      /\ Len(buf) \in Nat
  BY <1>1, <1>2 DEF IInv, Typed, Control, Arrived
<1>4. m <= e /\ e <= j /\ m <= j /\ j <= Len(s)
  <2>1. k \in Nat /\ m \in Nat /\ e \in Nat /\ j \in Nat /\ Len(buf) \in Nat
    BY <1>3
  <2>2. e = m + Len(buf) /\ j = e + k /\ j <= Len(s)
    BY <1>3
  <2> QED BY <2>1, <2>2
<1>5. /\ SubSeq(s, m + 1, j) \in Seq(Bytes) /\ Len(SubSeq(s, m + 1, j)) = j - m
  <2>1. PICK i \in Nat : i = j
    OBVIOUS
  <2>2. j <= i /\ i <= Len(s)
    BY <1>4, <2>1
  <2> QED BY <1>4, <2>2, Pieces
<1>6. SubSeq(s, m + 1, e) \o SubSeq(s, e + 1, j) = SubSeq(s, m + 1, j)
  BY <1>4, Pieces
<1>7. /\ buf' = SubSeq(s, m + 1, j) /\ buf' \in Seq(Bytes) /\ Len(buf') = j - m
      /\ buf' # <<>> /\ Len(buf') = Len(buf) + k
  <2>1. buf' = SubSeq(s, m + 1, j)
    BY <1>1, <1>2, <1>3, <1>6
  <2>2. Len(buf') = j - m /\ buf' \in Seq(Bytes)
    BY <1>5, <2>1
  <2>3. PICK b \in Nat : b = Len(buf)
    BY <1>3
  <2>4. k \in Nat /\ k > 0
    BY <1>3
  <2>5. j - m = b + k
    BY <1>3, <2>3, <2>4
  <2>6. Len(buf') > 0
    BY <2>2, <2>3, <2>4, <2>5
  <2>7. buf' # <<>>
    BY <2>6
  <2> QED BY <2>1, <2>2, <2>3, <2>5, <2>7
<1>8. want' \in Nat /\ (want' = 0 \/ want' > 0) /\ Len(buf') + want' = Len(buf) + want
  <2>1. PICK w \in Nat, b \in Nat : w = want /\ b = Len(buf)
    BY <1>3
  <2>2. want' = w - k /\ Len(buf') = b + k /\ k \in 1..w
    BY <1>1, <1>7, <2>1
  <2>3. w - k \in Nat /\ (b + k) + (w - k) = b + w
    BY <2>2
  <2> QED BY <2>1, <2>2, <2>3
<1>9. Typed'
  BY <1>1, <1>2, <1>7, <1>8 DEF IInv, Typed, Places, call
<1>10. Control'
  BY <1>1, <1>3, <1>7, <1>8 DEF IInv, Control, Direct, call
<1>11. Arrived'
  <2>1. sent' = j /\ numbytes' = m /\ source' = s /\ local' = local /\ dirty' = dirty
    BY <1>1, <1>2
  <2>2. j = m + Len(buf') /\ j <= Len(s) /\ buf' = SubSeq(s, m + 1, j)
    BY <1>3, <1>7
  <2>3. state' = "SF_READ"
    BY <1>1, <1>3
  <2>4. /\ m = Len(local) /\ (~dirty => m <= Len(s) /\ local = SubSeq(s, 1, m))
    BY <1>2 DEF IInv, Arrived
  <2> QED BY <2>1, <2>2, <2>3, <2>4 DEF Arrived
<1>12. Arguments'
  BY <1>1 DEF IInv, Arguments, call
<1> QED BY <1>1, <1>9, <1>10, <1>11, <1>12 DEF IInv, Answerable

\* Ended keeps the invariant.
LEMMA SafeEnded ==
    ASSUME IInv, Ended
    PROVE  IInv'
<1>1. /\ pc = "fetch" /\ sent = Len(source) /\ state' = "SF_FINI" /\ conn' = FALSE /\ pc' = "store"
      /\ UNCHANGED <<fd, local, numbytes, dirty, sent, op, offset, nbyte, data, retried, want, buf,
                     err, reply, crashed, source>>
  BY DEF Ended, Goto, call, xfer
<1>2. state = "SF_READ"
  BY <1>1 DEF IInv, Control
<1>3. Typed'
  BY <1>1 DEF IInv, Typed, Places, States
<1>4. Control'
  BY <1>1, <1>2 DEF IInv, Control, Direct
<1>5. Arrived'
  BY <1>1, <1>2 DEF IInv, Arrived
<1>6. Arguments'
  BY <1>1 DEF IInv, Arguments
<1> QED BY <1>1, <1>3, <1>4, <1>5, <1>6 DEF IInv, Answerable

\* The temporary file with what has come is a longer beginning of the source.
LEMMA Grown ==
    ASSUME IInv, pc = "store"
    PROVE  /\ Abstract!Overlaid(local, numbytes, buf) = SubSeq(source, 1, sent)
           /\ Abstract!Overlaid(local, numbytes, buf) \in Seq(Bytes)
           /\ Len(Abstract!Overlaid(local, numbytes, buf)) = sent
           /\ numbytes + Len(buf) = sent /\ sent <= Len(source) /\ ~dirty
           /\ local = SubSeq(source, 1, numbytes) /\ buf = SubSeq(source, numbytes + 1, sent)
<1>1. PICK s \in Seq(Bytes), m \in Nat, e \in Nat : s = source /\ m = numbytes /\ e = sent
  BY DEF IInv, Typed
<1>2. /\ ~dirty /\ e = m + Len(buf) /\ e <= Len(s) /\ buf = SubSeq(s, m + 1, e)
      /\ m = Len(local) /\ local = SubSeq(s, 1, m)
  BY <1>1 DEF IInv, Control, Arrived
<1>3. PICK l \in Seq(Bytes), b \in Seq(Bytes) : l = local /\ b = buf
  BY DEF IInv, Typed
<1>4. m <= e /\ e <= Len(s)
  <2>1. PICK n \in Nat : n = Len(b)
    BY <1>3
  <2>2. e = m + n
    BY <1>2, <1>3, <2>1
  <2>3. m <= e
    BY <2>2
  <2>4. e <= Len(s)
    BY <1>2
  <2> QED BY <2>3, <2>4
<1>5. l \o b = SubSeq(s, 1, e)
  <2>1. SubSeq(s, 1, m) \o SubSeq(s, m + 1, e) = SubSeq(s, 1, e)
    BY <1>4, Beginning
  <2> QED BY <1>2, <1>3, <2>1
<1>6. SubSeq(s, 1, e) \in Seq(Bytes) /\ Len(SubSeq(s, 1, e)) = e
  <2>1. PICK j \in Nat : j = e
    OBVIOUS
  <2>2. e <= j /\ j <= Len(s)
    BY <1>4, <2>1
  <2> QED BY <2>2, Beginning
<1>7. Abstract!Overlaid(l, Len(l), b) = l \o b
  BY OverlaidAppends
<1> QED BY <1>1, <1>2, <1>3, <1>5, <1>6, <1>7

\* Stored keeps the invariant.
LEMMA SafeStored ==
    ASSUME IInv, Stored
    PROVE  IInv'
<1>1. /\ pc = "store" /\ local' = Abstract!Overlaid(local, numbytes, buf)
      /\ numbytes' = numbytes + Len(buf) /\ UNCHANGED <<state, fd, dirty, conn, sent>>
  BY DEF Stored
<1>2. /\ local' = SubSeq(source, 1, sent) /\ local' \in Seq(Bytes) /\ Len(local') = sent
      /\ numbytes' = sent /\ sent <= Len(source) /\ ~dirty
  BY <1>1, Grown
<1>3. source' = source /\ crashed' = crashed
  BY DEF Stored, Goto
<1>4. state # "SF_BEGIN"
  BY <1>1 DEF IInv, Control
<1>5. Resting'
  BY <1>1, <1>2, <1>3, <1>4 DEF Resting, IInv, Typed, Control
<1>6. CASE Direct
  <2>1. PICK b \in Seq(Bytes) : b = buf
    BY DEF IInv, Typed
  <2>2. Return(Abstract!Data(b))
    BY <1>6, <2>1 DEF Stored
  <2> QED BY <1>5, <2>2, ReturnIsSafe, AnswersTyped
<1>7. CASE ~Direct
  <2>1. /\ want' = 0 /\ buf' = <<>> /\ pc' = "loop"
        /\ UNCHANGED <<op, offset, nbyte, data, retried, err, reply>>
    BY <1>7 DEF Stored, Goto, call
  <2>2. Typed'
    BY <1>5, <2>1 DEF Resting, IInv, Typed, Places
  <2>3. Control'
    BY <1>4, <1>5, <1>1, <2>1 DEF Resting, Control
  <2>4. Arrived'
    <3>1. PICK s \in Seq(Bytes), k \in Nat : s = source /\ k = sent
      BY DEF IInv, Typed
    <3>2. SubSeq(s, k + 1, k) = <<>>
      BY NothingMore
    <3>3. numbytes' = k /\ sent' = k /\ source' = s /\ buf' = <<>> /\ Len(buf') = 0
      BY <1>1, <1>2, <1>3, <2>1, <3>1
    <3>4. /\ sent' = numbytes' + Len(buf') /\ sent' <= Len(source')
          /\ buf' = SubSeq(source', numbytes' + 1, sent')
      BY <1>2, <3>1, <3>2, <3>3
    <3> QED BY <1>5, <2>1, <3>4 DEF Resting, Arrived
  <2>5. Arguments'
    BY <2>1 DEF IInv, Arguments
  <2> QED BY <2>1, <2>2, <2>3, <2>4, <2>5 DEF IInv, Answerable
<1> QED BY <1>6, <1>7


----------------------------------------------------------------------------
(* The invariant holds, whatever fails.                                    *)

\* The invariant holds at the start.
LEMMA Starts ==
    ASSUME Init
    PROVE  IInv
<1>1. source \in Seq(Bytes)
  BY SourceAssumption DEF Init
<1>2. /\ Len(source) \in Nat /\ <<>> \in Seq(Bytes) /\ Len(<<>>) = 0
      /\ SubSeq(source, 1, 0) = <<>>
  <2>1. PICK k \in Nat : k = 0
    OBVIOUS
  <2>2. SubSeq(source, k + 1, k) = <<>>
    BY NothingMore
  <2> QED BY <1>1, <2>1, <2>2
<1>3. Typed
  BY <1>1, <1>2 DEF Init, Typed, States, Places, Ops, Errors
<1>4. Answerable(reply.is)
  <2>1. reply.is = Abstract!Done
    BY DEF Init
  <2> QED BY <2>1, AnswersTyped
<1>5. Control /\ Arguments
  BY DEF Init, Control, Arguments
<1>6. Arrived
  BY <1>2 DEF Init, Arrived
<1> QED BY <1>3, <1>4, <1>5, <1>6 DEF IInv

\* Every step keeps the invariant.
LEMMA Steps ==
    ASSUME IInv, [Next]_vars
    PROVE  IInv'
<1>1. CASE Call
  BY <1>1, SafeBegin, SafeTruncateAll, SafeFlush DEF Call
<1>2. CASE Continue
  BY <1>2, SafeStarted, SafeFailure, SafeAnswer, SafeGotEnough, SafeMore, SafeDelivered, SafeEnded,
     SafeStored, SafeRetry, SafeGiveUp, SafeTruncated, SafeWritten DEF Continue
<1>3. CASE UNCHANGED vars
  <2>1. /\ UNCHANGED <<state, fd, local, numbytes, dirty, conn, sent, source, pc, op, offset, nbyte>>
        /\ UNCHANGED <<data, retried, want, buf, err, reply, crashed>>
    BY <1>3 DEF vars, file, call, xfer
  <2>2. Typed' /\ Control' /\ Arrived' /\ Arguments'
    BY <2>1 DEF IInv, Typed, Control, Arrived, Arguments, Enough, Reached, Direct
  <2> QED BY <2>1, <2>2 DEF IInv, Answerable
<1> QED BY <1>1, <1>2, <1>3 DEF Next

\* The inductive invariant holds in every reachable state.
LEMMA Invariant == Spec => []IInv
<1>1. Init => IInv
  BY Starts
<1>2. IInv /\ [Next]_vars => IInv'
  BY Steps
<1> QED BY <1>1, <1>2, PTL DEF Spec

\* The types of the state.
THEOREM TypeCorrect == Spec => []TypeOK
<1>1. IInv => TypeOK
  BY DEF IInv, Typed, Answerable, TypeOK
<1> QED BY <1>1, Invariant, PTL

\* The temporary file and the buffer are the beginning of the source, in order and without
\* gaps, whatever failed, was retried or was dropped before (sfile_do_read, sfile_reset,
\* sfile_pread_force); and changes wait until nothing can overwrite them.
THEOREM InStepCorrect == Spec => []InStep
<1>1. IInv => InStep
  <2> SUFFICES ASSUME IInv PROVE InStep
    OBVIOUS
  <2>1. PICK s \in Seq(Bytes), m \in Nat, e \in Nat : s = source /\ m = numbytes /\ e = sent
    BY DEF IInv, Typed
  <2>2. ~dirty => local \in Abstract!Prefixes(source)
    <3> SUFFICES ASSUME ~dirty PROVE local \in Abstract!Prefixes(source)
      OBVIOUS
    <3>1. PICK j \in Nat : j = m
      OBVIOUS
    <3>2. m <= j /\ j <= Len(s) /\ local = SubSeq(s, 1, m)
      BY <2>1, <3>1 DEF IInv, Arrived
    <3>3. SubSeq(s, 1, m) \in Abstract!Prefixes(s)
      BY <3>2, Beginning
    <3> QED BY <2>1, <3>2, <3>3
  <2>3. state = "SF_READ" /\ pc # "failed" => local \o buf = SubSeq(source, 1, sent)
    <3> SUFFICES ASSUME state = "SF_READ", pc # "failed"
                 PROVE  local \o buf = SubSeq(source, 1, sent)
      OBVIOUS
    <3>1. /\ e = m + Len(buf) /\ e <= Len(s) /\ buf = SubSeq(s, m + 1, e)
          /\ local = SubSeq(s, 1, m)
      BY <2>1 DEF IInv, Control, Arrived
    <3>2. PICK n \in Nat : n = Len(buf)
      BY DEF IInv, Typed
    <3>3. m <= e
      BY <3>1, <3>2
    <3>4. SubSeq(s, 1, m) \o SubSeq(s, m + 1, e) = SubSeq(s, 1, e)
      <4>1. s \in Seq(Bytes) /\ m \in Nat /\ e \in Nat
        BY <2>1
      <4>2. PICK k \in Nat, j \in Nat : k = m /\ j = e
        BY <4>1
      <4>3. k <= j /\ j <= Len(s)
        BY <3>1, <3>3, <4>2
      <4>4. SubSeq(s, 1, k) \o SubSeq(s, k + 1, j) = SubSeq(s, 1, j)
        BY ONLY <4>1, <4>3, Beginning
      <4> QED BY <4>2, <4>4
    <3> QED BY <2>1, <3>1, <3>4
  <2> QED BY <2>2, <2>3 DEF IInv, Control, Arrived, InStep
<1> QED BY <1>1, Invariant, PTL


----------------------------------------------------------------------------
(* The calls do what they promise.                                         *)

\* What the users of the file see.
Shown == IF dirty THEN local ELSE source

\* A file that nothing more arrives in is all there, as long as no truncation goes unseen.
Whole == state = "SF_FINI" /\ ~dirty /\ pc \notin {"store", "failed"} => local = source

\* When the file has ended, what is seen is in the temporary file.
LEMMA EndedShown ==
    ASSUME IInv, Whole, state = "SF_FINI", pc \notin {"store", "failed"}
    PROVE  local = Shown /\ numbytes = Len(Shown)
BY DEF IInv, Arrived, Whole, Shown

\* Up to where it has arrived, what is seen is in the temporary file.
LEMMA ReachedShown ==
    ASSUME IInv, NEW o \in Nat, NEW n \in Nat, o + n <= numbytes
    PROVE  /\ Abstract!Part(local, o, n) = Abstract!Part(Shown, o, n)
           /\ Len(Abstract!Part(local, o, n)) = n
           /\ Shown \in Seq(Bytes) /\ numbytes <= Len(Shown)
<1>1. PICK s \in Seq(Bytes), l \in Seq(Bytes), m \in Nat : s = source /\ l = local /\ m = numbytes
  BY DEF IInv, Typed
<1>2. m = Len(l) /\ (~dirty => m <= Len(s) /\ l = SubSeq(s, 1, m)) /\ o + n <= m
  BY <1>1 DEF IInv, Arrived
<1>3. Len(Abstract!Part(l, o, n)) = n
  <2>1. o + n <= Len(l)
    BY <1>2
  <2>2. Abstract!Part(l, o, n) = SubSeq(l, o + 1, o + n)
    BY <2>1, PartIsSubSeq
  <2>3. PICK j \in Nat : j = o + n
    OBVIOUS
  <2>4. o <= j /\ j <= Len(l) /\ j - o = n
    BY <2>1, <2>3
  <2>5. Len(SubSeq(l, o + 1, j)) = n
    <3>1. PICK i \in Nat : i = j
      OBVIOUS
    <3>2. j <= i /\ i <= Len(l)
      BY <2>4, <3>1
    <3>3. Len(SubSeq(l, o + 1, j)) = j - o
      BY <2>4, <3>2, Pieces
    <3> QED BY <2>4, <3>3
  <2> QED BY <2>2, <2>3, <2>5
<1>4. CASE dirty
  BY <1>1, <1>2, <1>3, <1>4 DEF Shown
<1>5. CASE ~dirty
  <2>1. m <= Len(s) /\ l = SubSeq(s, 1, m)
    BY <1>2, <1>5
  <2>2. Abstract!Part(SubSeq(s, 1, m), o, n) = Abstract!Part(s, o, n)
    BY <1>2, <2>1, PartOfPrefix
  <2> QED BY <1>1, <1>3, <1>5, <2>1, <2>2 DEF Shown
<1> QED BY <1>4, <1>5

\* A read answers a part of what is seen.
LEMMA ReadAnswers ==
    ASSUME IInv, op = "pread", NEW k \in 0..nbyte, k = 0 => offset >= Len(Shown),
           Return(Abstract!Data(Abstract!Part(Shown, offset, k))), UNCHANGED <<source, Shown>>
    PROVE  Abstract!Read
<1>1. offset \in Offsets /\ nbyte \in Reads /\ data = <<>>
  BY DEF IInv, Arguments
<1>2. reply' = [to |-> Abstract!Call("pread", offset, nbyte, <<>>),
                is |-> Abstract!Data(Abstract!Part(Shown, offset, k))]
  BY <1>1, Returned, AnswersTyped DEF Return, Abstract!Reply
<1>3. PICK o \in Offsets, n \in Reads : o = offset /\ n = nbyte
  BY <1>1
<1>4. /\ k \in 0..n /\ (k = 0 => o >= Len(Shown))
      /\ reply' = [to |-> Abstract!Call("pread", o, n, <<>>),
                   is |-> Abstract!Data(Abstract!Part(Shown, o, k))]
  BY <1>2, <1>3
<1> QED BY <1>4 DEF Abstract!Read, Abstract!Reply, Shown

\* The answer to a read is one of the abstract file.
LEMMA AnswerImplements ==
    ASSUME IInv, Whole, Answer
    PROVE  Abstract!Read
<1>1. /\ pc = "loop" /\ Enough /\ op = "pread" /\ UNCHANGED <<source, Shown>>
      /\ Return(Abstract!Data(Abstract!Part(local, offset, nbyte)))
  BY DEF Answer, file, Shown
<1>2. offset \in Nat /\ nbyte \in Nat /\ nbyte > 0 /\ nbyte \in 0..nbyte
  BY <1>1, SizeAssumption DEF IInv, Typed, Arguments
<1>3. Abstract!Part(local, offset, nbyte) = Abstract!Part(Shown, offset, nbyte)
  <2>1. CASE state = "SF_FINI"
    BY <1>1, <2>1, EndedShown
  <2>2. CASE Reached
    BY <1>2, <2>2, ReachedShown DEF Reached
  <2> QED BY <1>1, <2>1, <2>2 DEF Enough
<1> QED BY <1>1, <1>2, <1>3, ReadAnswers

\* What has come for a direct read is the part of the source that was asked for.
LEMMA DirectImplements ==
    ASSUME IInv, Stored, Direct
    PROVE  Abstract!Read
<1>1. /\ pc = "store" /\ op = "pread" /\ offset = numbytes /\ ~dirty /\ dirty' = dirty
      /\ source' = source /\ Return(Abstract!Data(buf))
      /\ (buf = <<>> => state = "SF_FINI") /\ Len(buf) + want <= nbyte
  BY DEF Stored, Direct, IInv, Control, Typed, States
<1>2. PICK s \in Seq(Bytes), o \in Nat, k \in Nat, e \in Nat :
         s = source /\ o = offset /\ k = Len(buf) /\ e = sent
  BY DEF IInv, Typed
<1>3. e = o + k /\ e <= Len(s) /\ buf = SubSeq(s, o + 1, e) /\ Shown = s /\ Shown' = s
  BY <1>1, <1>2 DEF IInv, Arrived, Shown
<1>4. buf = Abstract!Part(s, o, k)
  <2>1. o + k <= Len(s)
    BY <1>3
  <2>2. Abstract!Part(s, o, k) = SubSeq(s, o + 1, o + k)
    BY <2>1, PartIsSubSeq
  <2> QED BY <1>3, <2>2
<1>5. k \in 0..nbyte
  BY <1>1, <1>2 DEF IInv, Typed
<1>6. k = 0 => offset >= Len(Shown)
  <2> SUFFICES ASSUME k = 0 PROVE offset >= Len(Shown)
    OBVIOUS
  <2>1. buf = <<>>
    BY <1>2 DEF IInv, Typed
  <2>2. e = Len(s)
    BY <1>1, <1>2, <2>1 DEF IInv, Arrived
  <2>3. e = o
    BY <1>3
  <2> QED BY <1>2, <1>3, <2>2, <2>3
<1>7. Return(Abstract!Data(Abstract!Part(Shown, offset, k))) /\ UNCHANGED <<source, Shown>>
  BY <1>1, <1>2, <1>3, <1>4
<1> QED BY <1>1, <1>5, <1>6, <1>7, ReadAnswers


\* Whole is kept.
LEMMA WholeKept ==
    ASSUME IInv, Whole, ~CutUnseen, [Next]_vars
    PROVE  Whole'
<1> USE DEF Whole
<1>1. CASE Pread \/ Size \/ StartGet \/ Truncate \/ Pwrite
  <2>1. pc = "idle" /\ UNCHANGED <<state, dirty, local, source>>
    BY <1>1 DEF Pread, Size, StartGet, Truncate, Pwrite, Begin, Ready, Goto, file
  <2> QED BY <2>1
<1>2. CASE TruncateAll
  BY <1>2 DEF TruncateAll, Ready, file, Reset
<1>3. CASE FlushClean
  BY <1>3 DEF FlushClean, Ready, file
<1>4. CASE FlushDirty
  BY <1>4 DEF FlushDirty
<1>5. CASE FlushFails \/ Retry \/ GiveUp \/ WriteFails
  BY <1>5 DEF FlushFails, Retry, GiveUp, WriteFails, Reset
<1>6. CASE Started
  BY <1>6 DEF Started
<1>7. CASE StartFails \/ AnswerFails \/ FetchFails \/ StoreFails
  BY <1>7 DEF StartFails, AnswerFails, FetchFails, StoreFails, FailWith, Goto
<1>8. CASE Answer \/ Answered \/ GotEnough \/ More
  <2>1. pc \in {"loop", "finish"} /\ UNCHANGED <<state, dirty, local, source>>
    BY <1>8 DEF Answer, Answered, GotEnough, More, Goto, file
  <2> QED BY <2>1
<1>9. CASE Delivered
  BY <1>9 DEF Delivered, IInv, Control
<1>10. CASE Ended
  BY <1>10 DEF Ended, Goto
<1>11. CASE Stored
  <2> SUFFICES ASSUME state = "SF_FINI" PROVE local' = source'
    BY <1>11 DEF Stored
  <2>1. PICK s \in Seq(Bytes) : s = source
    BY DEF IInv, Typed
  <2>2. pc = "store" /\ local' = Abstract!Overlaid(local, numbytes, buf) /\ source' = s
    BY <1>11, <2>1 DEF Stored, Goto
  <2>3. local' = SubSeq(s, 1, sent)
    BY <2>1, <2>2, Grown
  <2>4. sent = Len(s)
    BY <2>1, <2>2 DEF IInv, Arrived
  <2>5. SubSeq(s, 1, Len(s)) = s
    BY SubSeqFull
  <2> QED BY <2>2, <2>3, <2>4, <2>5
<1>12. CASE Truncated
  <2>1. pc = "finish" /\ op = "truncate" /\ source' = source
    BY <1>12 DEF Truncated
  <2>2. CASE numbytes > offset
    BY <1>12, <2>2 DEF Truncated
  <2>3. CASE ~(numbytes > offset)
    <3>1. UNCHANGED <<local, numbytes, dirty>>
      BY <1>12, <2>3 DEF Truncated
    <3>2. CASE state = "SF_FINI"
      BY <2>1, <3>1, <3>2
    <3>3. CASE state # "SF_FINI" /\ ~dirty
      <4>1. PICK s \in Seq(Bytes), m \in Nat : s = source /\ m = numbytes
        BY DEF IInv, Typed
      <4>2. offset + nbyte <= m /\ nbyte = 0 /\ offset \in Nat /\ ~(m > offset)
        BY <2>1, <2>3, <3>3, <4>1 DEF IInv, Control, Enough, Reached, Arguments, Typed
      <4>3. m <= Len(s) /\ local = SubSeq(s, 1, m)
        BY <3>3, <4>1 DEF IInv, Arrived
      <4>4. m = offset
        BY <4>2
      <4>5. ~(m < Len(s))
        BY <2>1, <3>3, <4>1, <4>4 DEF CutUnseen
      <4>6. m = Len(s)
        BY <4>3, <4>5
      <4>7. SubSeq(s, 1, Len(s)) = s
        BY SubSeqFull
      <4> QED BY <2>1, <3>1, <4>1, <4>3, <4>6, <4>7
    <3> QED BY <3>1, <3>2, <3>3
  <2> QED BY <2>2, <2>3
<1>13. CASE Written
  BY <1>13 DEF Written
<1>14. CASE UNCHANGED vars
  BY <1>14 DEF vars, file
<1> QED BY <1>1, <1>2, <1>3, <1>4, <1>5, <1>6, <1>7, <1>8, <1>9, <1>10, <1>11, <1>12, <1>13, <1>14
        DEF Next, Call, Continue

\* Steps of a call that its users do not see.
LEMMA Unseen ==
    ASSUME IInv,
           \/ Pread \/ Size \/ StartGet \/ Truncate \/ Pwrite \/ Started \/ StartFails
           \/ AnswerFails \/ GotEnough \/ More \/ Delivered \/ Ended \/ FetchFails \/ StoreFails
           \/ Retry \/ (Stored /\ ~Direct) \/ UNCHANGED vars
    PROVE  UNCHANGED <<source, reply, Shown>>
<1> USE DEF Shown, Goto, file
<1>1. CASE Pread \/ Size \/ StartGet \/ Truncate \/ Pwrite
  BY <1>1 DEF Pread, Size, StartGet, Truncate, Pwrite, Begin
<1>2. CASE StartFails \/ AnswerFails \/ FetchFails \/ StoreFails
  BY <1>2 DEF StartFails, AnswerFails, FetchFails, StoreFails, FailWith
<1>3. CASE Started \/ GotEnough \/ More \/ Delivered \/ Ended
  BY <1>3 DEF Started, GotEnough, More, Delivered, Ended
<1>4. CASE Retry
  <2>1. ~dirty
    BY <1>4 DEF Retry, Worthwhile, IInv, Control
  <2> QED BY <1>4, <2>1 DEF Retry, Reset
<1>5. CASE Stored /\ ~Direct
  <2>1. ~dirty /\ dirty' = dirty
    BY <1>5 DEF Stored, IInv, Control
  <2> QED BY <1>5, <2>1 DEF Stored
<1>6. CASE UNCHANGED vars
  BY <1>6 DEF vars
<1> QED BY <1>1, <1>2, <1>3, <1>4, <1>5, <1>6

\* A call that fails shows the source again.
LEMMA FailureImplements ==
    ASSUME Reset, UNCHANGED source, reply'.is = Abstract!Error
    PROVE  Abstract!Fail
BY DEF Reset, Abstract!Fail

\* A call that is answered at once is a step of the abstract file.
LEMMA AtOnceImplements ==
    ASSUME IInv, Whole, TruncateAll \/ FlushClean \/ FlushDirty \/ FlushFails
    PROVE  Abstract!Next
<1>0. pc = "idle"
  BY DEF TruncateAll, FlushClean, FlushDirty, FlushFails, Ready
<1>1. CASE FlushClean
  <2>1. /\ reply' = [to |-> Abstract!Call("flush", 0, 0, <<>>), is |-> Abstract!Done]
        /\ ~dirty /\ UNCHANGED <<source, Shown>> /\ source' = Shown /\ Shown' = Shown
    BY <1>1 DEF FlushClean, ReturnAtOnce, Abstract!Reply, file, Shown
  <2>2. Abstract!Flush
    BY <2>1 DEF Abstract!Flush, Abstract!Reply, Shown
  <2> QED BY <2>2 DEF Abstract!Next
<1>2. CASE FlushDirty
  <2>1. /\ reply' = [to |-> Abstract!Call("flush", 0, 0, <<>>), is |-> Abstract!Done]
        /\ source' = Shown /\ Shown' = Shown
    BY <1>2 DEF FlushDirty, ReturnAtOnce, Abstract!Reply, Shown
  <2>2. Abstract!Flush
    BY <2>1 DEF Abstract!Flush, Abstract!Reply, Shown
  <2> QED BY <2>2 DEF Abstract!Next
<1>3. CASE FlushFails
  <2>1. /\ dirty /\ Reset /\ dirty' = FALSE
        /\ reply' = [to |-> Abstract!Call("flush", 0, 0, <<>>), is |-> Abstract!Error]
    BY <1>3 DEF FlushFails, ReturnAtOnce, Abstract!Reply, Reset
  <2>2. reply'.is = Abstract!Error /\ reply'.to.op = "flush"
    BY <2>1 DEF Abstract!Call
  <2>3. source' = source \/ source' \in Abstract!Prefixes(Shown)
    <3>1. CASE source' \in Abstract!Prefixes(local)
      BY <2>1, <3>1 DEF Shown
    <3>2. CASE source' = <<>>
      <4>1. PICK l \in Seq(Bytes) : l = local
        BY DEF IInv, Typed
      <4>2. PICK k, j \in Nat : k = 0 /\ j = Len(l)
        OBVIOUS
      <4>3. k <= j /\ j <= Len(l)
        BY <4>2
      <4>4. SubSeq(l, 1, k) \in Abstract!Prefixes(l)
        BY <4>3, Beginning
      <4>5. SubSeq(l, 1, k) = <<>>
        BY <4>2, SubSeqEmpty
      <4> QED BY <2>1, <3>2, <4>1, <4>4, <4>5 DEF Shown
    <3> QED BY <1>3, <3>1, <3>2 DEF FlushFails
  <2>4. Abstract!Fail
    BY <2>1, <2>2, <2>3 DEF Abstract!Fail, Shown
  <2> QED BY <2>4 DEF Abstract!Next
<1>4. CASE TruncateAll
  <2>1. PICK c \in Seq(Bytes) : c = Shown
    BY DEF IInv, Typed, Shown
  <2>2. CASE Reset /\ ReturnAtOnce("truncate", Abstract!Error)
    <3>1. reply' = [to |-> Abstract!Call("truncate", 0, 0, <<>>), is |-> Abstract!Error]
      BY <2>2 DEF ReturnAtOnce, Abstract!Reply
    <3>2. reply'.is = Abstract!Error /\ source' = source
      BY <1>4, <3>1 DEF TruncateAll
    <3> QED BY <2>2, <3>2, FailureImplements DEF Abstract!Next
  <2>3. CASE ReturnAtOnce("truncate", Abstract!Done) /\ Shown' = <<>>
    <3>1. PICK z \in Nat : z = 0
      OBVIOUS
    <3>2. Abstract!Part(c, z, 0) = <<>>
      BY <3>1, PartEnds
    <3>3. 0 \in Lengths /\ source' = source
      BY <1>4 DEF TruncateAll
    <3>4. Shown' = Abstract!Part(Shown, 0, 0)
      BY <2>1, <2>3, <3>1, <3>2
    <3>5. reply' = [to |-> Abstract!Call("truncate", 0, 0, <<>>), is |-> Abstract!Done]
      BY <2>3 DEF ReturnAtOnce, Abstract!Reply
    <3>6. Abstract!Truncate
      BY <3>3, <3>4, <3>5 DEF Abstract!Truncate, Abstract!Reply, Shown
    <3> QED BY <3>6 DEF Abstract!Next
  <2>4. \/ Reset /\ ReturnAtOnce("truncate", Abstract!Error)
        \/ ReturnAtOnce("truncate", Abstract!Done) /\ Shown' = <<>>
    <3>1. CASE state = "SF_FINI" /\ numbytes = 0 /\ UNCHANGED file
               /\ ReturnAtOnce("truncate", Abstract!Done)
      <4>1. Len(c) = 0
        BY <1>0, <2>1, <3>1, EndedShown
      <4>2. c = <<>>
        BY <4>1
      <4>3. Shown' = Shown
        BY <1>4, <3>1 DEF Shown, TruncateAll, file
      <4> QED BY <2>1, <3>1, <4>2, <4>3
    <3> QED BY <1>4, <3>1 DEF TruncateAll, Shown
  <2> QED BY <2>2, <2>3, <2>4
<1> QED BY <1>1, <1>2, <1>3, <1>4

\* The end of a call is a step of the abstract file.
LEMMA FinishImplements ==
    ASSUME IInv, Whole, Answered \/ Written \/ GiveUp \/ WriteFails
    PROVE  Abstract!Next
<1>1. CASE GiveUp \/ WriteFails
  <2>1. Reset /\ Return(Abstract!Error) /\ source' = source
    BY <1>1 DEF GiveUp, WriteFails
  <2>2. reply' = [to |-> Abstract!Call(op, offset, nbyte, data), is |-> Abstract!Error]
    BY <2>1 DEF Return, Abstract!Reply
  <2>3. reply'.is = Abstract!Error
    BY <2>2
  <2>4. Abstract!Fail
    BY <2>1, <2>3, FailureImplements
  <2> QED BY <2>4 DEF Abstract!Next
<1>2. CASE Answered /\ op = "size"
  <2>1. /\ pc = "finish" /\ UNCHANGED <<source, Shown>>
        /\ reply' = [to |-> Abstract!Call(op, offset, nbyte, data), is |-> Abstract!Size(numbytes)]
    BY <1>2 DEF Answered, Return, Abstract!Reply, file, Shown
  <2>2. offset = 0 /\ nbyte = 0 /\ data = <<>> /\ state = "SF_FINI"
    BY <1>2, <2>1 DEF IInv, Arguments, Control, Enough, Reached
  <2>3. numbytes = Len(Shown)
    BY <2>1, <2>2, EndedShown
  <2>4. reply' = [to |-> Abstract!Call("size", 0, 0, <<>>), is |-> Abstract!Size(Len(Shown))]
    BY <1>2, <2>1, <2>2, <2>3
  <2>5. Abstract!GetSize
    BY <2>1, <2>4 DEF Abstract!GetSize, Abstract!Reply, Shown
  <2> QED BY <2>5 DEF Abstract!Next
<1>3. CASE Answered /\ op = "startget"
  <2>1. /\ UNCHANGED <<source, Shown>>
        /\ reply' = [to |-> Abstract!Call(op, offset, nbyte, data), is |-> Abstract!Done]
    BY <1>3 DEF Answered, Return, Abstract!Reply, file, Shown
  <2>2. offset = 0 /\ nbyte = 0 /\ data = <<>>
    BY <1>3 DEF IInv, Arguments
  <2>3. reply' = [to |-> Abstract!Call("startget", 0, 0, <<>>), is |-> Abstract!Done]
    BY <1>3, <2>1, <2>2
  <2>4. Abstract!StartGet
    BY <2>1, <2>3 DEF Abstract!StartGet, Abstract!Reply, Shown
  <2> QED BY <2>4 DEF Abstract!Next
<1>4. CASE Written
  <2>1. /\ pc = "finish" /\ op = "pwrite" /\ source' = source
        /\ Shown' = Abstract!Overlaid(local, offset, data)
        /\ reply' = [to |-> Abstract!Call(op, offset, nbyte, data), is |-> Abstract!Size(Len(data))]
    BY <1>4 DEF Written, Return, Abstract!Reply, Shown
  <2>2. offset \in Offsets /\ nbyte = 0 /\ data \in Writes /\ state = "SF_FINI"
    BY <2>1 DEF IInv, Arguments, Control, Enough, Reached
  <2>3. local = Shown
    BY <2>1, <2>2, EndedShown
  <2>4. PICK o \in Offsets, d \in Writes : o = offset /\ d = data
    BY <2>2
  <2>5. /\ Shown' = Abstract!Overlaid(Shown, o, d)
        /\ reply' = [to |-> Abstract!Call("pwrite", o, 0, d), is |-> Abstract!Size(Len(d))]
    BY <2>1, <2>2, <2>3, <2>4
  <2>6. Abstract!Write
    BY <2>1, <2>5 DEF Abstract!Write, Abstract!Reply, Shown
  <2> QED BY <2>6 DEF Abstract!Next
<1> QED BY <1>1, <1>2, <1>3, <1>4 DEF Answered

\* A truncation cuts what is seen, unless it is the one that goes unseen.
LEMMA TruncatedImplements ==
    ASSUME IInv, Whole, ~CutUnseen, Truncated
    PROVE  Abstract!Truncate
<1>1. /\ pc = "finish" /\ op = "truncate" /\ source' = source
      /\ reply' = [to |-> Abstract!Call(op, offset, nbyte, data), is |-> Abstract!Done]
  BY DEF Truncated, Return, Abstract!Reply
<1>2. /\ offset \in Lengths /\ nbyte = 0 /\ data = <<>>
      /\ state = "SF_FINI" \/ offset + nbyte <= numbytes
  BY <1>1 DEF IInv, Arguments, Control, Enough, Reached
<1>3. PICK o \in Nat, m \in Nat, c \in Seq(Bytes) : o = offset /\ m = numbytes /\ c = Shown
  BY DEF IInv, Typed, Shown
<1>4. Shown' = Abstract!Part(c, 0, o)
  <2>1. CASE m > o
    <3>1. PICK z \in Nat : z = 0
      OBVIOUS
    <3>2. z + o <= numbytes
      BY <1>3, <2>1, <3>1
    <3>3. Abstract!Part(local, z, o) = Abstract!Part(Shown, z, o)
      BY <3>2, ReachedShown
    <3>4. local' = Abstract!Part(local, 0, o) /\ dirty' = TRUE
      BY <1>3, <2>1 DEF Truncated
    <3> QED BY <1>3, <3>1, <3>3, <3>4 DEF Shown
  <2>2. CASE ~(m > o)
    <3>1. Shown' = c
      BY <1>1, <1>3, <2>2 DEF Truncated, Shown
    <3>2. Len(c) <= o
      <4>1. CASE state = "SF_FINI"
        <5>1. m = Len(c)
          BY <1>1, <1>3, <4>1, EndedShown
        <5> QED BY <2>2, <5>1
      <4>2. CASE state # "SF_FINI"
        <5>1. ~dirty /\ c = source
          BY <1>3, <4>2 DEF IInv, Control, Shown
        <5>2. o <= m
          BY <1>2, <1>3, <4>2
        <5>3. m = o
          BY <2>2, <5>2
        <5>4. ~(m < Len(c))
          BY <1>1, <1>3, <5>1, <5>3 DEF CutUnseen
        <5> QED BY <5>3, <5>4
      <4> QED BY <4>1, <4>2
    <3>3. PICK z \in Nat : z = 0
      OBVIOUS
    <3>4. Abstract!Part(c, 0, o) = c
      BY <3>2, <3>3, PartEnds
    <3> QED BY <3>1, <3>4
  <2> QED BY <2>1, <2>2
<1>5. reply' = [to |-> Abstract!Call("truncate", o, 0, <<>>), is |-> Abstract!Done]
  BY <1>1, <1>2, <1>3
<1>6. o \in Lengths /\ Shown' = Abstract!Part(Shown, 0, o)
  BY <1>2, <1>3, <1>4
<1> QED BY <1>1, <1>5, <1>6 DEF Abstract!Truncate, Abstract!Reply, Shown

\* A serial file does what TranslatedFile promises, as long as no truncation goes unseen:
\* whatever the source and the temporary file do, reads and sizes are those of the source or
\* of the source with the changes, and only a call that answers an error drops a change
\* (av_sfile_pread, av_sfile_pwrite, av_sfile_truncate, av_sfile_flush, sfile_reset).
THEOREM ImplementsCorrect == Spec /\ []~CutUnseen => ImplementsFile
<1>1. Init => Abstract!Init
  BY DEF Init, Abstract!Init
<1>2. Init => Whole
  BY DEF Init, Whole
<1>3. IInv /\ Whole /\ ~CutUnseen /\ [Next]_vars => Whole'
  BY WholeKept
<1>4. IInv /\ Whole /\ ~CutUnseen /\ [Next]_vars => [Abstract!Next]_Abstract!vars
  <2> SUFFICES ASSUME IInv, Whole, ~CutUnseen, [Next]_vars
               PROVE  [Abstract!Next]_Abstract!vars
    OBVIOUS
  <2>1. CASE \/ Pread \/ Size \/ StartGet \/ Truncate \/ Pwrite \/ Started \/ StartFails
             \/ AnswerFails \/ GotEnough \/ More \/ Delivered \/ Ended \/ FetchFails \/ StoreFails
             \/ Retry \/ (Stored /\ ~Direct) \/ UNCHANGED vars
    BY <2>1, Unseen DEF Abstract!vars, Shown
  <2>2. CASE TruncateAll \/ FlushClean \/ FlushDirty \/ FlushFails
    BY <2>2, AtOnceImplements
  <2>3. CASE Answer
    BY <2>3, AnswerImplements DEF Abstract!Next
  <2>4. CASE Stored /\ Direct
    BY <2>4, DirectImplements DEF Abstract!Next
  <2>5. CASE Answered \/ Written \/ GiveUp \/ WriteFails
    BY <2>5, FinishImplements
  <2>6. CASE Truncated
    BY <2>6, TruncatedImplements DEF Abstract!Next
  <2> QED BY <2>1, <2>2, <2>3, <2>4, <2>5, <2>6 DEF Next, Call, Continue
<1>5. Spec /\ []~CutUnseen => []Whole
  BY <1>2, <1>3, Invariant, PTL DEF Spec
<1> QED BY <1>1, <1>4, <1>5, Invariant, PTL DEF Spec, ImplementsFile, Abstract!Spec

----------------------------------------------------------------------------
(* Texts: what the pipes and the buffers of Programs hold.                 *)

Texts == Seq(Range(Input))

\* One text after the other.
s ++ t == s \o t

\* A text is its beginning and its rest.
LEMMA Cut ==
    ASSUME NEW s \in Texts, NEW n \in Nat
    PROVE  /\ FirstOf(s, n) \in Texts /\ RestOf(s, n) \in Texts
           /\ FirstOf(s, n) ++ RestOf(s, n) = s
           /\ Len(FirstOf(s, n)) = Least(n, Len(s))
           /\ Len(RestOf(s, n)) = Len(s) - Least(n, Len(s))
<1>1. PICK len \in Nat : len = Len(s)
  BY LenProperties DEF Texts
<1>2. PICK m \in Nat : m = Least(n, len)
  BY DEF Least
<1>3. m <= len
  BY <1>2 DEF Least
<1>4. \A i \in 1..len : s[i] \in Range(Input)
  BY <1>1, ElementOfSeq DEF Texts
<1>5. SubSeq(s, 1, m) \in Texts /\ Len(SubSeq(s, 1, m)) = m
  <2>1. \A i \in 1..m : s[i] \in Range(Input)
    BY <1>3, <1>4
  <2>2. SubSeq(s, 1, m) \in Seq(Range(Input)) /\ Len(SubSeq(s, 1, m)) = IF 1 <= m THEN m - 1 + 1 ELSE 0
    BY <2>1, SubSeqProperties
  <2> QED BY <2>2 DEF Texts
<1>6. SubSeq(s, m + 1, len) \in Texts /\ Len(SubSeq(s, m + 1, len)) = len - m
  <2>1. \A i \in (m + 1)..len : s[i] \in Range(Input)
    BY <1>3, <1>4
  <2>2. /\ SubSeq(s, m + 1, len) \in Seq(Range(Input))
        /\ Len(SubSeq(s, m + 1, len)) = IF m + 1 <= len THEN len - (m + 1) + 1 ELSE 0
    BY <2>1, SubSeqProperties
  <2> QED BY <1>3, <2>2 DEF Texts
<1>7. SubSeq(s, 1, m) \o SubSeq(s, m + 1, len) = SubSeq(s, 1, len)
  <2>1. 1 \in 1..(Len(s) + 1) /\ m \in (1 - 1)..Len(s) /\ len \in m..Len(s)
    BY <1>1, <1>3
  <2>2. s \in Seq(Range(Input))
    BY DEF Texts
  <2> QED BY <2>1, <2>2, ConcatAdjacentSubSeq
<1>8. SubSeq(s, 1, len) = s
  BY <1>1, SubSeqFull DEF Texts
<1>9. FirstOf(s, n) = SubSeq(s, 1, m) /\ RestOf(s, n) = SubSeq(s, m + 1, len) /\ Least(n, Len(s)) = m
  BY <1>1, <1>2 DEF FirstOf, RestOf
<1> QED BY <1>1, <1>5, <1>6, <1>7, <1>8, <1>9 DEF ++

\* The empty text.
LEMMA Nothing ==
    /\ <<>> \in Texts /\ Len(<<>>) = 0
    /\ \A s \in Texts : Len(s) \in Nat /\ (Len(s) = 0 <=> s = <<>>)
<1>1. \A s \in Texts : s # <<>> => Len(s) \in Nat \ {0}
  BY EmptySeq DEF Texts
<1>2. \A s \in Texts : Len(s) \in Nat
  BY LenProperties DEF Texts
<1>3. <<>> \in Texts /\ Len(<<>>) = 0
  BY EmptySeq DEF Texts
<1> QED BY <1>1, <1>2, <1>3

\* Texts that are joined.
LEMMA Joined == \A s, t \in Texts : s ++ t \in Texts /\ Len(s ++ t) = Len(s) + Len(t)
BY ConcatProperties DEF Texts, ++

\* They are a text.
LEMMA Together == \A s, t \in Texts : s ++ t \in Texts
BY ConcatProperties DEF Texts, ++

\* In whichever order they are joined.
LEMMA Regrouped == \A s, t, u \in Texts : (s ++ t) ++ u = s ++ (t ++ u)
BY ConcatAssociative DEF Texts, ++

\* A text that is joined with nothing.
LEMMA Alone == \A s \in Texts : s ++ <<>> = s /\ <<>> ++ s = s
BY ConcatEmptySeq DEF Texts, ++

\* One byte is passed on.
LEMMA Passed == ASSUME NEW s \in Texts, NEW t \in Texts, t # <<>>
  PROVE /\ Append(s, Head(t)) \in Texts /\ Tail(t) \in Texts
        /\ \A u \in Texts : Append(s, Head(t)) ++ (Tail(t) ++ u) = s ++ (t ++ u)
        /\ Append(s, Head(t)) ++ Tail(t) = s ++ t
        /\ Len(Append(s, Head(t))) = Len(s) + 1
<1>1. s \in Seq(Range(Input)) /\ t \in Seq(Range(Input))
  BY DEF Texts
<1>2. PICK e : e = Head(t)
  OBVIOUS
<1>3. PICK r : r = Tail(t)
  OBVIOUS
<1>4. e \in Range(Input) /\ r \in Texts
  BY <1>1, <1>2, <1>3, HeadTailProperties DEF Texts
<1>5. <<e>> \in Texts
  BY <1>4 DEF Texts
<1>6. Append(s, e) = s ++ <<e>> /\ Append(s, e) \in Texts /\ Len(Append(s, e)) = Len(s) + 1
  BY <1>1, <1>4, AppendIsConcat, AppendProperties DEF Texts, ++
<1>7. t = <<e>> ++ r
  <2>1. PICK len \in Nat : len = Len(t) /\ len # 0
    BY Nothing
  <2>2. SubSeq(t, 1, len) = << t[1] >> ++ SubSeq(t, 2, len)
    <3>1. 1 \in 1..Len(t) /\ len \in 1..Len(t)
      BY <2>1
    <3>2. SubSeq(t, 1, len) = << t[1] >> ++ SubSeq(t, 1 + 1, len)
      BY <1>1, <3>1, SubSeqRecursiveFirst DEF ++
    <3> QED BY <3>2
  <2>3. SubSeq(t, 1, len) = t
    BY <1>1, <2>1, SubSeqFull
  <2>4. SubSeq(t, 2, len) = r
    BY <1>1, <1>3, <2>1, TailIsSubSeq
  <2>5. t[1] = e
    BY <1>1, <1>2
  <2> QED BY <2>2, <2>3, <2>4, <2>5
<1>8. ASSUME NEW u \in Texts PROVE Append(s, e) ++ (r ++ u) = s ++ (t ++ u)
  <2>1. (s ++ <<e>>) ++ (r ++ u) = s ++ ((<<e>> ++ r) ++ u)
    <3>1. PICK d \in Texts : d = <<e>>
      BY <1>5
    <3>2. (s ++ d) ++ (r ++ u) = s ++ ((d ++ r) ++ u)
      BY <1>4, Together, Regrouped
    <3> QED BY <3>1, <3>2
  <2> QED BY <1>6, <1>7, <2>1
<1>9. Append(s, e) ++ r = s ++ t
  BY <1>4, <1>5, <1>6, <1>7, Regrouped
<1> QED BY <1>2, <1>3, <1>4, <1>6, <1>8, <1>9

\* What a beginning of a text is.
LEMMA Beginnings ==
    ASSUME NEW s \in Texts, NEW t \in Texts
    PROVE  IsPrefix(s, t) <=> \E u \in Texts : t = s ++ u
<1>1. PICK m \in Nat : m = Len(s)
  BY LenProperties DEF Texts
<1>2. SubSeq(s, 1, m) = s
  BY <1>1, SubSeqFull DEF Texts
<1>3. ASSUME IsPrefix(s, t) PROVE \E u \in Texts : t = s ++ u
  <2>1. m <= Len(t) /\ SubSeq(t, 1, m) = s
    BY <1>1, <1>2, <1>3 DEF IsPrefix
  <2>2. Len(t) \in Nat
    BY Nothing
  <2>3. FirstOf(t, m) = SubSeq(t, 1, m)
    BY <2>1, <2>2 DEF FirstOf, Least
  <2>4. t = s ++ RestOf(t, m) /\ RestOf(t, m) \in Texts
    BY <2>1, <2>3, Cut
  <2> QED BY <2>4
<1>4. ASSUME NEW u \in Texts, t = s ++ u PROVE IsPrefix(s, t)
  <2>1. Len(t) = m + Len(u) /\ Len(u) \in Nat
    BY <1>1, <1>4, Joined, Nothing
  <2>2. t \in Seq(Range(Input)) /\ s \in Seq(Range(Input)) /\ u \in Seq(Range(Input))
    BY DEF Texts
  <2>3. \A i \in 1..m : t[i] = s[i]
    <3>1. \A i \in 1..(Len(s) + Len(u)) : (s ++ u)[i] = IF i <= Len(s) THEN s[i] ELSE u[i - Len(s)]
      BY <2>2, ConcatProperties DEF ++
    <3> QED BY <1>1, <1>4, <2>1, <3>1
  <2>4. SubSeq(t, 1, m) = s
    <3>1. FirstOf(t, m) = SubSeq(t, 1, m)
      BY <2>1 DEF FirstOf, Least
    <3>2. FirstOf(t, m) \in Texts /\ Len(FirstOf(t, m)) = m
      <4>1. Least(m, Len(t)) = m
        BY <2>1 DEF Least
      <4> QED BY <4>1, Cut
    <3>3. SubSeq(t, 1, m) \in Seq(Range(Input)) /\ Len(SubSeq(t, 1, m)) = Len(s)
      BY <1>1, <3>1, <3>2 DEF Texts
    <3>4. \A i \in 1..m : SubSeq(t, 1, m)[i] = t[i]
      <4>1. \A i \in 1..m : t[i] \in Range(Input)
        BY <2>1, <2>2, ElementOfSeq
      <4>2. \A i \in 1..(m - 1 + 1) : SubSeq(t, 1, m)[i] = t[1 + i - 1]
        BY <4>1, SubSeqProperties
      <4> QED BY <4>2
    <3>5. \A i \in 1..Len(SubSeq(t, 1, m)) : SubSeq(t, 1, m)[i] = s[i]
      BY <1>1, <2>3, <3>3, <3>4
    <3> QED BY <2>2, <3>3, <3>5, SeqEqual
  <2>5. Len(s) <= Len(t)
    BY <1>1, <2>1
  <2> QED BY <1>1, <1>2, <2>4, <2>5 DEF IsPrefix
<1> QED BY <1>3, <1>4

\* A set of positions has a first one, and a last one if it is bounded.
LEMMA FirstPosition ==
    ASSUME NEW T, T \subseteq Nat, T # {}
    PROVE  \E i \in T : \A j \in T : i <= j
<1>1. PICK i \in T : \A j \in T : <<j, i>> \notin OpToRel(<, Nat)
  BY NatLessThanWellFounded, WFMin
<1>2. \A j \in T : ~(j < i)
  BY <1>1 DEF OpToRel
<1> QED BY <1>2

\* A set of positions has a last one.
LEMMA LastPosition ==
    ASSUME NEW len \in Nat, NEW T, T \subseteq 1..len, T # {}
    PROVE  \E i \in T : \A j \in T : i >= j
<1> DEFINE U == {k \in Nat : \E i \in T : k = len - i}
<1>1. U \subseteq Nat
  OBVIOUS
<1>2. U # {}
  <2>1. PICK i \in T : TRUE
    OBVIOUS
  <2>2. len - i \in Nat
    BY <2>1
  <2> QED BY <2>1, <2>2
<1>3. PICK k \in U : \A m \in U : k <= m
  BY <1>1, <1>2, FirstPosition
<1>4. PICK i \in T : k = len - i
  BY <1>3
<1>5. ASSUME NEW j \in T PROVE i >= j
  <2>1. i \in 1..len /\ j \in 1..len
    OBVIOUS
  <2>2. len - j \in U
    BY <2>1
  <2> QED BY <1>3, <1>4, <2>1, <2>2
<1> QED BY <1>5

\* Where the lines of a text end.
LEMMA EndsWithin ==
    ASSUME NEW s \in Texts
    PROVE  /\ Ends(s) \subseteq 1..Len(s)
           /\ Ends(s) # {} => (CHOOSE i \in Ends(s) : \A j \in Ends(s) : i <= j) \in Nat \ {0}
           /\ Ends(s) # {} => /\ (CHOOSE i \in Ends(s) : \A j \in Ends(s) : i >= j) \in Ends(s)
                              /\ (CHOOSE i \in Ends(s) : \A j \in Ends(s) : i >= j) \in Nat
<1>1. PICK len \in Nat : len = Len(s)
  BY LenProperties DEF Texts
<1>2. Ends(s) \subseteq 1..len
  BY <1>1, LenProperties DEF Ends, Texts
<1>3. ASSUME Ends(s) # {} PROVE (CHOOSE i \in Ends(s) : \A j \in Ends(s) : i <= j) \in Nat \ {0}
  <2>1. \E i \in Ends(s) : \A j \in Ends(s) : i <= j
    BY <1>2, <1>3, FirstPosition
  <2>2. (CHOOSE i \in Ends(s) : \A j \in Ends(s) : i <= j) \in Ends(s)
    BY <2>1
  <2>3. PICK k : k = CHOOSE i \in Ends(s) : \A j \in Ends(s) : i <= j
    OBVIOUS
  <2>4. k \in Ends(s)
    BY <2>2, <2>3
  <2>5. k \in Nat \ {0}
    BY <1>2, <2>4
  <2> QED BY <2>3, <2>5
<1>4. ASSUME Ends(s) # {} PROVE (CHOOSE i \in Ends(s) : \A j \in Ends(s) : i >= j) \in Ends(s)
  <2>1. \E i \in Ends(s) : \A j \in Ends(s) : i >= j
    BY <1>2, <1>4, LastPosition
  <2> QED BY <2>1
<1> QED BY <1>1, <1>2, <1>3, <1>4

----------------------------------------------------------------------------
(* The type invariant of Programs, and what its reads of a pipe give.      *)

Filebufs == [avail : BOOLEAN, eof : BOOLEAN, buf : Texts]
Wrongs   == [left : Nat, short : BOOLEAN, grumbles : Nat, grumbled : BOOLEAN]
Statuses == {"none", "runs", "done", "failed"}
Tasks    == {"none", "read", "write", "endput", "getline", "wait"}
Turns    == {"idle", "check", "poll", "turn", "flush", "reap"}

ProgramTyped ==
    /\ use \in Uses \cup {"none"}
    /\ base \in Texts /\ at \in Nat /\ cbuf \in Texts
    /\ program \in [status : Statuses, held : Texts, say : Texts]
    /\ pipes \in [Pipes -> Texts] /\ fbs \in [Pipes -> Filebufs]
    /\ infed \in BOOLEAN /\ shared \in BOOLEAN
    /\ got \in Texts /\ put \in Nat
    /\ step \in Turns /\ task \in [op : Tasks, n : Nat] /\ result \in {"ok", "end", "EIO"}
    /\ mishaps \in Wrongs

\* What a read of a pipe gives: the beginning of what is in it.
Given(p, n, r) ==
    /\ r.data \in Texts /\ Len(r.data) <= n
    /\ r.f \in Filebufs /\ r.f.buf = fbs[p].buf /\ r.f.avail = FALSE
    /\ RestOf(pipes[p], Len(r.data)) \in Texts
    /\ r.data ++ RestOf(pipes[p], Len(r.data)) = pipes[p]
    /\ n # 0 /\ ~fbs[p].eof /\ r.f.eof => fbs[p].avail /\ pipes[p] = <<>>
    /\ fbs[p].eof => r.f.eof
    /\ fbs[p].avail /\ pipes[p] = <<>> => r.f.eof
    /\ pipes[p] = <<>> => r.data = <<>>

\* RealRead gives what is first in the buffer and the pipe.
LEMMA RealReadGives ==
    ASSUME ProgramTyped, NEW p \in Pipes, NEW n \in Nat
    PROVE  Given(p, n, RealRead(p, n))
<1>0. PICK r : r = RealRead(p, n)
  OBVIOUS
<1>1. PICK f \in Filebufs : f = fbs[p]
  BY DEF ProgramTyped
<1>2. PICK t \in Texts : t = pipes[p]
  BY DEF ProgramTyped
<1>3. PICK d : d = IF f.avail THEN FirstOf(t, n) ELSE <<>>
  OBVIOUS
<1>4. r = [data |-> d, f |-> [f EXCEPT !.avail = FALSE, !.eof = f.eof \/ (f.avail /\ d = <<>>)]]
  BY <1>0, <1>1, <1>2, <1>3 DEF RealRead
<1>5. Len(t) \in Nat /\ f.avail \in BOOLEAN /\ f.eof \in BOOLEAN /\ f.buf \in Texts
  BY Nothing DEF Filebufs
<1>6. d \in Texts /\ Len(d) <= n /\ Len(d) <= Len(t) /\ FirstOf(t, Len(d)) = d
  <2>1. CASE f.avail
    <3>1. d = FirstOf(t, n) /\ d \in Texts /\ Len(d) = Least(n, Len(t))
      BY <1>3, <2>1, Cut
    <3>2. Least(n, Len(t)) <= n /\ Least(n, Len(t)) <= Len(t)
      BY <1>5 DEF Least
    <3>3. Least(Least(n, Len(t)), Len(t)) = Least(n, Len(t))
      BY <1>5 DEF Least
    <3>4. FirstOf(t, Len(d)) = FirstOf(t, n)
      BY <3>1, <3>3 DEF FirstOf
    <3> QED BY <3>1, <3>2, <3>4
  <2>2. CASE ~f.avail
    <3>1. d = <<>> /\ d \in Texts /\ Len(d) = 0
      BY <1>3, <2>2, Nothing
    <3>2. FirstOf(t, 0) \in Texts /\ Len(FirstOf(t, 0)) = 0
      <4>1. Least(0, Len(t)) = 0
        BY <1>5 DEF Least
      <4> QED BY <4>1, Cut
    <3>3. FirstOf(t, 0) = <<>>
      BY <3>2, Nothing
    <3> QED BY <1>5, <3>1, <3>3
  <2> QED BY <1>5, <2>1, <2>2
<1>7. RestOf(t, Len(d)) \in Texts /\ d ++ RestOf(t, Len(d)) = t
  <2>1. Len(d) \in Nat
    BY <1>6, Nothing
  <2> QED BY <1>6, <2>1, Cut
<1>8. r.data = d /\ r.f = [f EXCEPT !.avail = FALSE, !.eof = f.eof \/ (f.avail /\ d = <<>>)]
  BY <1>4
<1>9. r.f \in Filebufs /\ r.f.buf = f.buf /\ r.f.avail = FALSE /\ r.f.eof = (f.eof \/ (f.avail /\ d = <<>>))
  BY <1>5, <1>8 DEF Filebufs
<1>10. ASSUME n # 0, f.avail, d = <<>> PROVE t = <<>>
  <2>1. Least(n, Len(t)) = 0
    <3>1. d = FirstOf(t, n)
      BY <1>3, <1>10
    <3>2. Len(FirstOf(t, n)) = Least(n, Len(t))
      BY Cut
    <3>3. Len(d) = 0
      BY <1>6, <1>10, Nothing
    <3> QED BY <3>1, <3>2, <3>3
  <2>2. Len(t) = 0
    BY <1>5, <1>10, <2>1 DEF Least
  <2> QED BY <2>2, Nothing
<1>11. ASSUME t = <<>> PROVE d = <<>>
  <2>1. Len(d) = 0
    BY <1>6, <1>11, Nothing
  <2> QED BY <1>6, <2>1, Nothing
<1>12. Given(p, n, r)
  BY <1>1, <1>2, <1>5, <1>6, <1>7, <1>8, <1>9, <1>10, <1>11 DEF Given
<1> QED BY <1>0, <1>12

\* What a read of a line gives: what was read ahead and what is in the pipe, as far as the
\* line goes.
LineGiven(p, r) ==
    /\ r.line \in Texts /\ r.data \in Texts /\ r.f \in Filebufs
    /\ fbs[p].buf ++ r.data = r.line ++ r.f.buf
    /\ RestOf(pipes[p], Len(r.data)) \in Texts
    /\ r.data ++ RestOf(pipes[p], Len(r.data)) = pipes[p]
    /\ ~fbs[p].eof /\ r.f.eof => fbs[p].avail /\ pipes[p] = <<>>
    /\ fbs[p].eof => r.f.eof
    /\ r.f.avail => fbs[p].avail /\ r.data = <<>>
    /\ pipes[p] = <<>> => r.data = <<>>
    /\ r.line = <<>> => Ends(r.f.buf) = {}

\* Readline gives a line of them.
LEMMA ReadlineGives ==
    ASSUME ProgramTyped, NEW p \in Pipes
    PROVE  LineGiven(p, Readline(p))
<1>0. PICK r : r = Readline(p)
  OBVIOUS
<1>1. PICK f \in Filebufs : f = fbs[p]
  BY DEF ProgramTyped
<1>2. PICK t \in Texts : t = pipes[p]
  BY DEF ProgramTyped
<1> DEFINE q == RealRead(p, PipeSize)
           g == IF Ends(fbs[p].buf) # {} \/ fbs[p].eof THEN [data |-> <<>>, f |-> fbs[p]] ELSE q
           b == fbs[p].buf \o g.data
           n == IF Ends(b) # {} THEN CHOOSE i \in Ends(b) : \A j \in Ends(b) : i <= j
                ELSE IF fbs[p].eof THEN Len(b) ELSE 0
<1>7. r = [line |-> FirstOf(b, n), data |-> g.data, f |-> [g.f EXCEPT !.buf = RestOf(b, n)]]
  BY <1>0 DEF Readline
<1> HIDE DEF q, g, b, n
<1>3. g = IF Ends(f.buf) # {} \/ f.eof THEN [data |-> <<>>, f |-> f] ELSE q
  BY <1>1 DEF g
<1>5. b = f.buf ++ g.data
  BY <1>1 DEF b, ++
<1>8. f.buf \in Texts
  BY DEF Filebufs
<1>9. /\ g.data \in Texts /\ g.f \in Filebufs
      /\ RestOf(t, Len(g.data)) \in Texts /\ g.data ++ RestOf(t, Len(g.data)) = t
      /\ ~f.eof /\ g.f.eof => f.avail /\ t = <<>>
      /\ f.eof => g.f.eof
      /\ g.f.avail => f.avail /\ g.data = <<>>
      /\ t = <<>> => g.data = <<>>
  <2>1. CASE Ends(f.buf) # {} \/ f.eof
    <3>1. g.data = <<>> /\ g.f = f
      BY <1>3, <2>1
    <3>2. Least(0, Len(t)) = 0
      BY Nothing DEF Least
    <3>3. RestOf(t, 0) \in Texts /\ FirstOf(t, 0) \in Texts /\ Len(FirstOf(t, 0)) = 0
      BY <3>2, Cut
    <3>4. FirstOf(t, 0) ++ RestOf(t, 0) = t
      BY Cut
    <3>5. FirstOf(t, 0) = <<>>
      BY <3>3, Nothing
    <3> QED BY <3>1, <3>3, <3>4, <3>5, Nothing
  <2>2. CASE ~(Ends(f.buf) # {} \/ f.eof)
    <3>1. g = q
      BY <1>3, <2>2
    <3>2. PipeSize \in Nat /\ PipeSize # 0
      BY PipeAssumption
    <3>3. Given(p, PipeSize, q)
      BY <3>2, RealReadGives DEF q
    <3> QED BY <1>1, <1>2, <2>2, <3>1, <3>2, <3>3 DEF Given
  <2> QED BY <2>1, <2>2
<1>10. b \in Texts
  BY <1>5, <1>8, <1>9, Together
<1>11. n \in Nat /\ (Ends(b) # {} => n # 0)
  <2>1. CASE Ends(b) # {}
    BY <1>10, <2>1, EndsWithin DEF n
  <2>2. CASE Ends(b) = {}
    BY <1>10, <2>2, Nothing DEF n
  <2> QED BY <2>1, <2>2
<1>12. FirstOf(b, n) \in Texts /\ RestOf(b, n) \in Texts /\ FirstOf(b, n) ++ RestOf(b, n) = b
  BY <1>10, <1>11, Cut
<1>13. r.line = FirstOf(b, n) /\ r.data = g.data /\ r.f = [g.f EXCEPT !.buf = RestOf(b, n)]
  BY <1>7
<1>14. r.f \in Filebufs /\ r.f.buf = RestOf(b, n) /\ r.f.eof = g.f.eof /\ r.f.avail = g.f.avail
  BY <1>9, <1>12, <1>13 DEF Filebufs
<1>15. ASSUME FirstOf(b, n) = <<>> PROVE Ends(RestOf(b, n)) = {}
  <2>1. Len(b) \in Nat /\ Least(n, Len(b)) = 0
    BY <1>10, <1>11, <1>15, Cut, Nothing
  <2>2. RestOf(b, n) = b
    BY <1>10, <1>12, <1>15, Alone
  <2>3. ASSUME Ends(b) # {} PROVE FALSE
    <3>1. Len(b) = 0
      BY <1>11, <2>1, <2>3 DEF Least
    <3>2. Ends(b) \subseteq 1..0
      BY <1>10, <3>1, EndsWithin
    <3> QED BY <2>3, <3>2
  <2> QED BY <2>2, <2>3
<1>16. f.buf ++ g.data = FirstOf(b, n) ++ RestOf(b, n)
  BY <1>5, <1>12
<1>17. LineGiven(p, r)
  BY <1>1, <1>2, <1>9, <1>12, <1>13, <1>14, <1>15, <1>16 DEF LineGiven
<1> QED BY <1>0, <1>17

----------------------------------------------------------------------------
(* The inductive invariant of Programs.                                    *)

Alive == program.status \in {"runs", "done"}

\* Which call is under way, and how far it can have come.
ProgramCalls ==
    /\ step = "idle" <=> task.op = "none"
    /\ step # "idle" => result = "ok"
    /\ task.op \in {"read", "write"} => task.n # 0
    /\ task.op = "read" => use = "get"
    /\ task.op \in {"write", "endput"} => use = "put"
    /\ task.op = "write" => put + task.n <= Len(Input)
    /\ task.op = "getline" => use = "list"
    /\ task.op = "wait" => use = "copy"
    /\ step = "flush" => task.op = "endput"
    /\ step = "reap" => task.op \in {"read", "endput", "getline"}
    /\ use = "none" => step = "idle" /\ program.status = "none"
    /\ result = "end" => program.status = "none"
    /\ use \notin {"get", "put"} => at = 0
    /\ put <= Len(Input)

\* What has been seen of the program is so, and stays so.
ProgramSeen ==
    /\ Len(pipes["in"]) <= PipeSize
    /\ use \notin {"get", "put"} => pipes["in"] = <<>>
    /\ fbs["out"].avail /\ pipes["out"] = <<>> => program.status # "runs"
    /\ fbs["out"].eof => program.status # "runs" /\ pipes["out"] = <<>>
    /\ use = "put" => Len(cbuf) < CbufSize
    /\ program.status = "done" => program.held = <<>> /\ pipes["in"] = <<>> /\ ~infed
    /\ program.status = "done" /\ use \in {"get", "put"} => ~shared
    /\ step \in {"flush", "reap"} => fbs["out"].eof

\* A file read through a filter: what is received, on its way back, held by the filter, on
\* its way there and read ahead is the base file up to its position.
FileArrives == use = "get" =>
    /\ Alive => got ++ (pipes["out"] ++ (program.held ++ (pipes["in"] ++ cbuf))) = SubSeq(base, 1, at)
    /\ IsPrefix(got ++ pipes["out"], base)
    /\ at <= Len(base)
    /\ ~infed => cbuf = <<>> /\ at = Len(base)
    /\ result = "end" => got = base

\* A file written through a filter.
FileLeaves == use = "put" /\ ~mishaps.short =>
    /\ Alive /\ result # "EIO" =>
         base ++ (cbuf ++ (pipes["out"] ++ (program.held ++ pipes["in"]))) = SubSeq(Input, 1, put)
    /\ step = "reap" => cbuf = <<>>
    /\ result = "end" => base = SubSeq(Input, 1, put)

\* The lines of a listing.
ListingArrives == use = "list" =>
    /\ Alive => got ++ (fbs["out"].buf ++ (pipes["out"] ++ program.held)) = Input
    /\ IsPrefix(got ++ (fbs["out"].buf ++ pipes["out"]), Input)
    /\ step = "reap" => Ends(fbs["out"].buf) = {}
    /\ result = "end" => Len(got) >= Lines

ProgramInv == ProgramTyped /\ ProgramCalls /\ ProgramSeen /\ FileArrives /\ FileLeaves /\ ListingArrives

\* Something goes wrong, and the base file took what it was given.
LEMMA MishapTyped ==
    ASSUME mishaps \in Wrongs, Mishap
    PROVE  mishaps' \in Wrongs /\ mishaps'.short = mishaps.short
<1>1. PICK m \in Wrongs : m = mishaps
  OBVIOUS
<1>2. m.left \in Nat /\ m.left > 0 /\ mishaps' = [m EXCEPT !.left = m.left - 1]
  BY <1>1 DEF Mishap, Wrongs
<1>3. m.left - 1 \in Nat
  BY <1>2
<1> QED BY <1>1, <1>2, <1>3 DEF Wrongs

\* Nothing has come so far.
LEMMA Untouched ==
    /\ <<>> ++ <<>> = <<>>
    /\ \A s \in Texts : IsPrefix(<<>>, s) /\ SubSeq(s, 1, 0) = <<>>
<1>1. <<>> ++ <<>> = <<>>
  BY Nothing, Alone
<1>2. ASSUME NEW s \in Texts PROVE IsPrefix(<<>>, s)
  BY Nothing, Alone, Beginnings
<1>3. ASSUME NEW s \in Texts PROVE SubSeq(s, 1, 0) = <<>>
  BY SubSeqEmpty
<1> QED BY <1>1, <1>2, <1>3

----------------------------------------------------------------------------
(* Starting and ending a program.                                          *)

\* The invariant of the programs holds at the start.
LEMMA InitSafe == ProgramInit => ProgramInv
<1> SUFFICES ASSUME ProgramInit PROVE ProgramInv
  OBVIOUS
<1>0. Input \in Texts /\ <<>> \in Texts /\ Len(<<>>) = 0 /\ Len(Input) \in Nat
  BY InputAssumption, Nothing DEF Texts
<1>1. ProgramTyped
  <2>1. program \in [status : Statuses, held : Texts, say : Texts]
    BY <1>0 DEF ProgramInit, NoProgram, Statuses
  <2>2. pipes \in [Pipes -> Texts] /\ fbs \in [Pipes -> Filebufs]
    BY <1>0 DEF ProgramInit, NoPipes, NewFilebuf, Filebufs
  <2>3. mishaps \in Wrongs
    BY BoundAssumption DEF ProgramInit, Wrongs
  <2>4. task \in [op : Tasks, n : Nat] /\ step \in Turns
    BY DEF ProgramInit, NoTask, Tasks, Turns
  <2> QED BY <1>0, <2>1, <2>2, <2>3, <2>4 DEF ProgramInit, ProgramTyped
<1>2. ProgramCalls /\ ProgramSeen
  BY <1>0, PipeAssumption DEF ProgramInit, ProgramCalls, ProgramSeen, NoTask, NoProgram, NoPipes, NewFilebuf, Pipes
<1>3. FileArrives /\ FileLeaves /\ ListingArrives
  BY DEF ProgramInit, FileArrives, FileLeaves, ListingArrives
<1> QED BY <1>1, <1>2, <1>3 DEF ProgramInv

\* A program that has just begun.
LEMMA SafeBegun ==
    ASSUME ProgramInv, use = "none", NEW u \in Uses, Begun(u),
           base' = (IF u = "put" THEN <<>> ELSE base), UNCHANGED <<at, step, task>>
    PROVE  ProgramInv'
<1>0. Input \in Texts /\ <<>> \in Texts /\ Len(<<>>) = 0 /\ Len(Input) \in Nat /\ base \in Texts
  BY InputAssumption, Nothing DEF Texts, ProgramInv, ProgramTyped
<1>1. /\ use' = u /\ program' = [status |-> "runs", say |-> <<>>,
                                  held |-> IF u \in {"list", "copy"} THEN Input ELSE <<>>]
      /\ pipes' = NoPipes /\ infed' = (u \in {"get", "put"})
      /\ fbs' = [p \in Pipes |-> NewFilebuf]
      /\ cbuf' = <<>> /\ got' = <<>> /\ put' = 0 /\ result' = "ok"
      /\ shared' \in BOOLEAN
  BY DEF Begun
<1>2. mishaps' \in Wrongs
  <2>1. CASE UNCHANGED mishaps
    BY <2>1 DEF ProgramInv, ProgramTyped
  <2>2. CASE Mishap
    BY <2>2, MishapTyped DEF ProgramInv, ProgramTyped
  <2> QED BY <2>1, <2>2 DEF Begun
<1>3. /\ pipes'["in"] = <<>> /\ pipes'["out"] = <<>>
      /\ fbs'["out"].avail = FALSE /\ fbs'["out"].eof = FALSE /\ fbs'["out"].buf = <<>>
  BY <1>1 DEF NoPipes, NewFilebuf, Pipes
<1>4. at = 0 /\ step = "idle" /\ task.op = "none"
  BY DEF ProgramInv, ProgramCalls
<1>5. ProgramTyped'
  <2>1. program' \in [status : Statuses, held : Texts, say : Texts]
    BY <1>0, <1>1 DEF Statuses
  <2>2. pipes' \in [Pipes -> Texts] /\ fbs' \in [Pipes -> Filebufs]
    BY <1>0, <1>1 DEF NoPipes, NewFilebuf, Filebufs
  <2> QED BY <1>0, <1>1, <1>2, <2>1, <2>2 DEF ProgramInv, ProgramTyped
<1>6. ProgramCalls' /\ ProgramSeen'
  <2>1. ProgramCalls'
    <3>1. program'.status = "runs" /\ at' = 0 /\ step' = "idle" /\ task'.op = "none"
      BY <1>1, <1>4
    <3>2. use' # "none" /\ put' <= Len(Input) /\ result' = "ok"
      BY <1>0, <1>1 DEF Uses
    <3> QED BY <3>1, <3>2 DEF ProgramCalls
  <2>2. ProgramSeen'
    <3>1. program'.status = "runs" /\ step' = "idle"
      BY <1>1, <1>4
    <3>2. Len(pipes'["in"]) <= PipeSize /\ Len(cbuf') < CbufSize
      BY <1>0, <1>1, <1>3, PipeAssumption
    <3> QED BY <1>3, <3>1, <3>2 DEF ProgramSeen
  <2> QED BY <2>1, <2>2
<1>7. FileArrives'
  <2>1. ASSUME u = "get" PROVE FileArrives'
    <3>1. base' = base /\ at' = 0 /\ got' = <<>> /\ cbuf' = <<>> /\ program'.held = <<>>
      BY <1>1, <1>4, <2>1
    <3>2. infed' = TRUE /\ result' = "ok"
      BY <1>1, <2>1
    <3>3. got' ++ (pipes'["out"] ++ (program'.held ++ (pipes'["in"] ++ cbuf'))) = SubSeq(base', 1, at')
      BY <1>0, <1>3, <3>1, Untouched
    <3>4. IsPrefix(got' ++ pipes'["out"], base') /\ at' <= Len(base')
      BY <1>0, <1>3, <3>1, Untouched, Nothing
    <3> QED BY <3>2, <3>3, <3>4 DEF FileArrives
  <2> QED BY <1>1, <2>1 DEF FileArrives
<1>8. FileLeaves'
  BY <1>0, <1>1, <1>3, <1>4, Untouched DEF FileLeaves
<1>9. ListingArrives'
  BY <1>0, <1>1, <1>3, <1>4, Untouched, Alone DEF ListingArrives
<1> QED BY <1>5, <1>6, <1>7, <1>8, <1>9 DEF ProgramInv

\* Unstarted keeps the invariant.
LEMMA SafeUnstarted ==
    ASSUME ProgramInv, use = "none", Unstarted, base' \in Texts, UNCHANGED <<at, step, task>>
    PROVE  ProgramInv'
<1>1. mishaps' \in Wrongs
  BY MishapTyped DEF Unstarted, ProgramInv, ProgramTyped
<1>2. ProgramTyped'
  BY <1>1 DEF Unstarted, ProgramInv, ProgramTyped
<1>3. ProgramCalls' /\ ProgramSeen'
  BY DEF Unstarted, ProgramInv, ProgramCalls, ProgramSeen
<1>4. FileArrives' /\ FileLeaves' /\ ListingArrives'
  BY DEF Unstarted, FileArrives, FileLeaves, ListingArrives
<1> QED BY <1>2, <1>3, <1>4 DEF ProgramInv

\* A program that is started keeps the invariant.
LEMMA SafeStart == ProgramInv /\ (StartFilter \/ StartReverse \/ StartProgram) => ProgramInv'
<1> SUFFICES ASSUME ProgramInv, StartFilter \/ StartReverse \/ StartProgram PROVE ProgramInv'
  OBVIOUS
<1>0. base \in Texts /\ <<>> \in Texts
  BY Nothing DEF ProgramInv, ProgramTyped
<1>1. use = "none" /\ UNCHANGED <<at, step, task>>
  BY DEF StartFilter, StartReverse, StartProgram
<1>2. \/ \E u \in Uses : Begun(u) /\ base' = IF u = "put" THEN <<>> ELSE base
      \/ Unstarted /\ base' \in Texts
  <2>1. CASE StartFilter
    BY <1>0, <2>1 DEF StartFilter, Uses
  <2>2. CASE StartReverse
    BY <1>0, <2>2 DEF StartReverse, Uses
  <2>3. CASE StartProgram
    BY <1>0, <2>3 DEF StartProgram, Uses
  <2> QED BY <2>1, <2>2, <2>3
<1> QED BY <1>1, <1>2, SafeBegun, SafeUnstarted

\* StopProgram keeps the invariant.
LEMMA SafeStopProgram == ProgramInv /\ StopProgram => ProgramInv'
<1> SUFFICES ASSUME ProgramInv, StopProgram PROVE ProgramInv'
  OBVIOUS
<1>0. <<>> \in Texts /\ Len(<<>>) = 0 /\ Len(Input) \in Nat
  BY InputAssumption, Nothing DEF Texts
<1>1. ProgramTyped'
  <2>1. program' \in [status : Statuses, held : Texts, say : Texts]
    BY <1>0 DEF StopProgram, NoProgram, Statuses
  <2>2. pipes' \in [Pipes -> Texts] /\ fbs' \in [Pipes -> Filebufs]
    BY <1>0 DEF StopProgram, NoPipes, NewFilebuf, Filebufs
  <2>3. mishaps' \in Wrongs
    BY DEF StopProgram, ProgramInv, ProgramTyped, Wrongs
  <2>4. at' \in Nat
    BY DEF StopProgram, Rewound, ProgramInv, ProgramTyped
  <2> QED BY <1>0, <2>1, <2>2, <2>3, <2>4 DEF StopProgram, ProgramInv, ProgramTyped
<1>2. ProgramCalls' /\ ProgramSeen'
  <2>1. pipes'["in"] = <<>> /\ fbs'["out"].avail = FALSE /\ fbs'["out"].eof = FALSE
    BY DEF StopProgram, NoPipes, NewFilebuf, Pipes
  <2> QED BY <1>0, <2>1, PipeAssumption
          DEF StopProgram, NoProgram, Rewound, ProgramInv, ProgramCalls, ProgramSeen
<1>3. FileArrives' /\ FileLeaves' /\ ListingArrives'
  BY DEF StopProgram, FileArrives, FileLeaves, ListingArrives
<1> QED BY <1>1, <1>2, <1>3 DEF ProgramInv

----------------------------------------------------------------------------
(* The calls.                                                              *)

\* ReadFilter keeps the invariant.
LEMMA SafeReadFilter == ProgramInv /\ ReadFilter => ProgramInv'
<1> SUFFICES ASSUME ProgramInv, ReadFilter PROVE ProgramInv'
  BY DEF ProgramInv
<1>0. PICK n \in Nat \ {0} : AskProgram("get", "read", n, "check")
  BY InputAssumption DEF ReadFilter
<1>1. ProgramTyped'
  BY <1>0 DEF AskProgram, ProgramInv, ProgramTyped, Statuses, Tasks, Turns
<1>2. ProgramCalls' /\ ProgramSeen'
  BY <1>0 DEF AskProgram, ProgramInv, ProgramTyped, ProgramCalls, ProgramSeen
<1>3. FileArrives' /\ FileLeaves' /\ ListingArrives'
  BY <1>0 DEF AskProgram, ProgramInv, ProgramTyped, ProgramCalls, ProgramSeen, FileArrives, FileLeaves, ListingArrives, Alive
<1> QED BY <1>1, <1>2, <1>3 DEF ProgramInv

\* WriteFilter keeps the invariant.
LEMMA SafeWriteFilter == ProgramInv /\ WriteFilter => ProgramInv'
<1> SUFFICES ASSUME ProgramInv, WriteFilter PROVE ProgramInv'
  BY DEF ProgramInv
<1>0. PICK n \in Nat \ {0} : AskProgram("put", "write", n, "check") /\ put + n <= Len(Input)
  BY InputAssumption DEF WriteFilter
<1>1. ProgramTyped'
  BY <1>0 DEF AskProgram, ProgramInv, ProgramTyped, Statuses, Tasks, Turns
<1>2. ProgramCalls' /\ ProgramSeen'
  BY <1>0 DEF AskProgram, ProgramInv, ProgramTyped, ProgramCalls, ProgramSeen
<1>3. FileArrives' /\ FileLeaves' /\ ListingArrives'
  BY <1>0 DEF AskProgram, ProgramInv, ProgramTyped, ProgramCalls, ProgramSeen, FileArrives, FileLeaves, ListingArrives, Alive
<1> QED BY <1>1, <1>2, <1>3 DEF ProgramInv

\* EndFilter keeps the invariant.
LEMMA SafeEndFilter == ProgramInv /\ EndFilter => ProgramInv'
<1> SUFFICES ASSUME ProgramInv, EndFilter PROVE ProgramInv'
  BY DEF ProgramInv
<1>1. ProgramTyped'
  BY DEF EndFilter, ProgramInv, ProgramTyped, Statuses, Tasks, Turns
<1>2. ProgramCalls' /\ ProgramSeen'
  BY DEF EndFilter, ProgramInv, ProgramTyped, ProgramCalls, ProgramSeen
<1>3. FileArrives' /\ FileLeaves' /\ ListingArrives'
  BY DEF EndFilter, ProgramInv, ProgramTyped, ProgramCalls, ProgramSeen, FileArrives, FileLeaves, ListingArrives, Alive
<1> QED BY <1>1, <1>2, <1>3 DEF ProgramInv

\* Getline keeps the invariant.
LEMMA SafeGetline == ProgramInv /\ Getline => ProgramInv'
<1> SUFFICES ASSUME ProgramInv, Getline PROVE ProgramInv'
  BY DEF ProgramInv
<1>1. ProgramTyped'
  BY DEF Getline, AskProgram, ProgramInv, ProgramTyped, Statuses, Tasks, Turns
<1>2. ProgramCalls' /\ ProgramSeen'
  BY DEF Getline, AskProgram, ProgramInv, ProgramTyped, ProgramCalls, ProgramSeen
<1>3. FileArrives' /\ FileLeaves' /\ ListingArrives'
  BY DEF Getline, AskProgram, ProgramInv, ProgramTyped, ProgramCalls, ProgramSeen, FileArrives, FileLeaves, ListingArrives, Alive
<1> QED BY <1>1, <1>2, <1>3 DEF ProgramInv

\* WaitCopy keeps the invariant.
LEMMA SafeWaitCopy == ProgramInv /\ WaitCopy => ProgramInv'
<1> SUFFICES ASSUME ProgramInv, WaitCopy PROVE ProgramInv'
  BY DEF ProgramInv
<1>0. PICK n \in Nat \ {0} : AskProgram("copy", "wait", n, "turn")
  BY InputAssumption DEF WaitCopy
<1>1. ProgramTyped'
  BY <1>0 DEF AskProgram, ProgramInv, ProgramTyped, Statuses, Tasks, Turns
<1>2. ProgramCalls' /\ ProgramSeen'
  BY <1>0 DEF AskProgram, ProgramInv, ProgramTyped, ProgramCalls, ProgramSeen
<1>3. FileArrives' /\ FileLeaves' /\ ListingArrives'
  BY <1>0 DEF AskProgram, ProgramInv, ProgramTyped, ProgramCalls, ProgramSeen, FileArrives, FileLeaves, ListingArrives, Alive
<1> QED BY <1>1, <1>2, <1>3 DEF ProgramInv

\* CheckError keeps the invariant.
LEMMA SafeCheckError == ProgramInv /\ CheckError => ProgramInv'
<1> SUFFICES ASSUME ProgramInv, CheckError PROVE ProgramInv'
  OBVIOUS
<1>0. "err" \in Pipes /\ "in" \in Pipes /\ "out" \in Pipes
  BY DEF Pipes
<1>1. PICK r : r = Readline("err")
  OBVIOUS
<1>2. LineGiven("err", r)
  BY <1>0, <1>1, ReadlineGives DEF ProgramInv
<1> DEFINE rest == Ends(r.f.buf)
           n == IF rest = {} THEN 0 ELSE CHOOSE i \in rest : \A j \in rest : i >= j
<1>3. /\ fbs' = [fbs EXCEPT !["err"] = [r.f EXCEPT !.buf = RestOf(@, n)]]
      /\ pipes' = [pipes EXCEPT !["err"] = RestOf(@, Len(r.data))]
      /\ step' \in {"poll", "turn"}
  BY <1>1 DEF CheckError, GoesTo
<1>4. r.f \in Filebufs /\ r.f.buf \in Texts /\ RestOf(pipes["err"], Len(r.data)) \in Texts
  BY <1>2 DEF LineGiven, Filebufs
<1>5. n \in Nat
  BY <1>4, EndsWithin
<1> HIDE DEF n
<1>6. RestOf(r.f.buf, n) \in Texts
  BY <1>4, <1>5, Cut
<1>7. [r.f EXCEPT !.buf = RestOf(@, n)] \in Filebufs
  BY <1>4, <1>6 DEF Filebufs
<1>8. /\ fbs' \in [Pipes -> Filebufs] /\ pipes' \in [Pipes -> Texts]
      /\ fbs'["out"] = fbs["out"] /\ pipes'["out"] = pipes["out"] /\ pipes'["in"] = pipes["in"]
  BY <1>0, <1>3, <1>4, <1>7 DEF ProgramInv, ProgramTyped
<1>9. ProgramTyped'
  BY <1>3, <1>8 DEF CheckError, GoesTo, ProgramInv, ProgramTyped, Turns
<1>10. ProgramCalls' /\ ProgramSeen'
  BY <1>3, <1>8 DEF CheckError, GoesTo, ProgramInv, ProgramCalls, ProgramSeen
<1>11. FileArrives' /\ FileLeaves' /\ ListingArrives'
  BY <1>3, <1>8 DEF CheckError, GoesTo, ProgramInv, FileArrives, FileLeaves, ListingArrives, Alive
<1> QED BY <1>9, <1>10, <1>11 DEF ProgramInv

\* Poll keeps the invariant.
LEMMA SafePoll == ProgramInv /\ Poll => ProgramInv'
<1> SUFFICES ASSUME ProgramInv, Poll PROVE ProgramInv'
  BY DEF ProgramInv
<1>0. "err" \in Pipes /\ "in" \in Pipes /\ "out" \in Pipes
  BY DEF Pipes
<1>1. \A p \in Pipes : fbs[p] \in Filebufs /\ CanGo(p) \in BOOLEAN
  BY DEF ProgramInv, ProgramTyped, CanGo
<1>2. \A p \in Pipes : [fbs[p] EXCEPT !.avail = CanGo(p)] \in Filebufs
  BY <1>1 DEF Filebufs
<1>3. fbs' \in [Pipes -> Filebufs]
  BY <1>1, <1>2 DEF Poll
<1>4. /\ fbs'["out"].eof = fbs["out"].eof /\ fbs'["out"].buf = fbs["out"].buf
      /\ fbs'["out"].avail => fbs["out"].avail \/ CanGo("out")
  <2>1. fbs'["out"] = fbs["out"] \/ fbs'["out"] = [fbs["out"] EXCEPT !.avail = CanGo("out")]
    BY <1>0 DEF Poll
  <2> QED BY <1>0, <1>1, <2>1 DEF Filebufs
<1>5. CanGo("out") => pipes["out"] # <<>> \/ program.status # "runs"
  BY DEF CanGo, WriterGone
<1>6. ProgramTyped'
  BY <1>3 DEF Poll, GoesTo, ProgramInv, ProgramTyped, Turns
<1>7. ProgramCalls' /\ ProgramSeen'
  BY <1>4, <1>5 DEF Poll, GoesTo, ProgramInv, ProgramCalls, ProgramSeen
<1>8. FileArrives' /\ FileLeaves' /\ ListingArrives'
  BY <1>4 DEF Poll, GoesTo, ProgramInv, FileArrives, FileLeaves, ListingArrives, Alive
<1> QED BY <1>6, <1>7, <1>8 DEF ProgramInv

\* PollTimesOut keeps the invariant.
LEMMA SafePollTimesOut == ProgramInv /\ PollTimesOut => ProgramInv'
<1> SUFFICES ASSUME ProgramInv, PollTimesOut PROVE ProgramInv'
  BY DEF ProgramInv
<1>0. mishaps' \in Wrongs /\ mishaps'.short = mishaps.short
  BY MishapTyped DEF PollTimesOut, ProgramInv, ProgramTyped
<1>1. ProgramTyped'
  BY <1>0 DEF PollTimesOut, Answers, NoTask, ProgramInv, ProgramTyped, Statuses, Tasks, Turns
<1>2. ProgramCalls' /\ ProgramSeen'
  BY <1>0 DEF PollTimesOut, Answers, NoTask, ProgramInv, ProgramTyped, ProgramCalls, ProgramSeen
<1>3. FileArrives' /\ FileLeaves' /\ ListingArrives'
  BY <1>0 DEF PollTimesOut, Answers, NoTask, ProgramInv, ProgramTyped, ProgramCalls, ProgramSeen, FileArrives, FileLeaves, ListingArrives, Alive
<1> QED BY <1>1, <1>2, <1>3 DEF ProgramInv

\* What is still on its way begins where what is received ends.
LEMMA SoFar ==
    ASSUME NEW g \in Texts, NEW o \in Texts, NEW w \in Texts, NEW r \in Texts
    PROVE  IsPrefix(g ++ o, (g ++ (o ++ w)) ++ r)
<1>1. g ++ o \in Texts /\ o ++ w \in Texts /\ w ++ r \in Texts
  BY Together
<1>2. (g ++ (o ++ w)) ++ r = (g ++ o) ++ (w ++ r)
  <2>2. g ++ (o ++ w) = (g ++ o) ++ w
    BY Regrouped
  <2>3. ((g ++ o) ++ w) ++ r = (g ++ o) ++ (w ++ r)
    BY <1>1, Regrouped
  <2> QED BY <2>2, <2>3
<1>3. (g ++ o) ++ (w ++ r) \in Texts
  BY <1>1, Together
<1> QED BY <1>1, <1>2, <1>3, Beginnings

\* A text up to a position, and the rest of it.
LEMMA UpTo ==
    ASSUME NEW t \in Texts, NEW m \in Nat, m <= Len(t)
    PROVE  SubSeq(t, 1, m) \in Texts /\ \E r \in Texts : SubSeq(t, 1, m) ++ r = t
<1>1. Least(m, Len(t)) = m
  BY Nothing DEF Least
<1>2. FirstOf(t, m) = SubSeq(t, 1, m) /\ FirstOf(t, m) \in Texts /\ RestOf(t, m) \in Texts /\ FirstOf(t, m) ++ RestOf(t, m) = t
  BY <1>1, Cut DEF FirstOf
<1> QED BY <1>2

\* The program's output after a read of it.
OutRead(d) ==
    /\ d \in Texts /\ pipes'["out"] \in Texts /\ d ++ pipes'["out"] = pipes["out"]
    /\ pipes' \in [Pipes -> Texts] /\ pipes'["in"] = pipes["in"]
    /\ fbs' \in [Pipes -> Filebufs] /\ fbs'["out"].avail = FALSE
    /\ fbs'["out"].eof => program.status # "runs" /\ pipes'["out"] = <<>>
    /\ fbs["out"].eof => fbs'["out"].eof

\* What is read of the output of a program.
LEMMA OutIsRead ==
    ASSUME ProgramInv, NEW n \in Nat \ {0},
           fbs' = [fbs EXCEPT !["out"] = RealRead("out", n).f],
           pipes' = [pipes EXCEPT !["out"] = RestOf(@, Len(RealRead("out", n).data))]
    PROVE  OutRead(RealRead("out", n).data) /\ Len(RealRead("out", n).data) <= n
<1>0. "in" \in Pipes /\ "out" \in Pipes /\ n \in Nat /\ n # 0
  BY DEF Pipes
<1>1. PICK r : r = RealRead("out", n)
  OBVIOUS
<1>2. Given("out", n, r)
  BY <1>0, <1>1, RealReadGives DEF ProgramInv
<1>3. PICK rest : rest = RestOf(pipes["out"], Len(r.data))
  OBVIOUS
<1>4. /\ r.data \in Texts /\ Len(r.data) <= n /\ r.f \in Filebufs /\ r.f.avail = FALSE
      /\ rest \in Texts /\ r.data ++ rest = pipes["out"]
      /\ fbs["out"].eof => r.f.eof
      /\ pipes["out"] = <<>> => r.data = <<>>
  BY <1>2, <1>3 DEF Given
<1>5. fbs' = [fbs EXCEPT !["out"] = r.f] /\ pipes' = [pipes EXCEPT !["out"] = rest]
  BY <1>1, <1>3
<1>6. /\ pipes' \in [Pipes -> Texts] /\ fbs' \in [Pipes -> Filebufs]
      /\ fbs'["out"] = r.f /\ pipes'["out"] = rest /\ pipes'["in"] = pipes["in"]
  BY <1>0, <1>4, <1>5 DEF ProgramInv, ProgramTyped
<1>7. ASSUME r.f.eof PROVE program.status # "runs" /\ rest = <<>>
  <2>1. program.status # "runs" /\ pipes["out"] = <<>>
    <3>1. CASE fbs["out"].eof
      BY <3>1 DEF ProgramInv, ProgramSeen
    <3>2. CASE ~fbs["out"].eof
      <4>1. fbs["out"].avail /\ pipes["out"] = <<>>
        BY <1>0, <1>2, <1>7, <3>2 DEF Given
      <4> QED BY <4>1 DEF ProgramInv, ProgramSeen
    <3> QED BY <3>1, <3>2
  <2>2. rest = <<>>
    BY <1>4, <2>1, Alone
  <2> QED BY <2>1, <2>2
<1>8. OutRead(r.data)
  BY <1>4, <1>6, <1>7 DEF OutRead
<1> QED BY <1>1, <1>4, <1>8

\* filtprog_read when the filter's output has something, or has ended.
LEMMA SafeReceived ==
    ASSUME ProgramInv, step = "turn", task.op = "read", UNCHANGED <<use, base, at, cbuf, program, infed, put, shared, mishaps>>,
           fbs' = [fbs EXCEPT !["out"] = RealRead("out", task.n).f],
           pipes' = [pipes EXCEPT !["out"] = RestOf(@, Len(RealRead("out", task.n).data))],
           got' = got \o RealRead("out", task.n).data,
           \/ Answers("ok")
           \/ RealRead("out", task.n).f.eof /\ GoesTo("reap")
    PROVE  ProgramInv'
<1>1. task.n \in Nat \ {0} /\ use = "get"
  BY DEF ProgramInv, ProgramTyped, ProgramCalls
<1>2. PICK d : d = RealRead("out", task.n).data
  OBVIOUS
<1>3. OutRead(d)
  BY <1>1, <1>2, OutIsRead
<1>4. got' = got ++ d
  BY <1>2 DEF ++
<1>5. step' = "reap" => fbs'["out"].eof
  <2>1. "out" \in Pipes /\ fbs'["out"] = RealRead("out", task.n).f
    BY DEF ProgramInv, ProgramTyped, Pipes
  <2> QED BY <2>1 DEF Answers
<1>6. /\ got \in Texts /\ program.held \in Texts /\ pipes["in"] \in Texts /\ cbuf \in Texts
      /\ pipes["out"] \in Texts
  BY DEF ProgramInv, ProgramTyped, Pipes
<1>7. ProgramTyped'
  <2>1. got' \in Texts
    BY <1>3, <1>4, <1>6, Together DEF OutRead
  <2> QED BY <1>3, <2>1 DEF OutRead, Answers, GoesTo, NoTask, ProgramInv, ProgramTyped, Turns, Tasks
<1>8. ProgramCalls'
  BY <1>1 DEF Answers, GoesTo, NoTask, ProgramInv, ProgramCalls
<1>9. ProgramSeen'
  <2>1. step' \in {"idle", "reap"}
    BY DEF Answers, GoesTo
  <2> QED BY <1>1, <1>3, <1>5, <2>1 DEF OutRead, ProgramInv, ProgramSeen
<1>10. FileArrives'
  <2>1. PICK w \in Texts : w = program.held ++ (pipes["in"] ++ cbuf)
    BY <1>6, Together
  <2>2. PICK o \in Texts : o = pipes'["out"]
    BY <1>3 DEF OutRead
  <2>3. (got ++ d) ++ o = got ++ pipes["out"] /\ (got ++ d) ++ (o ++ w) = got ++ (pipes["out"] ++ w)
    <3>1. d ++ o = pipes["out"] /\ d \in Texts
      BY <1>3, <2>2 DEF OutRead
    <3>2. (got ++ d) ++ o = got ++ (d ++ o)
      BY <1>6, <3>1, Regrouped
    <3>3. (got ++ d) ++ (o ++ w) = got ++ (d ++ (o ++ w))
      BY <1>6, <3>1, Together, Regrouped
    <3>4. d ++ (o ++ w) = (d ++ o) ++ w
      BY <3>1, Regrouped
    <3> QED BY <3>1, <3>2, <3>3, <3>4
  <2>4. result' = "ok"
    BY DEF Answers, GoesTo, ProgramInv, ProgramCalls
  <2>5. Alive => (got ++ d) ++ (o ++ w) = SubSeq(base, 1, at)
    BY <1>1, <2>1, <2>3 DEF ProgramInv, FileArrives
  <2>6. IsPrefix((got ++ d) ++ o, base)
    BY <1>1, <2>3 DEF ProgramInv, FileArrives
  <2>7. at <= Len(base) /\ (~infed => cbuf = <<>> /\ at = Len(base))
    BY <1>1 DEF ProgramInv, FileArrives
  <2>8. pipes'["in"] = pipes["in"]
    BY <1>3 DEF OutRead
  <2> QED BY <1>4, <2>1, <2>2, <2>4, <2>5, <2>6, <2>7, <2>8 DEF FileArrives, Alive
<1>11. FileLeaves' /\ ListingArrives'
  BY <1>1 DEF FileLeaves, ListingArrives
<1> QED BY <1>7, <1>8, <1>9, <1>10, <1>11 DEF ProgramInv

\* What filtprog_fill_cbuf reads follows what has been read.
Following(t, m, k) == SubSeq(t, m + 1, Least(m + k, Len(t)))

\* A text that is read on.
LEMMA ReadOn ==
    ASSUME NEW t \in Texts, NEW m \in Nat, m <= Len(t), NEW k \in Nat \ {0}
    PROVE  /\ Following(t, m, k) \in Texts
           /\ m + Len(Following(t, m, k)) <= Len(t)
           /\ Following(t, m, k) = <<>> => m = Len(t)
           /\ SubSeq(t, 1, m) ++ Following(t, m, k) = SubSeq(t, 1, m + Len(Following(t, m, k)))
<1>0. PICK s : s = Following(t, m, k)
  OBVIOUS
<1>1. PICK len \in Nat : len = Len(t)
  BY Nothing
<1>2. PICK e \in Nat : e = Least(m + k, len)
  BY DEF Least
<1>3. m <= e /\ e <= len /\ (e = m => m = len)
  BY <1>1, <1>2 DEF Least
<1>4. \A i \in 1..len : t[i] \in Range(Input)
  BY <1>1, ElementOfSeq DEF Texts
<1>5. s \in Texts /\ Len(s) = e - m
  <2>1. \A i \in (m + 1)..e : t[i] \in Range(Input)
    BY <1>3, <1>4
  <2>2. /\ SubSeq(t, m + 1, e) \in Seq(Range(Input))
        /\ Len(SubSeq(t, m + 1, e)) = IF m + 1 <= e THEN e - (m + 1) + 1 ELSE 0
    BY <2>1, SubSeqProperties
  <2> QED BY <1>0, <1>1, <1>2, <1>3, <2>2 DEF Texts, Following
<1>6. SubSeq(t, 1, m) ++ s = SubSeq(t, 1, e)
  <2>1. 1 \in 1..(Len(t) + 1) /\ m \in (1 - 1)..Len(t) /\ e \in m..Len(t)
    BY <1>1, <1>3
  <2>2. SubSeq(t, 1, m) \o SubSeq(t, m + 1, e) = SubSeq(t, 1, e)
    BY <2>1, ConcatAdjacentSubSeq DEF Texts
  <2> QED BY <1>0, <1>1, <1>2, <2>2 DEF ++, Following
<1>7. PICK l \in Nat : l = Len(s) /\ l = e - m
  BY <1>3, <1>5
<1>8. s = <<>> => l = 0
  BY <1>7, Nothing
<1>9. m + l = e
  BY <1>7
<1> QED BY <1>0, <1>1, <1>3, <1>5, <1>6, <1>7, <1>8, <1>9

\* The program's input after a write to it.
LEMMA InIsWritten ==
    ASSUME ProgramInv, NEW t \in Texts, Fed(t)
    PROVE  /\ Room("in") \in Nat
           /\ pipes' \in [Pipes -> Texts] /\ fbs' \in [Pipes -> Filebufs]
           /\ pipes'["out"] = pipes["out"] /\ fbs'["out"] = fbs["out"]
           /\ pipes'["in"] = pipes["in"] ++ FirstOf(t, Room("in"))
           /\ Len(pipes'["in"]) <= PipeSize
<1>0. "in" \in Pipes /\ "out" \in Pipes /\ fbs["in"] \in Filebufs
  BY DEF ProgramInv, ProgramTyped, Pipes
<1>1. PICK i \in Texts : i = pipes["in"]
  BY <1>0 DEF ProgramInv, ProgramTyped
<1>2. PICK l \in Nat : l = Len(i)
  BY Nothing
<1>3. PICK size \in Nat : size = PipeSize
  BY PipeAssumption
<1>4. l <= size
  BY <1>1, <1>2, <1>3 DEF ProgramInv, ProgramSeen
<1>5. PICK room \in Nat : room = Room("in") /\ room = size - l
  <2>1. size - l \in Nat
    BY <1>4
  <2>2. Room("in") = size - l
    BY <1>1, <1>2, <1>3 DEF Room
  <2> QED BY <2>1, <2>2
<1>6. PICK f \in Texts : f = FirstOf(t, room) /\ Len(f) = Least(room, Len(t))
  BY Cut
<1>7. i ++ f \in Texts /\ Len(i ++ f) = Len(i) + Len(f)
  BY Joined
<1>8. Len(f) \in Nat /\ Len(f) <= room
  BY <1>6, Nothing DEF Least
<1>9. Len(i ++ f) <= size
  BY <1>2, <1>5, <1>7, <1>8
<1>10. pipes' = [pipes EXCEPT !["in"] = i ++ f] /\ fbs' = [fbs EXCEPT !["in"].avail = FALSE]
  BY <1>1, <1>5, <1>6 DEF Fed, ++
<1>11. [fbs["in"] EXCEPT !.avail = FALSE] \in Filebufs
  BY <1>0 DEF Filebufs
<1>12. pipes' \in [Pipes -> Texts] /\ pipes'["out"] = pipes["out"] /\ pipes'["in"] = i ++ f
  BY <1>0, <1>7, <1>10 DEF ProgramInv, ProgramTyped
<1>13. fbs' \in [Pipes -> Filebufs] /\ fbs'["out"] = fbs["out"]
  BY <1>0, <1>10, <1>11 DEF ProgramInv, ProgramTyped
<1> QED BY <1>1, <1>3, <1>5, <1>6, <1>9, <1>12, <1>13

\* WriteInput keeps the invariant.
LEMMA SafeWriteInput ==
    ASSUME ProgramInv, use = "get", step = "turn", task.op = "read", infed, WriteInput,
           UNCHANGED <<use, base, program, got, put, shared>>
    PROVE  ProgramInv'
<1>1. /\ got \in Texts /\ program.held \in Texts /\ pipes["in"] \in Texts /\ cbuf \in Texts
      /\ pipes["out"] \in Texts /\ base \in Texts /\ at \in Nat
      /\ "in" \in Pipes /\ "out" \in Pipes /\ fbs["in"] \in Filebufs
  BY DEF ProgramInv, ProgramTyped, Pipes
<1>2. at <= Len(base) /\ IsPrefix(got ++ pipes["out"], base) /\ result = "ok"
  BY DEF ProgramInv, FileArrives, ProgramCalls
<1>3. PICK more : more = SubSeq(base, at + 1, Least(at + CbufSize, Len(base)))
  OBVIOUS
<1>3a. more = Following(base, at, CbufSize) /\ CbufSize \in Nat \ {0}
  BY <1>3, PipeAssumption DEF Following
<1>4. /\ more \in Texts /\ at + Len(more) <= Len(base) /\ (more = <<>> => at = Len(base))
      /\ SubSeq(base, 1, at) ++ more = SubSeq(base, 1, at + Len(more))
  BY <1>1, <1>2, <1>3a, ReadOn
<1>5. PICK chunk : chunk = IF cbuf = <<>> THEN more ELSE cbuf
  OBVIOUS
<1>6. chunk \in Texts
  BY <1>1, <1>4, <1>5
<1>7. PICK to : to = IF cbuf = <<>> THEN at + Len(more) ELSE at
  OBVIOUS
<1>8. to \in Nat /\ to <= Len(base)
  BY <1>1, <1>2, <1>4, <1>7, Nothing
<1>9. program.status # "done"
  BY DEF ProgramInv, ProgramSeen
<1>10. Alive => got ++ (pipes["out"] ++ (program.held ++ (pipes["in"] ++ chunk))) = SubSeq(base, 1, to)
  <2>1. CASE cbuf = <<>>
    <3>1. chunk = more /\ to = at + Len(more)
      BY <1>5, <1>7, <2>1
    <3>2. PICK i \in Texts : i = pipes["in"]
      BY <1>1
    <3>3. PICK o \in Texts : o = pipes["out"]
      BY <1>1
    <3>4. PICK h \in Texts : h = program.held
      BY <1>1
    <3>5. got ++ (o ++ (h ++ (i ++ more))) = (got ++ (o ++ (h ++ i))) ++ more
      <4>1. h ++ i \in Texts /\ h ++ (i ++ more) = (h ++ i) ++ more
        BY <1>4, Together, Regrouped
      <4>2. o ++ (h ++ i) \in Texts /\ o ++ ((h ++ i) ++ more) = (o ++ (h ++ i)) ++ more
        BY <1>4, <4>1, Together, Regrouped
      <4>3. got ++ ((o ++ (h ++ i)) ++ more) = (got ++ (o ++ (h ++ i))) ++ more
        BY <1>1, <1>4, <4>2, Regrouped
      <4> QED BY <4>1, <4>2, <4>3
    <3>6. i ++ cbuf = i
      BY <2>1, Alone
    <3>7. Alive => got ++ (o ++ (h ++ i)) = SubSeq(base, 1, at)
      BY <3>2, <3>3, <3>4, <3>6 DEF ProgramInv, FileArrives
    <3> QED BY <1>4, <3>1, <3>2, <3>3, <3>4, <3>5, <3>7
  <2>2. CASE cbuf # <<>>
    BY <1>5, <1>7, <2>2 DEF ProgramInv, FileArrives
  <2> QED BY <2>1, <2>2
<1>11. CASE chunk = <<>> /\ infed' = FALSE /\ GoesTo("poll") /\ UNCHANGED <<at, cbuf, pipes, fbs, mishaps>>
  <2>1. cbuf = <<>> /\ at = Len(base)
    BY <1>4, <1>5, <1>11
  <2>2. ProgramTyped'
    BY <1>11 DEF GoesTo, ProgramInv, ProgramTyped, Turns
  <2>3. ProgramCalls' /\ ProgramSeen'
    BY <1>11 DEF GoesTo, ProgramInv, ProgramCalls, ProgramSeen
  <2>4. FileArrives' /\ FileLeaves' /\ ListingArrives'
    BY <1>11, <2>1 DEF GoesTo, ProgramInv, FileArrives, FileLeaves, ListingArrives, Alive
  <2> QED BY <2>2, <2>3, <2>4 DEF ProgramInv
<1>12. CASE Mishap /\ Answers("EIO") /\ UNCHANGED <<at, cbuf, pipes, fbs, infed>>
  <2>1. mishaps' \in Wrongs
    BY <1>12, MishapTyped DEF ProgramInv, ProgramTyped
  <2>2. ProgramTyped'
    BY <1>12, <2>1 DEF Answers, NoTask, ProgramInv, ProgramTyped, Turns, Tasks
  <2>3. ProgramCalls' /\ ProgramSeen'
    BY <1>12 DEF Answers, NoTask, ProgramInv, ProgramCalls, ProgramSeen
  <2>4. FileArrives' /\ FileLeaves' /\ ListingArrives'
    BY <1>12 DEF Answers, ProgramInv, FileArrives, FileLeaves, ListingArrives, Alive
  <2> QED BY <2>2, <2>3, <2>4 DEF ProgramInv
<1>13. CASE /\ at' = to /\ cbuf' = chunk /\ (GoesTo("poll") \/ Answers("EIO"))
            /\ UNCHANGED <<pipes, fbs, infed, mishaps>>
  <2>1. ProgramTyped'
    BY <1>6, <1>8, <1>13 DEF GoesTo, Answers, NoTask, ProgramInv, ProgramTyped, Turns, Tasks
  <2>2. ProgramCalls' /\ ProgramSeen'
    BY <1>13 DEF GoesTo, Answers, NoTask, ProgramInv, ProgramCalls, ProgramSeen
  <2>3. FileArrives' /\ FileLeaves' /\ ListingArrives'
    BY <1>2, <1>8, <1>10, <1>13 DEF GoesTo, Answers, FileArrives, FileLeaves, ListingArrives, Alive
  <2> QED BY <2>1, <2>2, <2>3 DEF ProgramInv
<1>14. CASE /\ at' = to /\ cbuf' = RestOf(chunk, Room("in")) /\ Fed(chunk) /\ GoesTo("poll")
            /\ UNCHANGED <<infed, mishaps>>
  <2>1. PICK room \in Nat : room = Room("in")
    BY <1>6, <1>14, InIsWritten
  <2>2. /\ pipes' \in [Pipes -> Texts] /\ fbs' \in [Pipes -> Filebufs]
        /\ pipes'["out"] = pipes["out"] /\ fbs'["out"] = fbs["out"]
        /\ pipes'["in"] = pipes["in"] ++ FirstOf(chunk, room) /\ Len(pipes'["in"]) <= PipeSize
    BY <1>6, <1>14, <2>1, InIsWritten
  <2>3. PICK f \in Texts, c \in Texts : f = FirstOf(chunk, room) /\ c = RestOf(chunk, room) /\ f ++ c = chunk
    BY <1>6, <2>1, Cut
  <2>4. cbuf' = c /\ at' = to /\ pipes'["in"] = pipes["in"] ++ f
    BY <1>14, <2>1, <2>2, <2>3
  <2>5. (pipes["in"] ++ f) ++ c = pipes["in"] ++ chunk
    <3>1. (pipes["in"] ++ f) ++ c = pipes["in"] ++ (f ++ c)
      BY <1>1, Regrouped
    <3> QED BY <2>3, <3>1
  <2>6. ProgramTyped'
    BY <1>8, <1>14, <2>2, <2>4 DEF GoesTo, ProgramInv, ProgramTyped, Turns
  <2>7. ProgramCalls' /\ ProgramSeen'
    BY <1>9, <1>14, <2>2 DEF GoesTo, ProgramInv, ProgramCalls, ProgramSeen
  <2>8. FileArrives' /\ FileLeaves' /\ ListingArrives'
    BY <1>2, <1>8, <1>10, <1>14, <2>2, <2>4, <2>5 DEF GoesTo, FileArrives, FileLeaves, ListingArrives, Alive
  <2> QED BY <2>6, <2>7, <2>8 DEF ProgramInv
<1>15. \/ chunk = <<>> /\ infed' = FALSE /\ GoesTo("poll") /\ UNCHANGED <<at, cbuf, pipes, fbs, mishaps>>
       \/ Mishap /\ Answers("EIO") /\ UNCHANGED <<at, cbuf, pipes, fbs, infed>>
       \/ /\ at' = to /\ cbuf' = chunk /\ (GoesTo("poll") \/ Answers("EIO"))
          /\ UNCHANGED <<pipes, fbs, infed, mishaps>>
       \/ /\ at' = to /\ cbuf' = RestOf(chunk, Room("in")) /\ Fed(chunk) /\ GoesTo("poll")
          /\ UNCHANGED <<infed, mishaps>>
  BY <1>3, <1>5, <1>7 DEF WriteInput
<1> QED BY <1>11, <1>12, <1>13, <1>14, <1>15

\* ReadTurn keeps the invariant.
LEMMA SafeReadTurn == ProgramInv /\ ReadTurn => ProgramInv'
<1> SUFFICES ASSUME ProgramInv, ReadTurn PROVE ProgramInv'
  OBVIOUS
<1>1. /\ step = "turn" /\ task.op = "read" /\ use = "get"
      /\ UNCHANGED <<use, base, program, put, shared>>
  BY DEF ReadTurn, ProgramInv, ProgramCalls
<1>2. CASE /\ RealRead("out", task.n).data # <<>> \/ RealRead("out", task.n).f.eof
           /\ fbs' = [fbs EXCEPT !["out"] = RealRead("out", task.n).f]
           /\ pipes' = [pipes EXCEPT !["out"] = RestOf(@, Len(RealRead("out", task.n).data))]
           /\ got' = got \o RealRead("out", task.n).data
           /\ IF RealRead("out", task.n).data # <<>> THEN Answers("ok") ELSE GoesTo("reap")
           /\ UNCHANGED <<at, cbuf, infed, mishaps>>
  BY <1>1, <1>2, SafeReceived
<1>3. CASE UNCHANGED got /\ infed /\ WriteInput
  BY <1>1, <1>3, SafeWriteInput
<1>4. CASE UNCHANGED got /\ GoesTo("poll") /\ UNCHANGED <<at, cbuf, pipes, fbs, infed, mishaps>>
  <2>1. ProgramTyped'
    BY <1>1, <1>4 DEF GoesTo, ProgramInv, ProgramTyped, Turns
  <2>2. ProgramCalls' /\ ProgramSeen'
    BY <1>1, <1>4 DEF GoesTo, ProgramInv, ProgramCalls, ProgramSeen
  <2>3. FileArrives' /\ FileLeaves' /\ ListingArrives'
    BY <1>1, <1>4 DEF GoesTo, ProgramInv, FileArrives, FileLeaves, ListingArrives, Alive
  <2> QED BY <2>1, <2>2, <2>3 DEF ProgramInv
<1> QED BY <1>2, <1>3, <1>4 DEF ReadTurn

\* What the base file has taken of some bytes.
Taken(bytes, where) ==
    \/ base' = base ++ bytes /\ GoesTo(where) /\ UNCHANGED mishaps
    \/ base' \in Texts /\ GoesTo(where) /\ mishaps'.short
    \/ UNCHANGED base /\ Answers("EIO") /\ mishaps'.short = mishaps.short

\* What is written to the base file.
LEMMA BaseIsWritten ==
    ASSUME ProgramInv, NEW c \in Texts, NEW where, BaseWrite(c, where)
    PROVE  Taken(c, where) /\ base' \in Texts /\ mishaps' \in Wrongs
<1>1. base \in Texts /\ mishaps \in Wrongs
  BY DEF ProgramInv, ProgramTyped
<1>2. CASE base' = base \o c /\ GoesTo(where) /\ UNCHANGED mishaps
  <2>1. base' = base ++ c
    BY <1>2 DEF ++
  <2> QED BY <1>1, <1>2, <2>1, Together DEF Taken
<1>3. CASE /\ mishaps.left > 0 /\ c # <<>>
           /\ base' = base \o FirstOf(c, Len(c) - 1) /\ GoesTo(where)
           /\ mishaps' = [mishaps EXCEPT !.left = @ - 1, !.short = TRUE]
  <2>1. PICK n \in Nat : n = Len(c) - 1
    <3>1. Len(c) \in Nat /\ Len(c) # 0
      BY <1>3, Nothing
    <3> QED BY <3>1
  <2>2. FirstOf(c, n) \in Texts
    BY <2>1, Cut
  <2>3. base' = base ++ FirstOf(c, n)
    BY <1>3, <2>1 DEF ++
  <2>4. base' \in Texts
    BY <1>1, <2>2, <2>3, Together
  <2>5. mishaps' \in Wrongs /\ mishaps'.short
    <3>1. PICK m \in Wrongs : m = mishaps
      BY <1>1
    <3>2. PICK k \in Nat : k = m.left - 1
      BY <1>3, <3>1 DEF Wrongs
    <3>3. mishaps' = [left |-> k, short |-> TRUE, grumbles |-> m.grumbles, grumbled |-> m.grumbled]
      BY <1>3, <3>1, <3>2 DEF Wrongs
    <3>4. m.grumbles \in Nat /\ m.grumbled \in BOOLEAN
      BY DEF Wrongs
    <3> QED BY <3>3, <3>4 DEF Wrongs
  <2> QED BY <1>3, <2>4, <2>5 DEF Taken
<1>4. CASE Mishap /\ Answers("EIO") /\ UNCHANGED base
  BY <1>1, <1>4, MishapTyped DEF Taken
<1> QED BY <1>2, <1>3, <1>4 DEF BaseWrite

\* filtprog_read_input, called by filtprog_write and filtprog_endput.
LEMMA SafeReadInput ==
    ASSUME ProgramInv, step = "turn", task.op \in {"write", "endput"}, NEW where \in {"poll", "flush"},
           where = "flush" => task.op = "endput" /\ RealRead("out", 1).f.eof,
           ReadInput(where), UNCHANGED <<use, program, infed, got, put, shared>>
    PROVE  ProgramInv'
<1>0. /\ "in" \in Pipes /\ "out" \in Pipes /\ use = "put" /\ result = "ok"
      /\ cbuf \in Texts /\ base \in Texts /\ program.held \in Texts
      /\ pipes["in"] \in Texts /\ pipes["out"] \in Texts
  BY DEF ProgramInv, ProgramTyped, ProgramCalls, Pipes
<1>1. PICK n \in Nat \ {0} : n = CbufSize - Len(cbuf)
  <2>1. Len(cbuf) \in Nat /\ Len(cbuf) < CbufSize
    BY <1>0, Nothing DEF ProgramInv, ProgramSeen
  <2>2. CbufSize - Len(cbuf) \in Nat \ {0}
    BY <2>1, PipeAssumption
  <2> QED BY <2>2
<1>2. PICK d : d = RealRead("out", n).data
  OBVIOUS
<1>3. PICK c : c = cbuf ++ d
  OBVIOUS
<1>4. /\ fbs' = [fbs EXCEPT !["out"] = RealRead("out", n).f]
      /\ pipes' = [pipes EXCEPT !["out"] = RestOf(@, Len(RealRead("out", n).data))]
      /\ \/ /\ Len(c) = CbufSize
            /\ cbuf' = <<>> /\ BaseWrite(c, where) /\ at' = Len(base')
         \/ /\ Len(c) # CbufSize
            /\ cbuf' = c /\ GoesTo(where) /\ UNCHANGED <<base, at, mishaps>>
  BY <1>1, <1>2, <1>3 DEF ReadInput, ++
<1>5. OutRead(d) /\ Len(d) <= n
  BY <1>2, <1>4, OutIsRead
<1>6. c \in Texts /\ Len(c) <= CbufSize /\ (Len(c) # CbufSize => Len(c) < CbufSize)
  <2>1. c \in Texts /\ Len(c) = Len(cbuf) + Len(d) /\ d \in Texts
    BY <1>0, <1>3, <1>5, Joined DEF OutRead
  <2>2. Len(cbuf) \in Nat /\ Len(d) \in Nat
    BY <1>0, <2>1, Nothing
  <2> QED BY <1>1, <1>5, <2>1, <2>2, PipeAssumption
<1>7. where = "flush" => fbs'["out"].eof
  <2>1. ASSUME where = "flush" PROVE RealRead("out", n).f.eof
    <3>1. Given("out", 1, RealRead("out", 1)) /\ Given("out", n, RealRead("out", n))
      BY <1>0, RealReadGives DEF ProgramInv
    <3> QED BY <2>1, <3>1 DEF Given
  <2>2. fbs'["out"] = RealRead("out", n).f
    BY <1>0, <1>4 DEF ProgramInv, ProgramTyped
  <2> QED BY <2>1, <2>2
<1>8. \/ cbuf' = <<>> /\ Taken(c, where) /\ at' = Len(base') /\ base' \in Texts /\ mishaps' \in Wrongs
      \/ cbuf' = c /\ Len(c) < CbufSize /\ GoesTo(where) /\ UNCHANGED <<base, at, mishaps>>
  BY <1>4, <1>6, BaseIsWritten
<1>9. cbuf' \in Texts /\ Len(cbuf') < CbufSize /\ base' \in Texts /\ mishaps' \in Wrongs /\ at' \in Nat
  <2>1. base' \in Texts => Len(base') \in Nat
    BY Nothing
  <2> QED BY <1>6, <1>8, <2>1, Nothing, PipeAssumption DEF ProgramInv, ProgramTyped
<1>10. GoesTo(where) \/ Answers("EIO")
  BY <1>8 DEF Taken
<1>11. ProgramTyped'
  BY <1>5, <1>9, <1>10 DEF OutRead, GoesTo, Answers, NoTask, ProgramInv, ProgramTyped, Turns, Tasks
<1>12. ProgramCalls' /\ ProgramSeen'
  <2>1. ProgramCalls'
    BY <1>0, <1>10 DEF GoesTo, Answers, NoTask, ProgramInv, ProgramCalls
  <2>2. ProgramSeen'
    <3>1. step' \in {"flush", "reap"} => fbs'["out"].eof
      BY <1>7, <1>10 DEF GoesTo, Answers
    <3> QED BY <1>0, <1>5, <1>9, <3>1 DEF OutRead, ProgramInv, ProgramSeen
  <2> QED BY <2>1, <2>2
<1>13. FileLeaves'
  <2>1. CASE mishaps'.short
    BY <2>1 DEF FileLeaves
  <2>2. CASE result' = "EIO"
    <3>1. step' = "idle"
      BY <1>0, <1>10, <2>2 DEF GoesTo, Answers
    <3> QED BY <2>2, <3>1 DEF FileLeaves
  <2>3. CASE ~mishaps'.short /\ result' # "EIO"
    <3>1. /\ GoesTo(where) /\ mishaps' = mishaps
          /\ (base' = base ++ c /\ cbuf' = <<>>) \/ (base' = base /\ cbuf' = c)
      BY <1>8, <2>3 DEF Taken, Answers
    <3>2. PICK o \in Texts : o = pipes'["out"] /\ d ++ o = pipes["out"] /\ d \in Texts
      BY <1>5 DEF OutRead
    <3>3. PICK w \in Texts : w = program.held ++ pipes["in"]
      BY <1>0, Together
    <3>4. base' ++ (cbuf' ++ (o ++ w)) = base ++ (cbuf ++ (pipes["out"] ++ w))
      <4>1. o ++ w \in Texts
        BY Together
      <4>2. base' ++ (cbuf' ++ (o ++ w)) = base ++ (c ++ (o ++ w))
        <5>1. CASE base' = base ++ c /\ cbuf' = <<>>
          <6>1. cbuf' ++ (o ++ w) = o ++ w
            BY <4>1, <5>1, Alone
          <6>2. (base ++ c) ++ (o ++ w) = base ++ (c ++ (o ++ w))
            BY <1>0, <1>6, <4>1, Regrouped
          <6> QED BY <5>1, <6>1, <6>2
        <5>2. CASE base' = base /\ cbuf' = c
          BY <5>2
        <5> QED BY <3>1, <5>1, <5>2
      <4>3. c ++ (o ++ w) = cbuf ++ (d ++ (o ++ w))
        BY <1>0, <1>3, <3>2, <4>1, Regrouped
      <4>4. d ++ (o ++ w) = pipes["out"] ++ w
        BY <3>2, Regrouped
      <4> QED BY <4>2, <4>3, <4>4
    <3>5. Alive => base ++ (cbuf ++ (pipes["out"] ++ w)) = SubSeq(Input, 1, put)
      BY <1>0, <2>3, <3>1, <3>3 DEF ProgramInv, FileLeaves
    <3>6. pipes'["in"] = pipes["in"]
      BY <1>5 DEF OutRead
    <3>7. step' # "reap" /\ result' = "ok"
      BY <1>0, <3>1 DEF GoesTo
    <3> QED BY <3>2, <3>3, <3>4, <3>5, <3>6, <3>7 DEF FileLeaves, Alive
  <2> QED BY <2>1, <2>2, <2>3
<1>14. FileArrives' /\ ListingArrives'
  BY <1>0 DEF FileArrives, ListingArrives
<1> QED BY <1>11, <1>12, <1>13, <1>14 DEF ProgramInv

\* EndTurn keeps the invariant.
LEMMA SafeEndTurn == ProgramInv /\ EndTurn => ProgramInv'
<1> SUFFICES ASSUME ProgramInv, EndTurn PROVE ProgramInv'
  OBVIOUS
<1>1. PICK where \in {"poll", "flush"} :
        ReadInput(where) /\ (where = "flush" => RealRead("out", 1).f.eof)
  BY DEF EndTurn
<1>2. step = "turn" /\ task.op = "endput" /\ UNCHANGED <<use, program, infed, got, put, shared>>
  BY DEF EndTurn
<1> QED BY <1>1, <1>2, SafeReadInput

\* EndFlush keeps the invariant.
LEMMA SafeEndFlush == ProgramInv /\ EndFlush => ProgramInv'
<1> SUFFICES ASSUME ProgramInv, EndFlush PROVE ProgramInv'
  OBVIOUS
<1>1. /\ step = "flush" /\ task.op = "endput" /\ use = "put" /\ result = "ok" /\ fbs["out"].eof
      /\ cbuf \in Texts /\ base \in Texts /\ program.held \in Texts
      /\ pipes["in"] \in Texts /\ pipes["out"] \in Texts
  BY DEF EndFlush, ProgramInv, ProgramTyped, ProgramCalls, ProgramSeen, Pipes
<1>2. /\ BaseWrite(cbuf, "reap") /\ cbuf' = <<>> /\ at' = Len(base')
      /\ UNCHANGED <<use, program, pipes, fbs, infed, got, put, shared>>
  BY DEF EndFlush
<1>3. Taken(cbuf, "reap") /\ base' \in Texts /\ mishaps' \in Wrongs
  BY <1>1, <1>2, BaseIsWritten
<1>4. GoesTo("reap") \/ Answers("EIO")
  BY <1>3 DEF Taken
<1>5. ProgramTyped'
  BY <1>2, <1>3, <1>4, Nothing DEF GoesTo, Answers, NoTask, ProgramInv, ProgramTyped, Turns, Tasks
<1>6. ProgramCalls'
  BY <1>1, <1>2, <1>4 DEF GoesTo, Answers, NoTask, ProgramInv, ProgramCalls
<1>7. ProgramSeen'
  BY <1>1, <1>2, <1>4, Nothing, PipeAssumption DEF GoesTo, Answers, ProgramInv, ProgramSeen
<1>8. FileLeaves'
  <2>1. CASE mishaps'.short
    BY <2>1 DEF FileLeaves
  <2>2. CASE result' = "EIO"
    <3>1. step' = "idle"
      BY <1>1, <1>4, <2>2 DEF GoesTo, Answers
    <3> QED BY <2>2, <3>1 DEF FileLeaves
  <2>3. CASE ~mishaps'.short /\ result' # "EIO"
    <3>1. GoesTo("reap") /\ mishaps' = mishaps /\ base' = base ++ cbuf
      BY <1>3, <2>3 DEF Taken, Answers
    <3>2. PICK w \in Texts : w = pipes["out"] ++ (program.held ++ pipes["in"])
      BY <1>1, Together
    <3>3. base' ++ (<<>> ++ w) = base ++ (cbuf ++ w)
      <4>1. <<>> ++ w = w
        BY Alone
      <4>2. (base ++ cbuf) ++ w = base ++ (cbuf ++ w)
        BY <1>1, Regrouped
      <4> QED BY <3>1, <4>1, <4>2
    <3>4. Alive => base ++ (cbuf ++ w) = SubSeq(Input, 1, put)
      BY <1>1, <2>3, <3>1, <3>2 DEF ProgramInv, FileLeaves
    <3>5. result' = "ok"
      BY <1>1, <3>1 DEF GoesTo
    <3> QED BY <1>2, <3>2, <3>3, <3>4, <3>5 DEF FileLeaves, Alive
  <2> QED BY <2>1, <2>2, <2>3
<1>9. FileArrives' /\ ListingArrives'
  BY <1>1, <1>2 DEF FileArrives, ListingArrives
<1> QED BY <1>5, <1>6, <1>7, <1>8, <1>9 DEF ProgramInv

\* The last of five texts is behind the others.
LEMMA Behind ==
    ASSUME NEW a \in Texts, NEW b \in Texts, NEW c \in Texts, NEW d \in Texts, NEW e \in Texts
    PROVE  a ++ (b ++ (c ++ (d ++ e))) = (a ++ (b ++ (c ++ d))) ++ e
<1>1. c ++ d \in Texts /\ c ++ (d ++ e) = (c ++ d) ++ e
  BY Together, Regrouped
<1>2. b ++ (c ++ d) \in Texts /\ b ++ ((c ++ d) ++ e) = (b ++ (c ++ d)) ++ e
  BY <1>1, Together, Regrouped
<1>3. a ++ ((b ++ (c ++ d)) ++ e) = (a ++ (b ++ (c ++ d))) ++ e
  BY <1>2, Regrouped
<1> QED BY <1>1, <1>2, <1>3

\* What the caller has sent, with the beginning of what it sends next.
LEMMA Sent ==
    ASSUME NEW m \in Nat, NEW k \in Nat \ {0}, m + k <= Len(Input), NEW room \in Nat
    PROVE  /\ SubSeq(Input, m + 1, m + k) \in Texts
           /\ SubSeq(Input, 1, m) \in Texts
           /\ SubSeq(Input, 1, m) ++ FirstOf(SubSeq(Input, m + 1, m + k), room)
                = SubSeq(Input, 1, m + Least(k, room))
<1>1. PICK t \in Texts : t = Input
  BY InputAssumption DEF Texts
<1>2. PICK len \in Nat : len = Len(t) /\ m + k <= len
  BY <1>1, Nothing
<1>3. PICK s : s = SubSeq(t, m + 1, m + k)
  OBVIOUS
<1>4. s \in Texts /\ Len(s) = k
  <2>1. \A i \in 1..len : t[i] \in Range(Input)
    BY <1>2, ElementOfSeq DEF Texts
  <2>2. \A i \in (m + 1)..(m + k) : t[i] \in Range(Input)
    BY <1>2, <2>1
  <2>3. /\ SubSeq(t, m + 1, m + k) \in Seq(Range(Input))
        /\ Len(SubSeq(t, m + 1, m + k)) = IF m + 1 <= m + k THEN m + k - (m + 1) + 1 ELSE 0
    BY <2>2, SubSeqProperties
  <2> QED BY <1>3, <2>3 DEF Texts
<1>5. PICK a \in Texts : a = SubSeq(t, 1, m) /\ Len(a) = m
  <2>1. Least(m, len) = m
    BY <1>2 DEF Least
  <2>2. FirstOf(t, m) = SubSeq(t, 1, m) /\ FirstOf(t, m) \in Texts /\ Len(FirstOf(t, m)) = m
    BY <1>2, <2>1, Cut DEF FirstOf
  <2> QED BY <2>2
<1>6. \E r \in Texts : (a ++ s) ++ r = t
  <2>1. Following(t, m, k) = s
    BY <1>2, <1>3 DEF Following, Least
  <2>2. a ++ s = SubSeq(t, 1, m + k)
    <3>1. m <= Len(t)
      BY <1>2
    <3>2. SubSeq(t, 1, m) ++ Following(t, m, k) = SubSeq(t, 1, m + Len(Following(t, m, k)))
      BY <3>1, ReadOn
    <3> QED BY <1>4, <1>5, <2>1, <3>2
  <2>3. m + k \in Nat /\ m + k <= Len(t)
    BY <1>2
  <2> QED BY <2>2, <2>3, UpTo
<1>7. PICK f \in Texts, g \in Texts : f = FirstOf(s, room) /\ f ++ g = s /\ Len(f) = Least(room, k)
  BY <1>4, Cut
<1>8. IsPrefix(a ++ f, t)
  <2>1. PICK r \in Texts : (a ++ (f ++ g)) ++ r = t
    BY <1>6, <1>7
  <2> QED BY <2>1, SoFar
<1>9. Len(a ++ f) = m + Least(k, room) /\ a ++ f \in Texts
  <2>1. Len(a ++ f) = m + Least(room, k) /\ a ++ f \in Texts
    <3>1. a ++ f \in Texts /\ Len(a ++ f) = Len(a) + Len(f)
      BY Joined
    <3> QED BY <1>5, <1>7, <3>1
  <2>2. Least(room, k) = Least(k, room)
    BY DEF Least
  <2> QED BY <2>1, <2>2
<1>10. a ++ f = SubSeq(t, 1, m + Least(k, room))
  <2>1. SubSeq(a ++ f, 1, Len(a ++ f)) = a ++ f
    BY <1>9, SubSeqFull DEF Texts
  <2>2. SubSeq(a ++ f, 1, Len(a ++ f)) = SubSeq(t, 1, Len(a ++ f))
    BY <1>8 DEF IsPrefix
  <2> QED BY <1>9, <2>1, <2>2
<1> QED BY <1>1, <1>3, <1>4, <1>5, <1>7, <1>10

\* WriteTurn keeps the invariant.
LEMMA SafeWriteTurn == ProgramInv /\ WriteTurn => ProgramInv'
<1> SUFFICES ASSUME ProgramInv, WriteTurn PROVE ProgramInv'
  OBVIOUS
<1>1. /\ step = "turn" /\ task.op = "write" /\ use = "put" /\ result = "ok"
      /\ UNCHANGED <<use, program, infed, got, shared>>
      /\ cbuf \in Texts /\ base \in Texts /\ program.held \in Texts
      /\ pipes["in"] \in Texts /\ pipes["out"] \in Texts
      /\ put \in Nat /\ task.n \in Nat \ {0} /\ put + task.n <= Len(Input)
  BY DEF WriteTurn, ProgramInv, ProgramTyped, ProgramCalls, Pipes
<1>2. CASE Answers("EIO") /\ UNCHANGED <<base, at, cbuf, pipes, fbs, put, mishaps>>
  <2>1. ProgramTyped'
    BY <1>1, <1>2 DEF Answers, NoTask, ProgramInv, ProgramTyped, Turns, Tasks
  <2>2. ProgramCalls' /\ ProgramSeen'
    BY <1>1, <1>2 DEF Answers, NoTask, ProgramInv, ProgramCalls, ProgramSeen
  <2>3. FileArrives' /\ FileLeaves' /\ ListingArrives'
    BY <1>1, <1>2 DEF Answers, FileArrives, FileLeaves, ListingArrives
  <2> QED BY <2>1, <2>2, <2>3 DEF ProgramInv
<1>3. CASE /\ ~ReaderGone /\ Fed(SubSeq(Input, put + 1, put + task.n))
           /\ put' = put + Least(task.n, Room("in"))
           /\ Answers("ok") /\ UNCHANGED <<base, at, cbuf, mishaps>>
  <2>1. PICK s \in Texts : s = SubSeq(Input, put + 1, put + task.n)
    BY <1>1, Sent
  <2>2. PICK room \in Nat : room = Room("in")
    BY <1>3, <2>1, InIsWritten
  <2>3. /\ pipes' \in [Pipes -> Texts] /\ fbs' \in [Pipes -> Filebufs]
        /\ pipes'["out"] = pipes["out"] /\ fbs'["out"] = fbs["out"]
        /\ pipes'["in"] = pipes["in"] ++ FirstOf(s, room) /\ Len(pipes'["in"]) <= PipeSize
    BY <1>3, <2>1, <2>2, InIsWritten
  <2>4. SubSeq(Input, 1, put) ++ FirstOf(s, room) = SubSeq(Input, 1, put')
    BY <1>1, <1>3, <2>1, <2>2, Sent
  <2>5. put' \in Nat /\ put' <= Len(Input)
    <3>1. put' = put + Least(task.n, room) /\ Len(Input) \in Nat
      BY <1>3, <2>2, Nothing, InputAssumption DEF Texts
    <3> QED BY <1>1, <3>1 DEF Least
  <2>6. program.status # "done"
    BY <1>1, <1>3 DEF ReaderGone, ProgramInv, ProgramSeen
  <2>7. ProgramTyped'
    BY <1>1, <1>3, <2>3, <2>5 DEF Answers, NoTask, ProgramInv, ProgramTyped, Turns, Tasks
  <2>8. ProgramCalls' /\ ProgramSeen'
    BY <1>1, <1>3, <2>3, <2>5, <2>6 DEF Answers, NoTask, ProgramInv, ProgramCalls, ProgramSeen
  <2>9. FileLeaves'
    <3>1. PICK f \in Texts : f = FirstOf(s, room)
      BY <2>1, <2>2, Cut
    <3>2. PICK y \in Texts : y = cbuf ++ (pipes["out"] ++ (program.held ++ pipes["in"]))
      BY <1>1, Together
    <3>3. base ++ (cbuf ++ (pipes["out"] ++ (program.held ++ (pipes["in"] ++ f)))) = (base ++ y) ++ f
      <4>1. cbuf ++ (pipes["out"] ++ (program.held ++ (pipes["in"] ++ f))) = y ++ f
        <5>1. PICK c \in Texts, o \in Texts, h \in Texts, i \in Texts :
                c = cbuf /\ o = pipes["out"] /\ h = program.held /\ i = pipes["in"]
          BY <1>1
        <5>2. c ++ (o ++ (h ++ (i ++ f))) = (c ++ (o ++ (h ++ i))) ++ f
          BY Behind
        <5> QED BY <3>2, <5>1, <5>2
      <4>2. base ++ (y ++ f) = (base ++ y) ++ f
        BY <1>1, Regrouped
      <4> QED BY <4>1, <4>2
    <3>4. Alive /\ ~mishaps.short => base ++ y = SubSeq(Input, 1, put)
      BY <1>1, <3>2 DEF ProgramInv, FileLeaves
    <3> QED BY <1>1, <1>3, <2>3, <2>4, <3>1, <3>3, <3>4 DEF Answers, FileLeaves, Alive
  <2>10. FileArrives' /\ ListingArrives'
    BY <1>1 DEF FileArrives, ListingArrives
  <2> QED BY <2>7, <2>8, <2>9, <2>10 DEF ProgramInv
<1>4. CASE ReadInput("poll") /\ UNCHANGED put
  BY <1>1, <1>4, SafeReadInput
<1> QED BY <1>2, <1>3, <1>4 DEF WriteTurn

\* A line is taken out of what was read ahead and what was read now.
LEMMA LineTaken ==
    ASSUME NEW g \in Texts, NEW b \in Texts, NEW d \in Texts, NEW l \in Texts, NEW rest \in Texts,
           b ++ d = l ++ rest, NEW w \in Texts
    PROVE  (g ++ l) ++ (rest ++ w) = g ++ (b ++ (d ++ w))
<1>1. rest ++ w \in Texts /\ l ++ rest \in Texts /\ d ++ w \in Texts
  BY Together
<1>2. (g ++ l) ++ (rest ++ w) = g ++ (l ++ (rest ++ w))
  BY <1>1, Regrouped
<1>3. l ++ (rest ++ w) = (l ++ rest) ++ w
  BY Regrouped
<1>4. (b ++ d) ++ w = b ++ (d ++ w)
  BY Regrouped
<1> QED BY <1>2, <1>3, <1>4

\* av_program_getline.
LEMMA SafeLineTurn == ProgramInv /\ LineTurn => ProgramInv'
<1> SUFFICES ASSUME ProgramInv, LineTurn PROVE ProgramInv'
  OBVIOUS
<1>0. /\ "in" \in Pipes /\ "out" \in Pipes /\ use = "list" /\ result = "ok"
      /\ step = "turn" /\ task.op = "getline"
      /\ got \in Texts /\ program.held \in Texts
      /\ UNCHANGED <<use, base, at, cbuf, program, infed, put, shared, mishaps>>
  BY DEF LineTurn, ProgramInv, ProgramTyped, ProgramCalls, Pipes
<1>1. PICK r : r = Readline("out")
  OBVIOUS
<1>2. LineGiven("out", r)
  BY <1>0, <1>1, ReadlineGives DEF ProgramInv
<1>3. PICK o \in Texts : o = RestOf(pipes["out"], Len(r.data))
  BY <1>2 DEF LineGiven
<1>4. PICK b \in Texts, d \in Texts, l \in Texts, rest \in Texts, h \in Texts :
        b = fbs["out"].buf /\ d = r.data /\ l = r.line /\ rest = r.f.buf /\ h = program.held
  BY <1>0, <1>2 DEF LineGiven, ProgramInv, ProgramTyped, Filebufs
<1>5. b ++ d = l ++ rest /\ d ++ o = pipes["out"]
  BY <1>2, <1>3, <1>4 DEF LineGiven
<1>6. /\ fbs' = [fbs EXCEPT !["out"] = r.f] /\ pipes' = [pipes EXCEPT !["out"] = o]
      /\ got' = got ++ l
      /\ IF l # <<>> THEN Answers("ok") ELSE GoesTo(IF r.f.eof /\ fbs["err"].eof THEN "reap" ELSE "poll")
  BY <1>1, <1>3, <1>4 DEF LineTurn, ++
<1>7. /\ pipes' \in [Pipes -> Texts] /\ fbs' \in [Pipes -> Filebufs]
      /\ fbs'["out"] = r.f /\ pipes'["out"] = o /\ pipes'["in"] = pipes["in"]
  BY <1>0, <1>2, <1>6 DEF LineGiven, ProgramInv, ProgramTyped
<1>8. r.f.avail /\ o = <<>> => program.status # "runs"
  <2>1. ASSUME r.f.avail, o = <<>> PROVE fbs["out"].avail /\ pipes["out"] = <<>>
    <3>1. fbs["out"].avail /\ d = <<>>
      BY <1>2, <1>4, <2>1 DEF LineGiven
    <3> QED BY <1>5, <2>1, <3>1, Alone
  <2> QED BY <2>1 DEF ProgramInv, ProgramSeen
<1>9. ASSUME r.f.eof PROVE program.status # "runs" /\ o = <<>>
  <2>1. program.status # "runs" /\ pipes["out"] = <<>>
    <3>1. CASE fbs["out"].eof
      BY <3>1 DEF ProgramInv, ProgramSeen
    <3>2. CASE ~fbs["out"].eof
      <4>1. fbs["out"].avail /\ pipes["out"] = <<>>
        BY <1>2, <1>9, <3>2 DEF LineGiven
      <4> QED BY <4>1 DEF ProgramInv, ProgramSeen
    <3> QED BY <3>1, <3>2
  <2>2. d = <<>>
    BY <1>2, <1>4, <2>1 DEF LineGiven
  <2> QED BY <1>5, <2>1, <2>2, Alone
<1>10. step' \in {"idle", "poll", "reap"} /\ result' = "ok" /\ (step' = "reap" => r.f.eof /\ l = <<>>)
  BY <1>0, <1>6 DEF Answers, GoesTo
<1>11. ProgramTyped'
  <2>1. got' \in Texts
    BY <1>0, <1>6, Together
  <2>2. task' \in [op : Tasks, n : Nat]
    BY <1>6 DEF Answers, GoesTo, NoTask, ProgramInv, ProgramTyped, Tasks
  <2>3. step' \in Turns /\ result' \in {"ok", "end", "EIO"}
    BY <1>10 DEF Turns
  <2> QED BY <1>0, <1>7, <2>1, <2>2, <2>3 DEF ProgramInv, ProgramTyped
<1>12. ProgramCalls'
  <2>1. (step' = "idle" /\ task'.op = "none") \/ (step' # "idle" /\ task' = task)
    <3>1. CASE Answers("ok")
      BY <3>1 DEF Answers, NoTask
    <3>2. CASE GoesTo("reap") \/ GoesTo("poll")
      BY <3>2 DEF GoesTo
    <3> QED BY <1>6, <3>1, <3>2
  <2> QED BY <1>0, <1>10, <2>1 DEF ProgramInv, ProgramCalls
<1>13. ProgramSeen'
  BY <1>0, <1>7, <1>8, <1>9, <1>10 DEF ProgramInv, ProgramSeen
<1>14. ListingArrives'
  <2>1. PICK g \in Texts : g = got
    BY <1>0
  <2>2. \A w \in Texts : (g ++ l) ++ (rest ++ w) = g ++ (b ++ (d ++ w))
    BY <1>5, LineTaken
  <2>3. d ++ (o ++ h) = pipes["out"] ++ h
    <3>1. (d ++ o) ++ h = d ++ (o ++ h)
      BY Regrouped
    <3> QED BY <1>5, <3>1
  <2>4. (g ++ l) ++ (rest ++ (o ++ h)) = g ++ (b ++ (pipes["out"] ++ h))
    <3>1. o ++ h \in Texts
      BY Together
    <3> QED BY <2>2, <2>3, <3>1
  <2>5. (g ++ l) ++ (rest ++ o) = g ++ (b ++ pipes["out"])
    <3>1. (g ++ l) ++ (rest ++ o) = g ++ (b ++ (d ++ o))
      BY <2>2
    <3> QED BY <1>5, <3>1
  <2>6. /\ Alive => got ++ (b ++ (pipes["out"] ++ h)) = Input
        /\ IsPrefix(got ++ (b ++ pipes["out"]), Input)
    BY <1>0, <1>4 DEF ProgramInv, ListingArrives
  <2>7. step' = "reap" => Ends(rest) = {}
    BY <1>2, <1>4, <1>10 DEF LineGiven
  <2> QED BY <1>0, <1>4, <1>6, <1>7, <1>10, <2>1, <2>4, <2>5, <2>6, <2>7 DEF ListingArrives, Alive
<1>15. FileArrives' /\ FileLeaves'
  BY <1>0 DEF FileArrives, FileLeaves
<1> QED BY <1>11, <1>12, <1>13, <1>14, <1>15 DEF ProgramInv

\* The lines of a text are in what is before a rest that ends no line.
LEMMA LinesWithin ==
    ASSUME NEW g \in Texts, NEW b \in Texts, g ++ b = Input, Ends(b) = {}
    PROVE  Len(g) >= Lines
<1>1. PICK len \in Nat : len = Len(g)
  BY Nothing
<1>2. Input \in Texts
  BY InputAssumption DEF Texts
<1>3. CASE Ends(Input) = {}
  BY <1>1, <1>3 DEF Lines
<1>4. CASE Ends(Input) # {}
  <2>1. PICK i : i = CHOOSE k \in Ends(Input) : \A j \in Ends(Input) : k >= j
    OBVIOUS
  <2>2. i \in Ends(Input) /\ Lines = i
    BY <1>2, <1>4, <2>1, EndsWithin DEF Lines
  <2>3. PICK all \in Nat, rest \in Nat : all = Len(Input) /\ rest = Len(b) /\ all = len + rest
    <3>1. Len(g ++ b) = Len(g) + Len(b)
      BY Joined
    <3>2. Len(Input) \in Nat /\ Len(b) \in Nat
      BY <1>2, Nothing
    <3> QED BY <1>1, <3>1, <3>2
  <2>4. i \in 1..all /\ Input[i] \in LineEnds
    BY <1>2, <2>2, <2>3, EndsWithin DEF Ends
  <2>5. ASSUME i > len PROVE FALSE
    <3>1. (g \o b)[i] = b[i - len]
      <4>1. \A k \in 1..(Len(g) + Len(b)) : (g \o b)[k] = IF k <= Len(g) THEN g[k] ELSE b[k - Len(g)]
        BY ConcatProperties DEF Texts
      <4>2. \A k \in 1..all : (g \o b)[k] = IF k <= len THEN g[k] ELSE b[k - len]
        BY <1>1, <2>3, <4>1
      <4>3. (g \o b)[i] = IF i <= len THEN g[i] ELSE b[i - len]
        BY <2>4, <4>2
      <4>4. ~(i <= len)
        BY <2>4, <2>5
      <4> QED BY <4>3, <4>4
    <3>2. Input[i] = b[i - len]
      BY <3>1 DEF ++
    <3>3. i - len \in 1..rest
      BY <2>3, <2>4, <2>5
    <3>4. DOMAIN b = 1..rest
      BY <2>3, LenProperties DEF Texts
    <3>5. i - len \in Ends(b)
      BY <2>4, <3>2, <3>3, <3>4 DEF Ends
    <3> QED BY <3>5
  <2> QED BY <1>1, <2>2, <2>4, <2>5
<1> QED BY <1>3, <1>4

\* Reap keeps the invariant.
LEMMA SafeReap == ProgramInv /\ Reap => ProgramInv'
<1> SUFFICES ASSUME ProgramInv, Reap PROVE ProgramInv'
  BY DEF ProgramInv
<1>0. NoProgram \in [status : Statuses, held : Texts, say : Texts]
  BY Nothing DEF NoProgram, Statuses
<1>1. ProgramTyped'
  BY <1>0 DEF Reap, Answers, NoTask, ProgramInv, ProgramTyped, Turns, Tasks
<1>2. ProgramCalls' /\ ProgramSeen'
  BY DEF Reap, Answers, NoProgram, NoTask, ProgramInv, ProgramCalls, ProgramSeen
<1>3. FileArrives' /\ FileLeaves' /\ ListingArrives'
  <2>1. /\ UNCHANGED <<use, base, at, cbuf, pipes, fbs, infed, got, put, shared, mishaps>>
        /\ ~Alive' /\ step' = "idle" /\ result' \in {"end", "EIO"}
    BY DEF Reap, Answers, NoProgram, Alive
  <2>2. /\ result' = "end" => program.status = "done" /\ Alive
        /\ result = "ok"
        /\ use \in {"get", "put", "list"} => step = "reap"
    BY DEF Reap, Answers, ProgramInv, ProgramCalls, Alive
  <2>3. /\ got \in Texts /\ base \in Texts /\ cbuf \in Texts /\ fbs["out"].buf \in Texts
        /\ <<>> \in Texts
    BY Nothing DEF ProgramInv, ProgramTyped, Filebufs, Pipes
  <2>4. FileArrives'
    <3>1. ASSUME use = "get", result' = "end" PROVE got = base
      <4>1. /\ pipes["out"] = <<>> /\ program.held = <<>> /\ pipes["in"] = <<>> /\ ~infed
        BY <2>2, <3>1 DEF ProgramInv, ProgramSeen
      <4>2. cbuf = <<>> /\ at = Len(base) /\ got ++ (<<>> ++ (<<>> ++ (<<>> ++ <<>>))) = SubSeq(base, 1, at)
        BY <2>2, <3>1, <4>1 DEF ProgramInv, FileArrives
      <4>3. got ++ (<<>> ++ (<<>> ++ (<<>> ++ <<>>))) = got
        BY <2>3, Alone
      <4>4. SubSeq(base, 1, Len(base)) = base
        BY <2>3, SubSeqFull DEF Texts
      <4> QED BY <4>2, <4>3, <4>4
    <3> QED BY <2>1, <3>1 DEF ProgramInv, FileArrives
  <2>5. FileLeaves'
    <3>1. ASSUME use = "put", ~mishaps.short, result' = "end" PROVE base = SubSeq(Input, 1, put)
      <4>1. /\ pipes["out"] = <<>> /\ program.held = <<>> /\ pipes["in"] = <<>>
        BY <2>2, <3>1 DEF ProgramInv, ProgramSeen
      <4>2. cbuf = <<>> /\ base ++ (<<>> ++ (<<>> ++ (<<>> ++ <<>>))) = SubSeq(Input, 1, put)
        BY <2>2, <3>1, <4>1 DEF ProgramInv, FileLeaves
      <4>3. base ++ (<<>> ++ (<<>> ++ (<<>> ++ <<>>))) = base
        BY <2>3, Alone
      <4> QED BY <4>2, <4>3
    <3> QED BY <2>1, <3>1 DEF ProgramInv, FileLeaves
  <2>6. ListingArrives'
    <3>1. ASSUME use = "list", result' = "end" PROVE Len(got) >= Lines
      <4>1. pipes["out"] = <<>> /\ program.held = <<>>
        BY <2>2, <3>1 DEF ProgramInv, ProgramSeen
      <4>2. Ends(fbs["out"].buf) = {} /\ got ++ (fbs["out"].buf ++ (<<>> ++ <<>>)) = Input
        BY <2>2, <3>1, <4>1 DEF ProgramInv, ListingArrives
      <4>3. fbs["out"].buf ++ (<<>> ++ <<>>) = fbs["out"].buf
        BY <2>3, Alone
      <4> QED BY <2>3, <4>2, <4>3, LinesWithin
    <3> QED BY <2>1, <3>1 DEF ProgramInv, ListingArrives
  <2> QED BY <2>4, <2>5, <2>6
<1> QED BY <1>1, <1>2, <1>3 DEF ProgramInv

\* CopyTurn keeps the invariant.
LEMMA SafeCopyTurn == ProgramInv /\ CopyTurn => ProgramInv'
<1> SUFFICES ASSUME ProgramInv, CopyTurn PROVE ProgramInv'
  BY DEF ProgramInv
<1>1. ProgramTyped'
  BY DEF CopyTurn, Answers, NoTask, ProgramInv, ProgramTyped, Statuses, Tasks, Turns
<1>2. ProgramCalls' /\ ProgramSeen'
  BY DEF CopyTurn, Answers, NoTask, ProgramInv, ProgramTyped, ProgramCalls, ProgramSeen
<1>3. FileArrives' /\ FileLeaves' /\ ListingArrives'
  BY DEF CopyTurn, Answers, NoTask, ProgramInv, ProgramTyped, ProgramCalls, ProgramSeen, FileArrives, FileLeaves, ListingArrives, Alive
<1> QED BY <1>1, <1>2, <1>3 DEF ProgramInv

----------------------------------------------------------------------------
(* What the program does meanwhile.                                        *)

\* ProgramReads keeps the invariant.
LEMMA SafeProgramReads == ProgramInv /\ ProgramReads => ProgramInv'
<1> SUFFICES ASSUME ProgramInv, ProgramReads PROVE ProgramInv'
  OBVIOUS
<1>0. /\ program.held \in Texts /\ pipes["in"] \in Texts /\ pipes["in"] # <<>> /\ cbuf \in Texts
      /\ pipes["out"] \in Texts /\ "in" \in Pipes /\ "out" \in Pipes
  BY DEF ProgramInv, ProgramTyped, ProgramReads, Pipes
<1>1. PICK h : h = Append(program.held, Head(pipes["in"]))
  OBVIOUS
<1>2. PICK t : t = Tail(pipes["in"])
  OBVIOUS
<1>3. /\ h \in Texts /\ t \in Texts
      /\ h ++ (t ++ cbuf) = program.held ++ (pipes["in"] ++ cbuf)
      /\ h ++ t = program.held ++ pipes["in"]
  BY <1>0, <1>1, <1>2, Passed
<1>4. Len(t) <= Len(pipes["in"])
  <2>1. Len(t) = Len(pipes["in"]) - 1
    BY <1>0, <1>2, HeadTailProperties DEF Texts
  <2> QED BY <1>0, <2>1, Nothing
<1>5. program' = [program EXCEPT !.held = h] /\ pipes' = [pipes EXCEPT !["in"] = t]
  BY <1>1, <1>2 DEF ProgramReads
<1>6. /\ program' \in [status : Statuses, held : Texts, say : Texts] /\ pipes' \in [Pipes -> Texts]
      /\ program'.status = program.status /\ program'.held = h
      /\ pipes'["in"] = t /\ pipes'["out"] = pipes["out"]
  BY <1>0, <1>3, <1>5 DEF ProgramInv, ProgramTyped
<1>7. /\ program.status = "runs"
      /\ UNCHANGED <<use, base, at, cbuf, fbs, infed, got, put, step, task, result, shared, mishaps>>
  BY DEF ProgramReads, Busy, NothingOfAvfs, calling
<1>8. ProgramTyped'
  BY <1>6, <1>7 DEF ProgramInv, ProgramTyped
<1>9. ProgramCalls'
  BY <1>6, <1>7 DEF ProgramInv, ProgramCalls
<1>10. ProgramSeen'
  <2>1. Len(t) <= PipeSize
    <3>1. Len(t) \in Nat /\ Len(pipes["in"]) \in Nat /\ Len(pipes["in"]) <= PipeSize
      BY <1>0, <1>3, Nothing DEF ProgramInv, ProgramSeen
    <3> QED BY <1>4, <3>1, PipeAssumption
  <2> QED BY <1>0, <1>6, <1>7, <2>1 DEF ProgramInv, ProgramSeen
<1>11. FileArrives'
  BY <1>3, <1>6, <1>7 DEF ProgramInv, FileArrives, Alive
<1>12. FileLeaves'
  BY <1>3, <1>6, <1>7 DEF ProgramInv, FileLeaves, Alive
<1>13. ListingArrives'
  <2>1. use # "list"
    BY <1>0 DEF ProgramInv, ProgramSeen
  <2> QED BY <1>7, <2>1 DEF ListingArrives
<1> QED BY <1>8, <1>9, <1>10, <1>11, <1>12, <1>13 DEF ProgramInv

\* ProgramWrites keeps the invariant.
LEMMA SafeProgramWrites == ProgramInv /\ ProgramWrites => ProgramInv'
<1> SUFFICES ASSUME ProgramInv, ProgramWrites PROVE ProgramInv'
  OBVIOUS
<1>0. /\ program.held \in Texts /\ program.held # <<>> /\ pipes["in"] \in Texts /\ cbuf \in Texts
      /\ pipes["out"] \in Texts /\ "in" \in Pipes /\ "out" \in Pipes
      /\ got \in Texts /\ base \in Texts /\ fbs["out"].buf \in Texts /\ at \in Nat
  BY DEF ProgramInv, ProgramTyped, ProgramWrites, Pipes, Filebufs
<1>1. PICK o : o = Append(pipes["out"], Head(program.held))
  OBVIOUS
<1>2. PICK h : h = Tail(program.held)
  OBVIOUS
<1>3. /\ o \in Texts /\ h \in Texts
      /\ \A u \in Texts : o ++ (h ++ u) = pipes["out"] ++ (program.held ++ u)
      /\ o ++ h = pipes["out"] ++ program.held
      /\ Len(o) = Len(pipes["out"]) + 1
  BY <1>0, <1>1, <1>2, Passed
<1>4. o # <<>>
  BY <1>0, <1>3, Nothing
<1>5. /\ program' = [program EXCEPT !.held = h]
      /\ use = "copy" => UNCHANGED pipes
      /\ use # "copy" => pipes' = [pipes EXCEPT !["out"] = o] /\ UNCHANGED got
  BY <1>1, <1>2 DEF ProgramWrites
<1>6. /\ program' \in [status : Statuses, held : Texts, say : Texts]
      /\ program'.status = program.status /\ program'.held = h
  BY <1>3, <1>5 DEF ProgramInv, ProgramTyped
<1>7. /\ pipes' \in [Pipes -> Texts] /\ pipes'["in"] = pipes["in"]
      /\ use # "copy" => pipes'["out"] = o
      /\ use = "copy" => pipes'["out"] = pipes["out"]
  BY <1>0, <1>3, <1>5 DEF ProgramInv, ProgramTyped
<1>8. /\ program.status = "runs"
      /\ UNCHANGED <<use, base, at, cbuf, fbs, infed, put, step, task, result, shared, mishaps>>
  BY DEF ProgramWrites, Busy, NothingOfAvfs, calling
<1>9. ProgramTyped'
  <2>1. got' \in Texts
    <3>1. CASE use = "copy"
      <4>1. got' = Append(got, Head(program.held))
        BY <3>1 DEF ProgramWrites
      <4> QED BY <1>0, <4>1, Passed
    <3> QED BY <1>0, <1>5, <3>1
  <2> QED BY <1>6, <1>7, <1>8, <2>1 DEF ProgramInv, ProgramTyped
<1>10. ProgramCalls'
  BY <1>6, <1>8 DEF ProgramInv, ProgramCalls
<1>11. ProgramSeen'
  BY <1>4, <1>6, <1>7, <1>8 DEF ProgramInv, ProgramSeen
<1>12. FileArrives'
  <2>1. ASSUME use = "get" PROVE FileArrives'
    <3>1. pipes'["out"] = o /\ got' = got
      BY <1>5, <1>7, <2>1
    <3>2. pipes["in"] ++ cbuf \in Texts
      BY <1>0, Together
    <3>3. got ++ (o ++ (h ++ (pipes["in"] ++ cbuf))) = SubSeq(base, 1, at)
      BY <1>3, <1>8, <2>1, <3>2 DEF ProgramInv, FileArrives, Alive
    <3>4. at <= Len(base)
      BY <2>1 DEF ProgramInv, FileArrives
    <3>5. IsPrefix(got ++ o, base)
      <4>1. PICK w \in Texts : w = h ++ (pipes["in"] ++ cbuf)
        BY <1>3, <3>2, Together
      <4>2. PICK r \in Texts : SubSeq(base, 1, at) ++ r = base
        BY <1>0, <3>4, UpTo
      <4>3. (got ++ (o ++ w)) ++ r = base
        BY <3>3, <4>1, <4>2
      <4>4. IsPrefix(got ++ o, (got ++ (o ++ w)) ++ r)
        BY <1>0, <1>3, SoFar
      <4> QED BY <4>3, <4>4
    <3> QED BY <1>6, <1>7, <1>8, <2>1, <3>1, <3>3, <3>5 DEF ProgramInv, FileArrives
  <2> QED BY <1>8, <2>1 DEF FileArrives
<1>13. FileLeaves'
  BY <1>0, <1>3, <1>6, <1>7, <1>8 DEF ProgramInv, FileLeaves, Alive
<1>14. ListingArrives'
  <2>1. ASSUME use = "list" PROVE ListingArrives'
    <3>1. pipes'["out"] = o /\ got' = got
      BY <1>5, <1>7, <2>1
    <3>2. got ++ (fbs["out"].buf ++ (o ++ h)) = Input
      BY <1>3, <1>8, <2>1 DEF ProgramInv, ListingArrives, Alive
    <3>3. IsPrefix(got ++ (fbs["out"].buf ++ o), Input)
      <4>1. PICK b \in Texts : b = fbs["out"].buf
        BY <1>0
      <4>2. b ++ (o ++ h) = (b ++ o) ++ h /\ b ++ o \in Texts
        BY <1>3, Together, Regrouped
      <4>3. got ++ (b ++ o) \in Texts
        BY <1>0, <4>2, Together
      <4>4. Input = (got ++ (b ++ o)) ++ h
        BY <1>0, <1>3, <3>2, <4>1, <4>2, Regrouped
      <4>5. Input \in Texts
        BY InputAssumption DEF Texts
      <4> QED BY <1>3, <4>1, <4>3, <4>4, <4>5, Beginnings
    <3> QED BY <1>6, <1>7, <1>8, <2>1, <3>1, <3>2, <3>3 DEF ProgramInv, ListingArrives
  <2> QED BY <1>8, <2>1 DEF ListingArrives
<1> QED BY <1>9, <1>10, <1>11, <1>12, <1>13, <1>14 DEF ProgramInv

\* ProgramComplains keeps the invariant.
LEMMA SafeProgramComplains == ProgramInv /\ ProgramComplains => ProgramInv'
<1> SUFFICES ASSUME ProgramInv, ProgramComplains PROVE ProgramInv'
  BY DEF ProgramInv
<1>0. /\ pipes["err"] \in Texts /\ program.say \in Texts /\ program.say # <<>>
      /\ "err" \in Pipes /\ "in" \in Pipes /\ "out" \in Pipes
  BY DEF ProgramInv, ProgramTyped, ProgramComplains, Pipes
<1>1. Append(pipes["err"], Head(program.say)) \in Texts /\ Tail(program.say) \in Texts
  BY <1>0, Passed
<1>2. /\ pipes' = [pipes EXCEPT !["err"] = Append(@, Head(program.say))]
      /\ program' = [program EXCEPT !.say = Tail(@)]
  BY DEF ProgramComplains
<1>3. /\ pipes' \in [Pipes -> Texts] /\ pipes'["in"] = pipes["in"] /\ pipes'["out"] = pipes["out"]
      /\ program' \in [status : Statuses, held : Texts, say : Texts]
      /\ program'.status = program.status /\ program'.held = program.held
  BY <1>0, <1>1, <1>2 DEF ProgramInv, ProgramTyped
<1>4. ProgramTyped'
  BY <1>3 DEF ProgramComplains, NothingOfAvfs, calling, ProgramInv, ProgramTyped
<1>5. ProgramCalls' /\ ProgramSeen'
  BY <1>3 DEF ProgramComplains, NothingOfAvfs, calling, ProgramInv, ProgramCalls, ProgramSeen
<1>6. FileArrives' /\ FileLeaves' /\ ListingArrives'
  BY <1>3 DEF ProgramComplains, NothingOfAvfs, calling, ProgramInv, FileArrives, FileLeaves, ListingArrives, Alive
<1> QED BY <1>4, <1>5, <1>6 DEF ProgramInv

\* ProgramGrumbles keeps the invariant.
LEMMA SafeProgramGrumbles == ProgramInv /\ ProgramGrumbles => ProgramInv'
<1> SUFFICES ASSUME ProgramInv, ProgramGrumbles PROVE ProgramInv'
  BY DEF ProgramInv
<1>0. mishaps' \in Wrongs /\ mishaps'.short = mishaps.short
  <2>1. PICK m \in Wrongs : m = mishaps
    BY DEF ProgramInv, ProgramTyped
  <2>2. m.grumbles \in Nat /\ m.grumbles > 0
    BY <2>1 DEF ProgramGrumbles, Wrongs
  <2>3. mishaps' = [m EXCEPT !.grumbles = m.grumbles - 1, !.grumbled = TRUE]
    BY <2>1 DEF ProgramGrumbles
  <2>4. PICK k \in Nat : k = m.grumbles - 1
    BY <2>2
  <2>5. mishaps' = [left |-> m.left, short |-> m.short, grumbles |-> k, grumbled |-> TRUE]
    BY <2>3, <2>4 DEF Wrongs
  <2>6. m.left \in Nat /\ m.short \in BOOLEAN
    BY DEF Wrongs
  <2> QED BY <2>1, <2>5, <2>6 DEF Wrongs
<1>1. ProgramTyped'
  <2>1. Input \in Texts
    BY InputAssumption DEF Texts
  <2>2. program' \in [status : Statuses, held : Texts, say : Texts]
    BY <2>1 DEF ProgramGrumbles, ProgramInv, ProgramTyped
  <2> QED BY <1>0, <2>2 DEF ProgramGrumbles, NothingOfAvfs, calling, ProgramInv, ProgramTyped
<1>2. ProgramCalls' /\ ProgramSeen'
  BY <1>0 DEF ProgramGrumbles, NothingOfAvfs, calling, ProgramInv, ProgramTyped, ProgramCalls, ProgramSeen
<1>3. FileArrives' /\ FileLeaves' /\ ListingArrives'
  BY <1>0 DEF ProgramGrumbles, NothingOfAvfs, calling, ProgramInv, ProgramTyped, FileArrives, FileLeaves, ListingArrives, Alive
<1> QED BY <1>1, <1>2, <1>3 DEF ProgramInv

\* ProgramFails keeps the invariant.
LEMMA SafeProgramFails == ProgramInv /\ ProgramFails => ProgramInv'
<1> SUFFICES ASSUME ProgramInv, ProgramFails PROVE ProgramInv'
  BY DEF ProgramInv
<1>0. mishaps' \in Wrongs /\ mishaps'.short = mishaps.short
  BY MishapTyped DEF ProgramFails, ProgramInv, ProgramTyped
<1>1. ProgramTyped'
  BY <1>0, Nothing DEF ProgramFails, NoProgram, NothingOfAvfs, calling, ProgramInv, ProgramTyped, Statuses, Tasks, Turns
<1>2. ProgramCalls' /\ ProgramSeen'
  BY <1>0, Nothing DEF ProgramFails, NoProgram, NothingOfAvfs, calling, ProgramInv, ProgramTyped, ProgramCalls, ProgramSeen
<1>3. FileArrives' /\ FileLeaves' /\ ListingArrives'
  BY <1>0, Nothing DEF ProgramFails, NoProgram, NothingOfAvfs, calling, ProgramInv, ProgramTyped, ProgramCalls, ProgramSeen, FileArrives, FileLeaves, ListingArrives, Alive
<1> QED BY <1>1, <1>2, <1>3 DEF ProgramInv

\* ProgramDone keeps the invariant.
LEMMA SafeProgramDone == ProgramInv /\ ProgramDone => ProgramInv'
<1> SUFFICES ASSUME ProgramInv, ProgramDone PROVE ProgramInv'
  BY DEF ProgramInv
<1>1. ProgramTyped'
  BY DEF ProgramDone, Busy, NothingOfAvfs, calling, ProgramInv, ProgramTyped, Statuses, Tasks, Turns
<1>2. ProgramCalls' /\ ProgramSeen'
  BY DEF ProgramDone, Busy, NothingOfAvfs, calling, ProgramInv, ProgramTyped, ProgramCalls, ProgramSeen
<1>3. FileArrives' /\ FileLeaves' /\ ListingArrives'
  BY DEF ProgramDone, Busy, NothingOfAvfs, calling, ProgramInv, ProgramTyped, ProgramCalls, ProgramSeen, FileArrives, FileLeaves, ListingArrives, Alive
<1> QED BY <1>1, <1>2, <1>3 DEF ProgramInv

\* OtherEnds keeps the invariant.
LEMMA SafeOtherEnds == ProgramInv /\ OtherEnds => ProgramInv'
<1> SUFFICES ASSUME ProgramInv, OtherEnds PROVE ProgramInv'
  BY DEF ProgramInv
<1>1. ProgramTyped'
  <2>1. ProgramTyped
    BY DEF ProgramInv
  <2>2. /\ UNCHANGED <<use, base, at, cbuf, program, pipes, fbs, infed, got, put, step, task, result, mishaps>>
        /\ shared' = FALSE
    BY DEF OtherEnds, NothingOfAvfs, calling
  <2> QED BY ONLY <2>1, <2>2 DEF ProgramTyped
<1>2. ProgramCalls' /\ ProgramSeen'
  BY DEF OtherEnds, NothingOfAvfs, calling, ProgramInv, ProgramTyped, ProgramCalls, ProgramSeen
<1>3. FileArrives' /\ FileLeaves' /\ ListingArrives'
  BY DEF OtherEnds, NothingOfAvfs, calling, ProgramInv, ProgramTyped, ProgramCalls, ProgramSeen, FileArrives, FileLeaves, ListingArrives, Alive
<1> QED BY <1>1, <1>2, <1>3 DEF ProgramInv

----------------------------------------------------------------------------
\* No step of the call, of the program or of another one breaks the invariant.
LEMMA ProgramStep == ProgramInv /\ [ProgramNext]_progvars => ProgramInv'
<1> SUFFICES ASSUME ProgramInv, [ProgramNext]_progvars PROVE ProgramInv'
  OBVIOUS
<1>1. CASE StartFilter \/ StartReverse \/ StartProgram \/ StopProgram
  BY <1>1, SafeStart, SafeStopProgram
<1>2. CASE ReadFilter \/ WriteFilter \/ EndFilter \/ Getline \/ WaitCopy
  BY <1>2, SafeReadFilter, SafeWriteFilter, SafeEndFilter, SafeGetline, SafeWaitCopy
<1>3. CASE AvfsGoesOn \/ PollTimesOut
  BY <1>3, SafeCheckError, SafePoll, SafeReadTurn, SafeWriteTurn, SafeEndTurn, SafeEndFlush,
     SafeLineTurn, SafeReap, SafeCopyTurn, SafePollTimesOut DEF AvfsGoesOn
<1>4. CASE ProgramGoesOn \/ ProgramGrumbles \/ ProgramFails \/ OtherEnds
  BY <1>4, SafeProgramReads, SafeProgramWrites, SafeProgramComplains, SafeProgramDone,
     SafeProgramGrumbles, SafeProgramFails, SafeOtherEnds DEF ProgramGoesOn
<1>5. CASE UNCHANGED progvars
  <2>1. ProgramTyped' /\ ProgramCalls' /\ ProgramSeen'
    BY <1>5 DEF progvars, ProgramInv, ProgramTyped, ProgramCalls, ProgramSeen
  <2>2. FileArrives' /\ FileLeaves' /\ ListingArrives'
    BY <1>5 DEF progvars, ProgramInv, FileArrives, FileLeaves, ListingArrives, Alive
  <2> QED BY <2>1, <2>2 DEF ProgramInv
<1> QED BY <1>1, <1>2, <1>3, <1>4, <1>5 DEF ProgramNext

\* What has arrived is a beginning of what has arrived or is on its way.
LEMMA ProgramInvIsTrue == ProgramInv => ProgramTrue
<1> SUFFICES ASSUME ProgramInv PROVE ProgramTrue
  OBVIOUS
<1>1. Input \in Texts /\ got \in Texts /\ base \in Texts /\ pipes["out"] \in Texts /\ fbs["out"].buf \in Texts
  BY InputAssumption DEF Texts, ProgramInv, ProgramTyped, Pipes, Filebufs
<1>2. ASSUME NEW g \in Texts, NEW o \in Texts, NEW t \in Texts, IsPrefix(g ++ o, t) PROVE IsPrefix(g, t)
  <2>1. PICK u \in Texts : t = (g ++ o) ++ u
    BY <1>2, Together, Beginnings
  <2>2. t = g ++ (o ++ u) /\ o ++ u \in Texts
    BY <2>1, Together, Regrouped
  <2> QED BY <2>2, Beginnings
<1>3. use = "get" => IsPrefix(got, base) /\ (result = "end" => got = base)
  BY <1>1, <1>2 DEF ProgramInv, FileArrives
<1>4. use = "put" /\ result = "end" /\ ~mishaps.short => base = SubSeq(Input, 1, put)
  BY DEF ProgramInv, FileLeaves
<1>5. use = "list" => IsPrefix(got, Input) /\ (result = "end" => Len(got) >= Lines)
  <2>1. fbs["out"].buf ++ pipes["out"] \in Texts
    BY <1>1, Together
  <2> QED BY <1>1, <1>2, <2>1 DEF ProgramInv, ListingArrives
<1> QED BY <1>3, <1>4, <1>5 DEF ProgramTrue

\* What goes through a program arrives as it was and in its order: a file read through a
\* filter is the base file as far as it has been read, and all of it when the filter ends
\* well (filtprog_read, filtprog.c:99-215); a file written through one is all in the base
\* file then, unless av_write took less than it was given; and so are the lines of a
\* listing (av_program_getline, runprog.c:142-174).
THEOREM ProgramCorrect == ProgramSpec => []ProgramTrue
<1>1. ProgramInit => ProgramInv
  BY InitSafe
<1>2. ProgramInv /\ [ProgramNext]_progvars => ProgramInv'
  BY ProgramStep
<1>3. ProgramInv => ProgramTrue
  BY ProgramInvIsTrue
<1> QED BY <1>1, <1>2, <1>3, PTL DEF ProgramSpec
=============================================================================
