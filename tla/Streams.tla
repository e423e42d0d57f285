------------------------------- MODULE Streams -------------------------------
(***************************************************************************)
(* What the five readers of compressed files share: compressed images, the *)
(* vfiles of a handler, its nodes, the caches of the readers and the one   *)
(* stream cache of each.  Gzip, Bzip2, Xz, Lzip and Zstd are the readers,  *)
(* each with its handler; CompressedFile puts them together.               *)
(*                                                                         *)
(* An image is a sequence of tokens: "h", a part of a gzip header; "d",    *)
(* input that gives one byte of output; "b", the end of a bzip2 block;     *)
(* "e", the end of a stream or member; "t" and "x", a gzip trailer with a  *)
(* right and a wrong CRC.  Offsets in the input count tokens.              *)
(*                                                                         *)
(* A function of a reader is an operator on a machine m: the file m.f, its *)
(* cache m.c, the stream cache m.sc, what the next call of the system will *)
(* do (m.io), whether it did (m.hit), the result m.res, and the bytes      *)
(* given (m.got).                                                          *)
(***************************************************************************)
EXTENDS Integers, Sequences, FiniteSetsExt

CONSTANTS
    Handles,        \* vfiles
    Formats,        \* the handlers that are run, of "z", "bz", "xz", "lz", "zst"
    Images,         \* for each format the contents the base file has in turn
    Reads,          \* for each format the reads that are made: offset and length
    InBuf, OutBuf,  \* INBUFSIZE, OUTBUFSIZE
    IndexDistance,  \* INDEXDISTANCE
    ExtraDist,      \* ZCACHE_EXTRA_DIST
    LookupCost,     \* LOOKUP_COST_DISTANCE
    MaxCaches,      \* how many caches are made
    MaxNodes, MaxFaults  \* for each format how many nodes are made and calls fail

Tokens == {"h", "d", "b", "e", "t", "x"}

ASSUME StreamsAssumption ==
    /\ Formats \subseteq {"z", "bz", "xz", "lz", "zst"}
    /\ \A f \in Formats :
         Images[f] \in Seq(Seq(Tokens)) /\ Images[f] # <<>> /\ Reads[f] \subseteq Nat \X Nat
    /\ {InBuf, OutBuf, IndexDistance, ExtraDist, LookupCost} \subseteq Nat

VARIABLES
    fmt,     \* the handler that is run
    base,    \* which content the path of the base file leads to
    cell,    \* the node in the file cache, 0 if there is none
    nodes,   \* the nodes made so far: gznode, bznode, ...
    caches,  \* the caches made so far: zcache, bzcache, ...; the id is the index
    sc,      \* the stream cache: scache, bzscache, xzscache
    fd,      \* the vfiles
    faults   \* how many more system calls may fail

reader_vars == <<fmt, base, cell, nodes, caches, sc, fd, faults>>

MAXOFF == 99
NoFile == [img |-> <<>>]
NoStream == [id |-> 0]

Lesser(a, b) == IF a < b THEN a ELSE b

-----------------------------------------------------------------------------
\* Images.

\* How many bytes the k tokens after position p give.
Data(im, p, k) == Cardinality({i \in p + 1 .. p + k : im[i] = "d"})
Total(im) == Data(im, 0, Len(im))

\* How many tokens a decoder takes of avail at p, with room bytes for output:
\* it stops when the output is full, after the end of a stream, and at what is
\* not compressed data.
Take(im, p, avail, room) ==
    Max({0} \cup {k \in 1 .. avail :
                    /\ \A i \in 1 .. k : im[p + i] \in {"d", "b", "e"}
                    /\ \A i \in 1 .. k - 1 : im[p + i] # "e"
                    /\ Data(im, p, k - 1) < room})

AtEnd(im, p) == p > 0 /\ im[p] = "e"

\* A decoder that has read in tokens of the image src and given out bytes; avail
\* tokens more are in the input buffer.
Fresh(im) == [live |-> TRUE, src |-> im, in |-> 0, out |-> 0, avail |-> 0, adler |-> 0]

\* It takes k tokens more from the buffer, which give d bytes; Moved is for a buffer
\* that is not that of the stream.
Taken(s, k, d) == [s EXCEPT !.in = @ + k, !.avail = @ - k, !.out = @ + d]
Moved(s, k, d) == [s EXCEPT !.in = @ + k, !.out = @ + d]

\* The number of indexes at the start of the list that are not past offset: the
\* last of them is the one the searches find, 0 is NULL.
IndexBefore(idx, offset) ==
    LET past == {i \in 1 .. Len(idx) : idx[i].off > offset}
    IN IF past = {} THEN Len(idx) ELSE Min(past) - 1

Fail(m) == [m EXCEPT !.res = "EIO"]
Hit(m)  == [m EXCEPT !.res = "EIO", !.hit = TRUE]

-----------------------------------------------------------------------------
\* Steps.  A vfile is closed, waits for nod->lock in its open, or is open; the
\* call it makes is at pc.

Closed == [st |-> "closed", img |-> <<>>, node |-> 0, fil |-> NoFile, noperm |-> FALSE,
           faulted |-> FALSE,
           pc |-> "idle", op |-> "none", off |-> 0, n |-> 0, zc |-> 0, got |-> 0,
           ans |-> "full"]

Content == Images[fmt][base]
Idle(h) == fd[h].st = "open" /\ fd[h].pc = "idle"
HasFile(h) == fd[h].fil # NoFile
Io == IF faults > 0 THEN {"ok", "read", "index"} ELSE {"ok"}

Machine(h, io) ==
    [f |-> fd[h].fil, c |-> caches[fd[h].zc], sc |-> sc,
     io |-> io, hit |-> FALSE, res |-> "ok", got |-> 0]

\* The step of h that ends in machine m, with the vfile changed to v.
Step(h, m, v) ==
    /\ m.io = "ok" \/ m.hit
    /\ fd' = [fd EXCEPT ![h] = [v EXCEPT !.fil = m.f, !.faulted = @ \/ m.hit]]
    /\ caches' = [caches EXCEPT ![fd[h].zc] = m.c]
    /\ sc' = m.sc
    /\ faults' = IF m.hit THEN faults - 1 ELSE faults

At(h, pc) == [fd[h] EXCEPT !.pc = pc]

\* What a call should give: the bytes from its offset on, or the size.
Due(h) ==
    IF fd[h].op = "read" THEN Lesser(fd[h].n, Max({0, Total(fd[h].img) - fd[h].off}))
    ELSE Total(fd[h].img)

\* The call of v ends; ans is how it did: it gave what it should, or not, or failed.
Returned(v, ans) ==
    [v EXCEPT !.pc = "idle", !.op = "none", !.off = 0, !.n = 0, !.zc = 0, !.got = 0, !.ans = ans]
Error(op) == IF op = "read" THEN "read error" ELSE "size error"
Answer(h, m, got) ==
    Returned(fd[h], IF m.res # "ok" THEN Error(fd[h].op)
                    ELSE IF got = Due(h) THEN "full"
                    ELSE IF fd[h].op = "read" THEN "bad read" ELSE "bad size")

\* A call of h begins, on the cache c and the file f.
Begins(h, op, r, c, f, pc) ==
    [fd[h] EXCEPT !.op = op, !.off = r[1], !.n = r[2], !.zc = c, !.fil = f, !.pc = pc,
                  !.ans = "full"]

\* Or it is answered at once: the file is in error, or the size is in the cache.
ReadRefused(h) == Returned(fd[h], "read error")
SizeKnown(h, size) == Returned(fd[h], IF size = Total(fd[h].img) THEN "full" ELSE "bad size")

\* The vfile of an open of the present content.  One opened only to be examined
\* (AVO_NOPERM) has no file f until its size is asked for, and cannot be read.
Opened(n, f, noperm) ==
    [Closed EXCEPT !.st = "open", !.img = Content, !.node = n, !.noperm = noperm,
                   !.fil = IF noperm THEN NoFile ELSE f]

\* The node for the present content: that of the file cache if it is the same, or
\* a new one, which is put there.
SameNode(same(_)) == cell # 0 /\ same(nodes[cell])
FindNode(same(_), new, cs) ==
    IF SameNode(same)
    THEN UNCHANGED <<cell, nodes, caches>>
    ELSE /\ Len(nodes) < MaxNodes[fmt] /\ Len(caches) + Len(cs) =< MaxCaches
         /\ nodes' = Append(nodes, new)
         /\ cell' = Len(nodes) + 1
         /\ caches' = caches \o cs
NodeFound(same(_)) == IF SameNode(same) THEN cell ELSE Len(nodes) + 1

-----------------------------------------------------------------------------
\* The handlers of bzip2, xz and zstd: a node has its cache from the start, and
\* keeps it.

OpenCached(h, same(_), newcache(_), newfile(_)) ==
    /\ fd[h].st = "closed"
    /\ FindNode(same, [sig |-> base, cache |-> Len(caches) + 1], <<newcache(Len(caches) + 1)>>)
    /\ \E noperm \in BOOLEAN :
         fd' = [fd EXCEPT ![h] = Opened(NodeFound(same), newfile(Content), noperm)]
    /\ UNCHANGED <<fmt, base, sc, faults>>

CloseCached(h, destroy(_)) ==
    /\ Idle(h)
    /\ sc' = IF HasFile(h) THEN destroy([f |-> fd[h].fil, sc |-> sc]).sc ELSE sc
    /\ fd' = [fd EXCEPT ![h] = Closed]
    /\ UNCHANGED <<fmt, base, cell, nodes, caches, faults>>

\* A file in error gives nothing; one that stands at the offset is read at once.
ReadCached(h) ==
    /\ Idle(h) /\ ~fd[h].noperm
    /\ \E r \in Reads[fmt] :
         LET c == nodes[fd[h].node].cache
             f == [fd[h].fil EXCEPT !.id = c]
         IN fd' = [fd EXCEPT ![h] =
                IF f.iserror THEN ReadRefused(h)
                ELSE Begins(h, "read", r, c, f, IF r[1] # f.s.out THEN "goto" ELSE "read")]
    /\ UNCHANGED <<fmt, base, cell, nodes, caches, sc, faults>>

\* The size in the cache, or else that at which the file ends.
SizeCached(h, newfile(_)) ==
    /\ Idle(h)
    /\ LET c == nodes[fd[h].node].cache
           f == IF HasFile(h) THEN fd[h].fil ELSE newfile(fd[h].img)
       IN fd' = [fd EXCEPT ![h] =
              IF caches[c].size # -1
              THEN SizeKnown(h, caches[c].size)
              ELSE Begins(h, "size", <<MAXOFF, 0>>, c, [f EXCEPT !.id = c], "goto")]
    /\ UNCHANGED <<fmt, base, cell, nodes, caches, sc, faults>>

\* The call of h ends.  An error of a read stays with the file, and that of the
\* search for the size does not.
Ends(h, m) ==
    IF fd[h].op = "read"
    THEN Step(h, [m EXCEPT !.f.iserror = @ \/ m.res # "ok"], Answer(h, m, fd[h].got + m.got))
    ELSE Step(h, m, Answer(h, m, m.c.size))

\* The output up to the offset is passed over, in pieces that fit the buffer.
SkipOn(h, decompress(_, _)) ==
    /\ fd[h].pc = "skip"
    /\ \E io \in Io :
         LET m0 == Machine(h, io)
             m  == decompress(m0, Lesser(OutBuf, fd[h].off - m0.f.s.out))
         IN IF m0.f.iseof \/ m0.f.s.out = fd[h].off
            THEN IF fd[h].op = "read" THEN Step(h, m0, At(h, "read"))
                 ELSE Ends(h, IF m0.c.size = -1 THEN Fail(m0) ELSE m0)
            ELSE IF m.res = "ok" THEN Step(h, m, fd[h])
            ELSE Ends(h, [m EXCEPT !.got = 0])
    /\ UNCHANGED <<fmt, base, cell, nodes>>

\* Output is given until the read is satisfied or the file ends.
ReadOn(h, decompress(_, _)) ==
    /\ fd[h].pc = "read"
    /\ \E io \in Io :
         LET m0 == Machine(h, io)
             m  == decompress(m0, fd[h].n - fd[h].got)
         IN IF fd[h].got = fd[h].n \/ m0.f.iseof THEN Ends(h, m0)
            ELSE IF m.res = "ok" THEN Step(h, m, [fd[h] EXCEPT !.got = @ + m.got])
            ELSE Ends(h, m)
    /\ UNCHANGED <<fmt, base, cell, nodes>>
=============================================================================
