--------------------------------- MODULE Gzip ---------------------------------
(***************************************************************************)
(* The reader of gzip files, src/src/zread.c, and its handler,             *)
(* src/modules/ugz.c.                                                      *)
(***************************************************************************)
EXTENDS Streams

CONSTANTS GzHeader, GzTrailer  \* tokens of a gzip header and trailer

\* What follows the end of a member, as far as it is in the file, is its trailer.
TrailersFollow(im) ==
    \A p \in 1 .. Len(im) : im[p] = "e" =>
      \A j \in p + 1 .. p + GzTrailer : j =< Len(im) => im[j] \in {"t", "x"}

ASSUME GzipAssumption ==
    /\ {GzHeader, GzTrailer} \subseteq Nat
    /\ "z" \in Formats => \A i \in 1 .. Len(Images["z"]) : TrailersFollow(Images["z"][i])

\* The stream cache keeps what is needed to go on with a stream; the input is read
\* again then.
zfile_scache_save(m) ==
    IF m.f.id = 0 \/ m.f.iseof THEN m
    ELSE [m EXCEPT !.sc = [id |-> m.f.id, s |-> [m.f.s EXCEPT !.avail = 0],
                           calccrc |-> m.f.calccrc, iseof |-> m.f.iseof]]

zfile_fill_inbuf(m) ==
    IF m.io = "read" THEN Hit(m)
    ELSE [m EXCEPT !.f.s.avail = Lesser(InBuf, Len(m.f.img) - m.f.s.in)]

Advance(m, k) == [m EXCEPT !.f.s = Taken(@, k, 0)]
Refilled(m, k) == IF m.f.s.avail < k THEN zfile_fill_inbuf(m) ELSE m

zfile_parse_gzip_header(m) ==
    LET a == Refilled(m, GzHeader)
    IN IF \/ a.res # "ok" \/ a.f.s.avail < GzHeader
          \/ \E i \in 1 .. GzHeader : a.f.img[a.f.s.in + i] # "h"
       THEN Fail(a) ELSE Advance(a, GzHeader)

\* Of a new stream only the failure is noted, in iserror.
WithHeader(m) ==
    LET a == zfile_parse_gzip_header(m)
    IN [a EXCEPT !.res = "ok", !.f.iserror = @ \/ a.res # "ok"]

zfile_reset(m) ==
    LET a == zfile_scache_save(m)
    IN WithHeader([a EXCEPT !.f.s = Fresh(a.f.img), !.f.iseof = FALSE, !.f.calccrc = FALSE])

zfile_parse_gzip_trailer(m) ==
    LET a == Refilled(m, GzTrailer)
    IN IF a.res # "ok" \/ a.f.s.avail < GzTrailer THEN Fail(a) ELSE Advance(a, GzTrailer)

\* The next member of the file: its input is read anew.
zfile_reinit_state(m) ==
    zfile_parse_gzip_header(
        [m EXCEPT !.f.s = [Fresh(m.f.img) EXCEPT !.in = m.f.s.in, !.out = m.f.s.out],
                  !.f.iseof = FALSE])

zfile_save_index(m) ==
    IF m.io = "index" THEN Hit(m)
    ELSE [m EXCEPT !.c.indexes = Append(@, [off |-> m.f.s.out,
                                           s |-> [m.f.s EXCEPT !.avail = 0, !.adler = 0]]),
                   !.c.nextindex = @ + IndexDistance]

SaveIndexIfDue(m) ==
    IF m.res = "ok" /\ m.f.s.out >= m.c.nextindex THEN zfile_save_index(m) ELSE m

\* The CRC agrees if it was made of all bytes of the member and the trailer, which
\* has been read, has the CRC of the member.
MemberBytes(im, p) ==
    LET start == Max({i \in 1 .. p : im[i] = "h"}) IN Data(im, start, p - start)
CrcAgrees(f) == f.img[f.s.in] = "t" /\ f.s.adler = MemberBytes(f.img, f.s.in)

\* Mutant of StreamEnd: the CRC is taken as good though it was not computed.
EndAssumesCrc(m) ==
    LET t == zfile_parse_gzip_trailer([m EXCEPT !.f.iseof = TRUE])
    IN IF t.res # "ok" \/ (t.f.calccrc /\ ~CrcAgrees(t.f)) THEN Fail(t)
       ELSE [t EXCEPT !.c.crc_ok = TRUE, !.c.size = t.f.s.out]

\* zfile_inflate at the end of a stream.
StreamEnd(m) ==
    LET t == zfile_parse_gzip_trailer([m EXCEPT !.f.iseof = TRUE])
        cont == t.f.s.avail > 0 /\ t.f.img[t.f.s.in + 1] = "h"
        r == IF cont THEN zfile_reinit_state(t) ELSE t
    IN IF t.res # "ok" \/ (t.f.calccrc /\ ~CrcAgrees(t.f)) THEN Fail(t)
       ELSE IF r.res # "ok" THEN r
       ELSE LET u == [r EXCEPT !.c.crc_ok = IF r.f.calccrc THEN ~cont ELSE @,
                               !.c.size = r.f.s.out]
            IN IF cont THEN SaveIndexIfDue(u) ELSE u

\* The parts of it that take zread_lock use different fields of the cache.  A CRC
\* that is no longer computed is 0 here.
zfile_inflate(m, room) ==
    LET a == Refilled(m, 1)
        s == a.f.s
        k == Take(a.f.img, s.in, s.avail, room)
        d == Data(a.f.img, s.in, k)
        cc == a.f.calccrc /\ ~a.c.crc_ok
        b == [a EXCEPT !.f.s = [Taken(@, k, d) EXCEPT !.adler = IF cc THEN s.adler + d ELSE 0],
                       !.f.calccrc = cc, !.got = d]
    IN IF a.res # "ok" \/ ~s.live \/ k = 0 THEN Fail(a)
       ELSE IF AtEnd(a.f.img, b.f.s.in) THEN StreamEnd(b)
       ELSE SaveIndexIfDue(b)

zfile_seek_index(m, zi) ==
    LET a == zfile_scache_save(m)
    IN IF a.io = "index"
       THEN Hit([a EXCEPT !.f.s = [Fresh(a.f.img) EXCEPT !.live = FALSE]])
       ELSE [a EXCEPT !.f.s = zi.s, !.f.iseof = FALSE, !.f.calccrc = FALSE]

\* Mutant of zfile_seek: a stream behind the offset is taken from the stream cache.
SeekBehind(m, offset) ==
    IF m.sc.id = m.c.id /\ offset < m.f.s.out
    THEN [m EXCEPT !.f.s = [m.sc.s EXCEPT !.avail = 0],
                   !.f.calccrc = m.sc.calccrc, !.f.iseof = m.sc.iseof,
                   !.sc.s = [m.f.s EXCEPT !.avail = 0]]
    ELSE m

\* From where offset is reached with the least work: the present position, an
\* index, the stream of the stream cache, or the start.
zfile_seek(m, offset) ==
    LET f    == m.f
        dist == IF offset >= f.s.out THEN offset - f.s.out ELSE -1
        zi   == IndexBefore(m.c.indexes, offset)
        zcdist == IF zi # 0 THEN offset - m.c.indexes[zi].off + ExtraDist ELSE offset
        scdist == offset - m.sc.s.out
        fromscache == /\ m.sc.id = m.c.id /\ scdist >= 0
                      /\ dist = -1 \/ scdist < dist
                      /\ scdist < zcdist
    IN IF fromscache
       THEN [m EXCEPT !.f.s = [m.sc.s EXCEPT !.avail = 0],
                      !.f.calccrc = m.sc.calccrc, !.f.iseof = m.sc.iseof,
                      !.sc.s = [f.s EXCEPT !.avail = 0], !.sc.calccrc = f.calccrc, !.sc.iseof = f.iseof]
       ELSE IF dist = -1 \/ zcdist < dist
            THEN IF zi = 0 THEN zfile_reset(m) ELSE zfile_seek_index(m, m.c.indexes[zi])
            ELSE m

av_zfile_new(im, io) ==
    WithHeader([f |-> [img |-> im, s |-> Fresh(im), iseof |-> FALSE, iserror |-> FALSE,
                       id |-> 0, calccrc |-> TRUE],
                io |-> io, hit |-> FALSE, res |-> "ok"])

av_zcache_new(id) ==
    [id |-> id, size |-> -1, indexes |-> <<>>, nextindex |-> IndexDistance,
     crc_ok |-> FALSE, lock |-> FALSE]

-----------------------------------------------------------------------------
\* The steps of a call.

\* The error of a read drops the cache of the node, and the file stays in error.
gz_read_ends(h, m) ==
    /\ Step(h, [m EXCEPT !.f.iserror = @ \/ m.res # "ok"], Answer(h, m, fd[h].got + m.got))
    /\ nodes' = IF m.res = "ok" THEN nodes ELSE [nodes EXCEPT ![fd[h].node].cache = 0]

gz_ends(h, m) ==
    IF fd[h].op = "read" THEN gz_read_ends(h, m)
    ELSE Step(h, m, Answer(h, m, m.c.size)) /\ UNCHANGED nodes

\* Under zc->lock, which is kept for zfile_skip_to, and zread_lock.
zfile_goto(h) ==
    /\ fd[h].pc = "goto" /\ ~caches[fd[h].zc].lock
    /\ \E io \in Io :
         LET m == zfile_seek(Machine(h, io), fd[h].off)
         IN IF m.res = "ok"
            THEN Step(h, [m EXCEPT !.c.lock = TRUE], At(h, "skip")) /\ UNCHANGED nodes
            ELSE gz_ends(h, m)
    /\ UNCHANGED <<fmt, base, cell>>

zfile_skip_to(h) ==
    /\ fd[h].pc = "skip"
    /\ \E io \in Io :
         LET m0 == Machine(h, io)
             s  == m0.f.s
             m  == zfile_inflate(m0, Lesser(OutBuf, fd[h].off - s.out))
             unlocked == [m EXCEPT !.c.lock = FALSE, !.got = 0]
         IN IF s.out >= fd[h].off \/ m0.f.iseof
            THEN LET u == [m0 EXCEPT !.c.lock = FALSE]
                 IN IF fd[h].op = "read"
                    THEN Step(h, u, At(h, "read")) /\ UNCHANGED nodes
                    ELSE gz_ends(h, IF m0.c.size = -1 THEN Fail(u) ELSE u)
            ELSE IF m.res = "ok" THEN Step(h, m, fd[h]) /\ UNCHANGED nodes
            ELSE gz_ends(h, unlocked)
    /\ UNCHANGED <<fmt, base, cell>>

zfile_read(h) ==
    /\ fd[h].pc = "read"
    /\ \E io \in Io :
         LET m0 == Machine(h, io)
             m  == zfile_inflate(m0, fd[h].n - fd[h].got)
         IN IF fd[h].got = fd[h].n \/ m0.f.iseof THEN gz_read_ends(h, m0)
            ELSE IF m.res = "ok"
            THEN Step(h, m, [fd[h] EXCEPT !.got = @ + m.got]) /\ UNCHANGED nodes
            ELSE gz_read_ends(h, m)
    /\ UNCHANGED <<fmt, base, cell>>

-----------------------------------------------------------------------------
\* The handler.

gz_same(nod) == nod.sig = base

gz_new_node == [sig |-> base, cache |-> 0, ready |-> FALSE]

\* The open gets a node; if its header has been read it needs no more of it.
gz_open(h) ==
    /\ fd[h].st = "closed"
    /\ FindNode(gz_same, gz_new_node, <<>>)
    /\ fd' = [fd EXCEPT ![h] = [Opened(NodeFound(gz_same), NoFile, FALSE)
                                   EXCEPT !.st = "header"]]
    /\ UNCHANGED <<fmt, base, caches, sc, faults>>

\* Under nod->lock.  A header that cannot be read takes the node out of the file
\* cache, whichever node is there by now.
gz_getnode(h) ==
    /\ fd[h].st = "header"
    /\ \E io \in Io \ {"index"}, noperm \in BOOLEAN :
         LET n == fd[h].node
             z == av_zfile_new(fd[h].img, io)
             bad == ~nodes[n].ready /\ io = "read"
         IN /\ io = "ok" \/ bad \/ (~noperm /\ z.hit)
            /\ faults' = IF io = "ok" THEN faults ELSE faults - 1
            /\ IF bad THEN /\ fd' = [fd EXCEPT ![h] = Closed]
                           /\ cell' = 0
                           /\ UNCHANGED nodes
               ELSE /\ fd' = [fd EXCEPT ![h].st = "open", ![h].noperm = noperm,
                                        ![h].fil = IF noperm THEN NoFile ELSE z.f,
                                        ![h].faulted = io # "ok"]
                    /\ nodes' = [nodes EXCEPT ![n].ready = TRUE]
                    /\ UNCHANGED cell
    /\ UNCHANGED <<fmt, base, caches, sc>>

gz_close(h) ==
    /\ Idle(h)
    /\ sc' = IF HasFile(h) THEN zfile_scache_save([f |-> fd[h].fil, sc |-> sc]).sc ELSE sc
    /\ fd' = [fd EXCEPT ![h] = Closed]
    /\ UNCHANGED <<fmt, base, cell, nodes, caches, faults>>

\* The cache of the node, made if there is none or it has been evicted.
gz_getcache(n) == IF nodes[n].cache # 0 THEN nodes[n].cache ELSE Len(caches) + 1
CacheMade(n) ==
    IF nodes[n].cache # 0 THEN UNCHANGED <<nodes, caches>>
    ELSE /\ Len(caches) < MaxCaches
         /\ caches' = Append(caches, av_zcache_new(Len(caches) + 1))
         /\ nodes' = [nodes EXCEPT ![n].cache = Len(caches) + 1]

\* av_zfile_pread: a file in error gives nothing, and the error drops the cache.
gz_read(h) ==
    /\ Idle(h) /\ ~fd[h].noperm
    /\ \E r \in Reads[fmt] :
         LET c == gz_getcache(fd[h].node)
             f == [fd[h].fil EXCEPT !.id = c]
         IN IF fd[h].fil.iserror
            THEN /\ fd' = [fd EXCEPT ![h] = ReadRefused(h)]
                 /\ nodes' = [nodes EXCEPT ![fd[h].node].cache = 0]
                 /\ UNCHANGED caches
            ELSE /\ CacheMade(fd[h].node)
                 /\ fd' = [fd EXCEPT ![h] = Begins(h, "read", r, c, f,
                                     IF r[1] # f.s.out THEN "goto" ELSE "read")]
    /\ UNCHANGED <<fmt, base, cell, sc, faults>>

\* The size in the cache is taken, and else that at which the file ends; a vfile
\* without a file is given one.
gz_getsize(h) ==
    /\ Idle(h)
    /\ CacheMade(fd[h].node)
    /\ \E io \in Io \ {"index"} :
         LET c == gz_getcache(fd[h].node)
             size == IF c > Len(caches) THEN -1 ELSE caches[c].size
             z == av_zfile_new(fd[h].img, io)
             f == IF HasFile(h) THEN fd[h].fil ELSE z.f
         IN /\ io = "ok" \/ (size = -1 /\ ~HasFile(h) /\ z.hit)
            /\ faults' = IF io = "ok" THEN faults ELSE faults - 1
            /\ fd' = [fd EXCEPT ![h] =
                 IF size # -1 THEN SizeKnown(h, size)
                 ELSE [Begins(h, "size", <<MAXOFF, 0>>, c, [f EXCEPT !.id = c], "goto")
                          EXCEPT !.faulted = @ \/ io # "ok"]]
    /\ UNCHANGED <<fmt, base, cell, sc>>

\* The disk cache drops the indexes of a node.
gz_evict ==
    /\ \E n \in 1 .. Len(nodes) :
         nodes[n].cache # 0 /\ nodes' = [nodes EXCEPT ![n].cache = 0]
    /\ UNCHANGED <<fmt, base, cell, caches, sc, fd, faults>>

GzNext ==
    \/ \E h \in Handles :
         \/ gz_open(h) \/ gz_getnode(h) \/ gz_close(h) \/ gz_read(h) \/ gz_getsize(h)
         \/ zfile_goto(h) \/ zfile_skip_to(h) \/ zfile_read(h)
    \/ gz_evict
=============================================================================
