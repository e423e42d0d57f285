--------------------------------- MODULE Lzip ---------------------------------
(***************************************************************************)
(* The reader of lzip files, src/src/lzipread.c, and its handler,          *)
(* src/modules/ulzip.c.  Indexes lead to the starts of members, where a    *)
(* new decoder begins.  A decoder (dec) has been given fed tokens, the     *)
(* first of them at base in the file, and has used some of them, pos of    *)
(* which in the present member.  s.in is the place it has come to, and     *)
(* s.out is total_out.                                                     *)
(***************************************************************************)
EXTENDS Streams

lzip_new_decoder(at) == [base |-> at, fed |-> 0, used |-> 0, pos |-> 0]

lzipfile_reset(m) ==
    [m EXCEPT !.f.dec = lzip_new_decoder(0), !.f.s = Fresh(m.f.img), !.f.iseof = FALSE,
              !.f.iserror = FALSE, !.f.total_in = 0, !.f.last_member_pos = 0]

lzipfile_save_index(m) ==
    [m EXCEPT !.c.indexes = Append(@, [off |-> m.f.s.out, in |-> m.f.last_member_pos]),
              !.c.nextindex = @ + IndexDistance]

\* The decoder is given what it has room for.
lzipfile_fill_inbuf(m) ==
    LET space == InBuf - (m.f.dec.fed - m.f.dec.used)
        n == Lesser(space, Len(m.f.img) - m.f.total_in)
    IN IF space = 0 THEN m
       ELSE IF m.io = "read" THEN Hit(m)
       ELSE [m EXCEPT !.f.dec.fed = @ + n, !.f.total_in = @ + n]

\* The decoder goes on over k tokens that give d bytes, and comes to the end of a member.
lz_moved(f, k, d) ==
    [f EXCEPT !.dec.used = @ + k, !.dec.pos = @ + k, !.s = Moved(@, k, d)]
lz_member_ended(f) ==
    [f EXCEPT !.last_member_pos = @ + f.dec.pos, !.dec.pos = 0]

\* One turn of the loop of lzipfile_decompress.  The end of the file is seen by
\* the decoder having used, since it was made, as much as total_in.
lz_decoded(a, room) ==
    LET dec == a.f.dec
        p == dec.base + dec.used
        k == Take(a.f.img, p, dec.fed - dec.used, room)
        d == Data(a.f.img, p, k)
        b == [a EXCEPT !.f = lz_moved(@, k, d), !.got = d]
        ended == [b EXCEPT !.f = lz_member_ended(@)]
        e == IF k = 0 \/ ~AtEnd(a.f.img, p + k) THEN b
             ELSE IF ended.f.s.out >= a.c.nextindex THEN lzipfile_save_index(ended)
             ELSE ended
        cut == k = 0 /\ p = Len(a.f.img) /\ ~AtEnd(a.f.img, p)
    IN IF a.res # "ok" THEN a
       ELSE IF cut THEN Fail(a)
       ELSE IF d = 0 /\ e.f.dec.used = e.f.total_in
       THEN [e EXCEPT !.f.iseof = TRUE, !.c.size = e.f.s.out]
       ELSE e
lzipfile_decompress(m, room) == lz_decoded(lzipfile_fill_inbuf(m), room)

lzipfile_seek(m, offset) ==
    LET out == m.f.s.out
        zi == IndexBefore(m.c.indexes, offset)
        x == m.c.indexes[zi]
        a == lzipfile_reset(m)
    IN IF out < offset /\ offset - out < LookupCost THEN m
       ELSE IF zi = 0 THEN IF out > offset THEN a ELSE m
       ELSE IF x.off < out /\ offset > out THEN m
       ELSE [a EXCEPT !.f.total_in = x.in, !.f.last_member_pos = x.in,
                      !.f.dec = lzip_new_decoder(x.in), !.f.s.in = x.in, !.f.s.out = x.off]

av_lzipfile_new(im) ==
    [img |-> im, s |-> Fresh(im), iseof |-> FALSE, iserror |-> FALSE, id |-> 0,
     dec |-> lzip_new_decoder(0), total_in |-> 0, last_member_pos |-> 0]

av_lzipcache_new(id) ==
    [id |-> id, size |-> -1, indexes |-> <<>>, nextindex |-> IndexDistance]

-----------------------------------------------------------------------------
\* The steps of a call.

\* A read that gives nothing drops the cache of the node, at the end of the file too.
lzip_ends(h, m) ==
    LET got == fd[h].got + m.got
    IN /\ Ends(h, m)
       /\ nodes' = IF fd[h].op = "read" /\ (m.res # "ok" \/ got = 0)
                   THEN [nodes EXCEPT ![fd[h].node].cache = 0] ELSE nodes

\* The search for the size begins at the start.
lzipfile_goto(h) ==
    /\ fd[h].pc = "goto"
    /\ LET m == Machine(h, "ok")
       IN Step(h, IF fd[h].op = "size" THEN lzipfile_reset(m) ELSE lzipfile_seek(m, fd[h].off),
               At(h, "skip"))
    /\ UNCHANGED <<fmt, base, cell, nodes>>

\* A turn that changes nothing is followed by itself: the call spins.
Turn(h, m) ==
    IF m.res # "ok" THEN lzip_ends(h, IF fd[h].pc = "skip" THEN [m EXCEPT !.got = 0] ELSE m)
    ELSE IF m.f = fd[h].fil THEN Step(h, m, At(h, "spin")) /\ UNCHANGED nodes
    ELSE /\ Step(h, m, [fd[h] EXCEPT !.got = IF fd[h].pc = "skip" THEN @ ELSE @ + m.got])
         /\ UNCHANGED nodes

lzipfile_skip_to(h) ==
    /\ fd[h].pc = "skip"
    /\ \E io \in Io :
         LET m == Machine(h, io)
         IN IF m.f.iseof \/ m.f.s.out = fd[h].off
            THEN IF fd[h].op = "read" THEN Step(h, m, At(h, "read")) /\ UNCHANGED nodes
                 ELSE lzip_ends(h, IF m.c.size = -1 THEN Fail(m) ELSE m)
            ELSE Turn(h, lzipfile_decompress(m, Lesser(OutBuf, fd[h].off - m.f.s.out)))
    /\ UNCHANGED <<fmt, base, cell>>

lzipfile_read(h) ==
    /\ fd[h].pc = "read"
    /\ \E io \in Io :
         LET m == Machine(h, io)
         IN IF fd[h].got = fd[h].n \/ m.f.iseof THEN lzip_ends(h, m)
            ELSE Turn(h, lzipfile_decompress(m, fd[h].n - fd[h].got))
    /\ UNCHANGED <<fmt, base, cell>>

-----------------------------------------------------------------------------
\* The handler.

lzip_same(nod) == nod.sig = base

lzip_open(h) ==
    /\ fd[h].st = "closed"
    /\ FindNode(lzip_same, [sig |-> base, cache |-> 0], <<>>)
    /\ \E noperm \in BOOLEAN :
         fd' = [fd EXCEPT ![h] = Opened(NodeFound(lzip_same), av_lzipfile_new(Content), noperm)]
    /\ UNCHANGED <<fmt, base, caches, sc, faults>>

lzip_close(h) ==
    /\ Idle(h)
    /\ fd' = [fd EXCEPT ![h] = Closed]
    /\ UNCHANGED <<fmt, base, cell, nodes, caches, sc, faults>>

\* The cache of the node, made if there is none or it has been evicted.
lzip_getcache(n) == IF nodes[n].cache # 0 THEN nodes[n].cache ELSE Len(caches) + 1
LzipCacheMade(n) ==
    IF nodes[n].cache # 0 THEN UNCHANGED <<nodes, caches>>
    ELSE /\ Len(caches) < MaxCaches
         /\ caches' = Append(caches, av_lzipcache_new(Len(caches) + 1))
         /\ nodes' = [nodes EXCEPT ![n].cache = Len(caches) + 1]

lzip_read(h) ==
    /\ Idle(h) /\ ~fd[h].noperm
    /\ \E r \in Reads[fmt] :
         LET c == lzip_getcache(fd[h].node)
             f == fd[h].fil
         IN IF f.iserror
            THEN /\ fd' = [fd EXCEPT ![h] = ReadRefused(h)]
                 /\ nodes' = [nodes EXCEPT ![fd[h].node].cache = 0]
                 /\ UNCHANGED caches
            ELSE /\ LzipCacheMade(fd[h].node)
                 /\ fd' = [fd EXCEPT ![h] = Begins(h, "read", r, c, f,
                                     IF r[1] # f.s.out THEN "goto" ELSE "read")]
    /\ UNCHANGED <<fmt, base, cell, sc, faults>>

lzip_getattr(h) ==
    /\ Idle(h)
    /\ LzipCacheMade(fd[h].node)
    /\ LET c == lzip_getcache(fd[h].node)
           size == IF c > Len(caches) THEN -1 ELSE caches[c].size
           f == IF HasFile(h) THEN fd[h].fil ELSE av_lzipfile_new(fd[h].img)
       IN fd' = [fd EXCEPT ![h] =
              IF size # -1
              THEN SizeKnown(h, size)
              ELSE Begins(h, "size", <<MAXOFF, 0>>, c, f, "goto")]
    /\ UNCHANGED <<fmt, base, cell, sc, faults>>

\* The disk cache drops the indexes of a node.
lzip_evict ==
    /\ \E n \in 1 .. Len(nodes) :
         nodes[n].cache # 0 /\ nodes' = [nodes EXCEPT ![n].cache = 0]
    /\ UNCHANGED <<fmt, base, cell, caches, sc, fd, faults>>

LzipNext ==
    \/ \E h \in Handles :
         \/ lzip_open(h) \/ lzip_close(h) \/ lzip_read(h) \/ lzip_getattr(h)
         \/ lzipfile_goto(h) \/ lzipfile_skip_to(h) \/ lzipfile_read(h)
    \/ lzip_evict
=============================================================================
