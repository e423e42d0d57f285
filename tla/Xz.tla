---------------------------------- MODULE Xz ----------------------------------
(***************************************************************************)
(* The reader of xz and lzma files, src/src/xzread.c, and its handler,     *)
(* src/modules/uxz.c.  There are no indexes: a file is read forwards, or   *)
(* from the start.  Streams are put in the stream cache but never taken.   *)
(***************************************************************************)
EXTENDS Streams

xzfile_scache_save(m) ==
    IF m.f.id = 0 THEN m ELSE [m EXCEPT !.sc = [id |-> m.f.id, s |-> m.f.s]]

xzfile_reset(m) ==
    LET a == IF m.f.iseof \/ m.f.iserror THEN m ELSE xzfile_scache_save(m)
    IN [a EXCEPT !.f.s = Fresh(a.f.img), !.f.iseof = FALSE, !.f.iserror = FALSE]

xzfile_fill_inbuf(m) ==
    IF m.io = "read" THEN Hit(m)
    ELSE [m EXCEPT !.f.s.avail = Lesser(InBuf, Len(m.f.img) - m.f.s.in)]

\* Mutant of xz_decoded: the end of the stream is not noted in iseof.
DecodedOn(a, room) ==
    LET k == Take(a.f.img, a.f.s.in, a.f.s.avail, room)
        d == Data(a.f.img, a.f.s.in, k)
    IN IF a.res # "ok" \/ k = 0 THEN Fail(a) ELSE [a EXCEPT !.f.s = Taken(@, k, d), !.got = d]

xz_decoded(a, room) ==
    LET s == a.f.s
        k == Take(a.f.img, s.in, s.avail, room)
        d == Data(a.f.img, s.in, k)
        b == [a EXCEPT !.f.s = Taken(@, k, d), !.got = d]
    IN IF a.res # "ok" \/ k = 0 THEN Fail(a)
       ELSE IF AtEnd(a.f.img, b.f.s.in)
            THEN [b EXCEPT !.f.iseof = TRUE, !.c.size = b.f.s.out]
            ELSE b
xzfile_decompress(m, room) ==
    xz_decoded(IF m.f.s.avail = 0 THEN xzfile_fill_inbuf(m) ELSE m, room)

av_xzfile_new(im) ==
    [img |-> im, s |-> Fresh(im), iseof |-> FALSE, iserror |-> FALSE, id |-> 0]

av_xzcache_new(id) == [id |-> id, size |-> -1]

\* A read goes back to the start to reach what is behind it, and so does the search
\* for the size, always.
xzfile_goto(h) ==
    /\ fd[h].pc = "goto"
    /\ LET m == Machine(h, "ok")
       IN Step(h, IF fd[h].op = "size" \/ m.f.s.out > fd[h].off THEN xzfile_reset(m) ELSE m,
               At(h, "skip"))
    /\ UNCHANGED <<fmt, base, cell, nodes>>

xzfile_skip_to(h) == SkipOn(h, xzfile_decompress)
xzfile_read(h)    == ReadOn(h, xzfile_decompress)

\* Mutant of xz_same: the signature of the node is not compared.
AnyNode(nod) == TRUE
xz_same(nod) == nod.sig = base

xz_open(h)    == OpenCached(h, xz_same, av_xzcache_new, av_xzfile_new)
xz_close(h)   == CloseCached(h, xzfile_scache_save)
xz_read(h)    == ReadCached(h)
xz_getattr(h) == SizeCached(h, av_xzfile_new)

XzNext ==
    \E h \in Handles :
      \/ xz_open(h) \/ xz_close(h) \/ xz_read(h) \/ xz_getattr(h)
      \/ xzfile_goto(h) \/ xzfile_skip_to(h) \/ xzfile_read(h)
=============================================================================
