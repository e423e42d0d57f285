--------------------------------- MODULE Zstd ---------------------------------
(***************************************************************************)
(* The reader of zstd files, src/src/zstdread.c, and its handler,          *)
(* src/modules/uzstd.c.  The library does not count: the reader keeps      *)
(* total_in, the place of its input buffer in the file, and total_out.     *)
(* Here s.in is what the decoder has really read, and s.out is total_out.  *)
(***************************************************************************)
EXTENDS Streams

zstd_new_stream(im) == Fresh(im)
NoInput == [size |-> 0, pos |-> 0]

zstdfile_reset(m) ==
    [m EXCEPT !.f.s = zstd_new_stream(m.f.img), !.f.iseof = FALSE, !.f.iserror = FALSE,
              !.f.total_in = 0, !.f.inBuffer = NoInput]

\* The buffer moves on over what has been used, and is filled up from total_in.
zstd_unused(f) ==
    LET b == f.inBuffer
    IN IF b.size > 0 /\ b.pos > 0
       THEN [f EXCEPT !.total_in = @ + b.size, !.inBuffer = [size |-> b.size - b.pos, pos |-> 0]]
       ELSE f
zstdfile_fill_inbuf(m) ==
    LET a == [m EXCEPT !.f = zstd_unused(@)]
        kept == a.f.inBuffer.size
        read == Lesser(InBuf - kept, Max({0, Len(m.f.img) - a.f.total_in}))
    IN IF m.io = "read" THEN Hit(a)
       ELSE [a EXCEPT !.f.inBuffer = [size |-> kept + read, pos |-> 0]]

\* One turn of the loop of zstdfile_decompress.
zstd_decoded(a, room) ==
    LET b == a.f.inBuffer
        p == a.f.total_in + b.pos
        k == Take(a.f.img, p, b.size - b.pos, room)
        d == Data(a.f.img, p, k)
        r == [a EXCEPT !.f.inBuffer.pos = @ + k, !.f.s = Moved(@, k, d), !.got = d]
    IN IF a.res # "ok" \/ k = 0 THEN Fail(a)
       ELSE IF AtEnd(a.f.img, p + k)
            THEN [r EXCEPT !.f.iseof = TRUE, !.c.size = r.f.s.out]
            ELSE r
zstdfile_decompress(m, room) ==
    zstd_decoded(IF m.f.inBuffer.pos = m.f.inBuffer.size THEN zstdfile_fill_inbuf(m) ELSE m, room)

av_zstdfile_new(im) ==
    [img |-> im, s |-> zstd_new_stream(im), iseof |-> FALSE, iserror |-> FALSE, id |-> 0,
     total_in |-> 0, inBuffer |-> NoInput]

av_zstdcache_new(id) == [id |-> id, size |-> -1]

zstdfile_destroy(m) == m

zstdfile_goto(h) ==
    /\ fd[h].pc = "goto"
    /\ LET m == Machine(h, "ok")
       IN Step(h, IF fd[h].op = "size" \/ m.f.s.out > fd[h].off THEN zstdfile_reset(m) ELSE m,
               At(h, "skip"))
    /\ UNCHANGED <<fmt, base, cell, nodes>>

zstdfile_skip_to(h) == SkipOn(h, zstdfile_decompress)
zstdfile_read(h)    == ReadOn(h, zstdfile_decompress)

zstd_same(nod) == nod.sig = base

zstd_open(h)    == OpenCached(h, zstd_same, av_zstdcache_new, av_zstdfile_new)
zstd_close(h)   == CloseCached(h, zstdfile_destroy)
zstd_read(h)    == ReadCached(h)
zstd_getattr(h) == SizeCached(h, av_zstdfile_new)

ZstdNext ==
    \E h \in Handles :
      \/ zstd_open(h) \/ zstd_close(h) \/ zstd_read(h) \/ zstd_getattr(h)
      \/ zstdfile_goto(h) \/ zstdfile_skip_to(h) \/ zstdfile_read(h)
=============================================================================
