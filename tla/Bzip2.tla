-------------------------------- MODULE Bzip2 --------------------------------
(***************************************************************************)
(* The reader of bzip2 files, src/src/bzread.c, and its handler,           *)
(* src/modules/ubz2.c.  Nothing is locked while a file is decompressed:    *)
(* the cache of a node is used under bzread_lock, a step at a time.        *)
(***************************************************************************)
EXTENDS Streams

bz_new_stream(im) == Fresh(im)

bzfile_scache_save(m) ==
    IF m.f.id = 0 THEN m ELSE [m EXCEPT !.sc = [id |-> m.f.id, s |-> m.f.s]]

bzfile_reset(m) ==
    LET a == IF m.f.iseof \/ m.f.iserror THEN m ELSE bzfile_scache_save(m)
    IN [a EXCEPT !.f.s = bz_new_stream(a.f.img), !.f.iseof = FALSE, !.f.iserror = FALSE]

\* Mutant of bzfile_seek_index: the output is not counted from the index.
SeekIndexFromZero(m, zi) ==
    [bzfile_scache_save(m) EXCEPT !.f.s = [bz_new_stream(m.f.img) EXCEPT !.in = zi.in]]

\* The decoder starts at the end of a block; iseof is left as it is.
bzfile_seek_index(m, zi) ==
    [bzfile_scache_save(m) EXCEPT !.f.s = [bz_new_stream(m.f.img) EXCEPT !.in = zi.in, !.out = zi.off]]

bzfile_fill_inbuf(m) ==
    IF m.io = "read" THEN Hit(m)
    ELSE [m EXCEPT !.f.s.avail = Lesser(InBuf, Len(m.f.img) - m.f.s.in)]

\* The ends of blocks among the k tokens that have been taken, in their order, but not
\* those before the last index there is.
bz_block_end(m, k) ==
    LET s == m.f.s
        known(off) == \E i \in 1 .. Len(m.c.indexes) : m.c.indexes[i].off >= off
        Out(p) == s.out + Data(m.f.img, s.in, p - s.in)
        ends == {p \in s.in + 1 .. s.in + k : m.f.img[p] = "b" /\ ~known(Out(p))}
        End(j) == Min({p \in ends : Cardinality({q \in ends : q =< p}) >= j})
    IN [m EXCEPT !.c.indexes = @ \o [j \in 1 .. Cardinality(ends) |-> [off |-> Out(End(j)), in |-> End(j)]]]

\* A decoder that has come to the end of its stream gives an error.
bz_decoded(a, room) ==
    LET s == a.f.s
        k == IF AtEnd(s.src, s.in) THEN 0 ELSE Take(a.f.img, s.in, s.avail, room)
        d == Data(a.f.img, s.in, k)
        b == [bz_block_end(a, k) EXCEPT !.f.s = Taken(@, k, d), !.got = d]
    IN IF a.res # "ok" \/ k = 0 THEN Fail(a)
       ELSE IF AtEnd(a.f.img, b.f.s.in)
            THEN [b EXCEPT !.f.iseof = TRUE, !.c.size = b.f.s.out]
            ELSE b
bzfile_decompress(m, room) ==
    bz_decoded(IF m.f.s.avail = 0 THEN bzfile_fill_inbuf(m) ELSE m, room)

bzfile_seek(m, offset) ==
    LET out  == m.f.s.out
        dist == IF offset >= out THEN offset - out ELSE -1
        zi   == IndexBefore(m.c.indexes, offset)
        zcdist == IF zi # 0 THEN offset - m.c.indexes[zi].off ELSE offset
        scdist == offset - m.sc.s.out
        fromscache == /\ m.sc.id = m.c.id /\ scdist >= 0
                      /\ dist = -1 \/ scdist < dist
                      /\ scdist < zcdist
    IN IF fromscache
       THEN [m EXCEPT !.f.s = [m.sc.s EXCEPT !.avail = 0], !.sc.s = m.f.s]
       ELSE IF dist = -1 \/ zcdist < dist
            THEN IF zi = 0 THEN bzfile_reset(m) ELSE bzfile_seek_index(m, m.c.indexes[zi])
            ELSE m

av_bzfile_new(im) ==
    [img |-> im, s |-> Fresh(im), iseof |-> FALSE, iserror |-> FALSE, id |-> 0]

av_bzcache_new(id) == [id |-> id, size |-> -1, indexes |-> <<>>]

-----------------------------------------------------------------------------
\* The steps of a call.

bzfile_goto(h) ==
    /\ fd[h].pc = "goto"
    /\ Step(h, bzfile_seek(Machine(h, "ok"), fd[h].off), At(h, "skip"))
    /\ UNCHANGED <<fmt, base, cell, nodes>>

bzfile_skip_to(h) == SkipOn(h, bzfile_decompress)
bzfile_read(h)    == ReadOn(h, bzfile_decompress)

-----------------------------------------------------------------------------
\* The handler.

bz_same(nod) == nod.sig = base

bz_open(h)    == OpenCached(h, bz_same, av_bzcache_new, av_bzfile_new)
bz_close(h)   == CloseCached(h, bzfile_scache_save)
bz_read(h)    == ReadCached(h)
bz_getattr(h) == SizeCached(h, av_bzfile_new)

BzNext ==
    \E h \in Handles :
      \/ bz_open(h) \/ bz_close(h) \/ bz_read(h) \/ bz_getattr(h)
      \/ bzfile_goto(h) \/ bzfile_skip_to(h) \/ bzfile_read(h)
=============================================================================
