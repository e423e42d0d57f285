---------------------------- MODULE CompressedFile ----------------------------
(***************************************************************************)
(* The handlers of compressed files together: one of the five is run, on a *)
(* base file that is replaced by another, and on nodes that leave the file *)
(* cache at any time.  The properties are about what the users are given.  *)
(***************************************************************************)
EXTENDS Gzip, Bzip2, Xz, Lzip, Zstd

ReadersInit ==
    /\ fmt \in Formats /\ base = 1 /\ cell = 0
    /\ nodes = <<>> /\ caches = <<>>
    /\ sc = NoStream
    /\ fd = [h \in Handles |-> Closed]
    /\ faults = MaxFaults[fmt]

\* Another program puts the next content in the place of the base file: the new
\* file has another inode, and those who have the old one open keep it.
Replace ==
    /\ base < Len(Images[fmt]) /\ base' = base + 1
    /\ UNCHANGED <<fmt, cell, nodes, caches, sc, fd, faults>>

\* The file cache drops the node.
Expire ==
    /\ cell # 0 /\ cell' = 0
    /\ UNCHANGED <<fmt, base, nodes, caches, sc, fd, faults>>

ReadersNext ==
    \/ fmt = "z"   /\ GzNext
    \/ fmt = "bz"  /\ BzNext
    \/ fmt = "xz"  /\ XzNext
    \/ fmt = "lz"  /\ LzipNext
    \/ fmt = "zst" /\ ZstdNext
    \/ Replace \/ Expire

ReadersSpec == ReadersInit /\ [][ReadersNext]_reader_vars

-----------------------------------------------------------------------------
\* Properties.

\* Each stream is where it says it is.  A stream is exchanged with the stream cache,
\* made anew at an index, taken on to the next member, and its input buffer thrown
\* away; whatever two vfiles do, the output it has counted is that of the input it
\* has really read, of the content its vfile was opened on.
StreamInPlace(s) == s.live => s.out = Data(s.src, 0, s.in)
InPlace ==
    /\ \A h \in Handles : HasFile(h) =>
         StreamInPlace(fd[h].fil.s) /\ fd[h].fil.s.src = fd[h].img
    /\ sc.id # 0 => StreamInPlace(sc.s)

Good(im) == im[Len(im)] \in {"e", "t"}
OneMember(im) == Cardinality({i \in DOMAIN im : im[i] \in {"t", "x"}}) =< 1

\* Two faults of the code are left out of the next properties, and stated at the end:
\* bzread.c does not keep iseof with the stream, and zread.c knows only the size of the
\* members it has read.
EofTrue(h) ==
    fmt = "bz" => fd[h].fil.iseof = AtEnd(fd[h].img, fd[h].fil.s.in)

\* A read that does not fail gives all the bytes from its offset on, however the
\* reader got there: forwards, from an index, a stream of another vfile, or the start.
ReadsWhole ==
    \A h \in Handles : OneMember(fd[h].img) /\ fd[h].ans = "bad read" => ~EofTrue(h)

\* The size that is given, be it found or taken from the cache, is that of the
\* content the vfile was opened on.
SizesWhole ==
    \A h \in Handles : OneMember(fd[h].img) => fd[h].ans # "bad size"

\* A call fails only when the system failed under this vfile or the file is bad: no
\* vfile takes over an error from another by way of a node, a cache or a stream.  The
\* other fault of bzread.c and that of av_zfile_size are left out.
NoFalseError ==
    \A h \in Handles :
      fd[h].ans \in {"read error", "size error"} =>
        \/ fd[h].faulted \/ ~Good(fd[h].img)
        \/ fmt = "bz" /\ AtEnd(fd[h].img, fd[h].fil.s.in)
        \/ fmt = "z" /\ fd[h].ans = "size error"

\* Once crc_ok is noted in the cache the CRC is no longer computed: it is noted only
\* for a file whose trailer is right.
CrcOkTrue ==
    fmt = "z" =>
      \A n \in 1 .. Len(nodes) :
        LET im == Images[fmt][nodes[n].sig]
        IN nodes[n].cache # 0 /\ caches[nodes[n].cache].crc_ok /\ OneMember(im) => Good(im)

\* What is answered, bytes or a size, and what is noted of it for later answers, is that
\* of the content.
AnswersTrue == ReadsWhole /\ SizesWhole /\ CrcOkTrue

\* ChangeLog:342-343 says of zread.c that the end-of-file flag is kept with the stream
\* "so seeking back from the end of the file works correctly": that no read comes
\* short.  The sibling bzread.c puts its streams back in the same way, without the flag.
SeekBackWorks == \A h \in Handles : fd[h].ans # "bad read"

\* The next three do not hold either, and are in no run; MCReaders_safety.cfg with one of
\* them as its invariant shows each, MembersCounted with an image of two members.

\* src/src/zread.c:788 logs as an internal error that the size could not be found: it
\* is found whenever the file can be read to its end.
SizeFound ==
    \A h \in Handles : fd[h].ans = "size error" => fd[h].faulted \/ ~Good(fd[h].img)

\* test/gzip_multimember_test.c:24 expects the size of a file of two members to be
\* that of both.
MembersCounted == \A h \in Handles : fd[h].ans # "bad size"

\* A read of lzip that has gone to an index and comes to the end of the file ends.
NeverSpins == \A h \in Handles : fd[h].pc # "spin"
=============================================================================
