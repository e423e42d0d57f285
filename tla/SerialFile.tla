----------------------------- MODULE SerialFile -----------------------------
(***************************************************************************)
(* Random access to data that can only be produced from its beginning      *)
(* (src/src/serialfile.c): the output of a filter program or an HTTP       *)
(* download.  What the source has delivered is kept in a temporary file;   *)
(* a read beyond it pulls more from the source.  A change first pulls      *)
(* everything, then touches the temporary file and marks it dirty, and a   *)
(* flush sends it back through the reverse program.  After any failure the *)
(* temporary file is thrown away and the file starts again from the        *)
(* source.                                                                 *)
(*                                                                         *)
(* All functions run under the lock of the node that owns the file, so one *)
(* call is under way at a time.  Its steps are the calls of the source and *)
(* of the temporary file, any of which may fail.  SFILE_NOCACHE is not     *)
(* modelled: no caller passes it.                                          *)
(***************************************************************************)
EXTENDS Integers, Sequences

CONSTANTS
    Bytes, Zero,  \* the bytes files are made of; the one a hole reads as
    Sources,      \* what the base file may translate to at first
    Offsets,      \* positions of reads and writes
    Reads,        \* sizes of reads
    Writes,       \* data of writes
    Lengths,      \* lengths of truncations
    MaxLen,       \* the longest file that writes make
    BufSize       \* tmpbufsize in sfile_dummy_read

ASSUME SourceAssumption == Sources \subseteq Seq(Bytes)
ASSUME WriteAssumption  == Zero \in Bytes /\ Writes \subseteq Seq(Bytes) \ {<<>>}
ASSUME SizeAssumption   ==
    /\ Offsets \cup Lengths \subseteq Nat /\ Reads \subseteq Nat \ {0}
    /\ MaxLen \in Nat /\ BufSize \in Nat \ {0}

VARIABLES
    state,    \* SF_BEGIN, SF_READ, SF_FINI
    fd,       \* the temporary file is open
    local,    \* its contents
    numbytes,
    dirty,
    conn,     \* a connection to the source is open (conndata)
    sent,     \* how much it has delivered
    source,   \* what a connection delivers
    pc,       \* where the call is
    op,       \* the call: pread, size, startget, truncate, pwrite
    offset, nbyte, data,  \* its arguments
    want,     \* nbyte in sfile_do_read
    buf,      \* what sfile_do_read has got
    retried,  \* sfile_pread_force has started again
    err,      \* the error it has to deal with
    reply,    \* the result of the last call
    crashed   \* an uninitialised pointer was used

file == <<state, fd, local, numbytes, dirty, conn, sent>>
call == <<op, offset, nbyte, data, retried>>
xfer == <<want, buf, err>>
vars == <<file, source, pc, call, xfer, reply, crashed>>

States == {"SF_BEGIN", "SF_READ", "SF_FINI"}
Places == {"idle", "start", "loop", "fetch", "store", "failed", "finish"}
Ops    == {"pread", "size", "startget", "truncate", "pwrite"}
Errors == {"EAGAIN", "EIO"}

\* The promise, and the operators on contents of files.  A file that has no
\* changes shows the source, however little of it has arrived.
Abstract == INSTANCE TranslatedFile WITH
    stored <- source, contents <- IF dirty THEN local ELSE source

----------------------------------------------------------------------------
Init ==
    /\ state = "SF_BEGIN" /\ fd = FALSE /\ local = <<>> /\ numbytes = 0
    /\ dirty = FALSE /\ conn = FALSE /\ sent = 0
    /\ source \in Sources
    /\ pc = "idle"
    /\ op = "size" /\ offset = 0 /\ nbyte = 0 /\ data = <<>> /\ retried = FALSE
    /\ want = 0 /\ buf = <<>> /\ err = "EIO"
    /\ reply = [to |-> Abstract!Call("size", 0, 0, <<>>), is |-> Abstract!Done]
    /\ crashed = FALSE

\* Mutant of Reset: numbytes is kept.
ResetKeepsBytes ==
    /\ state' = "SF_BEGIN" /\ fd' = FALSE /\ local' = <<>> /\ UNCHANGED numbytes
    /\ dirty' = FALSE /\ conn' = FALSE /\ sent' = 0

\* sfile_reset: the temporary file and the connection go.
Reset ==
    /\ state' = "SF_BEGIN" /\ fd' = FALSE /\ local' = <<>> /\ numbytes' = 0
    /\ dirty' = FALSE /\ conn' = FALSE /\ sent' = 0

\* The call returns; its locals are gone.
Return(answer) ==
    /\ Abstract!Reply(Abstract!Call(op, offset, nbyte, data), answer)
    /\ pc' = "idle"
    /\ op' = "size" /\ offset' = 0 /\ nbyte' = 0 /\ data' = <<>> /\ retried' = FALSE
    /\ want' = 0 /\ buf' = <<>> /\ err' = "EIO"

\* A call that does its work at once.
ReturnAtOnce(what, answer) ==
    /\ Abstract!Reply(Abstract!Call(what, 0, 0, <<>>), answer)
    /\ UNCHANGED <<pc, call, xfer>>

\* The call goes on elsewhere, or some step of it has failed.
Goto(place) == pc' = place /\ UNCHANGED <<reply, crashed, source>>
FailWith(e) == err' = e /\ Goto("failed")

Ready == pc = "idle" /\ ~crashed

----------------------------------------------------------------------------
(* The calls.  A read, and what the others do before their own work         *)
(* (sfile_read_until): they need not wait for a source that has ended.     *)

Begin(what, at, n, bytes) ==
    /\ Ready
    /\ op' = what /\ offset' = at /\ nbyte' = n /\ data' = bytes
    /\ Goto(IF state = "SF_BEGIN" THEN "start"
            ELSE IF state = "SF_FINI" /\ what # "pread" THEN "finish" ELSE "loop")
    /\ UNCHANGED <<file, retried, xfer>>

Pread    == \E at \in Offsets, n \in Reads : Begin("pread", at, n, <<>>)
Size     == Begin("size", 0, 0, <<>>)
StartGet == Begin("startget", 0, 0, <<>>)
Truncate == \E length \in Lengths \ {0} : Begin("truncate", length, 0, <<>>)
Pwrite   == \E at \in Offsets, bytes \in Writes :
                at + Len(bytes) <= MaxLen /\ Begin("pwrite", at, 0, bytes)

\* av_sfile_truncate to length 0 starts an empty file without the source.
TruncateAll ==
    /\ Ready /\ 0 \in Lengths
    /\ \/ /\ state = "SF_FINI" /\ numbytes = 0
          /\ ReturnAtOnce("truncate", Abstract!Done)
          /\ UNCHANGED file
       \/ /\ ~(state = "SF_FINI" /\ numbytes = 0)
          /\ \/ /\ state' = "SF_FINI" /\ fd' = TRUE /\ local' = <<>> /\ numbytes' = 0
                /\ dirty' = TRUE /\ conn' = FALSE /\ sent' = 0
                /\ ReturnAtOnce("truncate", Abstract!Done)
             \/ Reset /\ ReturnAtOnce("truncate", Abstract!Error)
    /\ UNCHANGED <<source, crashed>>

\* av_sfile_flush.  startput empties the base file before it starts the reverse
\* program; if it fails, conndata is released without ever having been set.
FlushClean ==
    /\ Ready /\ ~dirty
    /\ ReturnAtOnce("flush", Abstract!Done)
    /\ UNCHANGED <<file, source, crashed>>

FlushDirty ==
    /\ Ready /\ dirty
    /\ source' = local
    /\ dirty' = FALSE
    /\ ReturnAtOnce("flush", Abstract!Done)
    /\ UNCHANGED <<state, fd, local, numbytes, conn, sent, crashed>>

FlushFails ==
    /\ Ready /\ dirty
    /\ \/ /\ source' \in {source, <<>>}
          /\ crashed' \in BOOLEAN
       \/ /\ source' \in Abstract!Prefixes(local)
          /\ UNCHANGED crashed
    /\ Reset
    /\ ReturnAtOnce("flush", Abstract!Error)

----------------------------------------------------------------------------
(* Reading.                                                                *)

\* sfile_startget.
Started ==
    /\ pc = "start"
    /\ state' = "SF_READ" /\ fd' = TRUE /\ conn' = TRUE
    /\ Goto("loop")
    /\ UNCHANGED <<local, numbytes, dirty, sent, call, xfer>>

StartFails ==
    /\ pc = "start"
    /\ fd' \in BOOLEAN
    /\ \E e \in Errors : FailWith(e)
    /\ UNCHANGED <<state, local, numbytes, dirty, conn, sent, call, want, buf>>

\* Mutant of Reached: the size of the read is forgotten.
ReachedStart == op \notin {"size", "pwrite"} /\ offset <= numbytes

\* The end the call waits for: AV_MAXOFF if it needs all of the file.
Reached == op \notin {"size", "pwrite"} /\ offset + nbyte <= numbytes

\* sfile_pread, when the source has ended or delivered enough.
Enough == state = "SF_FINI" \/ Reached

Answer ==
    /\ pc = "loop" /\ Enough /\ op = "pread"
    /\ Return(Abstract!Data(Abstract!Part(local, offset, nbyte)))
    /\ UNCHANGED <<file, source, crashed>>

AnswerFails ==
    /\ pc = "loop" /\ Enough /\ op = "pread"
    /\ offset < numbytes
    /\ FailWith("EIO")
    /\ UNCHANGED <<file, call, want, buf>>

GotEnough ==
    /\ pc = "loop" /\ Enough /\ op # "pread"
    /\ Goto("finish")
    /\ UNCHANGED <<file, call, xfer>>

\* ... and when it has not: what comes next goes to the caller if he wants
\* just that, or to sfile_dummy_read.
Direct == op = "pread" /\ offset = numbytes

\* Mutant of Wanted: a block is cut at the offset of the read, as in the lines
\* that are commented out in sfile_dummy_read.
WantedToOffset ==
    IF Direct THEN nbyte ELSE IF op = "pread" THEN offset - numbytes ELSE BufSize

Wanted == IF Direct THEN nbyte ELSE BufSize

More ==
    /\ pc = "loop" /\ ~Enough
    /\ want' = Wanted
    /\ Goto("fetch")
    /\ UNCHANGED <<file, call, buf, err>>

\* sfile_do_read: the source delivers some bytes, ends, or fails.
Delivered ==
    /\ pc = "fetch"
    /\ \E k \in 1..want :
          /\ sent + k <= Len(source)
          /\ buf' = buf \o SubSeq(source, sent + 1, sent + k)
          /\ sent' = sent + k
          /\ want' = want - k
    /\ Goto(IF want' = 0 THEN "store" ELSE "fetch")
    /\ UNCHANGED <<state, fd, local, numbytes, dirty, conn, call, err>>

Ended ==
    /\ pc = "fetch" /\ sent = Len(source)
    /\ state' = "SF_FINI" /\ conn' = FALSE
    /\ Goto("store")
    /\ UNCHANGED <<fd, local, numbytes, dirty, sent, call, xfer>>

FetchFails ==
    /\ pc = "fetch"
    /\ \E e \in Errors : FailWith(e)
    /\ UNCHANGED <<file, call, want, buf>>

\* sfile_cached_pwrite of what has come.
Stored ==
    /\ pc = "store"
    /\ local' = Abstract!Overlaid(local, numbytes, buf)
    /\ numbytes' = numbytes + Len(buf)
    /\ IF Direct
       THEN Return(Abstract!Data(buf)) /\ UNCHANGED <<source, crashed>>
       ELSE want' = 0 /\ buf' = <<>> /\ Goto("loop") /\ UNCHANGED <<call, err>>
    /\ UNCHANGED <<state, fd, dirty, conn, sent>>

StoreFails ==
    /\ pc = "store" /\ buf # <<>>
    /\ FailWith("EIO")
    /\ UNCHANGED <<file, call, want, buf>>

WorthwhileAlways == err = "EAGAIN" /\ numbytes > 0  \* mutant: again and again

\* sfile_pread_force: one more attempt if the source was only busy and had
\* delivered something before.
Worthwhile == err = "EAGAIN" /\ numbytes > 0 /\ ~retried

Retry ==
    /\ pc = "failed" /\ Worthwhile
    /\ Reset
    /\ retried' = TRUE
    /\ want' = 0 /\ buf' = <<>> /\ err' = "EIO"
    /\ Goto("start")
    /\ UNCHANGED <<op, offset, nbyte, data>>

GiveUp ==
    /\ pc = "failed" /\ ~Worthwhile
    /\ Reset
    /\ Return(Abstract!Error)
    /\ UNCHANGED <<source, crashed>>

----------------------------------------------------------------------------
(* The rest of the other calls.                                            *)

Answered ==
    /\ pc = "finish" /\ op \in {"size", "startget"}
    /\ Return(IF op = "size" THEN Abstract!Size(numbytes) ELSE Abstract!Done)
    /\ UNCHANGED <<file, source, crashed>>

\* The connection is not needed any more, however much it has delivered.
Truncated ==
    /\ pc = "finish" /\ op = "truncate"
    /\ state' = "SF_FINI" /\ conn' = FALSE
    /\ IF numbytes > offset
       THEN /\ local' = Abstract!Part(local, 0, offset)
            /\ numbytes' = offset
            /\ dirty' = TRUE
       ELSE UNCHANGED <<local, numbytes, dirty>>
    /\ Return(Abstract!Done)
    /\ UNCHANGED <<fd, sent, source, crashed>>

Written ==
    /\ pc = "finish" /\ op = "pwrite"
    /\ local' = Abstract!Overlaid(local, offset, data)
    /\ numbytes' = IF offset + Len(data) > numbytes THEN offset + Len(data) ELSE numbytes
    /\ dirty' = TRUE
    /\ Return(Abstract!Size(Len(data)))
    /\ UNCHANGED <<state, fd, conn, sent, source, crashed>>

WriteFails ==
    /\ pc = "finish" /\ op = "pwrite"
    /\ Reset
    /\ Return(Abstract!Error)
    /\ UNCHANGED <<source, crashed>>

----------------------------------------------------------------------------
Call == Pread \/ Size \/ StartGet \/ Truncate \/ Pwrite
        \/ TruncateAll \/ FlushClean \/ FlushDirty \/ FlushFails

Continue ==
    \/ Started \/ StartFails \/ Answer \/ AnswerFails \/ GotEnough \/ More
    \/ Delivered \/ Ended \/ FetchFails \/ Stored \/ StoreFails \/ Retry \/ GiveUp
    \/ Answered \/ Truncated \/ Written \/ WriteFails

Next == Call \/ Continue

Spec == Init /\ [][Next]_vars

\* The source and the temporary file answer every call, if only by failing.
FairSpec == Spec /\ WF_vars(Continue)

----------------------------------------------------------------------------
(* What the file promises.                                                 *)

TypeOK ==
    /\ state \in States /\ pc \in Places /\ op \in Ops /\ err \in Errors
    /\ {fd, dirty, conn, retried, crashed} \subseteq BOOLEAN
    /\ {numbytes, sent, offset, nbyte, want} \subseteq Nat
    /\ {local, source, data, buf} \subseteq Seq(Bytes)
    /\ reply.is.ok \in BOOLEAN /\ reply.is.data \in Seq(Bytes) /\ reply.is.size \in Nat

\* The temporary file holds what numbytes says, and it and the buffer are the
\* beginning of the source, in order and without gaps, as far as the connection
\* has got -- whatever failed, was retried or was dropped before.  Changes are
\* made only when nothing can arrive any more that would overwrite them.
InStep ==
    /\ Len(local) = numbytes
    /\ conn <=> state = "SF_READ"
    /\ state = "SF_BEGIN" => ~dirty /\ numbytes = 0 /\ sent = 0
    /\ dirty => state = "SF_FINI" /\ fd
    /\ ~dirty => local \in Abstract!Prefixes(source)
    /\ state = "SF_READ" /\ pc # "failed" => local \o buf = SubSeq(source, 1, sent)

\* The calls do what they promise; so a read never answers wrong or missing
\* data because of what happened on the way, and changes that were answered
\* with success are dropped only by a call that answers an error.
ImplementsFile == Abstract!Spec

\* A truncation to exactly what has arrived, while there is more: the file ends there from
\* now on, but it is not marked dirty (serialfile.c:381), so that a flush does not store
\* the truncation.  ImplementsFile holds of the behaviours in which this does not happen.
CutUnseen ==
    pc = "finish" /\ op = "truncate" /\ ~dirty /\ numbytes = offset /\ numbytes < Len(source)

\* Every call returns: the loops end, and a source that is busy for ever is
\* given up.
CallEnds == pc # "idle" ~> pc = "idle"

\* doc/api-overview:274 "modules which provide access to some translation of the
\* data in a file": a finished file without changes is all of the translation.
CleanIsComplete == pc = "idle" /\ state = "SF_FINI" /\ ~dirty => local = source

=============================================================================
