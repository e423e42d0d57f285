---------------------------------- MODULE Parse ----------------------------------
(***************************************************************************)
(* From a path to the answer of a call: src/src/parse.c makes a ventry of  *)
(* a path, segment by segment, src/src/oper.c calls the file system the    *)
(* ventry is in, and src/src/virtual.c frees all again.                    *)
(*                                                                         *)
(* A ventry is the stack of the mounts that lead to it, the local file     *)
(* system first; what is kept of a mount is whether the ventry there has   *)
(* data of its file system.  A file that is open has a copy of the mounts, *)
(* and data of its own.  The module counts what the file systems have      *)
(* given and the references of mounts to file systems, call by call as the *)
(* code does, and compares them with what is in use.                       *)
(*                                                                         *)
(* What a path is made of, and what a file system answers, is open.        *)
(***************************************************************************)
EXTENDS Integers, FiniteSets, SequencesExt

CONSTANTS
    MaxSegs,    \* segments of a path or a link
    MaxMounts,  \* mounts on each other
    MaxLinks,   \* links in links: linkctr, 10 in the code
    MaxOpen     \* open files

ASSUME ParseAssumption == MaxSegs \in Nat /\ MaxLinks \in Nat

VARIABLES
    vcall,  \* the call: ps, the ventries it has, and the answer
    given,  \* data that file systems have given and that have not been put back
    fsrefs,   \* references of mounts to file systems
    vopen   \* open files

parse_vars == <<vcall, given, fsrefs, vopen>>

\* The calls, by what they do with the ventry.
EntryOps == {"access", "islocal", "readlink"}
ChangeOps == {"unlink", "rmdir", "mkdir", "mknod", "symlink"}
TwoOps   == {"rename", "link"}
AttrOps  == {"stat", "lstat", "truncate", "setattr", "remove"}  \* remove stats first
OpenOps  == {"open", "opendir"}

\* Whether a link at the end of the path is followed.
Resolves(op) == op \in {"access", "stat", "truncate", "setattr", "open", "opendir"}

NoPath == [pc |-> "idle", op |-> "none", need |-> 0, got |-> <<>>, ve |-> <<>>, frames |-> <<>>,
           forced |-> FALSE, tmp |-> <<>>, vf |-> <<>>, ans |-> "none", rewritten |-> <<>>]

\* Paths of links and their absolute values, and the value that stays absolute.
LinkPaths == UNION {[1 .. n -> {"a", "b"}] : n \in 0 .. MaxSegs}
NotRewritten == [up |-> -1, rest |-> <<>>]

Root == <<TRUE>>  \* the local file system's ventry of the empty path

\* How many data a ventry has.
HasData(v) == Cardinality({i \in DOMAIN v : v[i]})

\* What a step works on: a ventry and the two counts.
Work(v) == [ve |-> v, given |-> given, fsrefs |-> fsrefs, ok |-> TRUE, link |-> FALSE]

\* A step's outcome with the call c.
Leave(w, c) == vcall' = c /\ given' = w.given /\ fsrefs' = w.fsrefs

-----------------------------------------------------------------------------
\* Ventries.

\* av_free_ventry with av_free_vmount: putent and unref, from the top down.
av_free_ventry(w, v) == [w EXCEPT !.given = @ - HasData(v), !.fsrefs = @ - Len(v)]

\* av_copy_ventry with av_copy_vmount: copyent and ref.
av_copy_ventry(w, v) == [w EXCEPT !.given = @ + HasData(v), !.fsrefs = @ + Len(v)]
av_copy_vmount(w, v) == [w EXCEPT !.given = @ + HasData(Front(v)), !.fsrefs = @ + Len(v)]
av_free_vmount(w, v) == [w EXCEPT !.given = @ - HasData(Front(v)), !.fsrefs = @ - Len(v)]

\* The first ventry: the local file system is referred to and the path copied.
FirstVentry(w) == [w EXCEPT !.ve = Root, !.given = @ + 1, !.fsrefs = @ + 1]

\* Mutant of LeaveMounts: the mounts below are freed with those that are left.
FreesBase(w, n) == [av_free_ventry(w, w.ve) EXCEPT !.ve = SubSeq(w.ve, 1, Len(w.ve) - n)]

\* The top n mounts are left: base is taken out of each and it is freed.
LeaveMounts(w, n) ==
    LET rest == Len(w.ve) - n
    IN [av_free_ventry(w, SubSeq(w.ve, rest + 1, Len(w.ve))) EXCEPT !.ve = SubSeq(w.ve, 1, rest)]

\* Above the root of a file system it takes its data and gives none: the lookup is that of
\* the parent of the mount then, which may be above a root too.
Parents(w) ==
    {LeaveMounts(w, n) : n \in {k \in 0 .. Len(w.ve) - 1 :
                                 \A i \in Len(w.ve) - k + 1 .. Len(w.ve) : w.ve[i]}}

\* lookup_virtual: the file system keeps the data on an error, or gives new data for the
\* old.
Refused(p) == [p EXCEPT !.ok = FALSE]
Renewed(p, l) == [p EXCEPT !.ve = Append(Front(@), TRUE), !.link = l,
                           !.given = IF Last(p.ve) THEN @ ELSE @ + 1]
lookup_virtual(w) == {Refused(p) : p \in Parents(w)} \cup {Renewed(p, l) : p \in Parents(w), l \in BOOLEAN}

\* enter_mount, with the reference that the search for the file system has taken; one
\* that is for the root only is refused elsewhere.
Mounted(w) == [w EXCEPT !.ve = Append(@, FALSE), !.fsrefs = @ + 1]
enter_mount(w) == {Refused(Mounted(w))} \cup lookup_virtual(Mounted(w))

-----------------------------------------------------------------------------
\* parse_path.

Frame(n, links, resolve) == [segs |-> n, links |-> links, resolve |-> resolve, first |-> TRUE, exts |-> 0]
Top == Last(vcall.frames)
WithTop(c, f) == [c EXCEPT !.frames = Append(Front(@), f)]
Here(pc) == vcall.pc = pc

\* av_get_ventry begins with the local file system.
BeginCall(op, n) ==
    /\ Here("idle")
    /\ Leave(FirstVentry(Work(<<>>)),
             [NoPath EXCEPT !.pc = "parse", !.op = op, !.ve = Root,
                            !.need = IF op \in TwoOps THEN 2 ELSE 1,
                            !.frames = <<Frame(n, MaxLinks, Resolves(op))>>])
    /\ UNCHANGED vopen

\* The segment that has been looked up is done, or is a link to be followed.
Looked(w, f) ==
    Leave(w, [WithTop(vcall, [f EXCEPT !.first = FALSE]) EXCEPT
                !.ve = w.ve,
                !.pc = IF ~w.ok THEN "error"
                       ELSE IF w.link /\ (f.resolve \/ f.segs > 1) THEN "link" ELSE "next"])

\* lookup_segment of a name.
lookup_segment(f) == \E w \in lookup_virtual(Work(vcall.ve)) : Looked(w, f)

\* lookup_avfs by the name of a handler; an unknown one is an error.
lookup_avfs(f) ==
    \/ Looked([Work(vcall.ve) EXCEPT !.ok = FALSE], f)
    \/ Len(vcall.ve) < MaxMounts /\ \E w \in enter_mount(Work(vcall.ve)) : Looked(w, f)

\* lookup_auto_avfs: a filter is entered and the same segment looked at again for the
\* handler of what is inside, for as long as the name has one more extension.
lookup_auto_avfs(f) ==
    /\ f.exts < 1 /\ Len(vcall.ve) < MaxMounts
    /\ \E w \in enter_mount(Work(vcall.ve)) :
         Leave(w, [WithTop(vcall, [f EXCEPT !.exts = @ + 1]) EXCEPT
                     !.ve = w.ve, !.pc = IF w.ok THEN "parse" ELSE "error"])

\* Local files are forced in the path itself, not in a link it leads through.
Forced == vcall.forced /\ Len(vcall.frames) = 1

\* The first segment of a path or a link, and every segment when local files are
\* forced, is a name.
Segment ==
    /\ Here("parse") /\ Top.segs > 0
    /\ \/ lookup_segment(Top)
       \/ ~Top.first /\ ~Forced /\ (lookup_avfs(Top) \/ lookup_auto_avfs(Top))
    /\ UNCHANGED vopen

\* segment_islocal: a name with the magic character in it is looked up on a copy, and
\* opened and closed, if it can be, before it is looked up for good; once for a segment,
\* where the code goes on to shorter names.
segment_islocal ==
    /\ Here("parse") /\ Top.segs > 0 /\ ~Forced /\ vcall.tmp = <<>>
    /\ \E w \in lookup_virtual(av_copy_ventry(Work(vcall.ve), vcall.ve)) :
         \E opens \in BOOLEAN :
           Leave(w, [vcall EXCEPT !.tmp = w.ve, !.pc = IF opens THEN "tmpopen" ELSE "tmpfree"])
    /\ UNCHANGED vopen

\* av_fd_open_entry and av_fd_close, and the copy is freed; the name is then looked up.
segment_local_end ==
    /\ vcall.pc \in {"tmpopen", "tmpfree"}
    /\ LET a == Work(vcall.tmp)
           b == IF Here("tmpopen")
                THEN [av_free_vmount([av_copy_vmount(a, vcall.tmp) EXCEPT !.given = @ + 1], vcall.tmp)
                        EXCEPT !.given = @ - 1]
                ELSE a
           c == av_free_ventry(b, vcall.tmp)
       IN \E w \in lookup_virtual([c EXCEPT !.ve = vcall.ve]) : Looked(w, Top)
    /\ UNCHANGED vopen

\* linkctr of what a link leads to.
Deeper(f) == f.links - 1

follow_link ==
    /\ Here("link")
    /\ \/ Leave(Work(vcall.ve), [vcall EXCEPT !.pc = "error"])  \* ELOOP, or readlink fails
       \/ /\ Top.links > 0
          /\ \E n \in 0 .. MaxSegs, absolute \in BOOLEAN :
               \E w \in (IF absolute THEN {FirstVentry(av_free_ventry(Work(<<>>), vcall.ve))}
                         ELSE lookup_virtual(Work(vcall.ve))) :
                 Leave(w, [vcall EXCEPT !.ve = w.ve, !.pc = IF w.ok THEN "parse" ELSE "error",
                                        !.frames = Append(@, Frame(n, Deeper(Top), TRUE))])
    /\ UNCHANGED vopen

Next1 == [Top EXCEPT !.segs = @ - 1, !.exts = 0]

\* On to the next segment; after the last one of a link, to the one after the link.
NextSegment ==
    /\ Here("next")
    /\ Leave(Work(vcall.ve), [WithTop(vcall, Next1) EXCEPT !.pc = "parse", !.tmp = <<>>])
    /\ UNCHANGED vopen

EndOfPath ==
    /\ Here("parse") /\ Top.segs = 0
    /\ IF Len(vcall.frames) > 1
       THEN Leave(Work(vcall.ve), [vcall EXCEPT !.frames = Front(@), !.pc = "next"])
       ELSE Leave(Work(vcall.ve),
                  [vcall EXCEPT !.got = Append(@, vcall.ve), !.ve = <<>>, !.frames = <<>>, !.tmp = <<>>,
                                !.need = @ - 1, !.pc = IF vcall.need > 1 THEN "again" ELSE "act"])
    /\ UNCHANGED vopen

\* The second path of rename and link.
SecondPath ==
    /\ Here("again")
    /\ \E n \in 0 .. MaxSegs :
         Leave(FirstVentry(Work(<<>>)),
               [vcall EXCEPT !.pc = "parse", !.ve = Root, !.forced = FALSE,
                             !.frames = <<Frame(n, MaxLinks, FALSE)>>])
    /\ UNCHANGED vopen

\* Mutant of Retried: the ventry of the first try is lost.
RetriedOnTop(w, v) == FirstVentry(w)

\* The ventry of the first try is freed, and there is a new one.
Retried(w, v) == FirstVentry(av_free_ventry(w, v))

\* The ventries of the call, two at most.
Got(i) == IF i \in DOMAIN vcall.got THEN vcall.got[i] ELSE <<>>

\* All of them are freed and it answers.
FreeGot(w) == av_free_ventry(av_free_ventry(w, Got(1)), Got(2))
Answer(w, ans) == Leave(FreeGot(w), [NoPath EXCEPT !.ans = ans])

\* Mutant of ForcedLocal: the second try is as the first was.
TryAgain(c) == c

\* The second try has every segment a name.
ForcedLocal(c) == [c EXCEPT !.forced = TRUE]

\* A path that cannot be parsed is tried once more, local files forced.
ParseError ==
    /\ Here("error")
    /\ IF vcall.forced THEN Answer(av_free_ventry(Work(<<>>), vcall.ve), "error")
       ELSE \E n \in 0 .. MaxSegs :
              Leave(Retried(Work(<<>>), vcall.ve),
                    [ForcedLocal(vcall) EXCEPT !.pc = "parse", !.ve = Root, !.tmp = <<>>,
                                  !.frames = <<Frame(n, MaxLinks, Head(vcall.frames).resolve)>>])
    /\ UNCHANGED vopen

-----------------------------------------------------------------------------
\* What is done with the ventries.

\* av_access; av_islocal looks at the ventry only.
virt_access ==
    /\ Here("act") /\ vcall.op \in {"access", "islocal"}
    /\ \E ans \in {"ok", "error"} : Answer(Work(<<>>), ans)
    /\ UNCHANGED vopen

\* av_unlink, av_rmdir, av_mkdir, av_mknod and av_symlink.
virt_change ==
    /\ Here("act") /\ vcall.op \in ChangeOps
    /\ \E ans \in {"ok", "error"} : Answer(Work(<<>>), ans)
    /\ UNCHANGED vopen

\* av_rename and av_link: both in the same mount, told by the paths.
compare_mount(v, w) == Front(v) = Front(w)
virt_two ==
    /\ Here("act") /\ vcall.op \in TwoOps
    /\ \E ans \in {"ok", "error"} :
         /\ ans = "ok" => compare_mount(vcall.got[1], vcall.got[2])
         /\ Answer(Work(<<>>), ans)
    /\ UNCHANGED vopen

\* strip_common: the names both paths begin with, but for the last of equal ones.
strip_common(l, p) == IF l = p THEN Len(p) - 1 ELSE Len(LongestCommonPrefix({l, p}))

\* Mutant of count_components: the link counts as a directory.
CountAll(n) == n

\* The directories between the link and what it has in common with its value.
count_components(n) == n - 1

\* transform_symlink: an absolute value of the link at path is made relative, if there
\* is something of the path left.
transform_symlink(path, dest) ==
    LET n == strip_common(dest, path)
    IN IF Len(path) = n THEN NotRewritten
       ELSE [up |-> count_components(Len(path) - n), rest |-> SubSeq(dest, n + 1, Len(dest))]

virt_readlink ==
    /\ Here("act") /\ vcall.op = "readlink"
    /\ \/ Answer(Work(<<>>), "error")
       \/ \E path \in LinkPaths \ {<<>>}, dest \in LinkPaths :
            Leave(FreeGot(Work(<<>>)),
                  [NoPath EXCEPT !.ans = "ok", !.rewritten = <<path, dest, transform_symlink(path, dest)>>])
    /\ UNCHANGED vopen

\* av_file_open: the mounts are copied, and freed again when the open fails; the ventry
\* is freed in either case.
av_file_open ==
    /\ Here("act") /\ vcall.op \in AttrOps \cup OpenOps
    /\ LET v == vcall.got[1]
           w == av_copy_vmount(Work(<<>>), v)
       IN \/ Answer(av_free_vmount(w, v), "error") /\ UNCHANGED vopen
          \/ LET o == FreeGot([w EXCEPT !.given = @ + 1])
             IN IF vcall.op \in AttrOps
                THEN /\ Leave(o, [vcall EXCEPT !.pc = "file", !.vf = v, !.got = <<>>])
                     /\ UNCHANGED vopen
                ELSE /\ Len(vopen) < MaxOpen
                     /\ Leave(o, [NoPath EXCEPT !.ans = "ok"])
                     /\ vopen' = Append(vopen, v)

\* av_file_close frees the file and its mounts.
ClosedFile == av_free_vmount([Work(<<>>) EXCEPT !.given = @ - 1], vcall.vf)

\* common_stat, common_setattr and virt_truncate, which does not look at the result.
av_file_close ==
    /\ Here("file") /\ vcall.op # "remove"
    /\ \E ok \in BOOLEAN : Answer(ClosedFile, IF ok \/ vcall.op = "truncate" THEN "ok" ELSE "error")
    /\ UNCHANGED vopen

\* virt_remove: what the path names decides which call is made next.
virt_remove ==
    /\ Here("file") /\ vcall.op = "remove"
    /\ \/ Answer(ClosedFile, "error")
       \/ \E op \in {"rmdir", "unlink"}, n \in 0 .. MaxSegs :
            Leave(FirstVentry(ClosedFile),
                  [NoPath EXCEPT !.pc = "parse", !.op = op, !.ve = Root, !.need = 1,
                                 !.frames = <<Frame(n, MaxLinks, FALSE)>>])
    /\ UNCHANGED vopen

\* The descriptor of an open file is closed.
CloseOpen(i) ==
    /\ Here("idle")
    /\ Leave(av_free_vmount([Work(<<>>) EXCEPT !.given = @ - 1], vopen[i]), vcall)
    /\ vopen' = RemoveAt(vopen, i)

ParseStep ==
    \/ Segment \/ segment_islocal \/ segment_local_end \/ follow_link \/ NextSegment \/ EndOfPath
    \/ SecondPath \/ ParseError \/ virt_access \/ virt_change \/ virt_two
    \/ virt_readlink \/ av_file_open \/ av_file_close \/ virt_remove

ParseInit == vcall = NoPath /\ given = 0 /\ fsrefs = 0 /\ vopen = <<>>

ParseNext ==
    \/ \E op \in EntryOps \cup ChangeOps \cup TwoOps \cup AttrOps \cup OpenOps, n \in 0 .. MaxSegs : BeginCall(op, n)
    \/ ParseStep
    \/ \E i \in 1 .. Len(vopen) : CloseOpen(i)

\* A call that has begun goes on.
ParseSpec == ParseInit /\ [][ParseNext]_parse_vars /\ WF_parse_vars(ParseStep)

-----------------------------------------------------------------------------
\* Properties.

\* The ventry of a segment that is being tried, and the mounts of the ventries of s.
Tried == IF vcall.pc \in {"tmpopen", "tmpfree"} THEN vcall.tmp ELSE <<>>
MountsOf(s) == UNION {{k} \X DOMAIN s[k] : k \in DOMAIN s}

\* Every datum of a file system and every reference of a mount belongs to exactly one
\* ventry or open file in use, whatever fails on the way: none is lost and none is
\* put back twice.
VentriesBalanced ==
    LET live == vopen \o <<vcall.ve, vcall.vf, Tried, Got(1), Got(2)>>
    IN /\ given = Cardinality({p \in MountsOf(live) : live[p[1]][p[2]]})
       /\ fsrefs = Cardinality(MountsOf(live))

\* A link that readlink has made relative leads where its absolute value does.
LinkSame ==
    \A k \in {vcall.rewritten} \ {<<>>} :
        k[3] # NotRewritten =>
            LET dir == Front(k[1]) IN SubSeq(dir, 1, Len(dir) - k[3].up) \o k[3].rest = k[2]

\* A call ends, whatever the links on its path lead to.
CallAnswers == ~Here("idle") ~> Here("idle")
=============================================================================
