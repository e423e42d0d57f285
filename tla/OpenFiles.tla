---------------------------------- MODULE OpenFiles ----------------------------------
(***************************************************************************)
(* An open file of the two handlers that every other is built on: the      *)
(* local files of src/src/local.c, which are files of the system, and the  *)
(* state files of src/src/state.c, which get a value and set it.  The      *)
(* calls are those of src/src/oper.c, which move the pointer and call the  *)
(* handler, and the seek of src/src/default.c.                             *)
(*                                                                         *)
(* Contents are compared with want, what a file of POSIX has after the     *)
(* same calls.  A state file is a string: what of it is after the first    *)
(* NUL is not there.  A directory is read by position.                     *)
(***************************************************************************)
EXTENDS Integers, FiniteSets, SequencesExt

CONSTANTS
    FileValues, \* what files have in them when they are opened
    MaxFileLen, \* bound: bytes of a file
    DirEntries  \* the entries of a directory, in order

\* The values of state files are strings.
ASSUME FileAssumption ==
    /\ MaxFileLen \in Nat /\ DirEntries \in Seq(Range(DirEntries))
    /\ \A v \in FileValues : v \in Seq(Range(v) \ {"nul"})

VARIABLE of  \* the open file

-----------------------------------------------------------------------------
\* Contents.  A byte is "a" or "b"; "nul" is the end of a string, and what realloc adds
\* can be anything: "?".

\* strlen and the string.
StrLen(buf)  == (CHOOSE n \in DOMAIN buf : buf[n] = "nul" /\ \A k \in 1 .. n - 1 : buf[k] # "nul") - 1
String(buf)  == SubSeq(buf, 1, StrLen(buf))
Realloc(buf, n) == [k \in 1 .. n |-> IF k <= Len(buf) THEN buf[k] ELSE "?"]
PutBytes(s, pos, c, n) == [k \in 1 .. Len(s) |-> IF k > pos /\ k <= pos + n THEN c ELSE s[k]]

\* What POSIX makes of a write at pos, and of a truncation.
Resized(s, n) == [k \in 1 .. n |-> IF k <= Len(s) THEN s[k] ELSE "nul"]
PosixWrite(s, pos, c, n) == PutBytes(Resized(s, IF pos + n > Len(s) THEN pos + n ELSE Len(s)), pos, c, n)

-----------------------------------------------------------------------------
\* state.c.

\* Mutant of StateBuf: the end of the string is left to what the memory has.
NoEnd(buf, pos, c, n) ==
    IF pos + n > StrLen(buf) THEN PutBytes(Realloc(buf, pos + n + 1), pos, c, n) ELSE PutBytes(buf, pos, c, n)

\* state_write: room is made if the write ends after the string, with an end of its own.
StateBuf(buf, pos, c, n) ==
    IF pos + n > StrLen(buf)
    THEN PutBytes([Realloc(buf, pos + n + 1) EXCEPT ![pos + n + 1] = "nul"], pos, c, n)
    ELSE PutBytes(buf, pos, c, n)

\* state_truncate does not make a file longer.
StateCut(buf, n) == IF n < StrLen(buf) THEN [buf EXCEPT ![n + 1] = "nul"] ELSE buf

-----------------------------------------------------------------------------
\* Opening.

NewlyOpened(kind, write, append, trunc, v) ==
    LET s == IF trunc THEN <<>> ELSE v
    IN [st |-> "open", kind |-> kind, write |-> write, append |-> append,
        buf |-> IF kind = "state" THEN Append(s, "nul") ELSE s, koff |-> 0, ptr |-> 0,
        modif |-> trunc, want |-> s, gap |-> FALSE, set |-> <<>>,
        pos |-> 0, entctr |-> 0, got |-> <<>>]

\* state_open and local_open; state files that are only read have no set.
AvOpen ==
    \E kind \in {"state", "local"}, write, append, trunc \in BOOLEAN, v \in FileValues :
        /\ append \/ trunc => write
        /\ of' = NewlyOpened(kind, write, append, trunc, v)

\* A directory of either, opened to be read.
OpenDir == \E kind \in {"statedir", "localdir"} : of' = NewlyOpened(kind, FALSE, FALSE, FALSE, <<>>)

Is(kinds) == of.st = "open" /\ of.kind \in kinds
File == {"state", "local"}
Dir  == {"statedir", "localdir"}

-----------------------------------------------------------------------------
\* oper.c: a call moves the pointer first if it is for a position (av_file_pread,
\* av_file_pwrite), and then calls the handler.

Size(f) == IF f.kind = "state" THEN StrLen(f.buf) ELSE Len(f.buf)

\* default_lseek and local_lseek.
Sought(f, p) == [f EXCEPT !.ptr = p, !.koff = IF f.kind = "local" THEN p ELSE @]
Moves(f) == {f} \cup {Sought(f, p) : p \in 0 .. MaxFileLen}

\* state_read and local_read.
Read(f, n) ==
    LET at  == IF f.kind = "local" THEN f.koff ELSE f.ptr
        end == IF at + n < Size(f) THEN at + n ELSE Size(f)
        res == IF at >= Size(f) THEN 0 ELSE end - at
    IN [f EXCEPT !.ptr = @ + res, !.koff = IF f.kind = "local" THEN @ + res ELSE @,
                 !.got = SubSeq(f.buf, at + 1, at + res), !.pos = at]

av_file_read == Is(File) /\ \E f \in Moves(of), n \in 1 .. 2 : of' = Read(f, n)

\* state_write, which finds the end itself, and local_write, which is told by the system
\* where the end is only by what it reads.
StateWrite(f, c, n) ==
    LET at == IF f.append THEN StrLen(f.buf) ELSE f.ptr
    IN [f EXCEPT !.buf = StateBuf(@, at, c, n), !.ptr = at + n, !.modif = TRUE,
                 !.gap = @ \/ at > StrLen(f.buf), !.want = PosixWrite(@, at, c, n)]

LocalWrite(f, c, n) ==
    LET at == IF f.append THEN Len(f.buf) ELSE f.koff
    IN [f EXCEPT !.buf = PosixWrite(@, at, c, n), !.koff = at + n, !.ptr = @ + n,
                 !.want = PosixWrite(@, IF f.append THEN Len(f.want) ELSE f.ptr, c, n)]

av_file_write ==
    /\ Is(File) /\ of.write
    /\ \E f \in Moves(of), c \in {"a", "b"}, n \in 1 .. 2 :
         /\ f.ptr + n <= MaxFileLen /\ (of.append => Size(f) + n <= MaxFileLen)
         /\ of' = IF f.kind = "state" THEN StateWrite(f, c, n) ELSE LocalWrite(f, c, n)

\* state_truncate and local_truncate.
av_file_truncate ==
    /\ Is(File) /\ of.write
    /\ \E n \in 0 .. MaxFileLen :
         of' = [of EXCEPT !.buf = IF of.kind = "state" THEN StateCut(@, n)
                                  ELSE Resized(@, n),
                          !.modif = TRUE, !.gap = @ \/ n > Len(of.want),
                          !.want = Resized(@, n)]

\* av_file_lseek with any of the three origins.
av_file_lseek ==
    /\ Is(File)
    /\ \E off \in -MaxFileLen .. MaxFileLen, from \in {0, of.ptr, Size(of)} :
         /\ from + off \in 0 .. MaxFileLen
         /\ of' = Sought(of, from + off)

\* state_close gives what there is to set; local_close has nothing left to do.
AvClose ==
    /\ Is(File)
    /\ of' = [of EXCEPT !.st = "closed",
                        !.set = IF of.kind = "state" /\ of.modif THEN <<String(of.buf)>> ELSE <<>>]

-----------------------------------------------------------------------------
\* Directories.

\* Mutant of Rewound: the system's directory is not begun again.
NeverRewound(f) == f.entctr

\* Where local_readdir begins to read: at the beginning if the pointer has gone back.
Rewound(f) == IF f.ptr < f.entctr THEN 0 ELSE f.entctr

\* local_readdir reads on until it has passed the pointer; state_readdir counts from the
\* first entry.
av_file_readdir ==
    /\ Is(Dir)
    /\ of' = IF of.ptr >= Len(DirEntries) /\ of.kind = "statedir" THEN [of EXCEPT !.got = <<>>, !.pos = @]
             ELSE IF of.kind = "statedir"
             THEN [of EXCEPT !.got = <<DirEntries[of.ptr + 1]>>, !.pos = of.ptr, !.ptr = @ + 1]
             ELSE LET read == IF of.ptr < Rewound(of) THEN Rewound(of) + 1 ELSE of.ptr + 1
                  IN IF read > Len(DirEntries) THEN [of EXCEPT !.got = <<>>, !.entctr = Len(DirEntries)]
                     ELSE [of EXCEPT !.got = <<DirEntries[read]>>, !.pos = of.ptr,
                                     !.entctr = read, !.ptr = @ + 1]

\* dir_lseek of fdops.c sets the pointer.
SeekDir == Is(Dir) /\ \E p \in 0 .. Len(DirEntries) + 1 : of' = [of EXCEPT !.ptr = p, !.got = <<>>]

-----------------------------------------------------------------------------
FilesInit == of = [NewlyOpened("state", FALSE, FALSE, FALSE, <<>>) EXCEPT !.st = "closed"]

FilesNext ==
    \/ of.st = "closed" /\ (AvOpen \/ OpenDir)
    \/ av_file_read \/ av_file_write \/ av_file_truncate \/ av_file_lseek \/ AvClose
    \/ av_file_readdir \/ SeekDir

-----------------------------------------------------------------------------
\* Properties.

\* Whatever is written, cut off and appended in whatever order: a file is what POSIX says
\* it is, as long as nothing has been written behind its end; the memory of a state file
\* has a NUL in it, and what is set is all of it; a local file is read and written where
\* the pointer is, unless it is appended to, of which local_write says that the pointer
\* goes astray; and every entry of a directory is the one the pointer is at.
OpenFileTrue ==
    /\ of.st = "open" /\ of.kind = "state" =>
         /\ \E n \in DOMAIN of.buf : of.buf[n] = "nul"
         /\ ~of.gap => String(of.buf) = of.want
    /\ of.st = "closed" /\ of.set # <<>> /\ ~of.gap => of.set = <<of.want>>
    /\ of.st = "open" /\ of.kind = "local" /\ ~of.append => of.koff = of.ptr /\ of.buf = of.want
    /\ of.st = "open" /\ of.kind \in Dir /\ of.got # <<>> => of.got = <<DirEntries[of.pos + 1]>>
=====================================================================================
