-------------------------------- MODULE Programs --------------------------------
(***************************************************************************)
(* Programs that avfs runs, connected by pipes: src/src/prog.c starts and  *)
(* reaps them, src/src/filebuf.c reads and writes the pipes without        *)
(* blocking and waits for them with poll.  src/src/filtprog.c passes a     *)
(* file through a filter, forwards ("get") or backwards ("put");           *)
(* src/src/runprog.c reads the lines of a listing ("list"), or lets a      *)
(* program copy a file and watches it grow ("copy", src/modules/rsh.c).    *)
(*                                                                         *)
(* The caller holds the lock of the file, so one call is under way at a    *)
(* time.  The program goes on by itself between any two of its steps: it   *)
(* blocks on full and empty pipes, complains on its standard error, and    *)
(* ends well, or badly at any time.  It closes its pipes only by ending.   *)
(* A filter that does nothing stands for all of them: what it reads it     *)
(* writes, holding back some of it.                                        *)
(***************************************************************************)
EXTENDS Integers, SequencesExt

CONSTANTS
    Input,       \* the file, or what the program prints
    LineEnds,    \* the bytes of it that end a line
    Sizes,       \* sizes of reads and writes
    PipeSize,    \* what a pipe holds
    Hold,        \* what the program holds back
    CbufSize,    \* cbufsize
    MaxBad,      \* how many things go wrong
    MaxGrumbles  \* how many times the program complains

ASSUME PipeAssumption == PipeSize \in Nat \ {0} /\ CbufSize \in Nat \ {0} /\ Hold \in Nat \ {0}
ASSUME InputAssumption == Input \in Seq(Range(Input)) /\ Sizes \subseteq Nat \ {0}
ASSUME BoundAssumption == MaxBad \in Nat /\ MaxGrumbles \in Nat

VARIABLES
    use,       \* what the program is run for
    base,      \* the contents of the base file
    at,        \* its position
    cbuf,      \* what is between the base file and a pipe
    program,   \* whether it runs; what it holds, and what it wants to complain
    pipes,     \* the bytes in each
    fbs,       \* struct filebuf: avail, eof, and what was read ahead
    infed,     \* the write end of the program's input is open
    got, put,  \* what the caller has received and sent
    step,      \* where the call is
    task,      \* the call, and its size
    result,    \* the result of the last call
    shared,    \* another program has inherited the pipes
    mishaps    \* what may still go wrong, what has been written short, and complaints

progvars == <<use, base, at, cbuf, program, pipes, fbs, infed, got, put, step, task,
              result, shared, mishaps>>
calling  == <<step, task, result>>

Pipes == {"in", "out", "err"}
Uses  == {"get", "put", "list", "copy"}
NoProgram == [status |-> "none", held |-> <<>>, say |-> <<>>]
NoPipes   == [p \in Pipes |-> <<>>]
NewFilebuf == [avail |-> FALSE, eof |-> FALSE, buf |-> <<>>]
NoTask    == [op |-> "none", n |-> 0]

Least(a, b) == IF a < b THEN a ELSE b
FirstOf(s, n) == SubSeq(s, 1, Least(n, Len(s)))
RestOf(s, n) == SubSeq(s, Least(n, Len(s)) + 1, Len(s))

ProgramInit ==
    /\ use = "none" /\ base = Input /\ at = 0 /\ cbuf = <<>>
    /\ program = NoProgram /\ pipes = NoPipes /\ infed = FALSE
    /\ fbs = [p \in Pipes |-> NewFilebuf]
    /\ got = <<>> /\ put = 0
    /\ step = "idle" /\ task = NoTask /\ result = "ok"
    /\ shared = FALSE
    /\ mishaps = [left |-> MaxBad, short |-> FALSE, grumbles |-> MaxGrumbles, grumbled |-> FALSE]

\* Something goes wrong.
Mishap == mishaps.left > 0 /\ mishaps' = [mishaps EXCEPT !.left = @ - 1]

-----------------------------------------------------------------------------
\* The kernel.  A pipe that another program has too is not seen to end.

ReaderGone == program.status # "runs" /\ ~shared
WriterGone == program.status # "runs" /\ ~shared
Room(p)    == PipeSize - Len(pipes[p])

CanGo(p) == IF p = "in" THEN Room(p) > 0 \/ ReaderGone ELSE pipes[p] # <<>> \/ WriterGone

\* Mutant of Polled: what the program complains is not waited for.
PolledQuiet == {p \in {"in", "out"} : (p = "in" => infed) /\ ~fbs[p].eof}

\* filebuf_fill_poll.
Polled == {p \in Pipes : (p = "in" => infed) /\ ~fbs[p].eof}

-----------------------------------------------------------------------------
\* Starting and ending a program.

\* filtprog_start, av_start_program: three pipes and a process.  Nothing of them is left
\* when one of the calls fails.  A process that another thread starts meanwhile inherits
\* the pipes, those that are the program's for as long as it runs.
Begun(u) ==
    /\ use' = u
    /\ program' = [status |-> "runs", say |-> <<>>,
                   held |-> IF u \in {"list", "copy"} THEN Input ELSE <<>>]
    /\ pipes' = NoPipes /\ infed' = (u \in {"get", "put"})
    /\ fbs' = [p \in Pipes |-> NewFilebuf]
    /\ cbuf' = <<>> /\ got' = <<>> /\ put' = 0 /\ result' = "ok"
    /\ \/ shared' = FALSE /\ UNCHANGED mishaps
       \/ shared' = TRUE /\ Mishap

Unstarted == Mishap /\ result' = "EIO"
             /\ UNCHANGED <<use, program, pipes, infed, fbs, cbuf, got, put, shared>>

StartFilter == /\ use = "none" /\ (Begun("get") \/ Unstarted)
            /\ UNCHANGED <<base, at, step, task>>

\* filtprog_startput empties the base file first.
StartReverse ==
    /\ use = "none"
    /\ \/ base' = <<>> /\ (Begun("put") \/ Unstarted)
       \/ UNCHANGED base /\ Unstarted
    /\ UNCHANGED <<at, step, task>>

StartProgram == /\ use = "none" /\ \E u \in {"list", "copy"} : Begun(u)
                /\ UNCHANGED <<base, at, step, task>>

\* Mutant of Rewound: the base file is left where it was read or written to.
RewoundNever == at

Rewound == 0

\* filtprog_stop, program_delete: the pipes are closed, and the program is killed and
\* reaped if it has not been.
StopProgram ==
    /\ use # "none" /\ step = "idle"
    /\ use' = "none" /\ program' = NoProgram /\ pipes' = NoPipes /\ infed' = FALSE
    /\ fbs' = [p \in Pipes |-> NewFilebuf]
    /\ at' = (IF use \in {"get", "put"} THEN Rewound ELSE at)
    /\ cbuf' = <<>> /\ got' = <<>> /\ put' = 0 /\ result' = "ok" /\ shared' = FALSE
    /\ mishaps' = [mishaps EXCEPT !.short = FALSE, !.grumbled = FALSE]
    /\ UNCHANGED <<base, step, task>>

-----------------------------------------------------------------------------
\* Calls.

\* After its end and after an error the serial file drops the connection.
AskProgram(u, op, n, where) ==
    /\ use = u /\ step = "idle" /\ result = "ok"
    /\ step' = where /\ task' = [op |-> op, n |-> n]
    /\ UNCHANGED <<use, base, at, cbuf, program, pipes, fbs, infed, got, put, result,
                   shared, mishaps>>

ReadFilter  == \E n \in Sizes : AskProgram("get", "read", n, "check")
WriteFilter == \E n \in Sizes : put + n <= Len(Input) /\ AskProgram("put", "write", n, "check")
Getline == AskProgram("list", "getline", 0, "check")
WaitCopy == \E n \in Sizes : AskProgram("copy", "wait", n, "turn")

\* filtprog_endput closes the program's input.
EndFilter ==
    /\ use = "put" /\ step = "idle" /\ result = "ok"
    /\ infed' = FALSE /\ step' = "check" /\ task' = [op |-> "endput", n |-> 0]
    /\ UNCHANGED <<use, base, at, cbuf, program, pipes, fbs, got, put, result, shared, mishaps>>

Answers(answer) == step' = "idle" /\ task' = NoTask /\ result' = answer
GoesTo(where) == step' = where /\ UNCHANGED <<task, result>>

\* filebuf_real_read of up to n bytes: f is the filebuf afterwards, and what it read.
RealRead(p, n) ==
    LET f == fbs[p]
        data == IF f.avail THEN FirstOf(pipes[p], n) ELSE <<>>
    IN [data |-> data,
        f |-> [f EXCEPT !.avail = FALSE, !.eof = f.eof \/ (f.avail /\ data = <<>>)]]

Ends(s) == {i \in DOMAIN s : s[i] \in LineEnds}

\* filebuf_lineend, av_filebuf_readline.  The end is seen one call before the line that
\* is left without an end is given.
Readline(p) ==
    LET ahead == fbs[p].buf
        r == IF Ends(ahead) # {} \/ fbs[p].eof THEN [data |-> <<>>, f |-> fbs[p]]
             ELSE RealRead(p, PipeSize)
        b == ahead \o r.data
        n == IF Ends(b) # {} THEN CHOOSE i \in Ends(b) : \A j \in Ends(b) : i <= j
             ELSE IF fbs[p].eof THEN Len(b) ELSE 0
    IN [line |-> FirstOf(b, n), data |-> r.data, f |-> [r.f EXCEPT !.buf = RestOf(b, n)]]

\* filtprog_check_error, flush_error: reads lines as long as there are some.  A filter
\* that complained is polled again before its output is looked at.
CheckError ==
    /\ step = "check"
    /\ LET r == Readline("err")
           rest == Ends(r.f.buf)
       IN /\ fbs' = [fbs EXCEPT !["err"] = [r.f EXCEPT !.buf =
                        RestOf(@, IF rest = {} THEN 0 ELSE CHOOSE i \in rest : \A j \in rest : i >= j)]]
          /\ pipes' = [pipes EXCEPT !["err"] = RestOf(@, Len(r.data))]
          /\ GoesTo(IF r.line # <<>> /\ use # "list" THEN "poll" ELSE "turn")
    /\ UNCHANGED <<use, base, at, cbuf, program, infed, got, put, shared, mishaps>>

\* av_filebuf_check waits without a timeout, except for a listing (RSH_LIST_TIMEOUT).
Poll ==
    /\ step = "poll" /\ \E p \in Polled : CanGo(p)
    /\ fbs' = [p \in Pipes |-> IF p \in Polled THEN [fbs[p] EXCEPT !.avail = CanGo(p)] ELSE fbs[p]]
    /\ GoesTo("check")
    /\ UNCHANGED <<use, base, at, cbuf, program, pipes, infed, got, put, shared, mishaps>>

PollTimesOut ==
    /\ step = "poll" /\ use = "list" /\ Mishap /\ Answers("EIO")
    /\ UNCHANGED <<use, base, at, cbuf, program, pipes, fbs, infed, got, put, shared>>

\* av_filebuf_write of data; a reader that is gone is an error.
Fed(data) ==
    /\ fbs' = [fbs EXCEPT !["in"].avail = FALSE]
    /\ pipes' = [pipes EXCEPT !["in"] = @ \o FirstOf(data, Room("in"))]

\* filtprog_write_input, with filtprog_fill_cbuf: the base file is read when cbuf is
\* empty, and the program's input closed at its end.
WriteInput ==
    LET more  == SubSeq(base, at + 1, Least(at + CbufSize, Len(base)))
        chunk == IF cbuf = <<>> THEN more ELSE cbuf
    IN \/ /\ chunk = <<>> /\ infed' = FALSE /\ GoesTo("poll")
          /\ UNCHANGED <<at, cbuf, pipes, fbs, mishaps>>
       \/ /\ cbuf = <<>> /\ Mishap /\ Answers("EIO")
          /\ UNCHANGED <<at, cbuf, pipes, fbs, infed>>
       \/ /\ chunk # <<>>
          /\ at' = IF cbuf = <<>> THEN at + Len(more) ELSE at
          /\ \/ ~fbs["in"].avail /\ cbuf' = chunk /\ GoesTo("poll") /\ UNCHANGED <<pipes, fbs>>
             \/ fbs["in"].avail /\ ReaderGone /\ cbuf' = chunk /\ Answers("EIO") /\ UNCHANGED <<pipes, fbs>>
             \/ fbs["in"].avail /\ ~ReaderGone /\ cbuf' = RestOf(chunk, Room("in"))
                /\ Fed(chunk) /\ GoesTo("poll")
          /\ UNCHANGED <<infed, mishaps>>

\* filtprog_read.
ReadTurn ==
    /\ step = "turn" /\ task.op = "read"
    /\ LET r == RealRead("out", task.n)
       IN \/ /\ r.data # <<>> \/ r.f.eof
             /\ fbs' = [fbs EXCEPT !["out"] = r.f]
             /\ pipes' = [pipes EXCEPT !["out"] = RestOf(@, Len(r.data))]
             /\ got' = got \o r.data
             /\ IF r.data # <<>> THEN Answers("ok") ELSE GoesTo("reap")
             /\ UNCHANGED <<at, cbuf, infed, mishaps>>
          \/ /\ r.data = <<>> /\ ~r.f.eof /\ UNCHANGED got
             /\ IF infed THEN WriteInput
                ELSE GoesTo("poll") /\ UNCHANGED <<at, cbuf, pipes, fbs, infed, mishaps>>
    /\ UNCHANGED <<use, base, program, put, shared>>

\* av_write to the base file: whole, in part, or not at all.  Only the last is noticed.
BaseWrite(bytes, where) ==
    \/ base' = base \o bytes /\ GoesTo(where) /\ UNCHANGED mishaps
    \/ /\ mishaps.left > 0 /\ bytes # <<>>
       /\ base' = base \o FirstOf(bytes, Len(bytes) - 1) /\ GoesTo(where)
       /\ mishaps' = [mishaps EXCEPT !.left = @ - 1, !.short = TRUE]
    \/ Mishap /\ Answers("EIO") /\ UNCHANGED base

\* filtprog_read_input: what comes back is collected, and written when cbuf is full.
ReadInput(where) ==
    LET r == RealRead("out", CbufSize - Len(cbuf))
        c == cbuf \o r.data
    IN /\ fbs' = [fbs EXCEPT !["out"] = r.f]
       /\ pipes' = [pipes EXCEPT !["out"] = RestOf(@, Len(r.data))]
       /\ IF Len(c) = CbufSize
          THEN cbuf' = <<>> /\ BaseWrite(c, where) /\ at' = Len(base')
          ELSE cbuf' = c /\ GoesTo(where) /\ UNCHANGED <<base, at, mishaps>>

\* filtprog_write.
WriteTurn ==
    /\ step = "turn" /\ task.op = "write"
    /\ \/ /\ fbs["in"].avail /\ ReaderGone /\ Answers("EIO")
          /\ UNCHANGED <<base, at, cbuf, pipes, fbs, put, mishaps>>
       \/ /\ fbs["in"].avail /\ ~ReaderGone
          /\ Fed(SubSeq(Input, put + 1, put + task.n)) /\ put' = put + Least(task.n, Room("in"))
          /\ Answers("ok") /\ UNCHANGED <<base, at, cbuf, mishaps>>
       \/ ~fbs["in"].avail /\ ReadInput("poll") /\ UNCHANGED put
    /\ UNCHANGED <<use, program, infed, got, shared>>

\* filtprog_endput.
EndTurn ==
    /\ step = "turn" /\ task.op = "endput"
    /\ ReadInput(IF RealRead("out", 1).f.eof THEN "flush" ELSE "poll")
    /\ UNCHANGED <<use, program, infed, got, put, shared>>

EndFlush ==
    /\ step = "flush" /\ BaseWrite(cbuf, "reap") /\ cbuf' = <<>> /\ at' = Len(base')
    /\ UNCHANGED <<use, program, pipes, fbs, infed, got, put, shared>>

\* av_program_getline.
LineTurn ==
    /\ step = "turn" /\ task.op = "getline"
    /\ LET r == Readline("out")
       IN /\ fbs' = [fbs EXCEPT !["out"] = r.f]
          /\ pipes' = [pipes EXCEPT !["out"] = RestOf(@, Len(r.data))]
          /\ got' = got \o r.line
          /\ IF r.line # <<>> THEN Answers("ok")
             ELSE GoesTo(IF r.f.eof /\ fbs["err"].eof THEN "reap" ELSE "poll")
    /\ UNCHANGED <<use, base, at, cbuf, program, infed, put, shared, mishaps>>

\* av_wait_prog.
Reap ==
    /\ program.status \in {"done", "failed"}
    /\ \/ step = "reap"
       \/ step = "turn" /\ task.op = "wait"
    /\ Answers(IF program.status = "done" THEN "end" ELSE "EIO")
    /\ program' = NoProgram
    /\ UNCHANGED <<use, base, at, cbuf, pipes, fbs, infed, got, put, shared, mishaps>>

\* rsh_wait, av_program_log_output: looks at the size of the copy and sleeps; the pipes
\* are never read.
CopyTurn ==
    /\ step = "turn" /\ task.op = "wait" /\ program.status = "runs" /\ Len(got) >= task.n
    /\ Answers("ok")
    /\ UNCHANGED <<use, base, at, cbuf, program, pipes, fbs, infed, got, put, shared, mishaps>>

-----------------------------------------------------------------------------
\* The program.

Busy == program.status = "runs" /\ program.say = <<>>
NothingOfAvfs == UNCHANGED <<use, base, at, cbuf, fbs, infed, put, calling>>

ProgramReads ==
    /\ Busy /\ pipes["in"] # <<>> /\ Len(program.held) < Hold
    /\ program' = [program EXCEPT !.held = Append(@, Head(pipes["in"]))]
    /\ pipes' = [pipes EXCEPT !["in"] = Tail(@)]
    /\ UNCHANGED <<got, shared, mishaps>> /\ NothingOfAvfs

ProgramWrites ==
    /\ Busy /\ program.held # <<>>
    /\ program' = [program EXCEPT !.held = Tail(@)]
    /\ LET byte == Head(program.held)
       IN IF use = "copy" THEN got' = Append(got, byte) /\ UNCHANGED pipes
          ELSE /\ Room("out") > 0 /\ UNCHANGED got
               /\ pipes' = [pipes EXCEPT !["out"] = Append(@, byte)]
    /\ UNCHANGED <<shared, mishaps>> /\ NothingOfAvfs

ProgramComplains ==
    /\ program.status = "runs" /\ program.say # <<>> /\ Room("err") > 0
    /\ pipes' = [pipes EXCEPT !["err"] = Append(@, Head(program.say))]
    /\ program' = [program EXCEPT !.say = Tail(@)]
    /\ UNCHANGED <<got, shared, mishaps>> /\ NothingOfAvfs

ProgramGrumbles ==
    /\ Busy /\ mishaps.grumbles > 0
    /\ mishaps' = [mishaps EXCEPT !.grumbles = @ - 1, !.grumbled = TRUE]
    /\ program' = [program EXCEPT !.say = Input]
    /\ UNCHANGED <<pipes, got, shared>> /\ NothingOfAvfs

ProgramDone ==
    /\ Busy /\ program.held = <<>> /\ pipes["in"] = <<>> /\ ~infed /\ ~(shared /\ use \in {"get", "put"})
    /\ program' = [program EXCEPT !.status = "done"]
    /\ UNCHANGED <<pipes, got, shared, mishaps>> /\ NothingOfAvfs

ProgramFails ==
    /\ program.status = "runs" /\ Mishap
    /\ program' = [NoProgram EXCEPT !.status = "failed"]
    /\ UNCHANGED <<pipes, got, shared>> /\ NothingOfAvfs

\* The program that has inherited the pipes ends.
OtherEnds ==
    /\ shared /\ shared' = FALSE
    /\ UNCHANGED <<program, pipes, got, mishaps>> /\ NothingOfAvfs

-----------------------------------------------------------------------------
AvfsGoesOn == CheckError \/ Poll \/ ReadTurn \/ WriteTurn \/ EndTurn \/ EndFlush \/ LineTurn \/ Reap \/ CopyTurn
ProgramGoesOn == ProgramReads \/ ProgramWrites \/ ProgramComplains \/ ProgramDone

ProgramNext ==
    \/ StartFilter \/ StartReverse \/ StartProgram \/ StopProgram
    \/ ReadFilter \/ WriteFilter \/ EndFilter \/ Getline \/ WaitCopy
    \/ AvfsGoesOn \/ PollTimesOut
    \/ ProgramGoesOn \/ ProgramGrumbles \/ ProgramFails \/ OtherEnds

ProgramSpec == ProgramInit /\ [][ProgramNext]_progvars /\ WF_progvars(AvfsGoesOn) /\ WF_progvars(ProgramGoesOn)

-----------------------------------------------------------------------------
Lines == IF Ends(Input) = {} THEN 0 ELSE CHOOSE i \in Ends(Input) : \A j \in Ends(Input) : i >= j

\* What goes through a program arrives as it was, in its order (filtprog.c:99-215).  An
\* end that is answered is the end of all of it, if the base file took what it was given:
\* filtprog.c:145 and 206 do not look at how much that was.  The lines of a listing
\* arrive, all that have an end.
ProgramTrue ==
    /\ use = "get"  => IsPrefix(got, base) /\ (result = "end" => got = base)
    /\ use = "put" /\ result = "end" /\ ~mishaps.short => base = SubSeq(Input, 1, put)
    /\ use = "list" => IsPrefix(got, Input) /\ (result = "end" => Len(got) >= Lines)

\* Every call returns as long as the program goes on (filtprog.c:99-215,
\* runprog.c:142-174): neither waits for ever for the other on full or empty pipes.
\* Not so when another program holds the pipes, and when one that copies a file
\* complains more than its pipe takes, which nobody reads (rsh.c:266-280).
ProgramCallsEnd ==
    step # "idle" ~> step = "idle" \/ shared \/ (use = "copy" /\ mishaps.grumbled)

\* Does not hold, and is in no run: the last line of a listing is given also when it has
\* no end (filebuf.c:214 means to; the end is found one call too late).
LastLineGiven == use = "list" /\ result = "end" => got = Input
=============================================================================
