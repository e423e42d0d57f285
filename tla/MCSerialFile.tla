---------------------------- MODULE MCSerialFile ----------------------------
(* Serial files, and the programs they get their data from, for TLC.  A     *)
(* program is a source of SerialFile, which knows of it only that it        *)
(* delivers, ends or fails; so each behaviour is one of one of them, and    *)
(* part says which.                                                         *)
EXTENDS SerialFile, Programs

VARIABLE part

\* Files of one and of five bytes; with blocks of two the longer one has more
\* than two.
ShortAndLong == {<<"b">>, <<"a", "b", "a", "b", "b">>}
OneByte == {<<"c">>}
\* A line, and one without an end.
TwoLines == <<1, 2, 3>>

MCInit == part \in {"file", "program"} /\ Init /\ ProgramInit

FilePart    == part = "file"    /\ Next        /\ UNCHANGED <<part, progvars>>
ProgramPart == part = "program" /\ ProgramNext /\ UNCHANGED <<part, vars>>

MCNext == FilePart \/ ProgramPart

\* The fairness of SerialFile and of Programs, each where it takes part.
MCSpec ==
    /\ MCInit /\ [][MCNext]_<<part, vars, progvars>>
    /\ WF_vars(part = "file" /\ Continue)
    /\ WF_progvars(part = "program" /\ AvfsGoesOn)
    /\ WF_progvars(part = "program" /\ ProgramGoesOn)

\* Every call of a serial file returns, and every call that reads from, writes to or
\* waits for a program.
EveryCallEnds == CallEnds /\ ProgramCallsEnd
=============================================================================
