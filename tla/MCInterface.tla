----------------------------- MODULE MCInterface -----------------------------
(* The interface that programs see, for TLC: the table of descriptors, or   *)
(* the parser of paths with the calls that use it.  They share no state, so *)
(* each behaviour is one of one of them; part says which.                   *)
EXTENDS FileTable, Parse

VARIABLE part

\* All descriptors two files can get in a table that grows by one, and one
\* below and one above.
FewFds == -1..2

InterfaceInit == part \in {"table", "path"} /\ Init /\ ParseInit

TablePart == part = "table" /\ Next      /\ UNCHANGED <<part, parse_vars>>
PathPart  == part = "path"  /\ ParseNext /\ UNCHANGED <<part, vars>>

InterfaceNext == TablePart \/ PathPart

\* The fairness of FileTable and of Parse, each where it takes part.
InterfaceSpec ==
    /\ InterfaceInit /\ [][InterfaceNext]_<<part, vars, parse_vars>>
    /\ \A t \in Threads : SF_vars(part = "table" /\ Continue(t))
    /\ WF_parse_vars(part = "path" /\ ParseStep)
==============================================================================
