----------------------------- MODULE MCNamespace -----------------------------
(* Names and files in memory, for TLC: the tree of names, the volatile file *)
(* system, or one open file.  They share no state; part says which of them  *)
(* a behaviour is of.                                                       *)
EXTENDS Namespace, Volatile, OpenFiles, TLC

VARIABLE part

\* A file that is empty, and one with something in it.
TwoContents  == {<<>>, <<"a", "b">>}
ThreeEntries == <<"e1", "e2", "e3">>

\* The users of both trees are the same two, and so are the names.
Interchangeable == Permutations(Threads) \cup Permutations(Names)

MCInit == part \in {"names", "volatile", "open"} /\ Init /\ VolInit /\ FilesInit

NamesPart    == part = "names"    /\ Next      /\ UNCHANGED <<part, vol_vars, of>>
VolatilePart == part = "volatile" /\ VolNext   /\ UNCHANGED <<part, vars, of>>
OpenPart     == part = "open"     /\ FilesNext /\ UNCHANGED <<part, vars, vol_vars>>

MCNext == NamesPart \/ VolatilePart \/ OpenPart

-----------------------------------------------------------------------------
\* The links and the references of the volatile files are those that there are: no
\* rename, removal or close of an open file loses a file or leaves one behind.
VolatileExact == VolLinkCount /\ VolRefsExact
==============================================================================
