--------------------------- MODULE TranslatedFile ---------------------------
(***************************************************************************)
(* What a serial file promises its users, with every call an atomic step.  *)
(* The file shows the translation of the data in a base file, later that   *)
(* with the changes that were made, and a flush stores the changes in the  *)
(* base file.  A call that answers an error may have lost every change     *)
(* since the last flush; no other call loses anything.                     *)
(***************************************************************************)
EXTENDS Integers, Sequences

CONSTANTS Bytes, Zero,            \* what files are made of; what a gap reads as
          Offsets, Reads,         \* positions, and sizes of reads
          Writes, Lengths         \* data of writes, and lengths of truncations

VARIABLES stored,   \* the translation of what is in the base file
          contents, \* what the users of the file see
          reply     \* the answer to the last call

vars == <<stored, contents, reply>>

\* The part of s that starts at offset and has at most n bytes.
Part(s, offset, n) == SubSeq(s, offset + 1, IF offset + n < Len(s) THEN offset + n ELSE Len(s))

\* s with data at offset; a gap reads as zeros.
Overlaid(s, offset, data) ==
    LET size == IF offset + Len(data) > Len(s) THEN offset + Len(data) ELSE Len(s)
    IN  [i \in 1..size |-> IF i > offset /\ i <= offset + Len(data) THEN data[i - offset]
                           ELSE IF i <= Len(s) THEN s[i] ELSE Zero]

Prefixes(s) == {Part(s, 0, n) : n \in 0..Len(s)}

\* Calls and their results.
Call(op, offset, nbyte, data) == [op |-> op, offset |-> offset, nbyte |-> nbyte, data |-> data]

Data(d) == [ok |-> TRUE, data |-> d, size |-> Len(d)]
Size(n) == [ok |-> TRUE, data |-> <<>>, size |-> n]
Done    == [ok |-> TRUE, data |-> <<>>, size |-> 0]
Error   == [ok |-> FALSE, data |-> <<>>, size |-> 0]

Reply(call, result) == reply' = [to |-> call, is |-> result]

\* A read may answer less than was asked for, but nothing at the end only.
Read ==
    /\ \E offset \in Offsets, n \in Reads : \E k \in 0..n :
          /\ k = 0 => offset >= Len(contents)
          /\ Reply(Call("pread", offset, n, <<>>), Data(Part(contents, offset, k)))
    /\ UNCHANGED <<stored, contents>>

GetSize ==
    /\ Reply(Call("size", 0, 0, <<>>), Size(Len(contents)))
    /\ UNCHANGED <<stored, contents>>

StartGet == Reply(Call("startget", 0, 0, <<>>), Done) /\ UNCHANGED <<stored, contents>>

\* A file is not made longer.
Truncate ==
    /\ \E length \in Lengths :
          /\ contents' = Part(contents, 0, length)
          /\ Reply(Call("truncate", length, 0, <<>>), Done)
    /\ UNCHANGED stored

Write ==
    /\ \E offset \in Offsets, data \in Writes :
          /\ contents' = Overlaid(contents, offset, data)
          /\ Reply(Call("pwrite", offset, 0, data), Size(Len(data)))
    /\ UNCHANGED stored

Flush ==
    /\ stored' = contents
    /\ Reply(Call("flush", 0, 0, <<>>), Done)
    /\ UNCHANGED contents

\* A failed flush has overwritten the base file, or a part of it.
Fail ==
    /\ reply'.is = Error
    /\ \/ stored' = stored
       \/ reply'.to.op = "flush" /\ stored' \in Prefixes(contents)
    /\ contents' = stored'

Next == Read \/ GetSize \/ StartGet \/ Truncate \/ Write \/ Flush \/ Fail

Init == contents = stored

Spec == Init /\ [][Next]_vars

=============================================================================
