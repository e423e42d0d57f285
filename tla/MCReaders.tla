------------------------------- MODULE MCReaders -------------------------------
(* Instances of CompressedFile for TLC.                                       *)
EXTENDS CompressedFile, TLC

\* The contents of the base file in turn: each takes the place of the one before.
MCImages == [
  z   |-> << <<"h","e","x">>, <<"h","d","e","t">>, <<"h","d","d","e">> >>,
  bz  |-> << <<"d","b","d","b","e">>, <<"d">> >>,
  xz  |-> << <<"d">>, <<"d","d","e">> >>,
  lz  |-> << <<"d">>, <<"d","e","d","e">> >>,
  zst |-> << <<"d","d","e">>, <<"d">> >>]

\* Offsets and lengths of reads.
MCReads == [
  z   |-> {<<1,1>>},
  bz  |-> {<<1,2>>},
  xz  |-> {<<1,2>>, <<2,2>>},
  lz  |-> {<<1,2>>},
  zst |-> {<<0,1>>, <<1,2>>}]

MCMaxNodes  == [z |-> 2, bz |-> 2, xz |-> 2, lz |-> 2, zst |-> 2]
MCMaxFaults == [z |-> 0, bz |-> 1, xz |-> 1, lz |-> 1, zst |-> 1]

\* The two vfiles cannot be told apart.
Sym == Permutations(Handles)
=============================================================================
