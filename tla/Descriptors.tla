----------------------------- MODULE Descriptors -----------------------------
(***************************************************************************)
(* What the interface of AVFS promises about file descriptors, with every  *)
(* call an atomic step: a descriptor names one open file from the open     *)
(* that returned it until its close, a file is opened and closed once, and *)
(* only an open file is operated on.                                       *)
(***************************************************************************)
EXTENDS Integers

CONSTANTS Fds,   \* descriptors
          Files, \* one for each call of av_fd_open, whether it succeeds or not
          None

VARIABLES named, \* the open file a descriptor names, or None
          dead,  \* the files that have been closed, or could not be opened
          busy   \* the files the drivers are working on

vars == <<named, dead, busy>>

Init == named = [fd \in Fds |-> None] /\ dead = {} /\ busy = {}

Open(fd, f) ==
    /\ named[fd] = None
    /\ f \notin dead /\ \A other \in Fds : named[other] # f
    /\ named' = [named EXCEPT ![fd] = f]
    /\ UNCHANGED <<dead, busy>>

Fail(f) ==
    /\ f \notin dead /\ \A fd \in Fds : named[fd] # f
    /\ dead' = dead \cup {f}
    /\ UNCHANGED <<named, busy>>

\* One operation at a time works on a file, and a close waits for it.
Begin(fd) ==
    /\ named[fd] # None /\ named[fd] \notin busy
    /\ busy' = busy \cup {named[fd]}
    /\ UNCHANGED <<named, dead>>

End(fd) ==
    /\ named[fd] \in busy
    /\ busy' = busy \ {named[fd]}
    /\ UNCHANGED <<named, dead>>

Close(fd) ==
    /\ named[fd] \in busy
    /\ dead' = dead \cup {named[fd]}
    /\ busy' = busy \ {named[fd]}
    /\ named' = [named EXCEPT ![fd] = None]

\* The exit handler closes what is open.
CloseAll ==
    /\ busy = {}
    /\ dead' = dead \cup {named[fd] : fd \in {d \in Fds : named[d] # None}}
    /\ named' = [fd \in Fds |-> None]
    /\ UNCHANGED busy

Next ==
    \/ \E fd \in Fds, f \in Files : Open(fd, f)
    \/ \E f \in Files : Fail(f)
    \/ \E fd \in Fds : Begin(fd) \/ End(fd) \/ Close(fd)
    \/ CloseAll

Spec == Init /\ [][Next]_vars

============================================================================
