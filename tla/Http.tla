---------------------------------- MODULE Http ----------------------------------
(***************************************************************************)
(* The http module, src/modules/http.c: an entry for every URL, with the   *)
(* length its last response announced and a cache object whose object is   *)
(* the serial file of the response, and files that are only names of an    *)
(* entry: every call takes the serial file from the cache, or makes a new  *)
(* one, which asks the server again.  A call holds the lock of the avfs    *)
(* and is one step; between two calls the cache may drop the serial file,  *)
(* and the document on the server may change.                              *)
(***************************************************************************)
EXTENDS Integers

CONSTANTS Urls, HttpFiles, MaxBody, MaxHttpFaults

ASSUME HttpAssumption == MaxBody \in Nat

VARIABLES
    hents,   \* fs->ents: the length announced, -1 for none, and the serial file
    hfiles,  \* struct httpfile: the URL, and the answer of the last getattr
    hbody,   \* the length of the document on the server
    hfaults  \* how many more faults there may be

http_vars == <<hents, hfiles, hbody, hfaults>>

NoUrl == "none"
\* A serial file: its state, the bytes it holds, and the length of the response.
NoSfile == [state |-> "none", n |-> 0, len |-> 0]
NewSfile == [state |-> "begin", n |-> 0, len |-> 0]
NoHttpFile == [url |-> NoUrl, ans |-> 0, told |-> TRUE]

\* What a call leaves of an entry: the faults that it cost, and whether it failed.
Left(e, ok) == [e |-> e, ok |-> ok, cost |-> 0]
Failed(e) == [e |-> [e EXCEPT !.sf = NewSfile], ok |-> FALSE, cost |-> 1]

-----------------------------------------------------------------------------
\* The exchange with the server.

\* Content-Length.
http_process_header_line(e, len) == [e EXCEPT !.size = len]

\* A status of 2xx, after any number of 1xx, begins the body; the headers may or may
\* not announce its length.  Another status, a timeout and an early end are errors.
http_wait_response(e, len) ==
    LET r == [e EXCEPT !.sf = [state |-> "read", n |-> 0, len |-> len]]
    IN {Left(r, TRUE), Left(http_process_header_line(r, len), TRUE),
        Failed(e), Failed(http_process_header_line(e, len))}

\* Mutant of http_start: the length announced before is left.
StartKeepsSize(e, len) == {Failed(e)} \cup http_wait_response(e, len)

\* The length announced before is forgotten once the request is sent.
http_start(e, len) == {Failed(e)} \cup http_wait_response([e EXCEPT !.size = -1], len)

\* Reads end the body after k bytes: the server closes the connection at its end.  One that
\* is closed earlier is not told from it.
http_sread(e, k) == [e EXCEPT !.sf = [@ EXCEPT !.state = "fini", !.n = k]]

-----------------------------------------------------------------------------
\* The serial file of an entry.

http_get_serialfile(e) == IF e.sf.state = "none" THEN [e EXCEPT !.sf = NewSfile] ELSE e

\* av_sfile_startget.
Started(e, len) == IF e.sf.state = "begin" THEN http_start(e, len) ELSE {Left(e, TRUE)}

\* Reads on until the serial file holds upto bytes or has ended, or a read fails.
ReadOn(l, upto) ==
    LET e == l.e
        s == e.sf
    IN IF ~l.ok \/ s.state # "read" \/ s.n >= upto THEN {l}
       ELSE {[l EXCEPT !.e = IF upto =< s.len THEN [e EXCEPT !.sf = [s EXCEPT !.n = upto]]
                             ELSE http_sread(e, s.len)]}
            \cup {[l EXCEPT !.e = http_sread(e, k), !.cost = @ + 1] : k \in {j \in s.n .. s.len - 1 : j < upto}}
            \cup {[Failed(e) EXCEPT !.cost = @ + l.cost]}

-----------------------------------------------------------------------------
\* The calls.

\* What a call leaves is that of one of its outcomes, when the faults suffice.
Leaves(u, l) == /\ l.cost =< hfaults /\ hfaults' = hfaults - l.cost
                /\ hents' = [hents EXCEPT ![u] = l.e]

\* A new entry announces 0 until it is asked for.
http_get_entry(u) == IF hents[u].there THEN hents[u] ELSE [hents[u] EXCEPT !.there = TRUE]

http_open(f, u) ==
    /\ hfiles[f].url = NoUrl
    /\ \E l \in Started(http_get_serialfile(http_get_entry(u)), hbody[u]) :
         /\ Leaves(u, l)
         /\ hfiles' = [hfiles EXCEPT ![f] = IF l.ok THEN [NoHttpFile EXCEPT !.url = u] ELSE @]
    /\ UNCHANGED hbody

http_close(f) ==
    /\ hfiles[f].url # NoUrl
    /\ hfiles' = [hfiles EXCEPT ![f] = NoHttpFile]
    /\ UNCHANGED <<hents, hbody, hfaults>>

\* A read of one byte at a position.
http_read(f) ==
    LET u == hfiles[f].url
    IN /\ u # NoUrl
       /\ \E s \in Started(http_get_serialfile(hents[u]), hbody[u]), pos \in 1 .. MaxBody :
            \E l \in ReadOn(s, pos) : Leaves(u, l)
       /\ UNCHANGED <<hfiles, hbody>>

\* The length announced is answered, or else that of the body read to its end; an
\* error of that read is answered as the size.
http_getattr(f) ==
    LET u == hfiles[f].url
    IN /\ u # NoUrl
       /\ \E s \in Started(http_get_serialfile(hents[u]), hbody[u]) :
            IF ~s.ok THEN Leaves(u, s) /\ UNCHANGED hfiles
            ELSE \E l \in (IF s.e.size # -1 THEN {s} ELSE ReadOn(s, MaxBody + 1)) :
                   LET ans == IF s.e.size # -1 THEN s.e.size ELSE IF l.ok THEN l.e.sf.n ELSE -1
                   IN /\ Leaves(u, l)
                      /\ hfiles' = [hfiles EXCEPT ![f].ans = ans,
                           ![f].told = l.ok => \/ ans = s.e.sf.len
                                               \/ ans = l.e.sf.n /\ l.e.sf.state = "fini"]
       /\ UNCHANGED hbody

\* The cache drops the serial file; a document changes.
http_evict(u) ==
    /\ hents[u].sf.state # "none"
    /\ hents' = [hents EXCEPT ![u].sf = NoSfile]
    /\ UNCHANGED <<hfiles, hbody, hfaults>>

http_changed(u) ==
    /\ hbody' \in {[hbody EXCEPT ![u] = n] : n \in 0 .. MaxBody}
    /\ UNCHANGED <<hents, hfiles, hfaults>>

HttpInit ==
    /\ hents = [u \in Urls |-> [there |-> FALSE, size |-> 0, sf |-> NoSfile]]
    /\ hfiles = [f \in HttpFiles |-> NoHttpFile]
    /\ hbody \in [Urls -> 0 .. MaxBody] /\ hfaults = MaxHttpFaults

HttpNext ==
    \/ \E f \in HttpFiles :
         http_close(f) \/ http_read(f) \/ http_getattr(f) \/ \E u \in Urls : http_open(f, u)
    \/ \E u \in Urls : http_evict(u) \/ http_changed(u)

-----------------------------------------------------------------------------
\* The size that is answered is the length of the response the cache holds at that
\* moment, or that of all that could be read of it: never the length of a response
\* that the cache has dropped, whatever is evicted, changed or fails in between.
HttpSizeTrue == \A f \in HttpFiles : hfiles[f].told
=============================================================================
