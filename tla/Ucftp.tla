--------------------------------- MODULE Ucftp ---------------------------------
(***************************************************************************)
(* The ucftp module, src/modules/ucftp.c: connections, each with a tree of *)
(* entries of its own, here one directory; the users' entries and open     *)
(* files; and the transfers, which go on over the connection of the entry. *)
(* A call holds the lock of the avfs and is one step.                      *)
(*                                                                         *)
(* A reply that is owed on a connection is that to a transfer: commands    *)
(* that are sent before it is read get the replies of others, and PASV     *)
(* closes the connection then.                                             *)
(***************************************************************************)
EXTENDS Integers, FiniteSets, Sequences, Functions

CONSTANTS
    UcNames,     \* names in the directory
    UcUsers,     \* the users' hands: entries they hold while a path is walked
    UcFiles,     \* open files
    MaxUcEntries, MaxUcConns, MaxUcFaults  \* bounds

ASSUME UcftpAssumption == IsFiniteSet(UcUsers) /\ IsFiniteSet(UcFiles) /\ MaxUcEntries \in Nat

VARIABLES
    uconns,   \* fs->conns, each with its root: the entries listed there, and st.valid
    uents,    \* the entries; one with no references is not there
    hand,     \* what a user holds: nothing, the root of a connection, or an entry
    ufiles,   \* struct ucftpfile
    uc_remote,   \* the directory on the server
    ufaults,  \* how many more faults there may be
    ucrash    \* the process has used NULL or freed memory

ucftp_vars == <<uconns, uents, hand, ufiles, uc_remote, ufaults, ucrash>>

UcEntries == 1 .. MaxUcEntries
UcKinds == {"file", "dir"}

\* over is no field of the code: a reference of a user has been dropped by a list.
NoUcEntry == [refs |-> 0, name |-> "", node |-> "none", conn |-> 0, over |-> FALSE]
NoUcFile  == [ent |-> 0, mode |-> "none", conn |-> 0, sock |-> FALSE, writing |-> FALSE,
            eof |-> FALSE]
NoUcHand  == [root |-> 0, ent |-> 0]

NewUconn == [busy |-> TRUE, open |-> FALSE, owed |-> 0, cancel_ok |-> TRUE,
             subdir |-> {}, valid |-> FALSE]

\* What a step changes: the connections, the entries and whether the process fails.
UcNow == [c |-> uconns, e |-> uents, crash |-> FALSE, cost |-> 0]
UcBecomes(w) == /\ uconns' = w.c /\ uents' = w.e /\ ucrash' = w.crash
              /\ w.cost =< ufaults /\ ufaults' = ufaults - w.cost

-----------------------------------------------------------------------------
\* Entries and nodes.

\* av_unref_obj and ucftp_entry_destr: the last reference takes it out of the list.
Unreferred(e) == IF e.refs > 1 THEN [e EXCEPT !.refs = @ - 1] ELSE [NoUcEntry EXCEPT !.over = e.over]
UcUnref(w, x) ==
    LET v == [w EXCEPT !.e[x] = Unreferred(@)]
    IN IF v.e[x].conn = w.e[x].conn THEN v ELSE [v EXCEPT !.c[w.e[x].conn].subdir = @ \ {x}]

\* The node holds a reference of its entry.
ucftp_link_node(w, x, kind) == [w EXCEPT !.e[x].node = kind, !.e[x].refs = @ + 1]

\* Mutant of ucftp_unlink_node: the reference of the node is kept.
UnlinkKeepsRef(w, x) == [w EXCEPT !.e[x].node = "none"]

ucftp_unlink_node(w, x) == UcUnref([w EXCEPT !.e[x].node = "none"], x)

\* ucftp_free_tree of an entry without a node drops a reference that is not the tree's.
ucftp_free_tree(e) ==
    Unreferred(IF e.node # "none" THEN [e EXCEPT !.node = "none"] ELSE [e EXCEPT !.over = TRUE])

\* The entry has left the directory.
free_entry_list(e) == ucftp_free_tree([e EXCEPT !.conn = 0])

\* ucftp_free_dirlist goes on with an entry until it is gone.
ucftp_free_dirlist(w, i) ==
    [w EXCEPT !.c[i].subdir = {},
              !.e = [x \in UcEntries |->
                       IF x \notin w.c[i].subdir THEN w.e[x]
                       ELSE [NoUcEntry EXCEPT !.over = w.e[x].over \/ w.e[x].node = "none" \/ w.e[x].refs > 1]]]

UcUnused(w) ==
    {x \in UcEntries : /\ w.e[x].refs = 0
                       /\ \A u \in UcUsers : hand[u].ent # x
                       /\ \A f \in UcFiles : ufiles[f].ent # x}
UcLeast(s) == CHOOSE x \in s : \A y \in s : x =< y
ucftp_new_entry(w, name, i) ==
    LET x == UcLeast(UcUnused(w))
    IN [w EXCEPT !.e[x] = [NoUcEntry EXCEPT !.refs = 1, !.name = name, !.conn = i],
                 !.c[i].subdir = @ \cup {x}]

UcNamed(w, i, name) == {x \in w.c[i].subdir : w.e[x].name = name}

\* The names of a list, of which new are given new entries.  The others have the entries
\* they had: one without a node is given one, without a reference of its own.  Entries that
\* are not in the list are freed.
UcListed(w, i, names, new) ==
    LET at == CHOOSE f \in Injection(new, UcUnused(w)) : TRUE
        kept == {x \in w.c[i].subdir : w.e[x].name \in names}
    IN [w EXCEPT !.c[i].subdir = kept \cup {at[n] : n \in new},
          !.e = [x \in UcEntries |->
                   CASE \E n \in new : at[n] = x ->
                          LET n == CHOOSE m \in new : at[m] = x
                          IN [NoUcEntry EXCEPT !.refs = 1, !.name = n, !.node = uc_remote[n], !.conn = i]
                     [] x \in kept -> [w.e[x] EXCEPT !.node = uc_remote[w.e[x].name],
                                                  !.over = w.e[x].over \/ w.e[x].node = "none"]
                     [] x \in w.c[i].subdir \ kept -> free_entry_list(w.e[x])
                     [] OTHER -> w.e[x]]]

UcUnnamed(w, i, names) == {n \in names : UcNamed(w, i, n) = {}}

\* What the host sends as a list: all names, or, if the transfer breaks off, some of them.
UcLists ==
    LET there == {n \in UcNames : uc_remote[n] # "none"}
    IN [names : {there}, whole : {TRUE}] \cup [names : SUBSET there, whole : {FALSE}]

\* The directory is valid from the end of a whole list on.
UcRead(w, i, list) == IF list.whole THEN [w EXCEPT !.c[i].valid = TRUE] ELSE [w EXCEPT !.cost = 1]

\* Mutant of ucftp_read_list: the entries there were are not looked for.
ListAnew(w, i, list) ==
    IF ExistsInjection(list.names, UcUnused(w))
    THEN UcRead(UcListed(w, i, list.names, list.names), i, list) ELSE UcRead(w, i, list)

ucftp_read_list(w, i, list) ==
    UcRead(UcListed(w, i, list.names, UcUnnamed(w, i, list.names)), i, list)

-----------------------------------------------------------------------------
\* Connections.

ucftp_close_conn(w, i) == [w EXCEPT !.c[i].open = FALSE, !.c[i].owed = 0]

\* From ucftp_open_conn to ucftp_open_dataconn: the world after, and whether a data
\* connection is made.
Prepared(w, i) ==
    IF w.c[i].owed > 0 THEN {[w |-> ucftp_close_conn(w, i), ok |-> FALSE]}
    ELSE LET o == [w EXCEPT !.c[i].open = TRUE]
         IN {[w |-> o, ok |-> TRUE],
             [w |-> [o EXCEPT !.cost = 1], ok |-> FALSE],
             [w |-> [ucftp_close_conn(o, i) EXCEPT !.cost = 1], ok |-> FALSE]}

\* The reply to RETR, STOR or LIST, after which one more is owed.
Begun(w, i) ==
    {IF p.ok THEN [p EXCEPT !.w.c[i].owed = 1] ELSE p : p \in Prepared(w, i)}

\* ucftp_wait_reply_code: there is no buffer to read from once the connection is
\* closed; and without a reply on its way it is closed by the timeout.
ucftp_wait_reply_code(w, i) ==
    IF ~w.c[i].open THEN {[w |-> [w EXCEPT !.crash = TRUE], ok |-> FALSE]}
    ELSE IF w.c[i].owed = 0 THEN {[w |-> ucftp_close_conn(w, i), ok |-> FALSE]}
    ELSE LET r == [w EXCEPT !.c[i].owed = 0]
         IN {[w |-> r, ok |-> TRUE],
             [w |-> [r EXCEPT !.cost = 1], ok |-> FALSE],
             [w |-> [ucftp_close_conn(r, i) EXCEPT !.cost = 1], ok |-> FALSE]}

\* ucftp_list does not look at busy, and leaves the connection not busy.  A list that
\* cannot be had is as it was; one that is refused at its end is empty, and one that has
\* broken off is kept if the reply to it is good.
ucftp_list(w, i) ==
    LET fit(v) == {l \in UcLists : ExistsInjection(UcUnnamed(v, i, l.names), UcUnused(v))}
        read(v, l) == {IF r.ok THEN r.w ELSE ucftp_free_dirlist(r.w, i) :
                         r \in ucftp_wait_reply_code(ucftp_read_list(v, i, l), i)}
        after == UNION {IF ~p.ok THEN {p.w} ELSE UNION {read(p.w, l) : l \in fit(p.w)} :
                        p \in Begun(w, i)}
    IN {[v EXCEPT !.c[i].busy = FALSE] : v \in after}

UcFresh(w, i) == IF w.c[i].valid THEN {w} ELSE ucftp_list(w, i)

-----------------------------------------------------------------------------
\* Walking a path.

\* The root of the first connection that is not busy, or of a new one.
ucftp_lookup_root(u) ==
    /\ hand[u] = NoUcHand
    /\ LET free == {i \in 1 .. Len(uconns) : ~uconns[i].busy}
           i == IF free = {} THEN Len(uconns) + 1 ELSE UcLeast(free)
       IN /\ i =< MaxUcConns
          /\ uconns' = IF free = {} THEN Append(uconns, [NewUconn EXCEPT !.busy = FALSE])
                       ELSE uconns
          /\ hand' = [hand EXCEPT ![u].root = i]
    /\ UNCHANGED <<uents, ufiles, uc_remote, ufaults, ucrash>>

\* A name that is not there is given an entry without a node, which the directory
\* does not hold.
ucftp_lookup(u) ==
    /\ hand[u].root # 0
    /\ LET i == hand[u].root
       IN \E w \in UcFresh(UcNow, i), name \in UcNames :
            LET x == UcLeast(IF UcNamed(w, i, name) = {} THEN UcUnused(w) ELSE UcNamed(w, i, name))
            IN /\ UcNamed(w, i, name) # {} \/ UcUnused(w) # {}
               /\ UcBecomes(IF UcNamed(w, i, name) = {} THEN ucftp_new_entry(w, name, i)
                          ELSE [w EXCEPT !.e[x].refs = @ + 1])
               /\ hand' = [hand EXCEPT ![u] = [root |-> 0, ent |-> x]]
    /\ UNCHANGED <<ufiles, uc_remote>>

\* ucftp_readdir of the directory; it is the root's, which is always there.
ucftp_readdir(u) ==
    /\ hand[u].root # 0 /\ ~uconns[hand[u].root].valid
    /\ \E w \in UcFresh(UcNow, hand[u].root) : UcBecomes(w)
    /\ UNCHANGED <<hand, ufiles, uc_remote>>

UcHolds(u) == hand[u].ent # 0 /\ uents[hand[u].ent].refs > 0

\* ucftp_putent, and the end of a walk at the root.
ucftp_putent(u) ==
    /\ UcHolds(u) \/ hand[u].root # 0
    /\ UcBecomes(IF hand[u].root # 0 THEN UcNow ELSE UcUnref(UcNow, hand[u].ent))
    /\ hand' = [hand EXCEPT ![u] = NoUcHand]
    /\ UNCHANGED <<ufiles, uc_remote>>

\* An entry whose memory has been freed is used.
UseFreed(u) ==
    /\ hand[u].ent # 0 /\ uents[hand[u].ent].refs = 0
    /\ ucrash' = TRUE
    /\ UNCHANGED <<uconns, uents, hand, ufiles, uc_remote, ufaults>>

-----------------------------------------------------------------------------
\* Files.

\* ucftp_find_conn of an entry that a list has dropped finds none.
ConnOf(x) == uents[x].conn

ucftp_open_read(u, f) ==
    /\ UcHolds(u) /\ ufiles[f] = NoUcFile
    /\ LET x == hand[u].ent
       IN /\ uents[x].node = "file"
          /\ UcBecomes([UcNow EXCEPT !.e[x].refs = @ + 1])
          /\ ufiles' = [ufiles EXCEPT ![f] = [NoUcFile EXCEPT !.ent = x, !.mode = "r"]]
    /\ UNCHANGED <<hand, uc_remote>>

\* Mutant of PutFails: the connection is not released.
PutKeepsConn(v, i, x, new) == IF new THEN ucftp_unlink_node(v, x) ELSE v

\* The node of a new file goes when the transfer cannot begin.
PutFails(v, i, x, new) ==
    LET r == IF i = 0 THEN v ELSE [v EXCEPT !.c[i].busy = FALSE]
    IN IF new THEN ucftp_unlink_node(r, x) ELSE r

\* ucftp_open for writing, with ucftp_init_put and ucftp_do_put.
ucftp_open_write(u, f) ==
    /\ UcHolds(u) /\ ufiles[f] = NoUcFile
    /\ LET x == hand[u].ent
           i == ConnOf(x)
           new == uents[x].node = "none"
           w == IF new THEN ucftp_link_node(UcNow, x, "file") ELSE UcNow
       IN /\ uents[x].node # "dir"
          /\ IF i = 0 \/ (i # 0 /\ uconns[i].busy)
             THEN UcBecomes(IF new THEN ucftp_unlink_node(w, x) ELSE w) /\ UNCHANGED <<ufiles, uc_remote>>
             ELSE \E p \in Begun([w EXCEPT !.c[i].busy = TRUE], i) :
                    IF p.ok
                    THEN /\ UcBecomes([p.w EXCEPT !.e[x].refs = @ + 1])
                         /\ ufiles' = [ufiles EXCEPT ![f] =
                              [NoUcFile EXCEPT !.ent = x, !.mode = "w", !.conn = i,
                                             !.sock = TRUE, !.writing = TRUE]]
                         /\ uc_remote' = [uc_remote EXCEPT ![uents[x].name] = "file"]
                    ELSE UcBecomes(PutFails(p.w, i, x, new)) /\ UNCHANGED <<ufiles, uc_remote>>
    /\ UNCHANGED hand

\* Any call on a file whose entry has lost its node uses NULL.
ucftp_use_file(f) ==
    /\ ufiles[f].ent # 0
    /\ LET x == ufiles[f].ent
       IN uents[x].refs = 0 \/ uents[x].node = "none"
    /\ ucrash' = TRUE
    /\ UNCHANGED <<uconns, uents, hand, ufiles, uc_remote, ufaults>>

UcSound(f) == ufiles[f].ent # 0 /\ uents[ufiles[f].ent].refs > 0
UcUsable(f) == UcSound(f) /\ uents[ufiles[f].ent].node = "file"

\* The first ucftp_read begins the transfer.
ucftp_init_get(f) ==
    /\ UcUsable(f) /\ ufiles[f].mode = "r" /\ ~ufiles[f].sock /\ ~ufiles[f].eof
    /\ LET i == ConnOf(ufiles[f].ent)
       IN /\ i # 0 /\ ~uconns[i].busy
          /\ \E p \in Begun([UcNow EXCEPT !.c[i].busy = TRUE], i) :
               IF p.ok
               THEN UcBecomes(p.w)
                    /\ ufiles' = [ufiles EXCEPT ![f].sock = TRUE, ![f].conn = i]
               ELSE UcBecomes([p.w EXCEPT !.c[i].busy = FALSE]) /\ UNCHANGED ufiles
    /\ UNCHANGED <<hand, uc_remote>>

\* The ucftp_read that comes to the end of the data takes the reply.
ucftp_read_end(f) ==
    /\ UcUsable(f) /\ ufiles[f].mode = "r" /\ ufiles[f].sock
    /\ LET i == ufiles[f].conn
       IN \E r \in ucftp_wait_reply_code(UcNow, i) :
            /\ UcBecomes(IF r.ok THEN [r.w EXCEPT !.c[i].busy = FALSE] ELSE r.w)
            /\ ufiles' = [ufiles EXCEPT ![f].sock = FALSE, ![f].eof = TRUE,
                                        ![f].conn = IF r.ok THEN 0 ELSE @]
    /\ UNCHANGED <<hand, uc_remote>>

\* ucftp_free_file: a transfer that has not ended is broken off, and the reply to it
\* awaited if that has always worked.
ucftp_free_file(w, f) ==
    LET i == ufiles[f].conn
        x == ufiles[f].ent
        Released(v) == UcUnref([v EXCEPT !.c[i].busy = FALSE], x)
        Broken(v) == [ucftp_close_conn(v, i) EXCEPT !.c[i].cancel_ok = FALSE]
    IN IF i = 0 THEN {UcUnref(w, x)}
       ELSE IF ~w.c[i].busy THEN {UcUnref(w, x)}
       ELSE IF w.c[i].cancel_ok
       THEN {Released(IF r.ok \/ r.w.crash THEN r.w ELSE Broken(r.w)) :
               r \in ucftp_wait_reply_code(w, i)}
       ELSE {Released(ucftp_close_conn(w, i))}

\* The reply to a STOR is taken here; when it is bad it is awaited once more.
ucftp_close(f) ==
    /\ UcSound(f)
    /\ LET i == ufiles[f].conn
           ended == IF ~ufiles[f].writing THEN {UcNow}
                    ELSE {IF r.ok THEN [r.w EXCEPT !.c[i].busy = FALSE] ELSE r.w :
                            r \in ucftp_wait_reply_code(UcNow, i)}
       IN \E w \in ended : \E v \in (IF w.crash THEN {w} ELSE ucftp_free_file(w, f)) : UcBecomes(v)
    /\ ufiles' = [ufiles EXCEPT ![f] = NoUcFile]
    /\ UNCHANGED <<hand, uc_remote>>

-----------------------------------------------------------------------------
\* ucftp_op: a data connection is made, which nobody closes, and the command sent.
Operated(x) ==
    LET i == ConnOf(x)
    IN IF i = 0 THEN {}
       ELSE IF uconns[i].busy THEN {}
       ELSE {[p EXCEPT !.w.c[i].busy = FALSE] : p \in Prepared([UcNow EXCEPT !.c[i].busy = TRUE], i)}

\* ucftp_unlink and ucftp_rmdir.
ucftp_unlink(u) ==
    /\ UcHolds(u) /\ uents[hand[u].ent].node # "none"
    /\ \E p \in Operated(hand[u].ent) :
         IF p.ok
         THEN /\ UcBecomes(ucftp_unlink_node(p.w, hand[u].ent))
              /\ uc_remote' = [uc_remote EXCEPT ![uents[hand[u].ent].name] = "none"]
         ELSE UcBecomes(p.w) /\ UNCHANGED uc_remote
    /\ UNCHANGED <<hand, ufiles>>

ucftp_mkdir(u) ==
    /\ UcHolds(u) /\ uents[hand[u].ent].node = "none"
    /\ LET x == hand[u].ent
       IN \E p \in Operated(x) :
            IF p.ok
            THEN /\ UcBecomes(ucftp_link_node([p.w EXCEPT !.c[ConnOf(x)].valid = FALSE], x, "dir"))
                 /\ uc_remote' = [uc_remote EXCEPT ![uents[x].name] = "dir"]
            ELSE UcBecomes(p.w) /\ UNCHANGED uc_remote
    /\ UNCHANGED <<hand, ufiles>>

\* Time passes, and another client of the server makes or removes a file.
uc_expire ==
    /\ \E i \in 1 .. Len(uconns) :
         uconns[i].valid /\ uconns' = [uconns EXCEPT ![i].valid = FALSE]
    /\ UNCHANGED <<uents, hand, ufiles, uc_remote, ufaults, ucrash>>

uc_remote_change ==
    /\ ufaults > 0 /\ ufaults' = ufaults - 1
    /\ \E n \in UcNames :
         uc_remote' = [uc_remote EXCEPT ![n] = IF uc_remote[n] = "none" THEN "file" ELSE "none"]
    /\ UNCHANGED <<uconns, uents, hand, ufiles, ucrash>>

UcftpInit ==
    /\ uconns = <<>> /\ uents = [x \in UcEntries |-> NoUcEntry]
    /\ hand = [u \in UcUsers |-> NoUcHand] /\ ufiles = [f \in UcFiles |-> NoUcFile]
    /\ uc_remote \in [UcNames -> {"none", "file"}]
    /\ ufaults = MaxUcFaults /\ ucrash = FALSE

UcftpNext ==
    /\ ~ucrash
    /\ \/ \E u \in UcUsers :
            \/ ucftp_lookup_root(u) \/ ucftp_lookup(u) \/ ucftp_readdir(u) \/ ucftp_putent(u)
            \/ ucftp_unlink(u) \/ ucftp_mkdir(u) \/ UseFreed(u)
            \/ \E f \in UcFiles : ucftp_open_read(u, f) \/ ucftp_open_write(u, f)
       \/ \E f \in UcFiles :
            ucftp_init_get(f) \/ ucftp_read_end(f) \/ ucftp_close(f) \/ ucftp_use_file(f)
       \/ uc_expire \/ uc_remote_change

-----------------------------------------------------------------------------
\* Properties.

\* A connection is busy only while a file is transferred over it: no error of an
\* open, a read or a close leaves it busy for ever.
BusyHasUser ==
    ~ucrash => \A i \in 1 .. Len(uconns) :
                 uconns[i].busy => \E f \in UcFiles : ufiles[f].conn = i

\* The references of an entry are those of the users, of the open files and of its
\* node, through all lists, removals and failures; except that a list takes a
\* reference from an entry without a node that a user holds.
UcRefsExact ==
    ~ucrash => \A x \in UcEntries : ~uents[x].over =>
      uents[x].refs = Cardinality({u \in UcUsers : hand[u].ent = x})
                      + Cardinality({f \in UcFiles : ufiles[f].ent = x})
                      + IF uents[x].node = "none" THEN 0 ELSE 1

\* No two entries of a directory have one name, whichever way they came there.
UcOneEntry ==
    \A i \in 1 .. Len(uconns) : \A n \in UcNames : Cardinality(UcNamed(UcNow, i, n)) =< 1

\* src/modules/ucftp.c:1546 refuses a transfer with "control connection busy" while
\* another uses the connection: that of two files it is never one.
OneTransfer ==
    \A f, g \in UcFiles : f # g /\ ufiles[f].sock /\ ufiles[g].sock => ufiles[f].conn # ufiles[g].conn
=============================================================================
