----------------------------------- MODULE Dav -----------------------------------
(***************************************************************************)
(* The dav module, src/modules/dav.c with dav_ls.c, and the passwords it   *)
(* keeps, src/src/passwords.c.  A list or a get takes a slot of allconns   *)
(* for the time of one request; no lock is held, so that the test of       *)
(* isbusy and its setting are two steps.  The sessions are a list that is  *)
(* not closed to a ring, as that of the ftp module is: the first one added *)
(* has no next.                                                            *)
(***************************************************************************)
EXTENDS Integers, Sequences, SequencesExt

CONSTANTS
    DavCalls, DavAccounts,  \* the users' calls, and the accounts
    MaxDavConns             \* AV_MAX_DAV_CONNS

VARIABLES
    slots,      \* davdat->allconns: isbusy, and the call that made the session
    dcalls,     \* the calls
    dsessions,  \* davdat->sessions, from the head of the list: the account, and what is set of it
    gone,       \* sessions freed while a request has hold of them
    dcrash      \* the process has used NULL or freed memory

dav_vars == <<slots, dcalls, dsessions, gone, dcrash>>

Nobody == "nobody"
NoDavCall == [pc |-> "idle", op |-> "none", slot |-> 0, creds |-> "none", tmp |-> "none"]
Slots == 1 .. MaxDavConns

At(t, pc) == dcalls[t].pc = pc
DavGoto(t, pc) == dcalls' = [dcalls EXCEPT ![t].pc = pc]

-----------------------------------------------------------------------------
\* A list or a get; a get has a temporary file, deleted when it fails.

dav_begin(t) ==
    /\ At(t, "idle")
    /\ \E op \in {"list", "get"} :
         dcalls' = [dcalls EXCEPT ![t] = [NoDavCall EXCEPT !.pc = "find", !.op = op,
                                            !.tmp = IF op = "get" THEN "made" ELSE "none"]]
    /\ UNCHANGED <<slots, dsessions, gone, dcrash>>

\* new_dav_conn finds the first slot that is not busy, and then takes it.
new_dav_conn_find(t) ==
    /\ At(t, "find")
    /\ LET free == {i \in Slots : ~slots[i].busy}
       IN dcalls' = IF free = {}
                    THEN [dcalls EXCEPT ![t].pc = "fail"]
                    ELSE [dcalls EXCEPT ![t].pc = "take",
                                        ![t].slot = CHOOSE i \in free : \A j \in free : i =< j]
    /\ UNCHANGED <<slots, dsessions, gone, dcrash>>

\* A bad URL, or a temporary file that cannot be opened, ends in an error at once.
new_dav_conn_take(t) ==
    /\ At(t, "take")
    /\ slots' = [slots EXCEPT ![dcalls[t].slot] = [busy |-> TRUE, sesh |-> Nobody]]
    /\ \E ok \in BOOLEAN : DavGoto(t, IF ok THEN "init" ELSE "error")
    /\ UNCHANGED <<dsessions, gone, dcrash>>

av_dav_conn_init(t) ==
    /\ At(t, "init")
    /\ slots' = [slots EXCEPT ![dcalls[t].slot].sesh = t]
    /\ DavGoto(t, "request")
    /\ UNCHANGED <<dsessions, gone, dcrash>>

\* The request uses the session that is in the slot.  A server that wants a login has
\* dav_supply_creds called, which looks for a session without the lock.
av_http_read_file(t) ==
    /\ At(t, "request")
    /\ IF slots[dcalls[t].slot].sesh = Nobody THEN dcrash' = TRUE /\ UNCHANGED dcalls
       ELSE /\ UNCHANGED dcrash
            /\ \/ \E ok \in BOOLEAN : DavGoto(t, IF ok THEN "done" ELSE "error")
               \/ \E s \in ToSet(dsessions) :
                    dcalls' = [dcalls EXCEPT ![t].pc = "creds", ![t].creds = s.account]
    /\ UNCHANGED <<slots, dsessions, gone>>

\* It copies the name and the password that it found, which may have been freed since,
\* or never set.
dav_supply_creds(t) ==
    /\ At(t, "creds")
    /\ dcrash' = (t \in gone \/ \E s \in ToSet(dsessions) :
                                   s.account = dcalls[t].creds /\ s.set # {"name", "password"})
    /\ gone' = gone \ {t}
    /\ \E ok \in BOOLEAN : dcalls' = [dcalls EXCEPT ![t].pc = IF ok THEN "done" ELSE "error",
                                                    ![t].creds = "none"]
    /\ UNCHANGED <<slots, dsessions>>

\* Mutant of Freed: a call that fails leaves its slot busy.
FreedIfDone(s, t) == IF At(t, "error") THEN [s EXCEPT !.sesh = Nobody] ELSE [s EXCEPT !.sesh = Nobody, !.busy = FALSE]

\* The end of dav_http_get and dav_list, with or without an error.
Freed(s, t) == [s EXCEPT !.sesh = Nobody, !.busy = FALSE]

dav_end(t) ==
    /\ At(t, "done") \/ At(t, "error")
    /\ slots' = [slots EXCEPT ![dcalls[t].slot] = Freed(@, t)]
    /\ dcalls' = [dcalls EXCEPT ![t] = [@ EXCEPT !.pc = IF At(t, "done") THEN "answer" ELSE "fail", !.slot = 0]]
    /\ UNCHANGED <<dsessions, gone, dcrash>>

\* The file of a get goes to the remote framework.
dav_answer(t) ==
    /\ At(t, "answer") \/ At(t, "fail")
    /\ dcalls' = [dcalls EXCEPT ![t].pc = "ended",
                                ![t].tmp = IF At(t, "fail") THEN "none" ELSE @]
    /\ UNCHANGED <<slots, dsessions, gone, dcrash>>

dav_return(t) ==
    /\ At(t, "ended")
    /\ dcalls' = [dcalls EXCEPT ![t] = NoDavCall]
    /\ UNCHANGED <<slots, dsessions, gone, dcrash>>

-----------------------------------------------------------------------------
\* passwords.c, under pass_lock.

pass_find_session(a) == SelectInSeq(dsessions, LAMBDA s : s.account = a)

\* pass_username_set and pass_password_set: the session is made when it is not there.
pass_set(a, what) ==
    /\ LET i == pass_find_session(a)
       IN dsessions' = IF i = 0 THEN <<[account |-> a, set |-> {what}]>> \o dsessions
                       ELSE [dsessions EXCEPT ![i].set = @ \cup {what}]
    /\ UNCHANGED <<slots, dcalls, gone, dcrash>>

\* pass_loggedin_set to 0; the last of the list has no next to be linked to.
pass_remove_session(a) ==
    /\ pass_find_session(a) # 0
    /\ LET i == pass_find_session(a)
       IN IF i = Len(dsessions) THEN dcrash' = TRUE /\ UNCHANGED <<dsessions, gone>>
          ELSE /\ dsessions' = RemoveAt(dsessions, i)
               /\ gone' = gone \cup {t \in DavCalls : At(t, "creds") /\ dcalls[t].creds = a}
               /\ UNCHANGED dcrash
    /\ UNCHANGED <<slots, dcalls>>

DavInit ==
    /\ slots = [i \in Slots |-> [busy |-> FALSE, sesh |-> Nobody]]
    /\ dcalls = [t \in DavCalls |-> NoDavCall]
    /\ dsessions = <<>> /\ gone = {} /\ dcrash = FALSE

DavNext ==
    /\ ~dcrash
    /\ \/ \E t \in DavCalls :
            \/ dav_begin(t) \/ new_dav_conn_find(t) \/ new_dav_conn_take(t) \/ av_dav_conn_init(t)
            \/ av_http_read_file(t) \/ dav_supply_creds(t) \/ dav_end(t) \/ dav_answer(t)
            \/ dav_return(t)
       \/ \E a \in DavAccounts : pass_remove_session(a) \/ \E what \in {"name", "password"} : pass_set(a, what)

-----------------------------------------------------------------------------
\* When no call is going on every slot is free and has no session, although two calls
\* may have had one slot.
DavFreed ==
    ~dcrash /\ (\A t \in DavCalls : dcalls[t].slot = 0) =>
      \A i \in Slots : ~slots[i].busy /\ slots[i].sesh = Nobody

\* src/modules/dav.c:194, "skip the busy ones": two calls never have one slot.
SlotExclusive ==
    \A t, u \in DavCalls : t # u /\ ~At(t, "take") /\ ~At(u, "take") /\ dcalls[t].slot # 0
                           => dcalls[t].slot # dcalls[u].slot
=============================================================================
