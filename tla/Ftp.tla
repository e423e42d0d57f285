---------------------------------- MODULE Ftp ----------------------------------
(***************************************************************************)
(* The ftp module, src/modules/ftp.c, as the remote framework uses it: a   *)
(* list of control connections, each used by one call at a time and kept   *)
(* for the next, with what the client believes of it (binary, cwd); the    *)
(* passwords set through ftp_ctl; and the servers' side of every           *)
(* connection, with the replies the client has not read yet.               *)
(*                                                                         *)
(* A call is a list or a get.  A get that has begun leaves a local file,   *)
(* which keeps the connection until ftp_wait has read it all, or it is     *)
(* freed.  One step is one command with its reply.                         *)
(***************************************************************************)
EXTENDS Integers, Sequences, FiniteSets

CONSTANTS
    FtpCalls,               \* the users' calls that may go on at once
    FtpDirs, FtpPasswords,  \* directories and passwords
    MaxFtpConns, MaxFtpFaults, MaxFtpCalls  \* bounds

\* A cwd of "" is NULL: no directory is known.
ASSUME FtpAssumption == "" \notin FtpDirs

VARIABLES
    conns,     \* ftd->conns, in the order of the list
    sessions,  \* ftd->sessions: the password of each account that has one
    fcall,     \* the calls
    ftpfaults, \* how many more faults there may be
    ftpcalls   \* how many more calls may begin

ftp_vars == <<conns, sessions, fcall, ftpfaults, ftpcalls>>

\* The accounts "user@host" and "user@".
Accounts == {"user@host", "user@"}
AvfsPassword == "avfs@"

\* The server's side: whether it is up, the password given, the representation
\* type, the directory, and the replies on their way.
NewServer == [up |-> TRUE, pass |-> "", type |-> "A", dir |-> "/", replies |-> <<>>]

\* untyped is no field of the code: the last TYPE was not granted.
NewConn(pass) ==
    [pass |-> pass, busy |-> TRUE, sock |-> FALSE, binary |-> "unset", cwd |-> "",
     untyped |-> FALSE, server |-> NewServer]

NoCall == [pc |-> "idle", op |-> "none", conn |-> 0, dir |-> "", pass |-> "", whole |-> TRUE,
           ans |-> "none"]

-----------------------------------------------------------------------------
\* Connections.

ftp_close_conn(c) == [c EXCEPT !.sock = FALSE, !.binary = "unset", !.cwd = "",
                               !.server = NewServer]

\* How an exchange with the server may end: it answers yes or no; the line is lost, by
\* a timeout, a malformed reply or the end of the connection; 421, also in more than
\* one line; and a socket that cannot be written.
Outcomes(c) ==
    IF ~c.sock THEN {"write"}
    ELSE IF ~c.server.up THEN {"write", "lost"}
    ELSE {"yes", "no"} \cup (IF ftpfaults > 0 THEN {"lost", "421", "421-"} ELSE {})
Spent(c, o) == IF c.sock /\ c.server.up /\ o \in {"lost", "421", "421-"} THEN 1 ELSE 0

\* What the server does of a command, when it does.
Carried(s, cmd, arg) ==
    CASE cmd = "PASS" -> [s EXCEPT !.pass = arg]
      [] cmd = "TYPE" -> [s EXCEPT !.type = arg]
      [] cmd = "CWD"  -> [s EXCEPT !.dir = arg]
      [] OTHER -> s

\* The connection after a command and the reply that is read, which is not that of
\* the command if there was one on its way.  More lines of a 421 reply are read from
\* a connection that is closed, which has no buffer: the process ends.
ftp_command(c, cmd, arg, o) ==
    LET s == IF o = "yes" THEN Carried(c.server, cmd, arg) ELSE c.server
        q == Append(s.replies, [cmd |-> cmd, yes |-> o = "yes"])
    IN CASE o = "write" -> [c |-> c, reply |-> "error", cmd |-> cmd]
         [] o = "lost"  -> [c |-> ftp_close_conn(c), reply |-> "error", cmd |-> cmd]
         [] o = "421"   -> [c |-> ftp_close_conn(c), reply |-> "421", cmd |-> cmd]
         [] o = "421-"  -> [c |-> ftp_close_conn(c), reply |-> "null", cmd |-> cmd]
         [] OTHER -> [c |-> [c EXCEPT !.server = [s EXCEPT !.replies = Tail(q)]],
                      reply |-> IF Head(q).yes THEN "yes" ELSE "no", cmd |-> Head(q).cmd]

\* The step of a call that sends cmd; then(x) is the connection and the place where
\* the call goes on.
Exchange(t, cmd, arg, then(_)) ==
    LET i == fcall[t].conn
        c == conns[i]
    IN \E o \in Outcomes(c) :
         LET x == ftp_command(c, cmd, arg, o)
         IN /\ conns' = [conns EXCEPT ![i] = then(x).c]
            /\ fcall' = [fcall EXCEPT ![t].pc = IF x.reply = "null" THEN "crash" ELSE then(x).pc]
            /\ ftpfaults' = ftpfaults - Spent(c, o)
            /\ UNCHANGED <<sessions, ftpcalls>>

Goes(c, pc) == [c |-> c, pc |-> pc]
Type(t) == IF fcall[t].op = "list" THEN "A" ELSE "I"

\* Where a call on an open connection goes on: TYPE and CWD are left out when they
\* are known to be set.
AfterType(c, t) == IF c.cwd # fcall[t].dir THEN "cwd" ELSE "pasv"
AfterOpen(c, t) == IF c.binary # Type(t) THEN "type" ELSE AfterType(c, t)

-----------------------------------------------------------------------------
\* ftp_open_conn.

ftp_noop(t) ==
    /\ fcall[t].pc = "noop"
    /\ Exchange(t, "NOOP", "", LAMBDA x :
         Goes(x.c, IF x.reply = "error" THEN "fail"
                   ELSE IF x.reply = "421" THEN "connect" ELSE AfterOpen(x.c, t)))

\* The new connection greets with 220 or 120, and then USER and PASS.
ftp_connect(t) ==
    /\ fcall[t].pc = "connect"
    /\ \E ok \in IF ftpfaults > 0 THEN BOOLEAN ELSE {TRUE} :
         /\ conns' = [conns EXCEPT ![fcall[t].conn].sock = ok,
                                   ![fcall[t].conn].server = NewServer]
         /\ fcall' = [fcall EXCEPT ![t].pc = IF ok THEN "login" ELSE "fail"]
         /\ ftpfaults' = IF ok THEN ftpfaults ELSE ftpfaults - 1
    /\ UNCHANGED <<sessions, ftpcalls>>

\* Any error closes the new connection.
ftp_login(t) ==
    /\ fcall[t].pc = "login"
    /\ Exchange(t, "PASS", conns[fcall[t].conn].pass, LAMBDA x :
         IF x.reply = "yes" THEN Goes(x.c, "pwd") ELSE Goes(ftp_close_conn(x.c), "fail"))

\* What comes of PWD and SYST is not looked at: the connection may be closed again.
ftp_init_conn(t) ==
    /\ fcall[t].pc \in {"pwd", "syst"}
    /\ Exchange(t, "PWD", "", LAMBDA x :
         Goes(x.c, IF fcall[t].pc = "pwd" THEN "syst" ELSE AfterOpen(x.c, t)))

-----------------------------------------------------------------------------
\* ftp_do_list and ftp_do_get.

\* A reply of any code, 421 and a refusal too, is taken for the type to be set.
ftp_set_type(t) ==
    /\ fcall[t].pc = "type"
    /\ Exchange(t, "TYPE", Type(t), LAMBDA x :
         IF x.reply = "error" THEN Goes(x.c, "fail")
         ELSE Goes([x.c EXCEPT !.binary = Type(t), !.untyped = x.reply # "yes"],
                   AfterType(x.c, t)))

\* Mutant of ftp_set_cwd: the directory is believed to be set whatever the reply.
CwdUnchecked(t) ==
    /\ fcall[t].pc = "cwd"
    /\ Exchange(t, "CWD", fcall[t].dir, LAMBDA x :
         IF x.reply = "error" THEN Goes(x.c, "fail")
         ELSE Goes([x.c EXCEPT !.cwd = fcall[t].dir], "pasv"))

ftp_set_cwd(t) ==
    /\ fcall[t].pc = "cwd"
    /\ Exchange(t, "CWD", fcall[t].dir, LAMBDA x :
         IF x.reply = "yes" THEN Goes([x.c EXCEPT !.cwd = fcall[t].dir], "pasv")
         ELSE Goes(x.c, "fail"))

\* Anything but a 227 closes the connection.  Then the data connection is made.
ftp_open_dataconn(t) ==
    /\ fcall[t].pc = "pasv"
    /\ \E made \in IF ftpfaults > 0 THEN BOOLEAN ELSE {TRUE} :
         Exchange(t, "PASV", "", LAMBDA x :
           IF x.reply = "yes" /\ x.cmd = "PASV" THEN Goes(x.c, IF made THEN "transfer" ELSE "fail")
           ELSE IF x.reply = "error" THEN Goes(x.c, "fail")
           ELSE Goes(ftp_close_conn(x.c), "fail"))

\* LIST or RETR: a second reply will follow the transfer.
ftp_transfer(t) ==
    /\ fcall[t].pc = "transfer"
    /\ Exchange(t, "RETR", "", LAMBDA x :
         IF x.reply = "yes"
         THEN Goes([x.c EXCEPT !.server.replies = Append(@, [cmd |-> "END", yes |-> TRUE])],
                   IF fcall[t].op = "list" THEN "data" ELSE "localfile")
         ELSE Goes(x.c, "fail"))

\* The reply that follows the transfer: the server knows whether it has sent all.
FinalReply(t, then(_)) ==
    LET i == fcall[t].conn
        c == conns[i]
    IN \E o \in Outcomes(c) \ {"write"} :
         LET r == IF o \in {"yes", "no"}
                  THEN [c |-> [c EXCEPT !.server.replies = Tail(@)], reply |-> o]
                  ELSE ftp_command(c, "END", "", o)
         IN /\ o = "no" => ~fcall[t].whole
            /\ o = "yes" => fcall[t].whole \/ fcall[t].op = "list"
            /\ conns' = [conns EXCEPT ![i] = then(r).c]
            /\ fcall' = [fcall EXCEPT ![t] = IF r.reply = "null" THEN [@ EXCEPT !.pc = "crash"]
                                           ELSE [@ EXCEPT !.pc = then(r).pc, !.ans = then(r).ans]]
            /\ ftpfaults' = ftpfaults - Spent(c, o)
            /\ UNCHANGED <<sessions, ftpcalls>>

\* ftp_read_list.  The list is read to the end of the data connection; an error or a
\* timeout is forgotten when the reply that follows is good.
ftp_read_list(t) ==
    /\ fcall[t].pc = "data"
    /\ \E whole \in IF ftpfaults > 0 THEN BOOLEAN ELSE {TRUE} :
         /\ fcall' = [fcall EXCEPT ![t].pc = "final", ![t].whole = whole]
         /\ ftpfaults' = IF whole THEN ftpfaults ELSE ftpfaults - 1
    /\ UNCHANGED <<conns, sessions, ftpcalls>>

ftp_list_ends(t) ==
    /\ fcall[t].pc = "final"
    /\ FinalReply(t, LAMBDA r :
         IF r.reply = "yes" THEN [c |-> r.c, pc |-> "release", ans |-> "ok"]
         ELSE [c |-> r.c, pc |-> "fail", ans |-> "none"])

\* A local file that cannot be made leaves the reply to the transfer unread.
ftp_init_localfile(t) ==
    /\ fcall[t].pc = "localfile"
    /\ \E ok \in IF ftpfaults > 0 THEN BOOLEAN ELSE {TRUE} :
         /\ fcall' = [fcall EXCEPT ![t].pc = IF ok THEN "got" ELSE "fail"]
         /\ ftpfaults' = IF ok THEN ftpfaults ELSE ftpfaults - 1
    /\ UNCHANGED <<conns, sessions, ftpcalls>>

\* ftp_wait.  The data ends, or an error does; data that ends too soon the server
\* knows of.
ftp_wait(t) ==
    /\ fcall[t].pc = "got"
    /\ \E d \in {"whole"} \cup (IF ftpfaults > 0 THEN {"cut", "error"} ELSE {}) :
         /\ fcall' = [fcall EXCEPT ![t].pc = IF d = "error" THEN "broken" ELSE "reply",
                                 ![t].whole = d = "whole"]
         /\ ftpfaults' = IF d = "whole" THEN ftpfaults ELSE ftpfaults - 1
    /\ UNCHANGED <<conns, sessions, ftpcalls>>

\* Mutant of ftp_wait_ends: the end of the data is the end of the file.
WaitNoReply(t) ==
    /\ fcall[t].pc = "reply"
    /\ fcall' = [fcall EXCEPT ![t].pc = "release", ![t].ans = "ok"]
    /\ UNCHANGED <<conns, sessions, ftpfaults, ftpcalls>>

ftp_wait_ends(t) ==
    /\ fcall[t].pc = "reply"
    /\ FinalReply(t, LAMBDA r :
         IF r.reply = "yes" THEN [c |-> r.c, pc |-> "release", ans |-> "ok"]
         ELSE [c |-> r.c, pc |-> "broken", ans |-> "none"])

\* A file that has not been read to its end, or could not be, is freed.
ftp_free_localfile(t) ==
    /\ fcall[t].pc \in {"got", "broken"}
    /\ conns' = [conns EXCEPT ![fcall[t].conn] = [ftp_close_conn(@) EXCEPT !.busy = FALSE]]
    /\ fcall' = [fcall EXCEPT ![t] = NoCall]
    /\ UNCHANGED <<sessions, ftpfaults, ftpcalls>>

-----------------------------------------------------------------------------
\* ftp_list and ftp_get begin and end, under ftp_lock.

\* ftp_get_password
PasswordOf(account) == IF sessions[account] # "none" THEN sessions[account] ELSE sessions["user@"]

\* Mutant of ftp_find_conn: whether a connection is busy is not looked at.
FindAny(pass) ==
    LET found == {i \in 1 .. Len(conns) : conns[i].pass = pass}
    IN IF found = {} THEN Len(conns) + 1 ELSE CHOOSE i \in found : \A j \in found : i =< j

\* The first connection of the user that is not busy, or a new one at the end.
ftp_find_conn(pass) ==
    LET free == {i \in 1 .. Len(conns) : conns[i].pass = pass /\ ~conns[i].busy}
    IN IF free = {} THEN Len(conns) + 1 ELSE CHOOSE i \in free : \A j \in free : i =< j

\* A host without a user is entered as "ftp"; a user without a password is refused.
ftp_get_conn(t) ==
    /\ fcall[t].pc = "idle" /\ ftpcalls > 0
    /\ ftpcalls' = ftpcalls - 1
    /\ \E op \in {"list", "get"}, dir \in FtpDirs, pass \in {AvfsPassword, PasswordOf("user@host")} :
         LET i == ftp_find_conn(pass)
         IN /\ pass # "none" /\ i =< MaxFtpConns
            /\ conns' = IF i > Len(conns) THEN Append(conns, NewConn(pass))
                        ELSE [conns EXCEPT ![i].busy = TRUE]
            /\ fcall' = [fcall EXCEPT ![t] =
                 [NoCall EXCEPT !.op = op, !.conn = i, !.dir = dir, !.pass = pass,
                    !.pc = IF i =< Len(conns) /\ conns[i].sock THEN "noop" ELSE "connect"]]
    /\ UNCHANGED <<sessions, ftpfaults>>

ftp_release_conn(t) ==
    /\ fcall[t].pc \in {"fail", "release"}
    /\ conns' = [conns EXCEPT ![fcall[t].conn].busy = FALSE]
    /\ fcall' = [fcall EXCEPT ![t] = NoCall]
    /\ UNCHANGED <<sessions, ftpfaults, ftpcalls>>

ftp_password_set ==
    /\ \E a \in Accounts, p \in FtpPasswords :
         sessions[a] # p /\ sessions' = [sessions EXCEPT ![a] = p]
    /\ UNCHANGED <<conns, fcall, ftpfaults, ftpcalls>>

\* The connections that use the session are kept.
ftp_loggedin_set ==
    /\ \E a \in Accounts : sessions[a] # "none" /\ sessions' = [sessions EXCEPT ![a] = "none"]
    /\ UNCHANGED <<conns, fcall, ftpfaults, ftpcalls>>

\* A server closes a connection.
server_closes ==
    /\ ftpfaults > 0 /\ ftpfaults' = ftpfaults - 1
    /\ \E i \in 1 .. Len(conns) :
         conns[i].sock /\ conns[i].server.up /\ conns' = [conns EXCEPT ![i].server.up = FALSE]
    /\ UNCHANGED <<sessions, fcall, ftpcalls>>

FtpInit ==
    /\ conns = <<>> /\ sessions = [a \in Accounts |-> "none"]
    /\ fcall = [t \in FtpCalls |-> NoCall]
    /\ ftpfaults = MaxFtpFaults /\ ftpcalls = MaxFtpCalls

FtpNext ==
    /\ \A t \in FtpCalls : fcall[t].pc # "crash"
    /\ \/ \E t \in FtpCalls :
            \/ ftp_get_conn(t) \/ ftp_release_conn(t)
            \/ ftp_noop(t) \/ ftp_connect(t) \/ ftp_login(t) \/ ftp_init_conn(t)
            \/ ftp_set_type(t) \/ ftp_set_cwd(t) \/ ftp_open_dataconn(t) \/ ftp_transfer(t)
            \/ ftp_read_list(t) \/ ftp_list_ends(t)
            \/ ftp_init_localfile(t) \/ ftp_wait(t) \/ ftp_wait_ends(t) \/ ftp_free_localfile(t)
       \/ ftp_password_set \/ ftp_loggedin_set \/ server_closes

-----------------------------------------------------------------------------
\* Properties.

\* A connection is busy while one call or local file uses it, and no longer: no path
\* through the errors of a list, a get or a wait leaves it busy or gives it to two.
BusyExact ==
    \A i \in 1 .. Len(conns) :
      Cardinality({t \in FtpCalls : fcall[t].conn = i}) = IF conns[i].busy THEN 1 ELSE 0

\* A transfer is of the directory and for the user that was asked for, and in the type
\* it needs: what the client believes of a connection it takes over is true, though
\* connections are closed and opened again, and replies read late.  The exception is
\* in the code: ftp_set_ascii and ftp_set_binary do not look at the code of the reply.
TransferTrue ==
    \A t \in FtpCalls : fcall[t].pc \in {"data", "localfile", "got"} =>
      LET c == conns[fcall[t].conn]
      IN c.sock => /\ c.server.dir = fcall[t].dir /\ c.server.pass = fcall[t].pass
                   /\ c.server.type = Type(t) \/ c.untyped

\* A file is taken as read to its end only when all of it was received: a get that
\* ends too soon is not answered by the reply of another.
FileWhole == \A t \in FtpCalls : fcall[t].ans = "ok" /\ fcall[t].op = "get" => fcall[t].whole
=============================================================================
