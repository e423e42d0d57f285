------------------------------- MODULE MCRemote -------------------------------
(* Files of other hosts, for TLC: the remote framework, or one of the modules *)
(* that talk to hosts.  They share no state; part says which of them a        *)
(* behaviour is of.                                                           *)
EXTENDS Remote, Ftp, Ucftp, Http, Dav, TLC

VARIABLE part

\* Neither the users nor the addresses of copies and files can be told apart.
Interchangeable == Permutations(Threads) \cup Permutations(Copies)

MCInit ==
    /\ part \in {"remote", "ftp", "ucftp", "http", "dav"}
    /\ Init /\ FtpInit /\ UcftpInit /\ HttpInit /\ DavInit
    /\ part # "remote" => (\A f \in Files : ver[f] = 1) /\ dironly
    /\ part # "ucftp"  => \A n \in UcNames : uc_remote[n] = "none"
    /\ part # "http"   => \A u \in Urls : hbody[u] = 0

RemotePart == part = "remote" /\ Next      /\ UNCHANGED <<part, ftp_vars, ucftp_vars, http_vars, dav_vars>>
\* Nor can the directories of ftp be told apart: the one asked for first is "d".
FtpPart ==
    /\ part = "ftp" /\ FtpNext /\ UNCHANGED <<part, vars, ucftp_vars, http_vars, dav_vars>>
    /\ ftpcalls = MaxFtpCalls => \A t \in FtpCalls : fcall'[t].dir # "e"
UcftpPart  == part = "ucftp"  /\ UcftpNext /\ UNCHANGED <<part, vars, ftp_vars, http_vars, dav_vars>>
HttpPart   == part = "http"   /\ HttpNext  /\ UNCHANGED <<part, vars, ftp_vars, ucftp_vars, dav_vars>>
DavPart    == part = "dav"    /\ DavNext   /\ UNCHANGED <<part, vars, ftp_vars, ucftp_vars, http_vars>>

MCNext == RemotePart \/ FtpPart \/ UcftpPart \/ HttpPart \/ DavPart

-----------------------------------------------------------------------------
\* No connection of ftp, ucftp or dav stays busy longer than it is used, through all errors
\* of those who use it: an ftp connection is busy exactly while one call or file has it, a
\* connection of ucftp only while a file uses it, and all slots of dav are free when no call
\* has one.  For ucftp and dav the converse does not hold: ucftp_list makes the connection
\* not busy under a transfer (OneTransfer), and two calls of dav may have one slot
\* (SlotExclusive).
ConnectionsFreed == BusyExact /\ BusyHasUser /\ DavFreed

\* What is transferred over ftp or http is what was asked for, and all of it.
TransfersTrue == TransferTrue /\ FileWhole /\ HttpSizeTrue

\* The list that ucftp keeps of a directory has each name once, and its entries the
\* references that there are.
UcListExact == UcOneEntry /\ UcRefsExact
===============================================================================
