---------------------------------- MODULE Listing ----------------------------------
(***************************************************************************)
(* The lines of a directory listing, as ls -l prints them and programs     *)
(* that list archives or remote directories: src/src/parsels.c.  A line is *)
(* its columns, of which the parser asks what they look like: whether they *)
(* begin with a digit, or are a month, a day of the week, a time, a year   *)
(* or a date in one word.                                                  *)
(***************************************************************************)
EXTENDS Integers, FiniteSets, SequencesExt

CONSTANTS
    LsNames,  \* what names can be: sequences of words
    LsDates   \* how dates can be printed

VARIABLE ls   \* st, what is listed, the columns, and what the parser makes of them

-----------------------------------------------------------------------------
\* What a column looks like: "n" and "many" are numbers, "1" is 1, and "w" is any
\* other word.
IsNum(c)   == c \in {"1", "many", "n", "year", "time", "dos", "iso", "major"}
IsStart(c) == c \in {"month", "week", "dos", "iso"}

Valid(cols, i) == i <= Len(cols)
NumAt(cols, i) == Valid(cols, i) /\ IsNum(cols[i])

\* Mutant of is_last_col: the last column is not known.
LastButOne(cols, i) == i >= Len(cols) + 1

is_last_col(cols, i) == i >= Len(cols)

-----------------------------------------------------------------------------
\* parse_filedate, from the column i: where it ends, 0 for none, and whether it has a year.

NoDate == [end |-> 0, year |-> FALSE]

\* A second column of time and year, unless it is the last: then it is the name.
Second(cols, i, year) ==
    LET more == NumAt(cols, i) /\ ~is_last_col(cols, i)
    IN CASE more /\ year /\ cols[i] = "time"  -> [end |-> i + 1, year |-> TRUE]
         [] more /\ ~year /\ cols[i] = "year" -> [end |-> i + 1, year |-> TRUE]
         [] OTHER -> [end |-> i, year |-> year]

\* Time or year, at i.
TimeOrYear(cols, i, year) ==
    IF ~NumAt(cols, i) THEN NoDate
    ELSE IF cols[i] \notin {"time", "year"} THEN [end |-> i, year |-> FALSE]
    ELSE IF ~Valid(cols, i + 1) THEN NoDate
    ELSE Second(cols, i + 1, cols[i] = "year" \/ year)

parse_filedate(cols, i) ==
    LET j == IF cols[i] = "week" THEN i + 1 ELSE i
    IN IF ~Valid(cols, i + 1) THEN NoDate
       ELSE CASE cols[j] = "month" -> IF NumAt(cols, j + 1) THEN TimeOrYear(cols, j + 2, FALSE) ELSE NoDate
              [] cols[j] \in {"dos", "iso"} -> TimeOrYear(cols, j + 1, TRUE)
              [] OTHER -> NoDate

-----------------------------------------------------------------------------
\* av_parse_ls.

LsError == [ok |-> FALSE, name |-> <<>>, link |-> <<>>, group |-> FALSE, year |-> FALSE]
IsDev(type) == type \in {"b", "c"}

\* Where the date begins, which is after the size with a group or without: 7 if nowhere.
DateAt(cols) ==
    LET at == {i \in 4 .. 6 : i <= Len(cols) /\ IsStart(cols[i])}
    IN IF at = {} THEN 7 ELSE CHOOSE i \in at : \A j \in at : i <= j

\* Mutant of ArrowAt: a name can begin with an arrow.
ArrowFromFirst(cols, i) ==
    LET at == {j \in i .. Len(cols) : cols[j] = "->"}
    IN IF at = {} THEN 0 ELSE CHOOSE j \in at : \A l \in at : j <= l

\* The first arrow after the first word of the name, 0 if there is none.
ArrowAt(cols, i) ==
    LET at == {j \in i + 1 .. Len(cols) : cols[j] = "->"}
    IN IF at = {} THEN 0 ELSE CHOOSE j \in at : \A l \in at : j <= l

\* The name, and what it is a link to: of a symbolic link, or a hard link if there are
\* three words and the file has more links.
NameAndLink(type, cols, i) ==
    LET lnk == ArrowAt(cols, i)
        is  == lnk # 0 /\ (type = "l" \/ (Len(cols) = i + 2 /\ cols[1] = "many"))
    IN IF is THEN [name |-> SubSeq(cols, i, lnk - 1), link |-> SubSeq(cols, lnk + 1, Len(cols))]
       ELSE [name |-> SubSeq(cols, i, Len(cols)), link |-> <<>>]

av_parse_ls(type, cols) ==
    LET date  == DateAt(cols)
        group == ~(date = 4 \/ (date = 5 /\ IsDev(type)))
        size  == IF group THEN 4 ELSE 3
        t     == parse_filedate(cols, date)
    IN IF type \notin {"-", "d", "l", "b", "c"} \/ Len(cols) < 6 \/ cols[1] \notin {"1", "many"} THEN LsError
       ELSE IF date = 7 \/ (date = 6 /\ ~IsDev(type)) THEN LsError
       ELSE IF ~NumAt(cols, size) \/ (IsDev(type) /\ ~NumAt(cols, size + 1)) THEN LsError
       ELSE IF t.end = 0 \/ ~Valid(cols, t.end) THEN LsError
       ELSE [ok |-> TRUE, group |-> group, year |-> t.year] @@ NameAndLink(type, cols, t.end)

-----------------------------------------------------------------------------
\* What is listed, and its line.

LsLine(x) ==
    <<x.nlink, "w">> \o (IF x.group THEN <<"w">> ELSE <<>>)
    \o (IF IsDev(x.type) THEN <<"major", "n">> ELSE <<"n">>)
    \o x.date \o x.name \o (IF x.link = <<>> THEN <<>> ELSE <<"->">> \o x.link)

LsInit ==
    \E type \in {"-", "d", "l", "c", "x"}, nlink \in {"1", "many"}, group \in BOOLEAN, date \in LsDates,
       name \in LsNames, link \in LsNames \cup {<<>>} :
        /\ type = "l" => link # <<>>
        /\ link # <<>> => type = "l" \/ (type = "-" /\ nlink = "many" /\ Len(name) = 1 /\ Len(link) = 1)
        /\ LET x == [type |-> type, nlink |-> nlink, group |-> group, date |-> date, name |-> name, link |-> link]
           IN ls = [st |-> "line", of |-> x, cols |-> LsLine(x), got |-> LsError]

ParseLine == ls.st = "line" /\ ls' = [ls EXCEPT !.st = "parsed", !.got = av_parse_ls(ls.of.type, ls.cols)]
LsNext == ParseLine

-----------------------------------------------------------------------------
\* Properties.

\* What the comment before parse_filetype says cannot be told: a name of more than one
\* word that begins with what the date can still have; and a name with an arrow in it.
Ambiguous(x) ==
    LET words == x.name \o (IF x.link = <<>> THEN <<>> ELSE <<"->">>)
        year  == \E i \in DOMAIN x.date : x.date[i] \in {"year", "dos", "iso"}
        both  == year /\ \E i \in DOMAIN x.date : x.date[i] = "time"
        two   == x.date[1] \in {"dos", "iso"}
    IN \/ Len(words) > 1 /\ words[1] = (IF year THEN "time" ELSE "year") /\ (~both \/ two)
       \/ \E i \in 2 .. Len(x.name) : x.name[i] = "->"

\* Whatever a line has: group or none, device or size, any form of the date, a year or
\* time as a name, a name that begins with an arrow; the name is found, the link and the
\* year, unless it cannot be told.
LineTrue ==
    ls.st = "parsed" /\ ~Ambiguous(ls.of) =>
        /\ ls.got.ok <=> ls.of.type # "x"
        /\ ls.got.ok => /\ ls.got.name = ls.of.name /\ ls.got.link = ls.of.link /\ ls.got.group = ls.of.group
                        /\ ls.got.year <=> \E i \in DOMAIN ls.of.date : ls.of.date[i] \in {"year", "dos", "iso"}
====================================================================================
