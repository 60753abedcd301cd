------------------------------ MODULE IniFile -------------------------------
(***************************************************************************)
(* The reading of the configuration: ini_parse_file line by line, the      *)
(* values that INIReader collects, and the list of servers that main and   *)
(* AS_CONTROL make of one, against a writer who means a list of hosts by   *)
(* every name and lays the file out in any of the ways the format has.     *)
(*                                                                         *)
(* Characters are strings of length 1; "bom" is the UTF-8 mark of three    *)
(* bytes, "vt" and "ff" are the vertical tab and the form feed.            *)
(***************************************************************************)
EXTENDS Naturals, Sequences, SequencesExt

CONSTANTS
    Chars,          \* the characters of the file
    INI_MAX_LINE,   \* the size of the line buffer
    MAX_SECTION,    \* the sizes of the buffers of names
    MAX_NAME,
    Sections,       \* the names that the writer uses
    Names,
    HostLists,      \* the lists of hosts that one line gives
    Closings,       \* what ends the hosts of a line
    MaxLines        \* bound: the lines of the file

ASSUME SizesAssumption ==
    INI_MAX_LINE \in Nat \ {0, 1} /\ MAX_SECTION \in Nat \ {0} /\ MAX_NAME \in Nat \ {0}

\* The writer's names and hosts are texts without the characters that the
\* format, or the list of servers, gives a meaning; "" is the end of a string.
Without(marks, s) == s \in Seq(Chars) \ {<< >>} /\ \A k \in DOMAIN s : s[k] \notin marks
HostMarks == {"", " ", "\t", "\n", "\r", "vt", "ff", "\"", ",", ";", "#", "="}
NameMarks == HostMarks \cup {":", "[", "]", "bom"}

ASSUME CharsAssumption == NameMarks \cup {"n"} \subseteq Chars
ASSUME NamesAssumption ==
    /\ \A s \in Sections : Without(NameMarks, s) /\ Len(s) < MAX_SECTION
    /\ \A n \in Names : Without(NameMarks, n) /\ Len(n) < MAX_NAME
ASSUME HostsAssumption ==
    \A h \in HostLists : h \in Seq(Seq(Chars)) \ {<< >>} /\ \A k \in DOMAIN h : Without(HostMarks, h[k])
ASSUME ClosingsAssumption == Closings \subseteq Seq({"\"", ";"})

VARIABLES
    lineno, error, section, prev_name,  \* the locals of ini_parse_file
    values,                             \* INIReader::_values
    lines,    \* the lines that the writer has written
    heading,  \* the section it is in
    last,     \* the key of the pair it wrote last in the section, or ""
    open,     \* whether a ',' at the end asks for a continuation
    meant,    \* the hosts it means, by key
    bad,      \* its first line that is no INI, or 0
    full      \* how many lines before that filled the buffer to its end

reader == <<lineno, error, section, prev_name, values>>
writer == <<lines, heading, last, open, meant, bad, full>>
iniVars   == <<reader, writer>>

-----------------------------------------------------------------------------
(* ini.c *)

isspace(c) == c \in {" ", "\t", "\n", "\r", "vt", "ff"}

rstrip(s) == SubSeq(s, 1, SelectLastInSeq(s, LAMBDA c : ~isspace(c)))
lskip(s)  == LET i == SelectInSeq(s, LAMBDA c : ~isspace(c))
             IN  IF i = 0 THEN << >> ELSE SubSeq(s, i, Len(s))

\* The place of the first c, or of a ';' after white space, or of the end.
find_char_or_comment(s, c) ==
    Min({Len(s) + 1} \cup
        {i \in DOMAIN s : s[i] = c \/ (i > 1 /\ s[i] = ";" /\ isspace(s[i - 1]))})

UpTo(s, i)  == SubSeq(s, 1, i - 1)
After(s, i) == SubSeq(s, i + 1, Len(s))
Has(s, i, c) == i <= Len(s) /\ s[i] = c

strncpy0(s, size) == SubSeq(s, 1, Min({Len(s), size - 1}))

Lower(c) == CASE c = "N" -> "n" [] c = "S" -> "s" [] OTHER -> c
MakeKey(sec, name) ==
    LET key == sec \o <<".">> \o name IN [i \in DOMAIN key |-> Lower(key[i])]

\* The map of values.
Get(vals, key, default) == IF key \in DOMAIN vals THEN vals[key] ELSE default
Put(vals, key, value) ==
    [k \in DOMAIN vals \cup {key} |-> IF k = key THEN value ELSE vals[k]]

\* INIReader::ValueHandler
ValueHandler(r, name, value) ==
    LET key == MakeKey(r.section, name)
        old == Get(r.values, key, << >>)
        new == (IF old = << >> THEN << >> ELSE old \o <<"\n">>) \o value
    IN  [r EXCEPT !.values = Put(@, key, new)]

\* Variant: a later error replaces the first.
LastError(r) == [r EXCEPT !.error = r.lineno]
\* if (!error) error = lineno
Error(r) == IF r.error = 0 THEN LastError(r) ELSE r

\* Variant: a section does not end the value before it.
SectionKeepsName(r, name) == [r EXCEPT !.section = strncpy0(name, MAX_SECTION)]
\* A "[section]" line.
NewSection(r, name) ==
    [r EXCEPT !.section = strncpy0(name, MAX_SECTION), !.prev_name = << >>]

SectionLine(r, start) ==
    LET end == find_char_or_comment(start, "]")
    IN  IF Has(start, end, "]")
        THEN NewSection(r, After(UpTo(start, end), 1))
        ELSE Error(r)

PairLine(r, start) ==
    LET eq    == find_char_or_comment(start, "=")
        end   == IF Has(start, eq, "=") THEN eq ELSE find_char_or_comment(start, ":")
        name  == rstrip(UpTo(start, end))
        text  == lskip(After(start, end))
        value == rstrip(UpTo(text, find_char_or_comment(text, "")))
    IN  IF Has(start, end, "=") \/ Has(start, end, ":")
        THEN ValueHandler([r EXCEPT !.prev_name = strncpy0(name, MAX_NAME)],
                          name, value)
        ELSE Error(r)

\* One turn of the loop of ini_parse_file, for what fgets put into line.
Line(r0, line) ==
    LET r     == [r0 EXCEPT !.lineno = @ + 1]
        from  == IF r.lineno = 1 /\ Has(line, 1, "bom") THEN 1 ELSE 0
        start == lskip(rstrip(After(line, from)))
    IN  IF start = << >> \/ Head(start) \in {";", "#"} THEN r
        ELSE IF r.prev_name # << >> /\ Len(start) < Len(rstrip(line))
        THEN ValueHandler(r, r.prev_name, start)
        ELSE IF Head(start) = "[" THEN SectionLine(r, start)
        ELSE PairLine(r, start)

\* fgets cuts what does not fit the buffer.
Pieces(text) ==
    LET size == INI_MAX_LINE - 1
    IN  [k \in 1 .. (Len(text) + size - 1) \div size |->
            SubSeq(text, (k - 1) * size + 1, Min({k * size, Len(text)}))]

Reader == [lineno |-> lineno, error |-> error, section |-> section,
           prev_name |-> prev_name, values |-> values]

\* The parser reads a line of the file.
Read(line) ==
    LET r == FoldLeft(Line, Reader, Pieces(line \o <<"\n">>))
    IN  /\ lineno' = r.lineno /\ error' = r.error /\ section' = r.section
        /\ prev_name' = r.prev_name /\ values' = r.values

-----------------------------------------------------------------------------
(* main and AS_CONTROL *)

Removed == {"\"", "\t", "\n", "\r", " "}

\* boost::replace_all
Cleaned(s) ==
    LET upTo[k \in 0 .. Len(s)] ==
            IF k = 0 THEN << >>
            ELSE IF s[k] \in Removed THEN upTo[k - 1] ELSE Append(upTo[k - 1], s[k])
    IN  upTo[Len(s)]

\* The list of parts goes on with the character c.
Goes(parts, c) == IF c = "," THEN Append(parts, << >>)
                  ELSE Front(parts) \o <<Append(Last(parts), c)>>

\* boost::split at ','
Parts(s) ==
    LET upTo[k \in 0 .. Len(s)] ==
            IF k = 0 THEN <<<< >>>> ELSE Goes(upTo[k - 1], s[k])
    IN  upTo[Len(s)]

as_server_list(key) == Parts(Cleaned(Get(values, key, << >>)))

-----------------------------------------------------------------------------
(* The writer of the file *)

IniInit ==
    /\ lineno = 0 /\ error = 0 /\ section = << >> /\ prev_name = << >>
    /\ values = << >>
    /\ lines = 0 /\ heading = << >> /\ last = << >> /\ open = FALSE
    /\ meant = << >> /\ bad = 0 /\ full = 0

\* A line with its newline may fill the buffer but for one character.
Write(line) ==
    \E mark \in IF lines = 0 THEN {<< >>, <<"bom">>} ELSE {<< >>} :
        /\ lines < MaxLines /\ lines' = lines + 1
        /\ Len(mark \o line) < INI_MAX_LINE
        /\ full' = IF bad' = 0 /\ Len(mark \o line) = INI_MAX_LINE - 1
                   THEN full + 1 ELSE full
        /\ Read(mark \o line)

\* White space before a line that could be taken for a continuation is written
\* only where there is nothing to continue.
Indents == IF last = << >> THEN {<< >>, <<" ">>} ELSE {<< >>}
Comments == {<< >>, <<" ", ";", "#">>}

\* The hosts, with a blank after each ',' or not.
Joined(hosts, blank) ==
    LET upTo[k \in 1 .. Len(hosts)] ==
            IF k = 1 THEN hosts[1]
            ELSE upTo[k - 1] \o <<",">> \o blank \o hosts[k]
    IN  upTo[Len(hosts)]

WriteSection(name) ==
    /\ ~open
    /\ UNCHANGED <<open, meant, bad>>
    /\ \E indent \in Indents, comment \in Comments :
          Write(indent \o <<"[">> \o name \o <<"]">> \o comment)
    /\ heading' = name /\ last' = << >>

WritePair(name, hosts) ==
    /\ ~open /\ MakeKey(heading, name) \notin DOMAIN meant
    /\ last' = MakeKey(heading, name)
    /\ UNCHANGED <<heading, bad>>
    /\ meant' = Put(meant, last', hosts)
    /\ \E indent \in Indents, sign \in {<<" ", "=", " ">>, <<":">>},
          quote \in {<< >>, <<"\"">>}, blank \in {<< >>, <<" ">>},
          end \in Closings \cup {<<",">>}, comment \in Comments :
          /\ Write(indent \o name \o sign \o quote \o Joined(hosts, blank)
                   \o end \o comment)
          /\ open' = (end = <<",">>)

\* Comments on a continuation are not stripped, so none are written.
WriteMore(hosts) ==
    /\ open
    /\ meant' = [meant EXCEPT ![last] = @ \o hosts]
    /\ UNCHANGED <<heading, last, bad>>
    /\ \E indent \in {<<" ">>, <<"\t">>}, end \in Closings \cup {<<",">>} :
          /\ Write(indent \o Joined(hosts, << >>) \o end)
          /\ open' = (end = <<",">>)

\* Comments and blank lines can be anywhere.
WriteNothing ==
    /\ UNCHANGED <<heading, last, open, meant, bad>>
    /\ \E line \in {<< >>, <<" ">>, <<"#", "=">>, <<" ", ";", "[">>} : Write(line)

\* A line that is neither a section nor a pair.
WriteBad ==
    /\ bad' = IF bad = 0 THEN lines + 1 ELSE bad
    /\ \E line \in {<<"[", "n">>, <<"n">>, <<"n", " ", ";", "=">>} : Write(line)
    /\ UNCHANGED <<heading, last, open, meant>>

IniNext ==
    \/ \E s \in Sections : WriteSection(s)
    \/ \E n \in Names, hosts \in HostLists : WritePair(n, hosts)
    \/ \E hosts \in HostLists : WriteMore(hosts)
    \/ WriteNothing
    \/ WriteBad

IniSpec == IniInit /\ [][IniNext]_iniVars

-----------------------------------------------------------------------------
(* Properties *)

\* The keys that have a value are those the writer gave one, and main makes of
\* each the hosts the writer means, in their order: however they are spread
\* over lines, quoted, spaced or commented, and whatever bad lines are between
\* (ini.c:91-153, INIReader.cpp:59-68, main.cpp:87-91, as_control.hpp:81).
HostsRead ==
    /\ DOMAIN values = DOMAIN meant
    /\ \A key \in DOMAIN meant :
          ~(open /\ key = last) => as_server_list(key) = meant[key]

\* ParseError is 0 exactly as long as no line is bad, wherever continuations,
\* comments and sections stand, and the parser goes on after an error; it is the
\* number of the first bad line, whatever follows, if no line before left no room
\* for its newline (ini.h:29-31, ini.c:91-92, 123-126, 148-151).
FirstErrorKept ==
    /\ error = 0 <=> bad = 0
    /\ full = 0 => error = bad

\* ini.h:29: "line number of first error on parse error".
ErrorIsLineNumber == error = bad

\* README.rst:80, conf/config.ini:8: a list of servers is closed by '";', as in
\* servers = "172.16.xx.xx,172.16.xx.xx"; and gives the hosts between the
\* quotes.
ReadmeServersRead ==
    \A key \in DOMAIN meant :
        ~(open /\ key = last) => as_server_list(key) = meant[key]
=============================================================================
