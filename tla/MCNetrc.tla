------------------------------- MODULE MCNetrc -------------------------------
(***************************************************************************)
(* Instances of InEffectUser: every command line of up to four arguments   *)
(* on one file, and two command lines on every file of two entries and     *)
(* some of three.                                                          *)
(***************************************************************************)
EXTENDS InEffectUser, SequencesExt

(* The command lines. *)
MCOtherOpts == {"--user=alice"}
MCArguments ==
    {"parse-netrc", "-h", "-V", "-u", "--user", "-v", "--", "alice", "api", "", Mangled}
        \cup MCOtherOpts

CommandLine(s) == <<"parse-netrc">> \o s

ShortLines(n) ==
    {CommandLine(s) : s \in BoundedSeq({"-h", "-V", "-u", "-v", "--", "--user=alice", "alice", "api"}, n)}
LongLines ==
    {CommandLine(s) : s \in {
        <<"-v", "-v", "-v", "-v", "api">>, <<"-v", "--user", "alice", "--", "api">>,
        <<"-v", "-v", "-v", "-u", "alice", "api">>, <<"-v", "-v", "-v", "-v", "-v", "api">>}}
OddLines == {<<>>, CommandLine(<<"api", Mangled>>), CommandLine(<<"">>), CommandLine(<<"-u", "", "api">>)}

AskHost == CommandLine(<<"api">>)
AskUser == CommandLine(<<"-u", "alice", "api">>)

(* The files: an entry is its lines and what it declares.  "record" is a   *)
(* record, "default" the default, "field" a field of whatever is before,   *)
(* "open" a macro without its blank line, "closed" one with it, "trouble"  *)
(* what the library cannot parse, "unreadable" what cannot even be read.   *)
Text(words) == [words |-> words, kind |-> "text"]
BlankLine == [words |-> <<>>, kind |-> "blank"]
CrLf == Text(<<>>)
BadLine == [words |-> <<>>, kind |-> "bad"]

Entry(kind, host, login, lines) == [kind |-> kind, host |-> host, login |-> login, lines |-> lines]
Record(host, login, lines) == Entry("record", host, login, lines)
Other(kind, lines) == Entry(kind, "", "", lines)

MCEntries == [
    alice |-> Record("api", "alice", <<Text(<<"machine", "api", "login", "alice", "password", "pw">>)>>),
    bob |-> Record("api", "bob", <<Text(<<"machine", "api">>), CrLf, Text(<<"port", "443", "login", "bob">>)>>),
    other |-> Record("other", "alice",
        <<Text(<<"machine">>), Text(<<"other", "login">>), Text(<<"alice", "account", "x">>)>>),
    anon |-> Record("api", "", <<Text(<<"machine", "api", "password", "pw">>)>>),
    dflt |-> Other("default", <<Text(<<"default", "login", "bob">>)>>),
    macro |-> Other("closed", <<Text(<<"macdef", "init", "pw">>), Text(<<"machine", "api", "login", "x">>), BlankLine>>),
    open |-> Other("open", <<Text(<<"macdef", "init">>), Text(<<"pw">>), CrLf>>),
    comment |-> Other("trouble", <<Text(<<"#", "machine", "api">>)>>),
    field |-> Other("field", <<Text(<<"port", "443">>)>>),
    badPort |-> Other("trouble", <<Text(<<"machine", "x", "port", "70000">>)>>),
    inside |-> Other("trouble", <<Text(<<"machine", "x", "password", "p~">>)>>),
    behind |-> Other("trouble", <<Text(<<"machine", "x", "password", "p~w">>), Text(<<"login", "alice">>)>>),
    badMacro |-> Other("trouble", <<Text(<<"macdef", "p~">>)>>),
    cut |-> Other("trouble", <<Text(<<"machine">>)>>),
    unreadable |-> Other("unreadable", <<BadLine>>)]

(* A file is the sequence of the names of its entries. *)
NoFile == <<"absent">>
Directory == <<"dir">>
MCFiles ==
    {p \in BoundedSeq(DOMAIN MCEntries, 2) : \A i \in DOMAIN p : p[i] = "cut" => i = Len(p)}
        \cup BoundedSeq({"alice", "bob", "anon", "dflt", "macro", "open"}, 3)

MCKindOf(p) == CASE p = NoFile -> "absent" [] p = Directory -> "dir" [] OTHER -> "file"
MCLinesOf(p) ==
    CASE p = NoFile -> <<>>
      [] p = Directory -> <<BadLine>>
      [] OTHER -> FlattenSeq([i \in DOMAIN p |-> MCEntries[p[i]].lines])

(* What a file declares, entry by entry: nothing from an open macro to the *)
(* next blank line.                                                        *)
Declares(acc, name) ==
    LET entry == MCEntries[name] IN
    CASE entry.kind = "closed" -> [acc EXCEPT !.open = FALSE, !.machine = FALSE]
      [] entry.kind = "open" -> [acc EXCEPT !.open = TRUE, !.machine = FALSE]
      [] entry.kind = "unreadable" -> [acc EXCEPT !.plain = FALSE]
      [] acc.open -> acc
      [] entry.kind = "record" ->
           [acc EXCEPT !.machine = TRUE,
                       !.records = Append(@, [host |-> entry.host, login |-> entry.login])]
      [] entry.kind = "default" -> [acc EXCEPT !.machine = TRUE]
      [] entry.kind = "field" -> [acc EXCEPT !.plain = @ /\ acc.machine]
      [] OTHER -> [acc EXCEPT !.plain = FALSE]

DeclaredBy(p) ==
    FoldLeft(Declares, [open |-> FALSE, machine |-> FALSE, plain |-> TRUE, records |-> <<>>], p)

(* Reading a file from its end gives the same. *)
ASSUME ReadingAssumption ==
    \A p \in MCFiles : LET declared == DeclaredBy(p) IN
        /\ IsPlain(p) <=> declared.plain
        /\ IsPlain(p) => RecordsOf(p) = declared.records

MCFileWords ==
    {"machine", "default", "login", "password", "account", "port", "macdef", "api", "other",
     "alice", "bob", "pw", "x", "443", "70000", "init", "#", "p~", "p~w", "w"}
MCLeftover == [w \in MCFileWords |-> CASE w = "p~" -> Broken [] w = "p~w" -> "w" [] OTHER -> ""]

MCSituations ==
    [args : ShortLines(4) \cup LongLines \cup OddLines, path : {<<"alice">>}, home : {"dir"}, outOk : {TRUE}]
        \cup [args : ShortLines(2), path : {<<"alice">>}, home : {"dir"}, outOk : {FALSE}]
        \cup [args : {AskHost, AskUser}, path : MCFiles \cup {NoFile, Directory}, home : {"dir"}, outOk : {TRUE}]
        \cup [args : {AskHost}, path : {<<"alice">>}, home : {"unset", "mangled", "empty"}, outOk : {TRUE}]

(* Those of ads-github-cache, where only the files differ. *)
MCPlainSituations ==
    [args : {AskHost}, path : MCFiles \cup {NoFile, Directory}, home : {"dir"}, outOk : {TRUE}]

MCLater == {<<"bob">>, NoFile, Directory}
=============================================================================
