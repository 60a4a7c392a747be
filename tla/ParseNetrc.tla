----------------------------- MODULE ParseNetrc -----------------------------
(***************************************************************************)
(* One run of parse-netrc (main and run_app of main.rs): the command line, *)
(* the user's ~/.netrc, its records, the first one that matches, the exit  *)
(* status.  CommandLine and NetrcParser are its parts; meanwhile somebody  *)
(* may replace the file.                                                   *)
(*                                                                         *)
(* What ~/.netrc names has a kind, "absent", "dir" or "file", lines that   *)
(* are read, and the records that these declare.                           *)
(***************************************************************************)
EXTENDS CommandLine, NetrcParser

CONSTANTS
    Situations,    \* initial states: [args, path, home, outOk]
    Later,         \* what may replace the file
    MaxReplaced,   \* bound: replacements
    Mangled,       \* an argument that is not UTF-8
    KindOf(_), LinesOf(_)

ASSUME BoundAssumption == MaxReplaced \in Nat

(* What ~/.netrc may name. *)
Paths == {s.path : s \in Situations} \cup Later

ASSUME SituationsAssumption == \A s \in Situations : s.args \in Seq(Arguments) /\ s.outOk \in BOOLEAN
ASSUME PathsAssumption == \A p \in Paths : LinesOf(p) \in Seq(Lines)

ReadingOf == [p \in Paths |-> FileReading(LinesOf(p))]

(* It is made of entries, without what the library is known not to parse. *)
IsPlain(p) == ReadingOf[p] # {}

RecordsOf(p) == IF IsPlain(p) THEN (CHOOSE r \in ReadingOf[p] : TRUE).records ELSE <<>>

VARIABLES
    step,      \* where the program is
    home,      \* what home::home_dir() gives
    path,      \* what ~/.netrc is now
    replaced,  \* how often it was replaced so far
    opened,    \* what it was when it was opened, <<>> before
    one,       \* position in hosts of the record that is looked at
    result,    \* what run_app returned
    said,      \* what main wrote to standard error
    status     \* exit status, -1 before

fileVars == <<home, path, replaced>>
runVars == <<step, opened, one, result, said, status>>
vars == <<cliVars, parserVars, fileVars, runVars>>

CliErrors == {"NoMatchingNetrcRecord1", "NoMatchingNetrcRecord2", "BadArgs", "Msg",
              "IoError", "IoErrorW", "NetrcError"}

Init ==
    /\ \E s \in Situations :
         /\ CliInit(s.args, s.outOk)
         /\ home = s.home
         /\ path = s.path
    /\ ParserInit
    /\ replaced = 0
    /\ step = "start"
    /\ opened = <<>>
    /\ one = 1
    /\ result = "none"
    /\ said = "nothing"
    /\ status = -1

Goto(s) == step' = s /\ UNCHANGED <<opened, one, result, said, status>>

(* run_app returns, or panics. *)
Finish(r) ==
    /\ step' = "main"
    /\ result' = r
    /\ UNCHANGED <<opened, one, said, status>>

----------------------------------------------------------------------------
(* env::args() panics on an argument that is not UTF-8. *)
CollectArgs ==
    /\ step = "start"
    /\ IF \E i \in DOMAIN args : args[i] = Mangled THEN Finish("panic") ELSE Goto("args")
    /\ UNCHANGED <<cliVars, parserVars, fileVars>>

ParseArgs ==
    /\ step = "args"
    /\ CliNext
    /\ UNCHANGED <<parserVars, fileVars, runVars>>

ArgsParsed ==
    /\ step = "args"
    /\ cli \in CliResults
    /\ CASE cli = "Config" -> Goto("home")
         [] cli = "ProcessingIsComplete" -> Finish("Ok")
         [] OTHER -> Finish(cli)
    /\ UNCHANGED <<cliVars, parserVars, fileVars>>

----------------------------------------------------------------------------
(***************************************************************************)
(* The file.  Three system calls look at the path, one after the other.    *)
(***************************************************************************)
FindHome ==
    /\ step = "home"
    /\ IF home \in {"unset", "mangled", "empty"} THEN Finish("Msg") ELSE Goto("exists")
    /\ UNCHANGED <<cliVars, parserVars, fileVars>>

CheckExists ==
    /\ step = "exists"
    /\ IF KindOf(path) = "absent" THEN Finish("Msg") ELSE Goto("is_file")
    /\ UNCHANGED <<cliVars, parserVars, fileVars>>

CheckIsFile ==
    /\ step = "is_file"
    /\ IF KindOf(path) # "file" THEN Finish("Msg") ELSE Goto("open")
    /\ UNCHANGED <<cliVars, parserVars, fileVars>>

(* open(2) opens a directory, too; reading it fails. *)
Open ==
    /\ step = "open"
    /\ KindOf(path) # "absent"
    /\ opened' = <<path>>
    /\ unread' = LinesOf(path)
    /\ step' = "parse"
    /\ UNCHANGED <<cliVars, fileVars, line, item, netrc, current, parse, one, result, said, status>>

(* The file is gone, or may not be read, or there are too many open files. *)
OpenFails ==
    /\ step = "open"
    /\ Finish("IoErrorW")
    /\ UNCHANGED <<cliVars, parserVars, fileVars>>

Parse ==
    /\ step = "parse"
    /\ ParserNext
    /\ UNCHANGED <<cliVars, fileVars, runVars>>

Parsed ==
    /\ step = "parse"
    /\ parse \in ParseResults
    /\ CASE parse = "parsed" -> Goto("match")
         [] parse = "panic" -> Finish("panic")
         [] OTHER -> Finish("NetrcError")
    /\ UNCHANGED <<cliVars, parserVars, fileVars>>

----------------------------------------------------------------------------
(***************************************************************************)
(* The records of the file, in their order.                                *)
(***************************************************************************)

(* Mutants of RecordMatches: any user will do; only the user counts. *)
HostMatches(i) == hosts[i].host = input_hostname
UserMatches(i) == have_username => hosts[i].mach.login = input_username

RecordMatches(i) ==
    /\ hosts[i].host = input_hostname
    /\ have_username => hosts[i].mach.login = input_username

TryNext ==
    /\ step = "match"
    /\ one <= Len(hosts)
    /\ ~RecordMatches(one)
    /\ one' = one + 1
    /\ UNCHANGED <<cliVars, parserVars, fileVars, step, opened, result, said, status>>

(* println! panics when its output cannot be written. *)
PrintLogin ==
    /\ step = "match"
    /\ one <= Len(hosts)
    /\ RecordMatches(one)
    /\ IF outOk
         THEN out' = Append(out, hosts[one].mach.login) /\ Finish("Ok")
         ELSE UNCHANGED out /\ Finish("panic")
    /\ UNCHANGED <<args, outOk, cli, loopVars, input_hostname, parserVars, fileVars>>

NoneMatches ==
    /\ step = "match"
    /\ one > Len(hosts)
    /\ Finish(IF have_username THEN "NoMatchingNetrcRecord2" ELSE "NoMatchingNetrcRecord1")
    /\ UNCHANGED <<cliVars, parserVars, fileVars>>

----------------------------------------------------------------------------
(***************************************************************************)
(* main: the result becomes an exit status and a message.                  *)
(***************************************************************************)
NoMatch == {"NoMatchingNetrcRecord1", "NoMatchingNetrcRecord2"}

(* Mutant of ExitStatus: a record that does not match is any other error. *)
ExitStatusOfErrors(r) ==
    CASE r = "Ok" -> 0
      [] r = "panic" -> 101
      [] r = "NoMatchingNetrcRecord1" -> 1
      [] OTHER -> 2

ExitStatus(r) ==
    CASE r = "Ok" -> 0
      [] r = "panic" -> 101
      [] r \in NoMatch -> 1
      [] OTHER -> 2

(* Mutant of Message: no match is an error like the others. *)
MessageAlways(r) ==
    CASE r = "Ok" -> "nothing"
      [] r = "panic" -> "panic"
      [] r = "BadArgs" -> "usage"
      [] OTHER -> "error"

pr_info == IF BE_VERBOSE THEN "info" ELSE "nothing"

Message(r) ==
    CASE r = "Ok" -> "nothing"
      [] r = "panic" -> "panic"
      [] r = "BadArgs" -> "usage"
      [] r \in NoMatch -> pr_info
      [] OTHER -> "error"

Exit ==
    /\ step = "main"
    /\ step' = "exited"
    /\ status' = ExitStatus(result)
    /\ said' = Message(result)
    /\ UNCHANGED <<cliVars, parserVars, fileVars, opened, one, result>>

Program ==
    \/ CollectArgs \/ ParseArgs \/ ArgsParsed
    \/ FindHome \/ CheckExists \/ CheckIsFile \/ Open \/ OpenFails \/ Parse \/ Parsed
    \/ TryNext \/ PrintLogin \/ NoneMatches \/ Exit

(* Somebody moves another file into place, or removes it. *)
Replace ==
    /\ replaced < MaxReplaced
    /\ path' \in Later \ {path}
    /\ replaced' = replaced + 1
    /\ UNCHANGED <<cliVars, parserVars, runVars, home>>

Next == Program \/ Replace

(* A program that can run does. *)
Spec == Init /\ [][Next]_vars /\ WF_vars(Program)

----------------------------------------------------------------------------
(***************************************************************************)
(* Properties.                                                             *)
(***************************************************************************)

(* Every variable has its type. *)
TypeOK ==
    /\ CliTypeOK
    /\ ParserTypeOK
    /\ step \in {"start", "args", "home", "exists", "is_file", "open", "parse", "match",
                 "main", "exited"}
    /\ replaced \in 0..MaxReplaced
    /\ Len(opened) <= 1
    /\ one \in 1..(Len(hosts) + 1)
    /\ result \in {"none", "Ok", "panic"} \cup CliErrors
    /\ said \in {"nothing", "info", "error", "usage", "panic"}
    /\ status \in {-1, 0, 1, 2, 101}

(* "The 'parse-netrc' program emits a "grep-like" exit status"             *)
(* (ads-github-cache.in:602-605): it prints the login of the first record  *)
(* of the host, and of the user if there is one, and exits with 0; exits   *)
(* with 1 only when there is no such record; and prints nothing otherwise. *)
IsAnswer(i) ==
    /\ hosts[i].host = input_hostname
    /\ have_username => hosts[i].mach.login = input_username

FirstMatchPrinted ==
    cli = "Config" =>
        CASE status = 0 ->
               \E i \in DOMAIN hosts :
                   /\ IsAnswer(i)
                   /\ \A j \in 1..(i - 1) : ~IsAnswer(j)
                   /\ out = <<hosts[i].mach.login>>
          [] status = 1 -> out = <<>> /\ \A i \in DOMAIN hosts : ~IsAnswer(i)
          [] status \in {2, 101} -> out = <<>>
          [] OTHER -> TRUE

(* What run_app searches (main.rs:588) is the file: one that is parsed     *)
(* without an error gave the records it declares, in their order, and each *)
(* its own login, wherever entries, lines and macros end.                  *)
Declared == [i \in DOMAIN hosts |-> [host |-> hosts[i].host, login |-> hosts[i].mach.login]]

ParsedAsDeclared ==
    parse = "parsed" => IsPlain(opened[1]) /\ Declared = RecordsOf(opened[1])

(* The same in terms of what the file declares: the program is atomic,     *)
(* whatever becomes of the file while it runs.                             *)
Lookup == INSTANCE NetrcLookup WITH
    Files <- Seq(Records),
    Queries <- [host : Arguments, user : {<<>>} \cup {<<a>> : a \in Arguments}],
    Screens <- {"help", "version"},
    file <- RecordsOf(path),
    want <- IF cli = "Config"
              THEN <<[host |-> input_hostname,
                      user |-> IF have_username THEN <<input_username>> ELSE <<>>]>>
              ELSE <<>>,
    seen <- IF opened = <<>> THEN <<>> ELSE <<RecordsOf(opened[1])>>,
    reply <- IF status = -1 THEN <<>> ELSE <<[status |-> status, out |-> out]>>

GrepLike == Lookup!Spec

(* "The library cannot yet parse netrc files that have comments in them,   *)
(* but the rest of the needed core funcionality is there" (NEWS:603-604):  *)
(* a file without what it is known not to parse gets an answer.            *)
PlainFileIsAnswered ==
    (step = "exited" /\ opened # <<>> /\ outOk) =>
        (IsPlain(opened[1]) => status \in {0, 1})

(* "by default we will not emit any output specifically for this scenario, *)
(* but a single '-v' (--verbose) is enough to get that behavior"           *)
(* (main.rs:672-674).                                                      *)
NoMatchIsQuiet ==
    status = 1 =>
        (said = "nothing" <=>
            \A i \in consumed \ {0} :
                ArgAt(i) \in VerboseOpts => have_username /\ IsUserValue(i))
=============================================================================
