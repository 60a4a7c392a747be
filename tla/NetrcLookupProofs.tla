-------------------------- MODULE NetrcLookupProofs --------------------------
(***************************************************************************)
(* parse-netrc implements NetrcLookup, and ads-github-cache learns from it *)
(* which user is in effect, for every command line, every file and every   *)
(* replacement of it.                                                      *)
(***************************************************************************)
EXTENDS ParseNetrcProofs

(* Which file was opened, and who has seen it. *)
OpenInv ==
    /\ step \in BeforeOpen => opened = <<>>
    /\ step \in {"parse", "match"} => opened # <<>>
    /\ opened # <<>> => cli = "Config"
    /\ step = "match" => parse = "parsed"
    /\ step \in Ending /\ cli = "Config" /\ result \in {"Ok"} \cup NoMatch =>
         opened # <<>> /\ parse = "parsed"

(* What a command line without a host name has to show. *)
ScreenInv ==
    /\ cli = "ProcessingIsComplete" => out \in {<<"help">>, <<"version">>}
    /\ cli = "ProcessingIsComplete" => step \in {"args"} \cup Ending
    /\ cli \notin {"ProcessingIsComplete", "Config"} => out = <<>>
    /\ step \in Ending /\ cli # "Config" =>
         \/ cli = "ProcessingIsComplete" /\ result = "Ok"
         \/ cli # "ProcessingIsComplete" /\ result \in {"panic", "BadArgs", "IoError"}

LookupInv == OpenInv /\ ScreenInv

LEMMA LookupInit == Init => LookupInv
<1> SUFFICES ASSUME Init PROVE LookupInv
  OBVIOUS
<1>1. PICK s \in Situations : CliInit(s.args, s.outOk) /\ path = s.path
  BY DEF Init
<1> QED
  BY <1>1 DEF Init, CliInit, LookupInv, OpenInv, ScreenInv, Ending

(* run_app returns, what it wrote being what it had to. *)
LEMMA FinishShows ==
    ASSUME LookupInv, NEW r, Finish(r), UNCHANGED <<path, cli>>,
           cli = "Config" => \/ r \notin {"Ok"} \cup NoMatch
                             \/ step = "match" /\ UNCHANGED parse,
           cli # "Config" => UNCHANGED out,
           cli = "ProcessingIsComplete" => r = "Ok",
           cli \notin {"Config", "ProcessingIsComplete"} => r \in {"panic", "BadArgs", "IoError"}
    PROVE  LookupInv'
<1>1. OpenInv'
  BY DEF LookupInv, OpenInv, Finish, BeforeOpen, Ending, NoMatch
<1>2. ScreenInv'
  BY DEF LookupInv, ScreenInv, Finish, Ending
<1> QED
  BY <1>1, <1>2 DEF LookupInv

LEMMA CommandLineShows ==
    ASSUME LookupInv, ParseArgs
    PROVE  LookupInv'
<1>1. /\ step = "args" /\ cli \in {"enter", "loop", "rest"}
      /\ UNCHANGED <<step, opened, path, result, parse>>
      /\ \/ UNCHANGED out /\ cli' # "ProcessingIsComplete"
         \/ cli' = "ProcessingIsComplete" /\ out' \in {Append(out, "help"), Append(out, "version")}
  BY CliNextPrints DEF ParseArgs, parserVars, fileVars, runVars
<1>2. out = <<>> /\ opened = <<>>
  BY <1>1 DEF LookupInv, OpenInv, ScreenInv, BeforeOpen
<1>3. cli' = "ProcessingIsComplete" => out' \in {<<"help">>, <<"version">>}
  BY <1>1, <1>2
<1> QED
  BY <1>1, <1>2, <1>3 DEF LookupInv, OpenInv, ScreenInv, BeforeOpen, Ending

LEMMA LookupStep ==
    ASSUME IInv, LookupInv, [UserNext]_userVars
    PROVE  LookupInv'
<1>0. /\ step \in AfterArgs => cli = "Config"
      /\ step = "start" => cli # "ProcessingIsComplete"
  BY DEF IInv, RunInv, Searched, LookupInv, ScreenInv, AfterArgs, Ending
<1>1. CASE CollectArgs
  <2>1. step = "start" /\ opened = <<>> /\ UNCHANGED <<cli, out, path, parse>>
    BY <1>1 DEF CollectArgs, cliVars, fileVars, parserVars, LookupInv, OpenInv, BeforeOpen
  <2>2. CASE Goto("args")
    BY <1>0, <2>1, <2>2 DEF Goto, LookupInv, OpenInv, ScreenInv, BeforeOpen, Ending
  <2>3. CASE Finish("panic")
    BY <1>0, <2>1, <2>3, FinishShows DEF NoMatch
  <2> QED
    BY <1>1, <2>2, <2>3 DEF CollectArgs
<1>2. CASE ParseArgs
  BY <1>2, CommandLineShows
<1>3. CASE ArgsParsed
  <2>1. step = "args" /\ cli \in CliResults /\ UNCHANGED <<cli, out, path, parse>>
    BY <1>3 DEF ArgsParsed, cliVars, fileVars, parserVars
  <2>2. CASE cli = "Config"
    BY <1>3, <2>1, <2>2 DEF ArgsParsed, Goto, LookupInv, OpenInv, ScreenInv, BeforeOpen, Ending
  <2>3. CASE cli = "ProcessingIsComplete"
    BY <1>3, <2>1, <2>3, FinishShows DEF ArgsParsed
  <2>4. CASE cli \in {"BadArgs", "IoError"}
    BY <1>3, <2>1, <2>4, FinishShows DEF ArgsParsed
  <2> QED
    BY <2>1, <2>2, <2>3, <2>4 DEF CliResults
<1>4. CASE FindHome \/ CheckExists \/ CheckIsFile \/ OpenFails
  <2>1. /\ step \in {"home", "exists", "is_file", "open"} /\ cli = "Config"
        /\ UNCHANGED <<cli, out, path, parse>>
        /\ \/ \E s \in {"exists", "is_file", "open"} : Goto(s)
           \/ \E r \in {"Msg", "IoErrorW"} : Finish(r)
    BY <1>0, <1>4 DEF FindHome, CheckExists, CheckIsFile, OpenFails, cliVars, fileVars, parserVars,
         AfterArgs
  <2>2. CASE \E s \in {"exists", "is_file", "open"} : Goto(s)
    BY <2>1, <2>2 DEF Goto, LookupInv, OpenInv, ScreenInv, BeforeOpen, Ending
  <2> QED
    BY <2>1, <2>2, FinishShows DEF NoMatch
<1>5. CASE Open
  <2>1. /\ step = "open" /\ step' = "parse" /\ opened' = <<path>> /\ cli = "Config"
        /\ UNCHANGED <<cli, out, path, parse, result>>
    BY <1>0, <1>5 DEF Open, cliVars, fileVars, AfterArgs
  <2> QED
    BY <2>1 DEF LookupInv, OpenInv, ScreenInv, BeforeOpen, Ending
<1>6. CASE Parse
  <2>1. step = "parse" /\ UNCHANGED <<cli, out, path, step, opened, result>>
    BY <1>6 DEF Parse, cliVars, fileVars, runVars
  <2> QED
    BY <2>1 DEF LookupInv, OpenInv, ScreenInv, BeforeOpen, Ending
<1>7. CASE Parsed
  <2>1. step = "parse" /\ cli = "Config" /\ UNCHANGED <<cli, out, path, parse>>
    BY <1>0, <1>7 DEF Parsed, cliVars, fileVars, parserVars, AfterArgs
  <2>2. CASE parse = "parsed"
    BY <1>7, <2>1, <2>2 DEF Parsed, Goto, LookupInv, OpenInv, ScreenInv, BeforeOpen, Ending
  <2>3. CASE parse # "parsed"
    BY <1>7, <2>1, <2>3, FinishShows DEF Parsed, NoMatch
  <2> QED
    BY <2>2, <2>3
<1>8. CASE TryNext
  <2>1. UNCHANGED <<cli, out, path, parse, step, opened, result>>
    BY <1>8 DEF TryNext, cliVars, fileVars, parserVars
  <2> QED
    BY <2>1 DEF LookupInv, OpenInv, ScreenInv
<1>9. CASE PrintLogin \/ NoneMatches
  <2>1. /\ step = "match" /\ cli = "Config" /\ UNCHANGED <<cli, path, parse>>
        /\ \E r : Finish(r)
    BY <1>0, <1>9 DEF PrintLogin, NoneMatches, cliVars, fileVars, parserVars, AfterArgs
  <2> QED
    BY <2>1, FinishShows
<1>10. CASE Exit
  <2>1. step = "main" /\ step' = "exited" /\ UNCHANGED <<cli, out, path, parse, opened, result>>
    BY <1>10 DEF Exit, cliVars, fileVars, parserVars
  <2> QED
    BY <2>1 DEF LookupInv, OpenInv, ScreenInv, BeforeOpen, Ending
<1>11. CASE Replace
  <2>1. UNCHANGED <<cli, out, parse, step, opened, result>>
    BY <1>11 DEF Replace, cliVars, parserVars, runVars
  <2> QED
    BY <2>1 DEF LookupInv, OpenInv, ScreenInv
<1>12. CASE UNCHANGED vars
  BY <1>12 DEF vars, cliVars, parserVars, fileVars, runVars, LookupInv, OpenInv, ScreenInv
<1> QED
  BY <1>1, <1>2, <1>3, <1>4, <1>5, <1>6, <1>7, <1>8, <1>9, <1>10, <1>11, <1>12
     DEF UserNext, Next, Program, TakeUsername, GiveUp, Request, userVars

----------------------------------------------------------------------------
(***************************************************************************)
(* The exit status is the reply.                                           *)
(***************************************************************************)

(* The query that a Config is. *)
LEMMA QueryType ==
    ASSUME IInv', cli' = "Config"
    PROVE  input_hostname' \in Arguments /\ (have_username' => input_username' \in Arguments)
<1>1. /\ args' \in Seq(Arguments) /\ index' \in {-1} \cup 0..NArgs' /\ NArgs' = Len(args')
      /\ index' = NArgs' - 2 /\ consumed' = 0..index' /\ input_hostname' = args'[NArgs']
  BY DEF IInv, CliInv, CliTypeOK, NArgs, NoGap, ArgAt
<1>2. \A i \in 1..NArgs' : args'[i] \in Arguments
  BY <1>1
<1>3. input_hostname' \in Arguments
  BY <1>1, <1>2
<1>4. ASSUME have_username' PROVE input_username' \in Arguments
  <2>1. PICK i \in consumed' : args'[i + 1] = input_username'
    BY <1>4 DEF IInv, CliInv, Understood, ArgAt
  <2> QED
    BY <1>1, <1>2, <2>1
<1> QED
  BY <1>3, <1>4

(* What the file declares is what run_app has searched. *)
LEMMA SearchedTheFile ==
    ASSUME IInv, ParsedAsDeclared, parse = "parsed"
    PROVE  /\ DOMAIN RecordsOf(opened[1]) = DOMAIN hosts
           /\ \A i \in DOMAIN hosts : RecordsOf(opened[1])[i] =
                  [host |-> hosts[i].host, login |-> hosts[i].mach.login]
BY DEF ParsedAsDeclared, Declared

Query ==
    [host |-> input_hostname, user |-> IF have_username THEN <<input_username>> ELSE <<>>]

LEMMA MatchesAlike ==
    ASSUME NEW h, NEW l
    PROVE  Lookup!Matches([host |-> h, login |-> l], Query)
             <=> h = input_hostname /\ (have_username => l = input_username)
<1>1. <<>> # <<input_username>> /\ (<<input_username>> = <<l>> <=> l = input_username)
  OBVIOUS
<1> QED
  BY <1>1 DEF Lookup!Matches, Query

LEMMA AnswerStep ==
    ASSUME IInv, LookupInv, ParsedAsDeclared, Exit, cli = "Config",
           result \in {"Ok"} \cup NoMatch
    PROVE  [status |-> status', out |-> out'] \in Lookup!Answers(RecordsOf(opened[1]), Query)
<1> DEFINE R == RecordsOf(opened[1])
<1>1. step = "main" /\ UNCHANGED out /\ status' = ExitStatus(result)
  BY DEF Exit, cliVars
<1>2. Answered(result) /\ parse = "parsed"
  BY <1>1 DEF IInv, RunInv, Searched, LookupInv, OpenInv, Ending
<1>3. DOMAIN R = DOMAIN hosts
  BY <1>2, SearchedTheFile
<1>4. \A i \in DOMAIN hosts : R[i].login = hosts[i].mach.login
  <2>1. \A i \in DOMAIN hosts : R[i] = [host |-> hosts[i].host, login |-> hosts[i].mach.login]
    BY <1>2, SearchedTheFile
  <2>2. ASSUME NEW i \in DOMAIN hosts PROVE R[i].login = hosts[i].mach.login
    <3>1. R[i] = [host |-> hosts[i].host, login |-> hosts[i].mach.login]
      BY <2>1
    <3> HIDE DEF R
    <3> QED
      BY <3>1
  <2> QED
    BY <2>2
<1>5. \A i \in DOMAIN hosts : Lookup!Matches(R[i], Query) <=> RecordMatches(i)
  BY <1>2, SearchedTheFile, MatchesAlike DEF RecordMatches
<1>6. DOMAIN hosts = 1..Len(hosts) /\ Len(hosts) \in Nat
  BY DEF IInv, ParserInv, ParserTypeOK
<1> HIDE DEF R
<1>7. CASE result = "Ok"
  <2>1. PICK i \in DOMAIN hosts :
             /\ RecordMatches(i)
             /\ \A j \in 1..(i - 1) : ~RecordMatches(j)
             /\ out = <<hosts[i].mach.login>>
    BY <1>2, <1>7 DEF Answered
  <2>2. Lookup!Found(R, Query, i) /\ \E k \in DOMAIN R : Lookup!Matches(R[k], Query)
    <3>1. \A j \in 1..(i - 1) : j \in DOMAIN hosts
      BY <1>6
    <3> QED
      BY <1>3, <1>5, <2>1, <3>1 DEF Lookup!Found
  <2>3. status' = 0 /\ out' = <<R[i].login>>
    BY <1>1, <1>4, <1>7, <2>1 DEF ExitStatus, NoMatch
  <2> QED
    BY <1>3, <2>2, <2>3 DEF Lookup!Answers, R
<1>8. CASE result # "Ok"
  <2>1. out = <<>> /\ status' = 1 /\ \A i \in DOMAIN hosts : ~RecordMatches(i)
    BY <1>1, <1>2, <1>8 DEF Answered, ExitStatus, NoMatch
  <2>2. ~\E k \in DOMAIN R : Lookup!Matches(R[k], Query)
    BY <1>3, <1>5, <2>1
  <2> QED
    BY <1>1, <2>1, <2>2 DEF Lookup!Answers, R
<1> QED
  BY <1>7, <1>8

LEMMA ExitReplies ==
    ASSUME IInv, LookupInv, ParsedAsDeclared, Exit
    PROVE  Lookup!Next
<1>1. /\ step = "main" /\ status = -1 /\ status' = ExitStatus(result)
      /\ UNCHANGED <<cli, have_username, input_username, input_hostname, out, path, opened>>
  BY DEF Exit, cliVars, loopVars, fileVars, IInv, RunInv, Reported
<1>2. status' # -1
  BY <1>1, MessageType
<1>3. result \in {"none", "Ok", "panic"} \cup CliErrors
  BY DEF IInv, RunInv, RunTypes
<1>4. CASE cli = "Config" /\ result \in {"Ok"} \cup NoMatch
  <2>1. opened # <<>>
    BY <1>1, <1>4 DEF LookupInv, OpenInv, Ending
  <2>2. [status |-> status', out |-> out'] \in Lookup!Answers(RecordsOf(opened[1]), Query)
    BY <1>4, AnswerStep
  <2>3. Lookup!Answer
    BY <1>1, <1>2, <1>4, <2>1, <2>2 DEF Lookup!Answer, Query
  <2> QED
    BY <1>1, <2>3 DEF Lookup!Next, Lookup!Reply
<1>5. CASE cli = "ProcessingIsComplete"
  <2>1. status' = 0 /\ out' \in {<<"help">>, <<"version">>}
    BY <1>1, <1>5 DEF LookupInv, ScreenInv, Ending, ExitStatus, NoMatch
  <2>2. Lookup!Show
    BY <1>1, <1>2, <1>5, <2>1 DEF Lookup!Show
  <2> QED
    BY <1>1, <2>2 DEF Lookup!Next, Lookup!Reply
<1>6. CASE ~(cli = "Config" /\ result \in {"Ok"} \cup NoMatch) /\ cli # "ProcessingIsComplete"
  <2>1. out' = <<>> /\ result \notin {"Ok"} \cup NoMatch
    BY <1>1, <1>6 DEF LookupInv, ScreenInv, Ending, IInv, RunInv, Searched, Answered, NoMatch
  <2>2. status' \in {2, 101}
    BY <1>1, <2>1 DEF ExitStatus
  <2>3. Lookup!GiveUp
    BY <1>1, <1>2, <2>1, <2>2 DEF Lookup!GiveUp
  <2> QED
    BY <1>1, <2>3 DEF Lookup!Next, Lookup!Reply
<1> QED
  BY <1>4, <1>5, <1>6

LEMMA LookupSimulation ==
    ASSUME IInv, IInv', LookupInv, LookupInv', ParsedAsDeclared, [UserNext]_userVars
    PROVE  [Lookup!Next]_(Lookup!vars)
<1>1. CASE Exit
  BY <1>1, ExitReplies
<1>2. CASE ParseArgs
  <2>1. /\ step = "args" /\ cli \in {"enter", "loop", "rest"}
        /\ UNCHANGED <<step, opened, path, status>>
    BY <1>2, CliNextPrints DEF ParseArgs, fileVars, runVars
  <2>2. status = -1
    BY <2>1 DEF IInv, RunInv, Reported
  <2>3. CASE cli' = "Config"
    <3>1. input_hostname' \in Arguments /\ (have_username' => input_username' \in Arguments)
      BY <2>3, QueryType
    <3>2. Query' \in [host : Arguments, user : {<<>>} \cup {<<a>> : a \in Arguments}]
      BY <3>1 DEF Query
    <3>3. Lookup!Ask
      BY <2>1, <2>2, <2>3, <3>2 DEF Lookup!Ask, Query
    <3> QED
      BY <2>1, <2>2, <3>3 DEF Lookup!Next
  <2>4. CASE cli' # "Config"
    BY <2>1, <2>2, <2>4 DEF Lookup!vars
  <2> QED
    BY <2>3, <2>4
<1>3. CASE Open
  <2>1. /\ step = "open" /\ opened' = <<path>>
        /\ UNCHANGED <<cli, have_username, input_username, input_hostname, path, status>>
    BY <1>3 DEF Open, cliVars, loopVars, fileVars
  <2>2. status = -1 /\ cli = "Config" /\ opened = <<>>
    BY <2>1 DEF IInv, RunInv, Reported, Searched, AfterArgs, LookupInv, OpenInv, BeforeOpen
  <2>3. Lookup!Look
    BY <2>1, <2>2 DEF Lookup!Look
  <2> QED
    BY <2>2, <2>3 DEF Lookup!Next
<1>4. CASE Replace
  <2>1. UNCHANGED <<cli, have_username, input_username, input_hostname, out, opened, status>>
    BY <1>4 DEF Replace, cliVars, loopVars, runVars
  <2>2. RecordsOf(path)' \in Seq(Records)
    <3>1. path' \in Paths /\ RecordsOf(path)' = RecordsOf(path')
      BY DEF IInv, RunInv, RunTypes, RecordsOf, IsPlain
    <3> DEFINE p == path'
    <3>2. p \in Paths /\ RecordsOf(path)' = RecordsOf(p)
      BY <3>1
    <3> HIDE DEF p
    <3> QED
      BY <3>2, RecordsOfType
  <2>3. Lookup!Replace
    BY <2>1, <2>2 DEF Lookup!Replace
  <2> QED
    BY <2>3 DEF Lookup!Next
<1>5. CASE \/ CollectArgs \/ ArgsParsed \/ FindHome \/ CheckExists \/ CheckIsFile \/ OpenFails
           \/ Parse \/ Parsed \/ TryNext \/ PrintLogin \/ NoneMatches
  <2>1. /\ step \notin {"exited"}
        /\ UNCHANGED <<cli, have_username, input_username, input_hostname, path, opened, status>>
    BY <1>5 DEF CollectArgs, ArgsParsed, FindHome, CheckExists, CheckIsFile, OpenFails, Parse,
         Parsed, TryNext, PrintLogin, NoneMatches, Goto, Finish, cliVars, loopVars, fileVars, runVars
  <2>2. status = -1
    BY <2>1 DEF IInv, RunInv, Reported
  <2> QED
    BY <2>1, <2>2 DEF Lookup!vars
<1>6. CASE UNCHANGED vars
  BY <1>6 DEF vars, cliVars, loopVars, fileVars, runVars, Lookup!vars
<1> QED
  BY <1>1, <1>2, <1>3, <1>4, <1>5, <1>6
     DEF UserNext, Next, Program, TakeUsername, GiveUp, Request, userVars

LEMMA LookupInitially == Init => Lookup!Init
<1> SUFFICES ASSUME Init PROVE Lookup!Init
  OBVIOUS
<1>1. RecordsOf(path) \in Seq(Records)
  BY InitInv, RecordsOfType DEF IInv, RunInv, RunTypes
<1> QED
  BY <1>1 DEF Init, CliInit, Lookup!Init

LEMMA LookupInvariant == UserSpec => []LookupInv
<1>1. UserInit => LookupInv
  BY LookupInit DEF UserInit
<1>2. IInv /\ LookupInv /\ [UserNext]_userVars => LookupInv'
  BY LookupStep
<1> QED
  BY <1>1, <1>2, Invariant, PTL DEF UserSpec

(* parse-netrc implements the atomic lookup of NetrcLookup, its safety     *)
(* part: whatever becomes of ~/.netrc while it runs, it answers once, and  *)
(* as grep(1) does for the records of the one file that it has opened;     *)
(* unless the cursor leaves a keyword of a word that is not ASCII.         *)
THEOREM AtomicLookup ==
    ASSUME NoKeywordLeft
    PROVE  UserSpec => Lookup!Init /\ [][Lookup!Next]_(Lookup!vars)
<1>1. UserInit => Lookup!Init
  BY LookupInitially DEF UserInit
<1>2. /\ IInv /\ IInv' /\ LookupInv /\ LookupInv' /\ ParsedAsDeclared
      /\ [UserNext]_userVars
      => [Lookup!Next]_(Lookup!vars)
  BY LookupSimulation
<1> QED
  BY <1>1, <1>2, Invariant, LookupInvariant, RecordsAreTheDeclared, PTL DEF UserSpec

----------------------------------------------------------------------------
(***************************************************************************)
(* The files that get no answer.                                           *)
(***************************************************************************)

(* Once the file is open only the library or standard output can fail. *)
PlainInv ==
    step \in Ending /\ opened # <<>> /\ outOk =>
        result \in {"Ok"} \cup NoMatch \/ parse \in {"Io", "Parse", "panic"}

LEMMA PlainStep ==
    ASSUME IInv, LookupInv, PlainInv, [UserNext]_userVars
    PROVE  PlainInv'
<1>1. CASE ParseArgs \/ Parse \/ TryNext \/ Open
  <2>1. step' \notin Ending
    BY <1>1 DEF ParseArgs, Parse, TryNext, Open, runVars, Ending
  <2> QED
    BY <2>1 DEF PlainInv
<1>2. CASE CollectArgs \/ ArgsParsed \/ FindHome \/ CheckExists \/ CheckIsFile \/ OpenFails
  <2>1. step \in BeforeOpen /\ UNCHANGED opened
    BY <1>2 DEF CollectArgs, ArgsParsed, FindHome, CheckExists, CheckIsFile, OpenFails, Goto, Finish,
         BeforeOpen
  <2> QED
    BY <2>1 DEF LookupInv, OpenInv, PlainInv
<1>3. CASE Parsed
  <2>1. parse \in ParseResults /\ UNCHANGED <<parse, outOk>>
    BY <1>3 DEF Parsed, parserVars, cliVars
  <2>2. CASE parse = "parsed"
    BY <1>3, <2>2 DEF Parsed, Goto, PlainInv, Ending
  <2>3. CASE parse # "parsed"
    BY <2>1, <2>3 DEF ParseResults, PlainInv
  <2> QED
    BY <2>2, <2>3
<1>4. CASE PrintLogin
  <2>1. UNCHANGED outOk /\ (outOk => Finish("Ok"))
    BY <1>4 DEF PrintLogin
  <2> QED
    BY <2>1 DEF PlainInv, Finish
<1>5. CASE NoneMatches
  BY <1>5 DEF NoneMatches, Finish, NoMatch, PlainInv
<1>6. CASE Exit
  BY <1>6 DEF Exit, cliVars, parserVars, PlainInv, Ending
<1>7. CASE Replace \/ UNCHANGED vars
  BY <1>7 DEF Replace, vars, cliVars, parserVars, runVars, PlainInv
<1> QED
  BY <1>1, <1>2, <1>3, <1>4, <1>5, <1>6, <1>7
     DEF UserNext, Next, Program, TakeUsername, GiveUp, Request, userVars

(* A plain file gets an answer, with 0 or 1: the library parses it, and    *)
(* nothing that parse-netrc does with the command line, the path and the   *)
(* records ends in another status, unless its output cannot be written.    *)
THEOREM PlainFilesAreAnswered == UserSpec => []PlainFileIsAnswered
<1>1. UserInit => PlainInv
  BY DEF UserInit, Init, PlainInv, Ending
<1>2. IInv /\ LookupInv /\ PlainInv /\ [UserNext]_userVars => PlainInv'
  BY PlainStep
<1>3. IInv /\ PlainInv /\ FileInv => PlainFileIsAnswered
  <2> SUFFICES ASSUME IInv, PlainInv, FileInv, step = "exited", opened # <<>>, outOk, IsPlain(opened[1])
               PROVE  status \in {0, 1}
    BY DEF PlainFileIsAnswered
  <2>1. parse \notin {"Io", "Parse", "panic"}
    BY ReadableIsParsed DEF Readable
  <2>2. result \in {"Ok"} \cup NoMatch
    BY <2>1 DEF PlainInv, Ending
  <2> QED
    BY <2>2 DEF IInv, RunInv, Reported, ExitStatus, NoMatch
<1> QED
  BY <1>1, <1>2, <1>3, Invariant, LookupInvariant, FileInvariant, PTL DEF UserSpec

----------------------------------------------------------------------------
(***************************************************************************)
(* ads-github-cache.                                                       *)
(***************************************************************************)

(* The command line that asks for the user's name. *)
Asks == args = <<PROG, ApiHost>>

CallerInv ==
    /\ caller \in {"starting", "running", "failed"}
    /\ Asks => cli # "ProcessingIsComplete"
    /\ caller = "running" => Asks /\ status = 0 /\ out = <<GITHUB_USERNAME>>

LEMMA AskIsUnderstood ==
    ASSUME IInv, Asks, cli = "Config"
    PROVE  ~have_username /\ input_hostname = ApiHost
<1>1. NArgs = 2 /\ args[2] = ApiHost
  BY DEF Asks, NArgs
<1>2. consumed = 0..0 /\ input_hostname = args[2]
  BY <1>1, CliInvImplies DEF IInv, EveryArgumentCounts, ArgAt
<1>3. ~\E i \in consumed : IsUserValue(i)
  BY <1>2 DEF IsUserValue
<1> QED
  BY <1>1, <1>2, <1>3, CliInvImplies DEF IInv, UserFollowsOption

(* It shows no help. *)
LEMMA AskShowsNothing ==
    ASSUME IInv, CallerInv, Asks, ParseArgs
    PROVE  cli' # "ProcessingIsComplete"
<1>1. NArgs = 2 /\ args[2] = ApiHost /\ idx \in 0..2
  BY DEF Asks, NArgs, IInv, CliInv, CliTypeOK
<1>2. ApiHost \notin HelpOpts \cup VersionOpts
  BY ApiHostAssumption DEF KnownOpts
<1>3. ~Sees(HelpOpts) /\ ~Sees(VersionOpts)
  BY <1>1, <1>2 DEF Sees, InLoop, ArgAt
<1> QED
  BY <1>3, CliNextPrints DEF CallerInv, ParseArgs

(* What it is once the program has ended stays what it is. *)
LEMMA CallerStep ==
    ASSUME IInv, LookupInv, CallerInv, [UserNext]_userVars
    PROVE  CallerInv'
<1>1. CASE TakeUsername
  <2>1. Starting /\ out # <<>> /\ GITHUB_USERNAME' = out[1] /\ caller' = "running"
        /\ UNCHANGED <<args, cli, status, out>>
    BY <1>1 DEF TakeUsername, NothingWritten, vars, cliVars, runVars
  <2>2. Asks /\ cli # "ProcessingIsComplete"
    BY <2>1 DEF Starting, Asks, CallerInv
  <2>3. step = "exited" /\ cli = "Config"
    BY <2>1, <2>2 DEF Starting, IInv, RunInv, Reported, LookupInv, ScreenInv
  <2>4. result = "Ok" /\ \E i \in DOMAIN hosts : out = <<hosts[i].mach.login>>
    BY <2>1, <2>3 DEF IInv, RunInv, Searched, Answered, Ending
  <2>5. status = 0
    BY <2>3, <2>4 DEF IInv, RunInv, Reported, ExitStatus, NoMatch
  <2>6. out = <<out[1]>>
    BY <2>4
  <2> QED
    BY <2>1, <2>2, <2>5, <2>6 DEF CallerInv, Asks
<1>2. CASE GiveUp \/ Request
  BY <1>2 DEF GiveUp, Request, Starting, vars, cliVars, runVars, CallerInv, Asks
<1>3. CASE Next /\ UNCHANGED callerVars
  <2>1. UNCHANGED <<caller, GITHUB_USERNAME, args>>
    BY <1>3, CliNextPrints DEF callerVars, Next, Program, CollectArgs, ParseArgs, ArgsParsed, FindHome,
         CheckExists, CheckIsFile, Open, OpenFails, Parse, Parsed, TryNext, PrintLogin, NoneMatches,
         Exit, Replace, cliVars
  <2>2. ~ParseArgs => UNCHANGED cli
    BY <1>3 DEF Next, Program, CollectArgs, ArgsParsed, FindHome,
         CheckExists, CheckIsFile, Open, OpenFails, Parse, Parsed, TryNext, PrintLogin, NoneMatches,
         Exit, Replace, cliVars
  <2>3. Asks' => cli' # "ProcessingIsComplete"
    BY <2>1, <2>2, AskShowsNothing DEF CallerInv, Asks
  <2>4. step = "exited" => UNCHANGED <<status, out>>
    BY <1>3 DEF Next, Program, CollectArgs, ParseArgs, ArgsParsed, FindHome,
         CheckExists, CheckIsFile, Open, OpenFails, Parse, Parsed, TryNext, PrintLogin, NoneMatches,
         Exit, Replace, cliVars, runVars
  <2>5. status = 0 => step = "exited"
    BY DEF IInv, RunInv, Reported
  <2> QED
    BY <2>1, <2>3, <2>4, <2>5 DEF CallerInv, Asks
<1>4. CASE UNCHANGED userVars
  BY <1>4 DEF userVars, callerVars, vars, cliVars, runVars, CallerInv, Asks
<1> QED
  BY <1>1, <1>2, <1>3, <1>4 DEF UserNext

(* Which record of the file that was opened gave the name. *)
NameFrom(records, i) ==
    /\ IsFirstOf(records, i)
    /\ GITHUB_USERNAME = records[i].login

LEMMA NameIsFirst ==
    ASSUME IInv, LookupInv, CallerInv, ParsedAsDeclared, caller = "running"
    PROVE  opened # <<>> /\ \E i \in DOMAIN RecordsOf(opened[1]) : NameFrom(RecordsOf(opened[1]), i)
<1> DEFINE R == RecordsOf(opened[1])
<1>1. Asks /\ status = 0 /\ out = <<GITHUB_USERNAME>>
  BY DEF CallerInv
<1>2. step \in Ending /\ result = "Ok" /\ cli = "Config"
  BY <1>1 DEF IInv, RunInv, Reported, ExitStatus, NoMatch, Ending, LookupInv, ScreenInv, CallerInv
<1>3. parse = "parsed" /\ opened # <<>>
  BY <1>2 DEF LookupInv, OpenInv
<1>4. PICK i \in DOMAIN hosts :
        /\ hosts[i].host = ApiHost
        /\ \A j \in 1..(i - 1) : hosts[j].host # ApiHost
        /\ GITHUB_USERNAME = hosts[i].mach.login
  <2>1. ~have_username /\ input_hostname = ApiHost
    BY <1>1, <1>2, AskIsUnderstood
  <2>2. Answered("Ok")
    BY <1>2 DEF IInv, RunInv, Searched
  <2> QED
    BY <1>1, <2>1, <2>2 DEF Answered, RecordMatches
<1>5. DOMAIN R = DOMAIN hosts
  BY <1>3, SearchedTheFile
<1>6. ASSUME NEW j \in DOMAIN hosts
      PROVE  R[j].host = hosts[j].host /\ R[j].login = hosts[j].mach.login
  <2>1. R[j] = [host |-> hosts[j].host, login |-> hosts[j].mach.login]
    BY <1>3, SearchedTheFile
  <2> HIDE DEF R
  <2> QED
    BY <2>1
<1>7. DOMAIN hosts = 1..Len(hosts) /\ Len(hosts) \in Nat
  BY DEF IInv, ParserInv, ParserTypeOK
<1> HIDE DEF R
<1>8. NameFrom(R, i)
  BY <1>4, <1>5, <1>6, <1>7 DEF NameFrom, IsFirstOf
<1> QED
  BY <1>3, <1>5, <1>8 DEF R

(* As long as nobody replaces ~/.netrc it is the file that was opened, and *)
(* every directory holds the data of its own user.                         *)
SameFile == replaced = 0 => opened \in {<<>>, <<path>>}
Unmixed == replaced = 0 => OwnCache

LEMMA SameFileStep ==
    ASSUME IInv, SameFile, [UserNext]_userVars
    PROVE  SameFile'
<1>1. replaced \in Nat
  BY DEF IInv, RunInv, RunTypes
<1>2. CASE Replace
  BY <1>1, <1>2 DEF Replace, SameFile
<1>3. CASE Open
  BY <1>3 DEF Open, fileVars, SameFile
<1>4. CASE UNCHANGED <<opened, path, replaced>>
  BY <1>4 DEF SameFile
<1>5. [UserNext]_userVars => Replace \/ Open \/ UNCHANGED <<opened, path, replaced>>
  BY DEF UserNext, TakeUsername, GiveUp, Request, userVars, vars, Next, Program, CollectArgs, ParseArgs,
     ArgsParsed, FindHome, CheckExists, CheckIsFile, OpenFails, Parse, Parsed, TryNext, PrintLogin,
     NoneMatches, Exit, Goto, Finish, fileVars, runVars
<1> QED
  BY <1>2, <1>3, <1>4, <1>5

(* curl and parse-netrc take the same record of the same file. *)
LEMMA RequestStep ==
    ASSUME IInv, LookupInv, CallerInv, ParsedAsDeclared, SameFile, Unmixed, Request
    PROVE  Unmixed'
<1> SUFFICES ASSUME replaced = 0, NEW s \in stored', s \notin stored PROVE s.dir = s.owner
  BY DEF Request, Unmixed, OwnCache, vars, fileVars
<1> DEFINE R == RecordsOf(path)
<1>1. PICK k \in DOMAIN R :
        /\ IsFirstOf(R, k)
        /\ stored' = stored \cup {[dir |-> GITHUB_USERNAME, owner |-> R[k].login]}
  BY DEF Request
<1>2. opened = <<path>> /\ \E i \in DOMAIN RecordsOf(opened[1]) : NameFrom(RecordsOf(opened[1]), i)
  BY NameIsFirst DEF Request, SameFile
<1>3. PICK i \in DOMAIN R : NameFrom(R, i)
  BY <1>2
<1>4. R \in Seq(Records)
  BY RecordsOfType DEF IInv, RunInv, RunTypes
<1> HIDE DEF R
<1>5. k = i
  BY <1>1, <1>3, <1>4 DEF NameFrom, IsFirstOf
<1>6. s = [dir |-> GITHUB_USERNAME, owner |-> R[k].login]
  BY <1>1
<1> QED
  BY <1>3, <1>5, <1>6 DEF NameFrom

LEMMA UnmixedStep ==
    ASSUME IInv, LookupInv, CallerInv, ParsedAsDeclared, SameFile, Unmixed, [UserNext]_userVars
    PROVE  Unmixed'
<1>1. replaced \in Nat
  BY DEF IInv, RunInv, RunTypes
<1>2. CASE Request
  BY <1>2, RequestStep
<1>3. CASE Replace
  BY <1>1, <1>3 DEF Replace, Unmixed
<1>4. CASE UNCHANGED <<stored, replaced>>
  BY <1>4 DEF Unmixed, OwnCache
<1>5. [UserNext]_userVars => Request \/ Replace \/ UNCHANGED <<stored, replaced>>
  BY DEF UserNext, TakeUsername, GiveUp, userVars, callerVars, vars, Next, Program, CollectArgs,
     ParseArgs, ArgsParsed, FindHome, CheckExists, CheckIsFile, Open, OpenFails, Parse, Parsed, TryNext,
     PrintLogin, NoneMatches, Exit, fileVars
<1> QED
  BY <1>2, <1>3, <1>4, <1>5

(* The name that ads-github-cache works under is the login of the first    *)
(* record that some one file declares, whatever files were moved to        *)
(* ~/.netrc before and after; and without such a move it stores no data    *)
(* under another name than that of the user curl authenticates as; unless  *)
(* the cursor leaves a keyword of a word that is not ASCII.                *)
THEOREM UserIsInEffect ==
    ASSUME NoKeywordLeft
    PROVE  UserSpec => []UserInEffect
<1>1. UserInit => CallerInv /\ SameFile /\ Unmixed
  BY DEF UserInit, Init, CliInit, CallerInv, SameFile, Unmixed, OwnCache
<1>2. IInv /\ LookupInv /\ CallerInv /\ [UserNext]_userVars => CallerInv'
  BY CallerStep
<1>3. IInv /\ SameFile /\ [UserNext]_userVars => SameFile'
  BY SameFileStep
<1>4. IInv /\ LookupInv /\ CallerInv /\ ParsedAsDeclared /\ SameFile /\ Unmixed
      /\ [UserNext]_userVars => Unmixed'
  BY UnmixedStep
<1>5. IInv /\ LookupInv /\ CallerInv /\ ParsedAsDeclared /\ Unmixed => UserInEffect
  BY NameIsFirst DEF UserInEffect, NameFrom, Unmixed
<1> QED
  BY <1>1, <1>2, <1>3, <1>4, <1>5, Invariant, LookupInvariant, RecordsAreTheDeclared, PTL
     DEF UserSpec
=============================================================================
