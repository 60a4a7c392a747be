-------------------------- MODULE ParseNetrcProofs --------------------------
(***************************************************************************)
(* What holds of parse-netrc, and of ads-github-cache when it asks for the *)
(* user's name, for every command line and every file.  The invariants of  *)
(* the command line and of the library are those of CommandLineProofs and  *)
(* NetrcParserProofs; RunInv is what run_app and main add to them.         *)
(***************************************************************************)
EXTENDS InEffectUser, CommandLineProofs, NetrcParserProofs

Ending == {"main", "exited"}
BeforeOpen == {"start", "args", "home", "exists", "is_file", "open"}
AfterArgs == {"home", "exists", "is_file", "open", "parse", "match"}

RunTypes ==
    /\ step \in {"start", "args"} \cup AfterArgs \cup Ending
    /\ replaced \in 0..MaxReplaced
    /\ Len(opened) <= 1
    /\ one \in 1..(Len(hosts) + 1)
    /\ result \in {"none", "Ok", "panic"} \cup CliErrors
    /\ said \in {"nothing", "info", "error", "usage", "panic"}
    /\ status \in {-1, 0, 1, 2, 101}
    /\ path \in Paths

(* What run_app has to show for the result it is about to return. *)
Answered(r) ==
    /\ r = "Ok" =>
         \E i \in DOMAIN hosts :
             /\ RecordMatches(i)
             /\ \A j \in 1..(i - 1) : ~RecordMatches(j)
             /\ out = <<hosts[i].mach.login>>
    /\ r # "Ok" => out = <<>>
    /\ r \in NoMatch => \A i \in DOMAIN hosts : ~RecordMatches(i)

Searched ==
    /\ step \in {"start", "args"} => out = <<>> \/ cli = "ProcessingIsComplete"
    /\ step \in AfterArgs => cli = "Config" /\ out = <<>>
    /\ step = "match" => \A j \in 1..(one - 1) : ~RecordMatches(j)
    /\ step \notin Ending \cup {"match"} => one = 1
    /\ step \in Ending /\ cli = "Config" => Answered(result)

Reported ==
    /\ step # "exited" => status = -1
    /\ step = "exited" => status = ExitStatus(result) /\ said = Message(result)

RunInv == RunTypes /\ Searched /\ Reported
IInv == CliInv /\ ParserInv /\ RunInv

LEMMA MessageType ==
    ASSUME NEW r
    PROVE  /\ Message(r) \in {"nothing", "info", "error", "usage", "panic"}
           /\ ExitStatus(r) \in {0, 1, 2, 101}
BY DEF Message, pr_info, BE_VERBOSE, ExitStatus

LEMMA InitInv == Init => IInv
<1> SUFFICES ASSUME Init PROVE IInv
  OBVIOUS
<1>1. PICK s \in Situations : CliInit(s.args, s.outOk) /\ path = s.path
  BY DEF Init
<1>2. CliInv
  BY <1>1, SituationsAssumption, CliInitInv
<1>3. ParserInv
  BY ParserInitInv DEF Init
<1>4. RunTypes
  <2>1. hosts = <<>> /\ Len(hosts) = 0 /\ path \in Paths
    BY <1>1 DEF Init, ParserInit, Paths
  <2> QED
    BY <2>1, BoundAssumption DEF Init, RunTypes
<1>5. Searched
  BY <1>1 DEF Init, CliInit, Searched, AfterArgs, Ending
<1>6. Reported
  BY DEF Init, Reported
<1> QED
  BY <1>2, <1>3, <1>4, <1>5, <1>6 DEF IInv, RunInv

----------------------------------------------------------------------------
(***************************************************************************)
(* The steps of the program.                                               *)
(***************************************************************************)

(* What run_app looks at stays what it is. *)
LEMMA MatchesStay ==
    ASSUME UNCHANGED <<hosts, input_hostname, have_username, input_username>>
    PROVE  \A i : RecordMatches(i)' <=> RecordMatches(i)
BY DEF RecordMatches

LEMMA AnsweredStays ==
    ASSUME UNCHANGED <<cliVars, hosts>>, NEW r
    PROVE  Answered(r)' <=> Answered(r)
BY DEF Answered, RecordMatches, cliVars, loopVars

(* A step from one system call to the next. *)
LEMMA GotoKeeps ==
    ASSUME IInv, NEW s, Goto(s), UNCHANGED <<cliVars, parserVars, fileVars>>,
           \/ step = "start" /\ s = "args"
           \/ step = "args" /\ s = "home" /\ cli = "Config"
           \/ step \in AfterArgs \ {"match"} /\ s \in AfterArgs
    PROVE  RunInv'
<1>1. RunTypes'
  BY DEF IInv, RunInv, RunTypes, Goto, fileVars, parserVars, netrc, AfterArgs, Ending
<1>2. one = 1 /\ UNCHANGED <<one, cli, out>>
  BY DEF IInv, RunInv, Searched, Goto, cliVars, AfterArgs, Ending
<1>3. Searched'
  BY <1>2 DEF IInv, RunInv, Searched, Goto, AfterArgs, Ending
<1>4. Reported'
  BY DEF IInv, RunInv, Reported, Goto, AfterArgs
<1> QED
  BY <1>1, <1>3, <1>4 DEF RunInv

(* run_app returns. *)
LEMMA FinishKeeps ==
    ASSUME IInv, NEW r \in {"Ok", "panic"} \cup CliErrors, Finish(r), step \notin Ending,
           UNCHANGED <<hosts, fileVars>>, cli' = "Config" => Answered(r)'
    PROVE  RunInv'
<1>1. RunTypes'
  BY DEF IInv, RunInv, RunTypes, Finish, fileVars, Ending
<1>2. Searched'
  BY DEF Searched, Finish, AfterArgs, Ending
<1>3. Reported'
  BY DEF IInv, RunInv, Reported, Finish, Ending
<1> QED
  BY <1>1, <1>2, <1>3 DEF RunInv

LEMMA CollectArgsStep ==
    ASSUME IInv, CollectArgs
    PROVE  RunInv'
<1>1. step = "start" /\ UNCHANGED <<cliVars, parserVars, fileVars>>
  BY DEF CollectArgs
<1>2. CASE Goto("args")
  BY <1>1, <1>2, GotoKeeps
<1>3. CASE Finish("panic")
  <2>1. cli = "Config" => out = <<>>
    BY <1>1 DEF IInv, RunInv, Searched
  <2>2. cli' = "Config" => Answered("panic")'
    BY <1>1, <2>1 DEF Answered, NoMatch, cliVars
  <2> QED
    BY <1>1, <1>3, <2>2, FinishKeeps DEF Ending, parserVars, netrc
<1> QED
  BY <1>2, <1>3 DEF CollectArgs

LEMMA ParseArgsStep ==
    ASSUME IInv, ParseArgs
    PROVE  RunInv'
<1>1. step = "args" /\ CliNext /\ UNCHANGED <<parserVars, fileVars, runVars>>
  BY DEF ParseArgs
<1>2. cli \in {"enter", "loop", "rest"} /\ (UNCHANGED out \/ cli' = "ProcessingIsComplete")
  BY <1>1, CliNextPrints
<1>3. RunTypes'
  BY <1>1 DEF IInv, RunInv, RunTypes, parserVars, netrc, fileVars, runVars
<1>4. Searched'
  BY <1>1, <1>2 DEF IInv, RunInv, Searched, runVars, AfterArgs, Ending
<1>5. Reported'
  BY <1>1 DEF IInv, RunInv, Reported, runVars
<1> QED
  BY <1>3, <1>4, <1>5 DEF RunInv

LEMMA ArgsParsedStep ==
    ASSUME IInv, ArgsParsed
    PROVE  RunInv'
<1>1. step = "args" /\ cli \in CliResults /\ UNCHANGED <<cliVars, parserVars, fileVars, cli, hosts>>
  BY DEF ArgsParsed, cliVars, parserVars, netrc
<1>2. CASE cli = "Config"
  BY <1>1, <1>2, GotoKeeps DEF ArgsParsed
<1>3. CASE cli # "Config"
  <2>1. PICK r \in {"Ok"} \cup CliErrors : Finish(r)
    BY <1>1, <1>3 DEF ArgsParsed, CliResults, CliErrors
  <2> QED
    BY <1>1, <1>3, <2>1, FinishKeeps DEF Ending
<1> QED
  BY <1>2, <1>3

(* The errors that end run_app before it looks at a record. *)
LEMMA EarlyErrorKeeps ==
    ASSUME IInv, step \in AfterArgs, NEW r \in {"panic", "Msg", "IoErrorW", "NetrcError"}, Finish(r),
           UNCHANGED <<cliVars, parserVars, fileVars>>
    PROVE  RunInv'
<1>1. out' = <<>>
  BY DEF IInv, RunInv, Searched, cliVars
<1>2. Answered(r)'
  BY <1>1 DEF Answered, NoMatch
<1> QED
  BY <1>2, FinishKeeps DEF AfterArgs, Ending, CliErrors, parserVars, netrc

LEMMA FileTestStep ==
    ASSUME IInv, FindHome \/ CheckExists \/ CheckIsFile \/ OpenFails \/ Parsed
    PROVE  RunInv'
<1>1. /\ step \in AfterArgs \ {"match"}
      /\ UNCHANGED <<cliVars, parserVars, fileVars>>
      /\ \/ \E s \in AfterArgs : Goto(s)
         \/ \E r \in {"panic", "Msg", "IoErrorW", "NetrcError"} : Finish(r)
  BY DEF FindHome, CheckExists, CheckIsFile, OpenFails, Parsed, AfterArgs
<1> QED
  BY <1>1, GotoKeeps, EarlyErrorKeeps

LEMMA OpenStep ==
    ASSUME IInv, Open
    PROVE  RunInv' /\ ParserInv'
<1>1. /\ step = "open" /\ step' = "parse" /\ opened' = <<path>>
      /\ unread' = LinesOf(path)
      /\ UNCHANGED <<cliVars, fileVars, line, item, netrc, current, parse, one, result, said, status>>
  BY DEF Open
<1>2. ParserInv'
  BY <1>1, ParserInvOpens, PathsAssumption DEF IInv, RunInv, RunTypes
<1>3. RunTypes'
  <2>1. Len(opened') = 1
    BY <1>1
  <2> QED
    BY <1>1, <2>1 DEF IInv, RunInv, RunTypes, fileVars, netrc, AfterArgs
<1>4. Searched'
  BY <1>1 DEF IInv, RunInv, Searched, cliVars, AfterArgs, Ending
<1>5. Reported'
  BY <1>1 DEF IInv, RunInv, Reported
<1> QED
  BY <1>2, <1>3, <1>4, <1>5 DEF RunInv

LEMMA ParseStep ==
    ASSUME IInv, Parse
    PROVE  RunInv' /\ ParserInv'
<1>1. step = "parse" /\ ParserNext /\ UNCHANGED <<cliVars, fileVars, runVars>>
  BY DEF Parse
<1>2. ParserInv'
  BY <1>1, ParserNextInv DEF IInv
<1>3. one = 1 /\ one' = 1
  BY <1>1 DEF IInv, RunInv, Searched, Ending, runVars
<1>4. Len(hosts') \in Nat
  BY <1>2 DEF ParserInv, ParserTypeOK
<1>5. RunTypes'
  BY <1>1, <1>3, <1>4 DEF IInv, RunInv, RunTypes, fileVars, runVars
<1>6. Searched'
  BY <1>1, <1>3 DEF IInv, RunInv, Searched, runVars, cliVars, AfterArgs, Ending
<1>7. Reported'
  BY <1>1 DEF IInv, RunInv, Reported, runVars
<1> QED
  BY <1>2, <1>5, <1>6, <1>7 DEF RunInv

LEMMA TryNextStep ==
    ASSUME IInv, TryNext
    PROVE  RunInv'
<1>1. /\ step = "match" /\ one <= Len(hosts) /\ ~RecordMatches(one) /\ one' = one + 1
      /\ UNCHANGED <<cliVars, parserVars, fileVars, step, opened, result, said, status, hosts>>
  BY DEF TryNext, parserVars, netrc
<1>2. one \in Nat /\ Len(hosts) \in Nat
  BY DEF IInv, RunInv, RunTypes, ParserInv, ParserTypeOK
<1>3. \A i : RecordMatches(i)' <=> RecordMatches(i)
  BY <1>1, MatchesStay DEF cliVars, loopVars
<1>4. RunTypes'
  BY <1>1, <1>2 DEF IInv, RunInv, RunTypes, fileVars
<1>5. \A j \in 1..(one' - 1) : ~RecordMatches(j)'
  BY <1>1, <1>2, <1>3 DEF IInv, RunInv, Searched
<1>6. Searched'
  BY <1>1, <1>5 DEF IInv, RunInv, Searched, cliVars, AfterArgs, Ending
<1>7. Reported'
  BY <1>1 DEF IInv, RunInv, Reported
<1> QED
  BY <1>4, <1>6, <1>7 DEF RunInv

LEMMA SearchEndsStep ==
    ASSUME IInv, PrintLogin \/ NoneMatches
    PROVE  RunInv'
<1>1. /\ step = "match" /\ cli = "Config" /\ out = <<>>
      /\ \A j \in 1..(one - 1) : ~RecordMatches(j)
      /\ one \in 1..(Len(hosts) + 1) /\ Len(hosts) \in Nat /\ DOMAIN hosts = 1..Len(hosts)
  BY DEF PrintLogin, NoneMatches, IInv, RunInv, Searched, AfterArgs, RunTypes, ParserInv, ParserTypeOK
<1>2. UNCHANGED <<hosts, fileVars, input_hostname, have_username, input_username>>
  BY DEF PrintLogin, NoneMatches, parserVars, netrc, cliVars, loopVars
<1>3. \A i : RecordMatches(i)' <=> RecordMatches(i)
  BY <1>2, MatchesStay
<1>4. CASE PrintLogin /\ outOk
  <2>1. out' = <<hosts[one].mach.login>> /\ Finish("Ok") /\ RecordMatches(one) /\ one <= Len(hosts)
    BY <1>1, <1>4 DEF PrintLogin
  <2>2. Answered("Ok")'
    BY <1>1, <1>2, <1>3, <2>1 DEF Answered, NoMatch
  <2> QED
    BY <1>1, <1>2, <2>1, <2>2, FinishKeeps DEF Ending
<1>5. CASE PrintLogin /\ ~outOk
  <2>1. out' = <<>> /\ Finish("panic")
    BY <1>1, <1>5 DEF PrintLogin
  <2>2. Answered("panic")'
    BY <2>1 DEF Answered, NoMatch
  <2> QED
    BY <1>1, <1>2, <2>1, <2>2, FinishKeeps DEF Ending
<1>6. CASE NoneMatches
  <2>1. PICK r \in NoMatch : Finish(r)
    BY <1>6 DEF NoneMatches, NoMatch
  <2>2. out' = <<>> /\ one > Len(hosts)
    BY <1>1, <1>6 DEF NoneMatches, cliVars
  <2>3. Answered(r)'
    BY <1>1, <1>2, <1>3, <2>1, <2>2 DEF Answered, NoMatch
  <2> QED
    BY <1>1, <1>2, <2>1, <2>3, FinishKeeps DEF Ending, NoMatch, CliErrors
<1> QED
  BY <1>4, <1>5, <1>6

LEMMA ExitStep ==
    ASSUME IInv, Exit
    PROVE  RunInv'
<1>1. /\ step = "main" /\ step' = "exited" /\ status' = ExitStatus(result) /\ said' = Message(result)
      /\ UNCHANGED <<cliVars, fileVars, opened, one, result, hosts>>
  BY DEF Exit, parserVars, netrc
<1>2. RunTypes'
  BY <1>1, MessageType DEF IInv, RunInv, RunTypes, fileVars, Ending
<1>3. Searched'
  BY <1>1, AnsweredStays DEF IInv, RunInv, Searched, cliVars, AfterArgs, Ending
<1>4. Reported'
  <2>1. Message(result)' = Message(result) /\ ExitStatus(result)' = ExitStatus(result)
    BY <1>1 DEF Message, pr_info, BE_VERBOSE, ExitStatus, cliVars, loopVars
  <2> QED
    BY <1>1, <2>1 DEF Reported
<1> QED
  BY <1>2, <1>3, <1>4 DEF RunInv

LEMMA ReplaceStep ==
    ASSUME IInv, Replace
    PROVE  RunInv'
<1>1. /\ path' \in Later /\ replaced < MaxReplaced /\ replaced' = replaced + 1
      /\ UNCHANGED <<cliVars, parserVars, runVars, hosts>>
  BY DEF Replace, parserVars, netrc
<1>2. RunTypes'
  BY <1>1, BoundAssumption DEF Paths, IInv, RunInv, RunTypes, runVars
<1>3. Searched'
  BY <1>1, AnsweredStays, MatchesStay DEF IInv, RunInv, Searched, runVars, cliVars, loopVars
<1>4. Reported'
  BY <1>1 DEF IInv, RunInv, Reported, runVars, cliVars, loopVars, Message, pr_info, BE_VERBOSE, ExitStatus
<1> QED
  BY <1>2, <1>3, <1>4 DEF RunInv

LEMMA StutterStep ==
    ASSUME IInv, UNCHANGED vars
    PROVE  IInv'
<1>1. UNCHANGED <<cliVars, parserVars, fileVars, runVars, hosts>>
  BY DEF vars, parserVars, netrc
<1>2. RunTypes'
  BY <1>1 DEF IInv, RunInv, RunTypes, fileVars, runVars
<1>3. Searched'
  BY <1>1, AnsweredStays, MatchesStay DEF IInv, RunInv, Searched, runVars, cliVars, loopVars
<1>4. Reported'
  BY <1>1 DEF IInv, RunInv, Reported, runVars, cliVars, loopVars, Message, pr_info, BE_VERBOSE, ExitStatus
<1> QED
  BY <1>1, <1>2, <1>3, <1>4, CliInvStutters, ParserInvStutters DEF IInv, RunInv, cliVars

LEMMA NextInv == IInv /\ [UserNext]_userVars => IInv'
<1> SUFFICES ASSUME IInv, [UserNext]_userVars PROVE IInv'
  OBVIOUS
<1>1. CASE ParseArgs
  BY <1>1, ParseArgsStep, CliNextInv, ParserInvStutters DEF IInv, ParseArgs
<1>2. CASE Open \/ Parse
  BY <1>2, OpenStep, ParseStep, CliInvStutters DEF IInv, Open, Parse, cliVars
<1>3. CASE \/ CollectArgs \/ ArgsParsed \/ FindHome \/ CheckExists \/ CheckIsFile \/ OpenFails
           \/ Parsed \/ TryNext \/ PrintLogin \/ NoneMatches \/ Exit \/ Replace
  <2>1. UNCHANGED <<args, outOk, cli, loopVars, input_hostname, parserVars>>
    BY <1>3 DEF CollectArgs, ArgsParsed, FindHome, CheckExists, CheckIsFile, OpenFails, Parsed,
         TryNext, PrintLogin, NoneMatches, Exit, Replace, cliVars
  <2>2. CliInv' /\ ParserInv'
    BY <2>1, CliInvStutters, ParserInvStutters DEF IInv
  <2>3. RunInv'
    BY <1>3, CollectArgsStep, ArgsParsedStep, FileTestStep, TryNextStep, SearchEndsStep, ExitStep,
       ReplaceStep
  <2> QED
    BY <2>2, <2>3 DEF IInv
<1>4. CASE UNCHANGED vars
  BY <1>4, StutterStep
<1> QED
  BY <1>1, <1>2, <1>3, <1>4 DEF UserNext, Next, Program, TakeUsername, GiveUp, Request, userVars

LEMMA InvImplies ==
    IInv => /\ TypeOK /\ EveryArgumentCounts /\ UserFollowsOption /\ CurrentIsThere
            /\ FirstMatchPrinted /\ NoMatchIsQuiet
<1> SUFFICES ASSUME IInv
             PROVE  /\ TypeOK /\ EveryArgumentCounts /\ UserFollowsOption /\ CurrentIsThere
                    /\ FirstMatchPrinted /\ NoMatchIsQuiet
  OBVIOUS
<1>1. EveryArgumentCounts /\ UserFollowsOption /\ CliTypeOK
  BY CliInvImplies DEF IInv
<1>2. TypeOK /\ CurrentIsThere
  BY <1>1 DEF IInv, ParserInv, RunInv, RunTypes, TypeOK, AfterArgs, Ending
<1>3. status # -1 => step = "exited" /\ status = ExitStatus(result) /\ said = Message(result)
  BY DEF IInv, RunInv, Reported
<1>4. /\ status = 0 => result = "Ok"
      /\ status = 1 => result \in NoMatch
      /\ status \in {2, 101} => result # "Ok"
  BY <1>3 DEF ExitStatus
<1>5. FirstMatchPrinted
  <2>1. status # -1 /\ cli = "Config" => Answered(result)
    BY <1>3 DEF IInv, RunInv, Searched, Ending
  <2>2. CASE status = 0
    BY <1>4, <2>1, <2>2 DEF FirstMatchPrinted, Answered, IsAnswer, RecordMatches
  <2>3. CASE status = 1
    BY <1>4, <2>1, <2>3 DEF FirstMatchPrinted, Answered, NoMatch, IsAnswer, RecordMatches
  <2>4. CASE status \in {2, 101}
    BY <1>4, <2>1, <2>4 DEF FirstMatchPrinted, Answered, IsAnswer, RecordMatches
  <2>5. CASE status = -1
    BY <2>5 DEF FirstMatchPrinted
  <2> QED
    BY <1>2, <2>2, <2>3, <2>4, <2>5 DEF TypeOK
<1>6. NoMatchIsQuiet
  <2> SUFFICES ASSUME status = 1 PROVE NoMatchIsQuiet
    BY DEF NoMatchIsQuiet
  <2>1. said = IF verbosity > 0 THEN "info" ELSE "nothing"
    BY <1>3, <1>4 DEF Message, pr_info, BE_VERBOSE, NoMatch
  <2>2. said = "nothing" <=> \A i \in consumed : ~IsVerbose(i)
    BY <2>1 DEF IInv, CliInv, Understood
  <2> QED
    BY <2>2 DEF NoMatchIsQuiet, IsVerbose
<1> QED
  BY <1>1, <1>2, <1>5, <1>6

LEMMA Invariant == UserSpec => []IInv
<1>1. UserInit => IInv
  BY InitInv DEF UserInit
<1> QED
  BY <1>1, NextInv, PTL DEF UserSpec

----------------------------------------------------------------------------
(***************************************************************************)
(* The theorems.                                                           *)
(***************************************************************************)

(* Types, for every command line and file. *)
THEOREM TypeCorrect == UserSpec => []TypeOK
BY Invariant, InvImplies, PTL

(* parse_cli_args loses no argument, whatever their number: it takes the   *)
(* last one for the host name and has consumed all the others, and its     *)
(* position fits in an i32.                                                *)
THEOREM NoArgumentLost == UserSpec => []EveryArgumentCounts
BY Invariant, InvImplies, PTL

(* The user name that parse_cli_args returns is what follows the first -u, *)
(* nothing but -v, "--" and that option was skipped, and no option is      *)
(* looked for after a "--" that is not the user name.                      *)
THEOREM UserNameIsTheOptarg == UserSpec => []UserFollowsOption
BY Invariant, InvImplies, PTL

(* find_machine never misses the machine whose field is being read.        *)
THEOREM MachineIsThere == UserSpec => []CurrentIsThere
BY Invariant, InvImplies, PTL

(* The exit status is grep(1)'s, for every list of records.                *)
THEOREM AnswersLikeGrep == UserSpec => []FirstMatchPrinted
BY Invariant, InvImplies, PTL

(* No record, no message, unless -v was given.                             *)
THEOREM QuietWithoutMatch == UserSpec => []NoMatchIsQuiet
BY Invariant, InvImplies, PTL

----------------------------------------------------------------------------
(***************************************************************************)
(* What is searched is what the file declares.  The invariant goes with    *)
(* the parser: the records so far and those in what it has still to read   *)
(* are together those of the file that was opened.                         *)
(***************************************************************************)

(* Every word of the file leaves the library no keyword, or else the file  *)
(* is made of entries whose words it gets whole.                           *)
Readable(p) == NoKeywordLeft \/ IsPlain(p)

FileInv ==
    /\ step \in BeforeOpen => opened = <<>>
    /\ step \in {"parse", "match"} => opened # <<>>
    /\ opened = <<>> => ParserInit
    /\ opened # <<>> =>
         /\ opened[1] \in Paths
         /\ LineTaken
         /\ Readable(opened[1]) => Outcome = {rest.records : rest \in ReadingOf[opened[1]]}

LEMMA FileInit == Init => FileInv
BY DEF Init, FileInv

LEMMA FileOpenStep ==
    ASSUME IInv, FileInv, Open
    PROVE  FileInv'
<1> DEFINE file == LinesOf(path)
<1>1. /\ step = "open" /\ step' = "parse" /\ opened' = <<path>> /\ unread' = file
      /\ UNCHANGED <<line, item, netrc, current, parse>>
  BY DEF Open
<1>2. path \in Paths /\ file \in Seq(Lines)
  BY PathsAssumption DEF IInv, RunInv, RunTypes
<1>3. ReadingOf[path] = FileReading(file)
  BY <1>2 DEF ReadingOf
<1> HIDE DEF file
<1>4. ParserInit
  BY <1>1 DEF FileInv, BeforeOpen
<1>5. Outcome' = {rest.records : rest \in FileReading(file)}
  BY <1>1, <1>2, <1>4, OutcomeOpens
<1>6. LineTaken'
  BY <1>1, <1>4 DEF LineTaken, ParserInit
<1>7. opened'[1] = path /\ opened' # <<>>
  BY <1>1
<1>8. /\ opened'[1] \in Paths
      /\ Outcome' = {rest.records : rest \in ReadingOf[opened'[1]]}
  BY <1>2, <1>3, <1>5, <1>7
<1> QED
  BY <1>1, <1>6, <1>7, <1>8 DEF FileInv, BeforeOpen

LEMMA PlainIsSomething ==
    ASSUME NEW p, IsPlain(p)
    PROVE  {rest.records : rest \in ReadingOf[p]} # {}
BY DEF IsPlain

LEMMA FileParseStep ==
    ASSUME IInv, FileInv, Parse
    PROVE  FileInv'
<1>1. step = "parse" /\ ParserNext /\ UNCHANGED <<step, opened>>
  BY DEF Parse, runVars
<1>2. opened # <<>> /\ opened[1] \in Paths /\ LineTaken
  BY <1>1 DEF FileInv
<1>3. LineTaken'
  BY <1>1, <1>2, LineTakenStays
<1>4. ASSUME Readable(opened[1]) PROVE Outcome' = {rest.records : rest \in ReadingOf[opened[1]]}
  <2>1. Outcome = {rest.records : rest \in ReadingOf[opened[1]]}
    BY <1>2, <1>4 DEF FileInv
  <2>2. NoKeywordLeft \/ Outcome # {}
    BY <1>4, <2>1, PlainIsSomething DEF Readable
  <2>3. Outcome' = Outcome
    BY <1>1, <1>2, <2>2, OutcomeStays DEF IInv
  <2> QED
    BY <2>1, <2>3
<1>5. Readable(opened[1])' = Readable(opened[1])
  BY <1>1 DEF Readable, NoKeywordLeft, IsPlain
<1> QED
  BY <1>1, <1>2, <1>3, <1>4, <1>5 DEF FileInv, BeforeOpen

LEMMA FileStays ==
    ASSUME FileInv, UNCHANGED <<parserVars, opened>>,
           \/ UNCHANGED step
           \/ step \in BeforeOpen /\ step' \in BeforeOpen \cup Ending
           \/ step \notin BeforeOpen /\ step' \in {"match"} \cup Ending /\ (step' = "match" => step = "parse")
    PROVE  FileInv'
<1>1. UNCHANGED <<unread, line, item, hosts, default, current, parse, opened>>
  BY DEF parserVars, netrc
<1>2. LineTaken' = LineTaken /\ Outcome' = Outcome /\ (ParserInit => ParserInit')
  <2>1. LineTaken' = LineTaken /\ (ParserInit => ParserInit')
    BY <1>1 DEF LineTaken, ParserInit
  <2>2. Left' = Left
    BY <1>1 DEF Left, HasMachine
  <2>3. \A login : RecordsWith(login)' = RecordsWith(login)
    BY <1>1, RecordsUnchanged
  <2>4. Made(Left)' = Made(Left)
    BY <2>2, <2>3 DEF Made, MadeOf
  <2> QED
    BY <1>1, <2>1, <2>3, <2>4 DEF Outcome
<1>3. opened # <<>> => (Readable(opened[1])' <=> Readable(opened[1]))
  BY <1>1 DEF Readable, NoKeywordLeft, IsPlain
<1> QED
  BY <1>1, <1>2, <1>3 DEF FileInv, BeforeOpen, Ending

LEMMA FileStep ==
    ASSUME IInv, FileInv, [UserNext]_userVars
    PROVE  FileInv'
<1>1. CASE Open
  BY <1>1, FileOpenStep
<1>2. CASE Parse
  BY <1>2, FileParseStep
<1>3. CASE \/ CollectArgs \/ ParseArgs \/ ArgsParsed \/ FindHome \/ CheckExists \/ CheckIsFile \/ OpenFails
           \/ Parsed \/ TryNext \/ PrintLogin \/ NoneMatches \/ Exit \/ Replace
  <2>1. UNCHANGED <<parserVars, opened>>
    BY <1>3 DEF CollectArgs, ParseArgs, ArgsParsed, FindHome, CheckExists, CheckIsFile, OpenFails, Parsed,
         TryNext, PrintLogin, NoneMatches, Exit, Replace, Goto, Finish, runVars
  <2>2. \/ UNCHANGED step
        \/ step \in BeforeOpen /\ step' \in BeforeOpen \cup Ending
        \/ step \notin BeforeOpen /\ step' \in {"match"} \cup Ending /\ (step' = "match" => step = "parse")
    BY <1>3 DEF CollectArgs, ParseArgs, ArgsParsed, FindHome, CheckExists, CheckIsFile, OpenFails, Parsed,
         TryNext, PrintLogin, NoneMatches, Exit, Replace, Goto, Finish, runVars, BeforeOpen, Ending
  <2> QED
    BY <2>1, <2>2, FileStays
<1>4. CASE UNCHANGED vars
  <2>1. UNCHANGED <<parserVars, opened, step>>
    BY <1>4 DEF vars, runVars
  <2> QED
    BY <2>1, FileStays
<1> QED
  BY <1>1, <1>2, <1>3, <1>4 DEF UserNext, Next, Program, TakeUsername, GiveUp, Request, userVars

LEMMA FileInvariant == UserSpec => []FileInv
<1>1. UserInit => FileInv
  BY FileInit DEF UserInit
<1>2. IInv /\ FileInv /\ [UserNext]_userVars => FileInv'
  BY FileStep
<1> QED
  BY <1>1, <1>2, Invariant, PTL DEF UserSpec

LEMMA RecordsOfType ==
    ASSUME NEW p \in Paths
    PROVE  RecordsOf(p) \in Seq(Records)
<1>1. ReadingOf[p] = FileReading(LinesOf(p)) /\ LinesOf(p) \in Seq(Lines)
  BY PathsAssumption DEF ReadingOf
<1>2. <<FALSE, <<>>, LinesOf(p)>> \in Places
  <2>1. <<>> \in Seq(LineWords)
    OBVIOUS
  <2> QED
    BY <1>1, <2>1, ReadingAt
<1>3. ReadingOf[p] \subseteq Rests
  BY <1>1, <1>2, ReadingType DEF FileReading
<1>4. CASE IsPlain(p)
  <2>1. (CHOOSE r \in ReadingOf[p] : TRUE) \in ReadingOf[p]
    BY <1>4 DEF IsPlain
  <2> QED
    BY <1>3, <1>4, <2>1 DEF RecordsOf, Rests
<1>5. CASE ~IsPlain(p)
  BY <1>5 DEF RecordsOf
<1> QED
  BY <1>4, <1>5

LEMMA DeclaredIs == Declared = RecordsWith(NoWord)
BY DEF Declared, RecordsWith

LEMMA ReadableIsParsed ==
    ASSUME FileInv, opened # <<>>, Readable(opened[1])
    PROVE  /\ ParsedAsDeclared
           /\ parse \in {"Io", "Parse", "panic"} => ~IsPlain(opened[1])
<1> DEFINE readings == ReadingOf[opened[1]]
<1>1. Outcome = {rest.records : rest \in readings}
  BY DEF FileInv
<1>2. IsPlain(opened[1]) <=> readings # {}
  BY DEF IsPlain
<1>3. RecordsOf(opened[1]) = IF readings # {} THEN (CHOOSE r \in readings : TRUE).records ELSE <<>>
  BY DEF RecordsOf, IsPlain
<1> HIDE DEF readings
<1>4. ASSUME parse = "parsed" PROVE IsPlain(opened[1]) /\ Declared = RecordsOf(opened[1])
  <2>1. {rest.records : rest \in readings} = {Declared}
    BY <1>1, <1>4, DeclaredIs DEF Outcome
  <2>2. readings # {} /\ \A r \in readings : r.records = Declared
    BY <2>1
  <2>3. (CHOOSE r \in readings : TRUE) \in readings
    BY <2>2
  <2> QED
    BY <1>2, <1>3, <2>2, <2>3
<1>5. ASSUME parse \in {"Io", "Parse", "panic"} PROVE ~IsPlain(opened[1])
  <2>1. Outcome = {}
    BY <1>5 DEF Outcome
  <2> QED
    BY <1>1, <1>2, <2>1
<1> QED
  BY <1>4, <1>5 DEF ParsedAsDeclared

(* What run_app searches is the file: the library parses a file only if it *)
(* is made of entries, and then has the records that it declares, in their *)
(* order, each with its own login, wherever entries, lines and macros end; *)
(* unless the cursor leaves a keyword of a word that is not ASCII.         *)
THEOREM RecordsAreTheDeclared ==
    ASSUME NoKeywordLeft
    PROVE  UserSpec => []ParsedAsDeclared
<1>1. FileInv => ParsedAsDeclared
  <2>1. ASSUME opened = <<>>, FileInv PROVE ParsedAsDeclared
    BY <2>1 DEF FileInv, ParserInit, ParsedAsDeclared
  <2>2. ASSUME opened # <<>>, FileInv PROVE ParsedAsDeclared
    BY <2>2, ReadableIsParsed DEF Readable
  <2> QED
    BY <2>1, <2>2
<1> QED
  BY <1>1, FileInvariant, PTL

----------------------------------------------------------------------------
(***************************************************************************)
(* The end of a run.  Variant is a tuple of natural numbers, the earlier   *)
(* of which count for more; every step of the program makes it smaller.    *)
(***************************************************************************)
StepRank(s) ==
    CASE s = "start" -> 9 [] s = "args" -> 8 [] s = "home" -> 7 [] s = "exists" -> 6
      [] s = "is_file" -> 5 [] s = "open" -> 4 [] s = "parse" -> 3 [] s = "match" -> 2
      [] s = "main" -> 1 [] OTHER -> 0

ParseRank == IF parse = "parsing" THEN 1 ELSE 0

Variant(Size) ==
    <<StepRank(step), CliRank(cli), NArgs - idx, ParseRank, Len(unread), Len(line), Commands,
      HeadSize(Size), Len(hosts) + 1 - one>>

Below(m, n) == \E k \in 1..9 : m[k] < n[k] /\ \A j \in 1..(k - 1) : m[j] = n[j]

LEMMA VariantType ==
    ASSUME NEW Size \in [FileWords -> Nat], IInv
    PROVE  Variant(Size) \in Seq(Nat)
<1>1. StepRank(step) \in Nat /\ CliRank(cli) \in Nat /\ ParseRank \in Nat /\ Commands \in Nat
  BY DEF StepRank, CliRank, ParseRank, Commands
<1>2. NArgs - idx \in Nat
  BY DEF IInv, CliInv, CliTypeOK, NArgs
<1>3. Len(unread) \in Nat /\ Len(line) \in Nat /\ Len(hosts) + 1 - one \in Nat
  BY DEF IInv, ParserInv, ParserTypeOK, RunInv, RunTypes
<1>4. HeadSize(Size) \in Nat
  BY HeadSizeType
<1> QED
  BY <1>1, <1>2, <1>3, <1>4 DEF Variant

LEMMA StepFalls ==
    ASSUME NEW Size, StepRank(step') < StepRank(step)
    PROVE  Below(Variant(Size)', Variant(Size))
BY DEF Below, Variant

LEMMA ProgramNearer ==
    ASSUME NEW Size \in [FileWords -> Nat], LeavesLess(Size), IInv, Program
    PROVE  Below(Variant(Size)', Variant(Size))
<1>1. CASE \/ CollectArgs \/ ArgsParsed \/ FindHome \/ CheckExists \/ CheckIsFile \/ Open
           \/ OpenFails \/ Parsed \/ PrintLogin \/ NoneMatches \/ Exit
  <2>1. \/ step = "start" /\ step' \in {"args", "main"}
        \/ step = "args" /\ step' \in {"home", "main"}
        \/ step = "home" /\ step' \in {"exists", "main"}
        \/ step = "exists" /\ step' \in {"is_file", "main"}
        \/ step = "is_file" /\ step' \in {"open", "main"}
        \/ step = "open" /\ step' \in {"parse", "main"}
        \/ step = "parse" /\ step' \in {"match", "main"}
        \/ step = "match" /\ step' = "main"
        \/ step = "main" /\ step' = "exited"
    BY <1>1 DEF CollectArgs, ArgsParsed, FindHome, CheckExists, CheckIsFile, Open, OpenFails, Parsed,
         PrintLogin, NoneMatches, Exit, Goto, Finish
  <2>2. StepRank(step') < StepRank(step)
    BY <2>1 DEF StepRank
  <2> QED
    BY <2>2, StepFalls
<1>2. CASE ParseArgs
  <2>1. UNCHANGED step
    BY <1>2 DEF ParseArgs, runVars
  <2>2. \/ CliRank(cli') < CliRank(cli)
        \/ CliRank(cli') = CliRank(cli) /\ NArgs' - idx' < NArgs - idx
    BY <1>2, CliNearer DEF ParseArgs, IInv
  <2> QED
    BY <2>1, <2>2 DEF Below, Variant
<1>3. CASE Parse
  <2>1. UNCHANGED <<step, cli, idx, NArgs>>
    BY <1>3 DEF Parse, runVars, cliVars, loopVars, NArgs
  <2>2. \/ ParseRank' < ParseRank
        \/ /\ UNCHANGED ParseRank
           /\ \/ Len(unread') < Len(unread)
              \/ /\ UNCHANGED unread
                 /\ \/ Len(line') < Len(line)
                    \/ /\ Len(line') = Len(line)
                       /\ \/ Commands' < Commands
                          \/ Commands' = Commands /\ HeadSize(Size)' < HeadSize(Size)
    BY <1>3, ParserNearer DEF Parse, IInv, ParseRank, ParseResults
  <2> QED
    BY <2>1, <2>2 DEF Below, Variant
<1>4. CASE TryNext
  <2>1. UNCHANGED <<step, cli, idx, NArgs, ParseRank, unread, line, Commands, HeadSize(Size), hosts>>
    BY <1>4 DEF TryNext, cliVars, loopVars, parserVars, netrc, NArgs, ParseRank, Commands, HeadSize
  <2>2. Len(hosts') + 1 - one' < Len(hosts) + 1 - one
    BY <1>4, <2>1 DEF TryNext, IInv, ParserInv, ParserTypeOK, RunInv, RunTypes
  <2> QED
    BY <2>1, <2>2 DEF Below, Variant
<1> QED
  BY <1>1, <1>2, <1>3, <1>4 DEF Program

(* parse-netrc has no endless loop: for every command line and every file, *)
(* whatever becomes of it, each step makes a tuple of natural numbers      *)
(* smaller.  The loop over the arguments, the loops of the library over    *)
(* lines and words (lib.rs:192-231) and the loop over the records end,     *)
(* because what the lexer's cursor leaves of a word is shorter than it.    *)
THEOREM EveryStepIsProgress ==
    ASSUME NEW Size \in [FileWords -> Nat], LeavesLess(Size)
    PROVE  UserSpec => /\ [](Variant(Size) \in Seq(Nat))
                       /\ [][Program => Below(Variant(Size)', Variant(Size))]_userVars
<1>1. IInv => Variant(Size) \in Seq(Nat)
  BY VariantType
<1>2. IInv /\ [UserNext]_userVars => [Program => Below(Variant(Size)', Variant(Size))]_userVars
  BY ProgramNearer
<1> QED
  BY <1>1, <1>2, Invariant, PTL DEF UserSpec
=============================================================================
