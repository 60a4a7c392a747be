---------------------------- MODULE CommandLine ----------------------------
(***************************************************************************)
(* How parse-netrc reads its command line (parse_cli_args of main.rs): a   *)
(* loop over the arguments that consumes the options, and then the one     *)
(* argument that is left, the host name.  `index' is an i32, the position  *)
(* of the last argument that was consumed; positions count from 0, and     *)
(* the argument at 0 is the name of the program.                           *)
(***************************************************************************)
EXTENDS Integers, Sequences

CONSTANTS
    Arguments,   \* what an argument may be
    OtherOpts,   \* those that start with "-" and are no option
    I32_MAX      \* the largest i32

HelpOpts == {"-h", "--help"}
VersionOpts == {"-V", "--version"}
UserOpts == {"-u", "--user"}
VerboseOpts == {"-v", "--verbose"}
EndOfOpts == {"--"}
KnownOpts == HelpOpts \cup VersionOpts \cup UserOpts \cup VerboseOpts \cup EndOfOpts

(* String::new() *)
NoName == ""

ASSUME ArgumentsAssumption == OtherOpts \subseteq Arguments \ KnownOpts
ASSUME I32Assumption == I32_MAX \in Nat

VARIABLES
    args,            \* the argument vector
    outOk,           \* does standard output take what is written to it?
    out,             \* what was written to standard output
    cli,             \* where parse_cli_args is, or the result it returned
    idx,             \* the loop's position, and
    index,           \*   that of the last argument consumed
    have_username, input_username,
    skip_next_val,   \* the next argument is the value of -u
    verbosity,       \* how many of BE_VERBOSE, DEBUGGING, TRACING are set
    input_hostname,
    consumed         \* history: the positions of the consumed arguments

loopVars == <<idx, index, have_username, input_username, skip_next_val, verbosity, consumed>>
cliVars == <<args, outOk, out, cli, loopVars, input_hostname>>

NArgs == Len(args)
ArgAt(i) == args[i + 1]

BE_VERBOSE == verbosity > 0

(* The results of parse_cli_args; ProcessingIsComplete, BadArgs and IoError *)
(* end the program, a Config has it go on.                                  *)
CliResults == {"ProcessingIsComplete", "BadArgs", "IoError", "Config"}

CliInit(line, stdoutOk) ==
    /\ args = line
    /\ outOk = stdoutOk
    /\ out = <<>>
    /\ cli = "enter"
    /\ idx = 0
    /\ index = -1
    /\ have_username = FALSE
    /\ input_username = NoName
    /\ skip_next_val = FALSE
    /\ verbosity = 0
    /\ input_hostname = NoName
    /\ consumed = {}

Return(result) == cli' = result /\ UNCHANGED <<args, outOk, loopVars, input_hostname>>
BadArgs == Return("BadArgs") /\ UNCHANGED out

EnterLoop ==
    /\ cli = "enter"
    /\ IF NArgs < 2
         THEN BadArgs
         ELSE cli' = "loop" /\ UNCHANGED <<args, outOk, out, loopVars, input_hostname>>

----------------------------------------------------------------------------
(***************************************************************************)
(* One turn of the loop.  The position must fit in an i32 before anything  *)
(* else is looked at.                                                      *)
(***************************************************************************)
InLoop == cli = "loop" /\ idx < NArgs

TooManyArguments == InLoop /\ idx > I32_MAX /\ BadArgs

(* The argument at idx is consumed. *)
Consume ==
    /\ InLoop
    /\ idx <= I32_MAX
    /\ index' = idx
    /\ idx' = idx + 1
    /\ consumed' = consumed \cup {idx}
    /\ UNCHANGED <<args, outOk, out, input_hostname>>

SkipProgramName ==
    /\ idx = 0
    /\ Consume
    /\ UNCHANGED <<cli, have_username, input_username, skip_next_val, verbosity>>

(* The value of -u, whatever it looks like. *)
SkipOptarg ==
    /\ idx # 0 /\ skip_next_val
    /\ Consume
    /\ skip_next_val' = FALSE
    /\ UNCHANGED <<cli, have_username, input_username, verbosity>>

(* An argument of the set S that is to be understood as such. *)
Sees(S) ==
    /\ InLoop
    /\ idx # 0 /\ idx <= I32_MAX /\ ~skip_next_val
    /\ ArgAt(idx) \in S

(* print_help and print_version return the error of a failed write. *)
Prints(S, text) ==
    /\ Sees(S)
    /\ IF outOk
         THEN out' = Append(out, text) /\ Return("ProcessingIsComplete")
         ELSE UNCHANGED out /\ Return("IoError")

SeesHelp == Prints(HelpOpts, "help")
SeesVersion == Prints(VersionOpts, "version")

SeesUserAgain == Sees(UserOpts) /\ have_username /\ BadArgs
SeesUserWithoutValue == Sees(UserOpts) /\ ~have_username /\ idx + 1 >= NArgs /\ BadArgs

(* Mutant of SkipTheValue: the value of -u is looked at again. *)
SkipNothing == skip_next_val' = FALSE

SkipTheValue == skip_next_val' = TRUE

SeesUser ==
    /\ Sees(UserOpts) /\ ~have_username /\ idx + 1 < NArgs
    /\ have_username' = TRUE
    /\ input_username' = ArgAt(idx + 1)
    /\ SkipTheValue
    /\ Consume
    /\ UNCHANGED <<cli, verbosity>>

(* Mutant of Louder: there is no end to it. *)
LouderEver(v) == v + 1

(* First BE_VERBOSE, then DEBUGGING, then TRACING. *)
Louder(v) == IF v = 3 THEN 3 ELSE v + 1

SeesVerbose ==
    /\ Sees(VerboseOpts)
    /\ verbosity' = Louder(verbosity)
    /\ Consume
    /\ UNCHANGED <<cli, have_username, input_username, skip_next_val>>

(* Mutant of SeesEndOfOpts: the options go on after "--". *)
SeesEndAndGoesOn ==
    /\ Sees(EndOfOpts)
    /\ Consume
    /\ UNCHANGED <<cli, have_username, input_username, skip_next_val, verbosity>>

SeesEndOfOpts ==
    /\ Sees(EndOfOpts)
    /\ cli' = "rest"
    /\ Consume
    /\ UNCHANGED <<have_username, input_username, skip_next_val, verbosity>>

SeesUnknown == Sees(OtherOpts) /\ BadArgs

(* Mutant of PeekedAt: the host name counts as consumed already. *)
PeekedAndConsumed == index' = idx

(* The first argument that is no option was only looked at. *)
PeekedAt == index' = idx - 1

SeesHostname ==
    /\ Sees(Arguments \ (KnownOpts \cup OtherOpts))
    /\ PeekedAt
    /\ cli' = "rest"
    /\ UNCHANGED <<args, outOk, out, input_hostname, idx, have_username, input_username,
                   skip_next_val, verbosity, consumed>>

LoopEnds ==
    /\ cli = "loop"
    /\ idx = NArgs
    /\ cli' = "rest"
    /\ UNCHANGED <<args, outOk, out, loopVars, input_hostname>>

----------------------------------------------------------------------------
(***************************************************************************)
(* After the loop: exactly one argument is to be left.                     *)
(***************************************************************************)
hn_index == (IF index = -1 THEN 0 ELSE index) + 1

NoHostname == cli = "rest" /\ hn_index >= NArgs /\ BadArgs

SecondHostname == cli = "rest" /\ hn_index + 1 < NArgs /\ BadArgs

TakeHostname ==
    /\ cli = "rest"
    /\ hn_index + 1 = NArgs
    /\ input_hostname' = ArgAt(hn_index)
    /\ cli' = "Config"
    /\ UNCHANGED <<args, outOk, out, loopVars>>

CliNext ==
    \/ EnterLoop \/ TooManyArguments \/ SkipProgramName \/ SkipOptarg
    \/ SeesHelp \/ SeesVersion \/ SeesUserAgain \/ SeesUserWithoutValue \/ SeesUser
    \/ SeesVerbose \/ SeesEndOfOpts \/ SeesUnknown \/ SeesHostname \/ LoopEnds
    \/ NoHostname \/ SecondHostname \/ TakeHostname

----------------------------------------------------------------------------
(***************************************************************************)
(* Properties.                                                             *)
(***************************************************************************)
CliTypeOK ==
    /\ args \in Seq(Arguments)
    /\ outOk \in BOOLEAN
    /\ cli \in {"enter", "loop", "rest"} \cup CliResults
    /\ idx \in 0..NArgs
    /\ index \in {-1} \cup 0..NArgs
    /\ have_username \in BOOLEAN
    /\ input_username \in Arguments \cup {NoName}
    /\ skip_next_val \in BOOLEAN
    /\ verbosity \in 0..3
    /\ input_hostname \in Arguments \cup {NoName}
    /\ consumed \subseteq 0..NArgs

(* The position that is cast to an i32 always fits, and `index' "holds the *)
(* value of the last successfully processed (consumed) command line        *)
(* parameter" (main.rs:459-460): no argument is lost between the loop and  *)
(* the host name, which is the only one after it.                          *)
EveryArgumentCounts ==
    /\ index <= I32_MAX
    /\ cli = "rest" => consumed = 0..index
    /\ cli = "Config" => consumed = 0..(NArgs - 2) /\ input_hostname = ArgAt(NArgs - 1)

(* The value of the option -u: what follows the first -u. *)
IsUserValue(i) ==
    /\ i > 1
    /\ ArgAt(i - 1) \in UserOpts
    /\ \A j \in 1..(i - 2) : ArgAt(j) \notin UserOpts

(* A user name is the argument after -u, even if it looks like an option   *)
(* ("-u -v host"); whatever else was consumed is -v or "--", and "--"      *)
(* "disables further options processing" (main.rs:235): nothing but the    *)
(* host name follows it.                                                   *)
UserFollowsOption ==
    cli = "Config" =>
        /\ have_username => \E i \in consumed : IsUserValue(i) /\ ArgAt(i) = input_username
        /\ \A i \in consumed \ {0} :
             \/ ArgAt(i) \in VerboseOpts
             \/ ArgAt(i) \in EndOfOpts /\ i = NArgs - 2
             \/ have_username /\ (IsUserValue(i) \/ IsUserValue(i + 1))
=============================================================================
