-------------------------- MODULE CommandLineProofs -------------------------
(***************************************************************************)
(* What the loop over the arguments keeps true, for every command line.    *)
(***************************************************************************)
EXTENDS CommandLine, TLAPS

(* The consumed arguments have no gap. *)
NoGap ==
    /\ index <= I32_MAX
    /\ cli = "enter" => idx = 0 /\ index = -1 /\ consumed = {}
    /\ cli = "loop" => NArgs > 1 /\ index = idx - 1 /\ consumed = 0..index
    /\ cli = "rest" => index >= 0 /\ consumed = 0..index
    /\ cli = "Config" => index = NArgs - 2 /\ consumed = 0..index /\ input_hostname = ArgAt(NArgs - 1)

IsVerbose(i) ==
    i # 0 /\ ArgAt(i) \in VerboseOpts /\ ~(have_username /\ IsUserValue(i))

(* "--" ended the loop. *)
EndsAt(i) == cli \notin {"enter", "loop"} /\ i = index

(* The loop knows what it has seen. *)
Understood ==
    /\ skip_next_val => idx < NArgs /\ have_username /\ IsUserValue(idx) /\ ArgAt(idx) = input_username
    /\ cli \in {"enter", "rest", "Config"} => ~skip_next_val
    /\ have_username =>
         skip_next_val \/ \E i \in consumed : IsUserValue(i) /\ ArgAt(i) = input_username
    /\ \A i \in consumed \ {0} :
         \/ ArgAt(i) \in VerboseOpts \cup EndOfOpts
         \/ have_username /\ (IsUserValue(i) \/ IsUserValue(i + 1))
    /\ \A i \in consumed \ {0} :
         ArgAt(i) \in EndOfOpts => (have_username /\ IsUserValue(i)) \/ EndsAt(i)
    /\ verbosity > 0 <=> \E i \in consumed : IsVerbose(i)

CliInv == CliTypeOK /\ NoGap /\ Understood

(* Only one argument is the value of -u. *)
LEMMA OneUserValue ==
    ASSUME NEW i \in Int, NEW j \in Int, IsUserValue(i), IsUserValue(j)
    PROVE  i = j
BY DEF IsUserValue

(* A return leaves what the loop has done as it is. *)
LEMMA ReturnStep ==
    ASSUME CliInv, NEW r \in {"ProcessingIsComplete", "BadArgs", "IoError"}, Return(r)
    PROVE  CliInv'
<1>1. CliTypeOK'
  BY DEF CliInv, CliTypeOK, Return, loopVars, NArgs, CliResults
<1>2. NoGap'
  BY DEF CliInv, NoGap, Return, loopVars, NArgs, CliResults
<1>3. Understood'
  BY DEF CliInv, Understood, EndsAt, Return, loopVars, NArgs, IsUserValue, IsVerbose, ArgAt, CliResults
<1> QED
  BY <1>1, <1>2, <1>3 DEF CliInv

(* So does the end of the loop, and the beginning. *)
LEMMA GotoStep ==
    ASSUME CliInv, EnterLoop \/ LoopEnds
    PROVE  CliInv'
<1>1. CASE cli' = "BadArgs"
  BY <1>1, ReturnStep DEF EnterLoop, LoopEnds, BadArgs
<1>2. CASE cli' # "BadArgs"
  <2>0. NArgs \in Nat
    BY DEF CliInv, CliTypeOK, NArgs
  <2>1. /\ UNCHANGED <<args, outOk, out, loopVars, input_hostname>>
        /\ \/ cli = "enter" /\ cli' = "loop" /\ NArgs >= 2
           \/ cli = "loop" /\ cli' = "rest" /\ idx = NArgs
    BY <1>2, <2>0 DEF EnterLoop, LoopEnds, BadArgs, Return
  <2>2. CliTypeOK'
    BY <2>1 DEF CliInv, CliTypeOK, loopVars, NArgs
  <2>3. NoGap'
    <3>1. 0..(-1) = {}
      OBVIOUS
    <3>2. NoGap /\ idx \in Nat /\ UNCHANGED <<idx, index, consumed, NArgs>>
      BY <2>1 DEF CliInv, CliTypeOK, loopVars, NArgs
    <3>3. CASE cli = "enter"
      BY <2>0, <2>1, <3>1, <3>2, <3>3 DEF NoGap
    <3>4. CASE cli = "loop"
      BY <2>0, <2>1, <3>2, <3>4 DEF NoGap
    <3> QED
      BY <2>1, <3>3, <3>4
  <2>4. Understood'
    <3>1. ~skip_next_val
      BY <2>0, <2>1 DEF CliInv, Understood
    <3> QED
      BY <2>1, <3>1 DEF CliInv, Understood, EndsAt, loopVars, NArgs, IsUserValue, IsVerbose, ArgAt
  <2> QED
    BY <2>2, <2>3, <2>4 DEF CliInv
<1> QED
  BY <1>1, <1>2

(* A consumed argument joins those before it. *)
LEMMA ConsumeStep ==
    ASSUME CliInv, Consume, cli' \in {"loop", "rest"}
    PROVE  /\ cli = "loop" /\ NArgs \in Nat /\ idx \in Nat /\ idx < NArgs
           /\ UNCHANGED <<args, NArgs>>
           /\ consumed = 0..(idx - 1)
           /\ consumed' = consumed \cup {idx}
           /\ NoGap'
           /\ idx' \in 0..NArgs /\ index' \in {-1} \cup 0..NArgs /\ consumed' \subseteq 0..NArgs
<1>1. /\ cli = "loop" /\ NArgs \in Nat /\ idx \in Nat /\ idx < NArgs /\ NArgs > 1
      /\ UNCHANGED <<args, NArgs>>
      /\ idx <= I32_MAX /\ idx' = idx + 1 /\ index' = idx
      /\ consumed' = consumed \cup {idx}
      /\ consumed = 0..index /\ index = idx - 1
  BY DEF CliInv, CliTypeOK, NoGap, Consume, InLoop, NArgs
<1>2. consumed' = 0..index'
  BY <1>1
<1>3. NoGap'
  BY <1>1, <1>2 DEF NoGap
<1> QED
  BY <1>1, <1>2, <1>3

(* What was known of the arguments before the one at idx still is, unless  *)
(* this is the -u.                                                         *)
LEMMA UserValuesStay ==
    ASSUME CliInv, UNCHANGED <<args, NArgs, have_username, input_username>>
    PROVE  \A i \in Int : /\ IsUserValue(i)' <=> IsUserValue(i)
                          /\ IsVerbose(i)' <=> IsVerbose(i)
                          /\ ArgAt(i)' = ArgAt(i)
BY DEF IsUserValue, IsVerbose, ArgAt

LEMMA SkipProgramNameStep ==
    ASSUME CliInv, SkipProgramName
    PROVE  CliInv'
<1>1. Consume /\ cli' \in {"loop", "rest"} /\ idx = 0
      /\ UNCHANGED <<cli, outOk, have_username, input_username, skip_next_val, verbosity, input_hostname>>
  BY DEF SkipProgramName, Consume, InLoop
<1>2. CliTypeOK'
  BY <1>1, ConsumeStep DEF CliInv, CliTypeOK
<1>3. ~skip_next_val
  BY DEF CliInv, Understood, IsUserValue, SkipProgramName
<1>4. consumed = {}
  BY <1>1, ConsumeStep
<1>5. ~have_username /\ ~(verbosity > 0)
  BY <1>3, <1>4 DEF CliInv, Understood
<1>6. consumed' \ {0} = {} /\ \A i \in consumed' : ~IsVerbose(i)'
  BY <1>1, <1>4, ConsumeStep DEF IsVerbose
<1>7. Understood'
  BY <1>1, <1>3, <1>5, <1>6, ConsumeStep DEF Understood
<1> QED
  BY <1>2, <1>7, <1>1, ConsumeStep DEF CliInv

LEMMA SkipOptargStep ==
    ASSUME CliInv, SkipOptarg
    PROVE  CliInv'
<1>1. /\ Consume /\ cli' \in {"loop", "rest"} /\ skip_next_val /\ skip_next_val' = FALSE
      /\ UNCHANGED <<cli, outOk, have_username, input_username, verbosity, input_hostname>>
  BY DEF SkipOptarg, Consume, InLoop
<1>2. CliTypeOK'
  BY <1>1, ConsumeStep DEF CliInv, CliTypeOK
<1>3. have_username /\ IsUserValue(idx) /\ ArgAt(idx) = input_username
  BY <1>1 DEF CliInv, Understood
<1>4. consumed \subseteq Int /\ consumed' = consumed \cup {idx} /\ idx \in Int
  BY <1>1, ConsumeStep
<1>5. \A i \in Int : /\ IsUserValue(i)' <=> IsUserValue(i)
                     /\ IsVerbose(i)' <=> IsVerbose(i)
                     /\ ArgAt(i)' = ArgAt(i)
  BY <1>1, ConsumeStep, UserValuesStay
<1>6. ~IsVerbose(idx)
  BY <1>3 DEF IsVerbose
<1>7. Understood'
  <2>1. \E i \in consumed' : IsUserValue(i)' /\ (ArgAt(i) = input_username)'
    BY <1>1, <1>3, <1>4, <1>5
  <2>2. \A i \in consumed' \ {0} :
         \/ ArgAt(i)' \in VerboseOpts \cup EndOfOpts
         \/ have_username' /\ (IsUserValue(i)' \/ IsUserValue(i + 1)')
    BY <1>1, <1>3, <1>4, <1>5 DEF CliInv, Understood
  <2>3. verbosity' > 0 <=> \E i \in consumed' : IsVerbose(i)'
    BY <1>1, <1>4, <1>5, <1>6 DEF CliInv, Understood
  <2>4. \A i \in consumed' \ {0} :
         ArgAt(i)' \in EndOfOpts => (have_username' /\ IsUserValue(i)') \/ EndsAt(i)'
    BY <1>1, <1>3, <1>4, <1>5, ConsumeStep DEF CliInv, Understood, EndsAt
  <2> QED
    BY <1>1, <2>1, <2>2, <2>3, <2>4 DEF Understood
<1> QED
  BY <1>2, <1>7, <1>1, ConsumeStep DEF CliInv

LEMMA SeesUserStep ==
    ASSUME CliInv, SeesUser
    PROVE  CliInv'
<1>1. /\ Consume /\ cli' \in {"loop", "rest"} /\ skip_next_val' = TRUE
      /\ ~have_username /\ have_username' = TRUE /\ input_username' = ArgAt(idx + 1)
      /\ idx # 0 /\ ~skip_next_val /\ ArgAt(idx) \in UserOpts /\ idx + 1 < NArgs
      /\ UNCHANGED <<cli, outOk, verbosity, input_hostname>>
  BY DEF SeesUser, SkipTheValue, Sees, Consume, InLoop
<1>2. /\ NArgs \in Nat /\ idx \in Nat /\ idx' = idx + 1 /\ UNCHANGED <<args, NArgs>>
      /\ consumed = 0..(idx - 1) /\ consumed' = consumed \cup {idx}
  BY <1>1, ConsumeStep DEF Consume
<1>3. CliTypeOK'
  <2>1. input_username' \in Arguments
    BY <1>1, <1>2 DEF CliInv, CliTypeOK, ArgAt, NArgs
  <2> QED
    BY <1>1, <2>1, ConsumeStep DEF CliInv, CliTypeOK
<1>4. \A i \in 1..(idx - 1) : ArgAt(i) \in VerboseOpts \cup EndOfOpts
  BY <1>1, <1>2 DEF CliInv, Understood
<1>5. IsUserValue(idx + 1)
  BY <1>1, <1>2, <1>4 DEF IsUserValue, UserOpts, VerboseOpts, EndOfOpts
<1>6. \A i \in Int : (IsUserValue(i)' <=> IsUserValue(i)) /\ ArgAt(i)' = ArgAt(i)
  BY <1>2 DEF IsUserValue, ArgAt
<1>7. \A i \in 0..idx : ~IsUserValue(i)
  BY <1>2, <1>5, OneUserValue
<1>8. Understood'
  <2>1. \A i \in consumed' \ {0} :
         \/ ArgAt(i)' \in VerboseOpts \cup EndOfOpts
         \/ have_username' /\ (IsUserValue(i)' \/ IsUserValue(i + 1)')
    BY <1>1, <1>2, <1>4, <1>5, <1>6
  <2>2. \A i \in consumed : IsVerbose(i)' <=> IsVerbose(i)
    BY <1>1, <1>2, <1>6, <1>7 DEF IsVerbose
  <2>3. \A i \in Int : i = idx => ~IsVerbose(i)'
    BY <1>1, <1>2, <1>6 DEF IsVerbose, UserOpts, VerboseOpts
  <2>4. verbosity' > 0 <=> \E i \in consumed' : IsVerbose(i)'
    BY <1>1, <1>2, <2>2, <2>3 DEF CliInv, Understood
  <2>5. idx' < NArgs' /\ IsUserValue(idx)' /\ (ArgAt(idx) = input_username)'
    BY <1>1, <1>2, <1>5, <1>6 DEF IsUserValue, ArgAt
  <2>6. \A i \in consumed' \ {0} : ArgAt(i)' \notin EndOfOpts
    <3>1. \A i \in consumed \ {0} : ArgAt(i) \notin EndOfOpts
      BY <1>1, ConsumeStep DEF CliInv, Understood, EndsAt
    <3> QED
      BY <1>1, <1>2, <1>6, <3>1 DEF UserOpts, EndOfOpts
  <2> QED
    BY <1>1, <2>1, <2>4, <2>5, <2>6, ConsumeStep DEF Understood
<1> QED
  BY <1>1, <1>3, <1>8, ConsumeStep DEF CliInv

(* -v and "--": an argument that is understood as it stands. *)
LEMMA PlainOptionStep ==
    ASSUME CliInv, SeesVerbose \/ SeesEndOfOpts
    PROVE  CliInv'
<1>1. /\ Consume /\ cli' \in {"loop", "rest"}
      /\ idx # 0 /\ ~skip_next_val /\ ArgAt(idx) \in VerboseOpts \cup EndOfOpts
      /\ UNCHANGED <<outOk, have_username, input_username, skip_next_val, input_hostname>>
  BY DEF SeesVerbose, SeesEndOfOpts, Sees, Consume, InLoop
<1>2. verbosity \in 0..3
  BY DEF CliInv, CliTypeOK
<1>3. /\ verbosity' \in 0..3
      /\ verbosity' > 0 <=> (verbosity > 0 \/ ArgAt(idx) \in VerboseOpts)
  <2>1. CASE SeesVerbose
    BY <1>2, <2>1 DEF SeesVerbose, Sees, Louder
  <2>2. CASE SeesEndOfOpts
    BY <1>2, <2>2 DEF SeesEndOfOpts, Sees, EndOfOpts, VerboseOpts
  <2> QED
    BY <2>1, <2>2
<1>4. CliTypeOK'
  BY <1>1, <1>3, ConsumeStep DEF CliInv, CliTypeOK
<1>5. /\ idx \in Nat /\ UNCHANGED <<args, NArgs>>
      /\ consumed = 0..(idx - 1) /\ consumed' = consumed \cup {idx}
  BY <1>1, ConsumeStep
<1>6. \A i \in Int : /\ IsUserValue(i)' <=> IsUserValue(i)
                     /\ IsVerbose(i)' <=> IsVerbose(i)
                     /\ ArgAt(i)' = ArgAt(i)
  BY <1>1, <1>5, UserValuesStay
<1>7. ~(have_username /\ IsUserValue(idx))
  <2>1. CASE have_username
    <3>1. PICK i \in consumed : IsUserValue(i)
      BY <1>1, <2>1 DEF CliInv, Understood
    <3>2. i \in Int /\ i # idx
      BY <1>5
    <3> QED
      BY <1>5, <3>1, <3>2, OneUserValue
  <2> QED
    BY <2>1
<1>8. IsVerbose(idx) <=> ArgAt(idx) \in VerboseOpts
  BY <1>1, <1>7 DEF IsVerbose
<1>9. Understood'
  <2>1. have_username' => \E i \in consumed' : IsUserValue(i)' /\ (ArgAt(i)' = input_username')
    BY <1>1, <1>5, <1>6 DEF CliInv, Understood
  <2>2. \A i \in consumed' \ {0} :
         \/ ArgAt(i)' \in VerboseOpts \cup EndOfOpts
         \/ have_username' /\ (IsUserValue(i)' \/ IsUserValue(i + 1)')
    BY <1>1, <1>5, <1>6 DEF CliInv, Understood
  <2>3. verbosity' > 0 <=> \E i \in consumed' : IsVerbose(i)'
    BY <1>3, <1>5, <1>6, <1>8 DEF CliInv, Understood
  <2>4. \A i \in consumed' \ {0} :
         ArgAt(i)' \in EndOfOpts => (have_username' /\ IsUserValue(i)') \/ EndsAt(i)'
    <3>1. \A i \in Int : i = idx /\ ArgAt(i) \in EndOfOpts => EndsAt(i)'
      BY <1>1, <1>5 DEF SeesVerbose, SeesEndOfOpts, Sees, Consume, EndsAt, VerboseOpts, EndOfOpts
    <3>2. \A i \in consumed \ {0} : ArgAt(i) \in EndOfOpts => have_username /\ IsUserValue(i)
      BY <1>1, ConsumeStep DEF CliInv, Understood, EndsAt
    <3> QED
      BY <1>1, <1>5, <1>6, <3>1, <3>2
  <2> QED
    BY <1>1, <2>1, <2>2, <2>3, <2>4 DEF Understood
<1> QED
  BY <1>1, <1>4, <1>9, ConsumeStep DEF CliInv

LEMMA SeesHostnameStep ==
    ASSUME CliInv, SeesHostname
    PROVE  CliInv'
<1>1. /\ cli = "loop" /\ cli' = "rest" /\ idx < NArgs /\ idx # 0 /\ ~skip_next_val
      /\ index' = idx - 1 /\ idx <= I32_MAX
      /\ UNCHANGED <<args, outOk, idx, have_username, input_username, skip_next_val, verbosity,
                     input_hostname, consumed, NArgs>>
  BY DEF SeesHostname, Sees, InLoop, PeekedAt, NArgs
<1>2. /\ NArgs \in Nat /\ idx \in 0..NArgs
      /\ index = idx - 1 /\ consumed = 0..index
  BY <1>1 DEF CliInv, CliTypeOK, NoGap, NArgs
<1>3. CliTypeOK'
  BY <1>1, <1>2 DEF CliInv, CliTypeOK
<1>4. NoGap'
  BY <1>1, <1>2, I32Assumption DEF NoGap
<1>5. Understood'
  BY <1>1, <1>2 DEF CliInv, Understood, EndsAt, IsUserValue, IsVerbose, ArgAt
<1> QED
  BY <1>3, <1>4, <1>5 DEF CliInv

LEMMA TakeHostnameStep ==
    ASSUME CliInv, TakeHostname
    PROVE  CliInv'
<1>1. /\ cli = "rest" /\ cli' = "Config"
      /\ hn_index + 1 = NArgs /\ input_hostname' = ArgAt(hn_index)
      /\ UNCHANGED <<args, outOk, idx, index, have_username, input_username, skip_next_val,
                     verbosity, consumed, NArgs>>
  BY DEF TakeHostname, loopVars, NArgs
<1>2. /\ NArgs \in Nat /\ index \in 0..NArgs
      /\ index >= 0 /\ consumed = 0..index /\ ~skip_next_val
  BY <1>1 DEF CliInv, CliTypeOK, NoGap, Understood, NArgs
<1>3. hn_index = NArgs - 1 /\ index = NArgs - 2
  BY <1>1, <1>2 DEF hn_index
<1>4. CliTypeOK'
  <2>1. input_hostname' \in Arguments
    BY <1>1, <1>2, <1>3 DEF CliInv, CliTypeOK, ArgAt, NArgs
  <2> QED
    BY <1>1, <2>1 DEF CliInv, CliTypeOK, CliResults
<1>5. NoGap'
  BY <1>1, <1>2, <1>3 DEF CliInv, NoGap, ArgAt
<1>6. Understood'
  BY <1>1, <1>2 DEF CliInv, Understood, EndsAt, IsUserValue, IsVerbose, ArgAt
<1> QED
  BY <1>4, <1>5, <1>6 DEF CliInv

----------------------------------------------------------------------------
(***************************************************************************)
(* The results.                                                            *)
(***************************************************************************)
LEMMA CliInitInv ==
    ASSUME NEW l \in Seq(Arguments), NEW ok \in BOOLEAN, CliInit(l, ok)
    PROVE  CliInv
<1>1. NArgs \in Nat
  BY DEF CliInit, NArgs
<1>2. CliTypeOK
  <2>1. outOk \in BOOLEAN /\ have_username \in BOOLEAN /\ skip_next_val \in BOOLEAN
    BY Zenon DEF CliInit
  <2>2. /\ args \in Seq(Arguments) /\ cli \in {"enter", "loop", "rest"} \cup CliResults
        /\ idx \in 0..NArgs /\ index \in {-1} \cup 0..NArgs
        /\ verbosity \in 0..3 /\ consumed \subseteq 0..NArgs
        /\ input_username = NoName /\ input_hostname = NoName
    BY <1>1 DEF CliInit
  <2> QED
    BY <2>1, <2>2 DEF CliTypeOK
<1>3. NoGap
  BY I32Assumption DEF CliInit, NoGap
<1>4. Understood
  BY DEF CliInit, Understood
<1> QED
  BY <1>2, <1>3, <1>4 DEF CliInv

LEMMA CliNextInv ==
    ASSUME CliInv, CliNext
    PROVE  CliInv'
<1>1. CASE EnterLoop \/ LoopEnds
  BY <1>1, GotoStep
<1>2. CASE \/ TooManyArguments \/ SeesHelp \/ SeesVersion \/ SeesUserAgain
           \/ SeesUserWithoutValue \/ SeesUnknown \/ NoHostname \/ SecondHostname
  BY <1>2, ReturnStep DEF TooManyArguments, SeesHelp, SeesVersion, Prints, SeesUserAgain,
       SeesUserWithoutValue, SeesUnknown, NoHostname, SecondHostname, BadArgs
<1> QED
  BY <1>1, <1>2, SkipProgramNameStep, SkipOptargStep, SeesUserStep, PlainOptionStep,
     SeesHostnameStep, TakeHostnameStep DEF CliNext

(* Help and version are all that it prints, and the end of it. *)
LEMMA CliNextPrints ==
    ASSUME CliNext
    PROVE  /\ cli \in {"enter", "loop", "rest"} /\ UNCHANGED args
           /\ \/ UNCHANGED out /\ cli' # "ProcessingIsComplete"
              \/ /\ cli' = "ProcessingIsComplete"
                 /\ \/ Sees(HelpOpts) /\ out' = Append(out, "help")
                    \/ Sees(VersionOpts) /\ out' = Append(out, "version")
BY DEF CliNext, EnterLoop, TooManyArguments, SkipProgramName, SkipOptarg, SeesHelp, SeesVersion,
   Prints, SeesUserAgain, SeesUserWithoutValue, SeesUser, SeesVerbose, SeesEndOfOpts, SeesUnknown,
   SeesHostname, LoopEnds, NoHostname, SecondHostname, TakeHostname, Sees, Consume, InLoop,
   BadArgs, Return

(* It does not depend on what is written. *)
LEMMA CliInvStutters ==
    ASSUME CliInv, UNCHANGED <<args, outOk, cli, loopVars, input_hostname>>
    PROVE  CliInv'
BY DEF CliInv, CliTypeOK, NoGap, Understood, EndsAt, loopVars, NArgs, IsUserValue, IsVerbose, ArgAt

LEMMA CliInvImplies ==
    ASSUME CliInv
    PROVE  CliTypeOK /\ EveryArgumentCounts /\ UserFollowsOption
<1>1. EveryArgumentCounts
  BY DEF CliInv, CliTypeOK, NoGap, EveryArgumentCounts, NArgs
<1>2. UserFollowsOption
  <2>1. cli = "Config" => ~skip_next_val /\ index = NArgs - 2
    BY DEF CliInv, NoGap, Understood
  <2> QED
    BY <2>1 DEF CliInv, Understood, EndsAt, UserFollowsOption
<1> QED
  BY <1>1, <1>2 DEF CliInv

----------------------------------------------------------------------------
(* No turn of the loop is the last but one for ever. *)
CliRank(c) == CASE c = "enter" -> 3 [] c = "loop" -> 2 [] c = "rest" -> 1 [] OTHER -> 0

LEMMA CliNearer ==
    ASSUME CliInv, CliNext
    PROVE  \/ CliRank(cli') < CliRank(cli)
           \/ CliRank(cli') = CliRank(cli) /\ NArgs' - idx' < NArgs - idx
<1>1. CASE \/ cli = "enter" /\ cli' \in {"loop", "BadArgs"}
           \/ cli = "loop" /\ cli' \in {"rest"} \cup CliResults
           \/ cli = "rest" /\ cli' \in CliResults
  BY <1>1 DEF CliRank, CliResults
<1>2. CASE Consume /\ cli = "loop" /\ cli' = "loop"
  <2>1. idx \in Nat /\ NArgs \in Nat
    BY DEF CliInv, CliTypeOK, NArgs
  <2> QED
    BY <1>2, <2>1 DEF Consume, NArgs
<1> QED
  BY <1>1, <1>2 DEF CliNext, EnterLoop, TooManyArguments, SkipProgramName, SkipOptarg, SeesHelp,
     SeesVersion, Prints, SeesUserAgain, SeesUserWithoutValue, SeesUser, SeesVerbose, SeesEndOfOpts,
     SeesUnknown, SeesHostname, LoopEnds, NoHostname, SecondHostname, TakeHostname, Sees, Consume,
     InLoop, BadArgs, Return, CliResults
=============================================================================
