-------------------------- MODULE NetrcParserProofs --------------------------
(***************************************************************************)
(* What the netrc library keeps true, whatever the file.                   *)
(***************************************************************************)
EXTENDS NetrcParser, SequenceTheorems, WellFoundedInduction, TLAPS

ParserInv == ParserTypeOK /\ CurrentIsThere

Hosts == Seq([host : FileWords, mach : Machines])

(* What reading a word leaves of the line. *)
LEMMA AfterWordType ==
    ASSUME NEW w \in FileWords, line \in Seq(LineWords), line # <<>>
    PROVE  AfterWord(w) \in Seq(LineWords)
<1>1. Tail(line) \in Seq(LineWords)
  OBVIOUS
<1>2. Leftover[w] \in FileWords \cup {NoWord, Broken}
  BY LeftoverAssumption
<1>3. CASE Leftover[w] = NoWord
  BY <1>1, <1>3 DEF AfterWord
<1>4. CASE Leftover[w] # NoWord
  <2>1. <<Leftover[w]>> \in Seq(LineWords)
    BY <1>2, <1>4 DEF LineWords
  <2> QED
    BY <1>1, <1>4, <2>1 DEF AfterWord
<1> QED
  BY <1>3, <1>4

LEMMA NextWordType ==
    ASSUME ParserInv, NEW w \in FileWords, NextWord(w)
    PROVE  line' \in Seq(LineWords) /\ UNCHANGED unread /\ parse = "parsing"
BY AfterWordType DEF ParserInv, ParserTypeOK, NextWord, WordIs, LineWords

LEMMA NewMachineType == NewMachine \in Machines
BY DEF NewMachine, Machines

LEMMA FailsStep ==
    ASSUME ParserInv, NEW r \in ParseResults, Fails(r)
    PROVE  ParserInv'
BY DEF ParserInv, ParserTypeOK, CurrentIsThere, Refs, HasMachine, Fails, netrc

(* Steps that only read. *)
LEMMA ReadStep ==
    ASSUME ParserInv, Refill \/ MacroEntry \/ MacroLine \/ MacroEnds
    PROVE  ParserInv'
<1>1. unread' \in Seq(Lines) /\ line' \in Seq(LineWords)
  <2>1. unread \in Seq(Lines) /\ line \in Seq(LineWords)
    BY DEF ParserInv, ParserTypeOK, LineWords
  <2>2. ASSUME unread # <<>> PROVE Tail(unread) \in Seq(Lines) /\ Head(unread).words \in Seq(LineWords)
    <3>1. Head(unread) \in Lines /\ Tail(unread) \in Seq(Lines)
      BY <2>1, <2>2
    <3> QED
      BY <3>1 DEF Lines, LineWords
  <2>3. <<>> \in Seq(LineWords)
    OBVIOUS
  <2>4. CASE Refill
    BY <2>2, <2>4 DEF Refill
  <2>5. CASE MacroEntry
    BY <2>1, <2>3, <2>5 DEF MacroEntry
  <2>6. CASE MacroLine
    BY <2>1, <2>2, <2>6 DEF MacroLine
  <2>7. CASE MacroEnds
    BY <2>1, <2>2, <2>7 DEF MacroEnds
  <2> QED
    BY <2>4, <2>5, <2>6, <2>7
<1>2. UNCHANGED <<hosts, default, parse>>
  BY DEF netrc, Refill, MacroEntry, MacroLine, MacroEnds
<1>3. \/ UNCHANGED <<item, current>>
      \/ item' = "commands" /\ UNCHANGED current
      \/ item' = "entry" /\ current' = Nothing
  BY DEF Refill, MacroEntry, MacroLine, MacroEnds, AfterMacro
<1>4. ParserTypeOK'
  BY <1>1, <1>2, <1>3 DEF ParserInv, ParserTypeOK, LineWords
<1>5. CurrentIsThere'
  BY <1>2, <1>3 DEF ParserInv, CurrentIsThere, Refs, HasMachine, Fields, Nothing, Default
<1> QED
  BY <1>4, <1>5 DEF ParserInv

LEMMA DefaultEntryStep ==
    ASSUME ParserInv, DefaultEntry
    PROVE  ParserInv'
<1>1. line' \in Seq(LineWords) /\ UNCHANGED <<unread, item, hosts, parse>>
  BY NextWordType, WordsAssumption DEF DefaultEntry, Keywords
<1>2. default' = <<NewMachine>> /\ current' = Default /\ item = "entry"
  BY DEF DefaultEntry
<1>3. default' \in Seq(Machines) /\ Len(default') = 1
  BY <1>2, NewMachineType
<1>4. ParserTypeOK'
  BY <1>1, <1>3 DEF ParserInv, ParserTypeOK, LineWords
<1>5. CurrentIsThere'
  BY <1>1, <1>2, <1>3 DEF CurrentIsThere, Refs, HasMachine, Fields, Nothing, Default
<1> QED
  BY <1>4, <1>5 DEF ParserInv

LEMMA StartsEntryStep ==
    ASSUME ParserInv, StartsEntry
    PROVE  ParserInv'
<1>1. PICK w \in {"machine", "macdef"} \cup (IF HasMachine THEN Fields ELSE {}) :
           NextWord(w) /\ item' = w
  BY DEF StartsEntry
<1>2. w \in FileWords /\ UNCHANGED <<hosts, default, current, parse>>
  BY <1>1, WordsAssumption DEF Keywords, StartsEntry, netrc
<1>3. line' \in Seq(LineWords) /\ UNCHANGED unread
  BY <1>1, <1>2, NextWordType
<1>4. ParserTypeOK'
  BY <1>1, <1>2, <1>3 DEF ParserInv, ParserTypeOK, LineWords
<1>5. CurrentIsThere'
  BY <1>1, <1>2 DEF ParserInv, CurrentIsThere, Refs, HasMachine, Fields
<1> QED
  BY <1>4, <1>5 DEF ParserInv

LEMMA MachineEntryStep ==
    ASSUME ParserInv, MachineEntry
    PROVE  ParserInv'
<1>1. PICK w \in FileWords :
           NextWord(w) /\ hosts' = Append(hosts, [host |-> w, mach |-> NewMachine])
  BY DEF MachineEntry
<1>2. line' \in Seq(LineWords) /\ UNCHANGED <<unread, default, parse>> /\ item' = "entry"
  BY <1>1, NextWordType DEF MachineEntry
<1>3. hosts \in Hosts /\ [host |-> w, mach |-> NewMachine] \in [host : FileWords, mach : Machines]
  BY NewMachineType DEF ParserInv, ParserTypeOK, Hosts
<1>4. hosts' \in Hosts /\ Len(hosts') = Len(hosts) + 1 /\ Len(hosts) \in Nat
  BY <1>1, <1>3 DEF Hosts
<1>5. current' = Len(hosts')
  BY DEF MachineEntry, MachineAt
<1>6. ParserTypeOK'
  BY <1>2, <1>4 DEF ParserInv, ParserTypeOK, LineWords, Hosts
<1>7. CurrentIsThere'
  BY <1>2, <1>4, <1>5 DEF CurrentIsThere, Refs, HasMachine, Fields, Nothing, Default
<1> QED
  BY <1>6, <1>7 DEF ParserInv

LEMMA FieldEntryStep ==
    ASSUME ParserInv, FieldEntry
    PROVE  ParserInv'
<1>1. PICK w \in FileWords : NextWord(w) /\ SetField(w)
  BY DEF FieldEntry
<1>2. line' \in Seq(LineWords) /\ UNCHANGED <<unread, current, parse>> /\ item' = "entry"
  BY <1>1, NextWordType DEF FieldEntry
<1>3. item \in Fields /\ current # Nothing /\ current \in Refs
  BY DEF FieldEntry, ParserInv, CurrentIsThere, HasMachine
<1>4. hosts \in Hosts /\ default \in Seq(Machines)
  BY DEF ParserInv, ParserTypeOK, Hosts
<1>5. ASSUME NEW m \in Machines PROVE [m EXCEPT ![item] = w] \in Machines
  BY <1>3 DEF Machines
<1>6. hosts' \in Hosts /\ default' \in Seq(Machines)
         /\ Len(hosts') = Len(hosts) /\ Len(default') = Len(default)
  <2>1. CASE current = Default
    <3>1. Len(default) = 1
      BY <2>1 DEF ParserInv, CurrentIsThere
    <3>2. default[1] \in Machines
      BY <1>4, <3>1
    <3>3. default' = [default EXCEPT ![1] = [default[1] EXCEPT ![item] = w]] /\ hosts' = hosts
      BY <1>1, <2>1 DEF SetField
    <3>4. default' \in Seq(Machines) /\ Len(default') = Len(default)
      BY <1>4, <1>5, <3>1, <3>2, <3>3, ExceptSeq
    <3> QED
      BY <1>4, <3>3, <3>4
  <2>2. CASE current # Default
    <3>1. current \in 1..Len(hosts)
      BY <1>3, <2>2 DEF Refs
    <3>2. hosts[current] \in [host : FileWords, mach : Machines]
      BY <1>4, <3>1, ElementOfSeq DEF Hosts
    <3>3. /\ hosts' = [hosts EXCEPT ![current] =
                          [hosts[current] EXCEPT !.mach = [hosts[current].mach EXCEPT ![item] = w]]]
          /\ default' = default
      BY <1>1, <2>2 DEF SetField
    <3>4. [hosts[current] EXCEPT !.mach = [hosts[current].mach EXCEPT ![item] = w]]
            \in [host : FileWords, mach : Machines]
      BY <1>5, <3>2
    <3>5. hosts' \in Hosts /\ Len(hosts') = Len(hosts)
      BY <1>4, <3>1, <3>3, <3>4 DEF Hosts
    <3> QED
      BY <1>4, <3>3, <3>5
  <2> QED
    BY <2>1, <2>2
<1>7. ParserTypeOK'
  BY <1>2, <1>6 DEF ParserInv, ParserTypeOK, LineWords, Hosts
<1>8. CurrentIsThere'
  BY <1>2, <1>6 DEF ParserInv, CurrentIsThere, Refs, HasMachine, Fields
<1> QED
  BY <1>7, <1>8 DEF ParserInv

LEMMA ParserInitInv ==
    ASSUME ParserInit
    PROVE  ParserInv
BY DEF ParserInit, ParserInv, ParserTypeOK, CurrentIsThere, Refs, HasMachine, Fields, Nothing, Default

LEMMA ParserNextInv ==
    ASSUME ParserInv, ParserNext
    PROVE  ParserInv'
<1>1. CASE \/ RefillFails \/ EndOfFile \/ CursorInsideCharacter \/ FieldWithoutMachine
           \/ UnknownEntry \/ BadPort \/ MacroNameBreaks
  BY <1>1, FailsStep DEF RefillFails, EndOfFile, CursorInsideCharacter, FieldWithoutMachine,
       UnknownEntry, BadPort, MacroNameBreaks, ParseResults
<1> QED
  BY <1>1, ReadStep, DefaultEntryStep, StartsEntryStep, MachineEntryStep, FieldEntryStep
     DEF ParserNext

(* The lines of the file that was opened come as they are. *)
LEMMA ParserInvOpens ==
    ASSUME ParserInv, unread' \in Seq(Lines), UNCHANGED <<line, item, netrc, current, parse>>
    PROVE  ParserInv'
BY DEF ParserInv, ParserTypeOK, CurrentIsThere, Refs, HasMachine, netrc

LEMMA ParserInvStutters ==
    ASSUME ParserInv, UNCHANGED parserVars
    PROVE  ParserInv'
BY ParserInvOpens DEF parserVars, ParserInv, ParserTypeOK

----------------------------------------------------------------------------
(***************************************************************************)
(* The loops of the library come to their end: a step takes a line, or a   *)
(* word of the line, or ends a macro, or leaves of a word less than it     *)
(* was.  Size[w] is the size of w in bytes.                                *)
(***************************************************************************)
LeavesLess(Size) ==
    \A w \in FileWords : Leftover[w] \in FileWords => Size[Leftover[w]] < Size[w]

HeadSize(Size) == IF line # <<>> /\ Head(line) \in FileWords THEN Size[Head(line)] + 1 ELSE 0
Commands == IF item = "commands" THEN 1 ELSE 0

LEMMA HeadSizeType ==
    ASSUME NEW Size \in [FileWords -> Nat]
    PROVE  HeadSize(Size) \in Nat
BY DEF HeadSize

LEMMA WordNearer ==
    ASSUME NEW Size \in [FileWords -> Nat], LeavesLess(Size),
           ParserInv, NEW w \in FileWords, NextWord(w)
    PROVE  /\ UNCHANGED unread
           /\ \/ Len(line') < Len(line)
              \/ Len(line') = Len(line) /\ HeadSize(Size)' < HeadSize(Size)
<1>1. /\ line # <<>> /\ Head(line) = w /\ line \in Seq(LineWords)
      /\ line' = AfterWord(w) /\ UNCHANGED unread
  BY DEF NextWord, WordIs, ParserInv, ParserTypeOK, LineWords
<1>2. Tail(line) \in Seq(LineWords) /\ Len(Tail(line)) = Len(line) - 1 /\ Len(line) \in Nat
  BY <1>1
<1>3. CASE Leftover[w] = NoWord
  <2>1. line' = Tail(line)
    BY <1>1, <1>3 DEF AfterWord
  <2>2. Len(line') < Len(line)
    BY <1>2, <2>1
  <2> QED
    BY <1>1, <2>2
<1>4. CASE Leftover[w] # NoWord
  <2>1. Leftover[w] \in LineWords
    BY <1>4, LeftoverAssumption DEF LineWords
  <2>2. /\ line' # <<>> /\ Head(line') = Leftover[w] /\ Len(line') = Len(line)
    BY <1>1, <1>2, <1>4, <2>1 DEF AfterWord
  <2>3. HeadSize(Size) = Size[w] + 1 /\ Size[w] \in Nat
    BY <1>1 DEF HeadSize
  <2>4. HeadSize(Size)' =
          IF Leftover[w] \in FileWords THEN Size[Leftover[w]] + 1 ELSE 0
    BY <2>2 DEF HeadSize
  <2>5. Leftover[w] \in FileWords => Size[Leftover[w]] \in Nat /\ Size[Leftover[w]] < Size[w]
    BY DEF LeavesLess
  <2> QED
    BY <1>1, <2>2, <2>3, <2>4, <2>5
<1> QED
  BY <1>3, <1>4

LEMMA ParserNearer ==
    ASSUME NEW Size \in [FileWords -> Nat], LeavesLess(Size), ParserInv, ParserNext
    PROVE  /\ parse = "parsing"
           /\ \/ parse' \in ParseResults
              \/ /\ parse' = "parsing"
                 /\ \/ Len(unread') < Len(unread)
                    \/ /\ UNCHANGED unread
                       /\ \/ Len(line') < Len(line)
                          \/ /\ Len(line') = Len(line)
                             /\ \/ Commands' < Commands
                                \/ Commands' = Commands /\ HeadSize(Size)' < HeadSize(Size)
<1>1. CASE \/ RefillFails \/ EndOfFile \/ CursorInsideCharacter \/ FieldWithoutMachine
           \/ UnknownEntry \/ BadPort \/ MacroNameBreaks
  BY <1>1 DEF RefillFails, EndOfFile, CursorInsideCharacter, FieldWithoutMachine,
       UnknownEntry, BadPort, MacroNameBreaks, WordIs, Fails, ParseResults
<1>2. CASE DefaultEntry \/ StartsEntry \/ MachineEntry \/ FieldEntry
  <2>1. /\ item # "commands" /\ item' # "commands" /\ UNCHANGED parse
        /\ \E w \in FileWords : NextWord(w)
    BY <1>2, WordsAssumption DEF DefaultEntry, StartsEntry, MachineEntry, FieldEntry, Fields, Keywords
  <2>2. parse = "parsing"
    BY <2>1 DEF NextWord, WordIs
  <2> QED
    BY <2>1, <2>2, WordNearer DEF Commands
<1>3. CASE Refill \/ MacroLine \/ (MacroEnds /\ unread # <<>>)
  <2>1. parse = "parsing" /\ UNCHANGED parse /\ unread # <<>> /\ unread' = Tail(unread)
    BY <1>3 DEF Refill, MacroLine, MacroEnds
  <2>2. Len(unread') < Len(unread)
    BY <2>1 DEF ParserInv, ParserTypeOK
  <2> QED
    BY <2>1, <2>2
<1>4. CASE MacroEnds /\ unread = <<>>
  BY <1>4 DEF MacroEnds, Commands
<1>5. CASE MacroEntry
  <2>1. parse = "parsing" /\ UNCHANGED <<parse, unread>> /\ line # <<>> /\ line' = <<>>
    BY <1>5 DEF MacroEntry, WordIs
  <2>2. Len(line') < Len(line)
    BY <2>1 DEF ParserInv, ParserTypeOK
  <2> QED
    BY <2>1, <2>2
<1> QED
  BY <1>1, <1>2, <1>3, <1>4, <1>5 DEF ParserNext
----------------------------------------------------------------------------
LEMMA LeastNumber ==
    ASSUME NEW numbers, numbers \subseteq Nat, numbers # {}
    PROVE  Least(numbers) \in numbers /\ \A m \in numbers : Least(numbers) <= m
<1>1. PICK n \in numbers : \A m \in numbers : ~ (<<m, n>> \in OpToRel(<, Nat))
  BY WFMin, NatLessThanWellFounded
<1>2. ASSUME NEW m \in numbers PROVE n <= m
  <2>1. <<m, n>> \in Nat \X Nat /\ ~ (<<m, n>> \in OpToRel(<, Nat))
    BY <1>1
  <2>2. ~ (m < n)
    BY <2>1, Zenon DEF OpToRel
  <2>3. m \in Nat /\ n \in Nat
    BY <1>1
  <2> QED
    BY <2>2, <2>3
<1> QED
  BY <1>2 DEF Least

LEMMA LinesToReadNumbers ==
    ASSUME NEW lines \in Seq(Lines)
    PROVE  /\ LinesToRead(lines) \subseteq 1..Len(lines) /\ MacroEnding(lines) \subseteq 1..Len(lines)
           /\ LinesToRead(lines) \subseteq Nat /\ MacroEnding(lines) \subseteq Nat
<1>1. DOMAIN lines = 1..Len(lines) /\ Len(lines) \in Nat
  OBVIOUS
<1> QED
  BY <1>1 DEF LinesToRead, MacroEnding

LEMMA LinesBelowType ==
    ASSUME NEW lines \in Seq(Lines), NEW n \in 0..Len(lines)
    PROVE  /\ LinesBelow(lines, n) \in Seq(Lines)
           /\ Len(LinesBelow(lines, n)) = Len(lines) - n
<1>1. \A i \in (n + 1)..Len(lines) : lines[i] \in Lines
  BY ElementOfSeq
<1> QED
  BY <1>1, SubSeqProperties DEF LinesBelow

(* A place is nearer to the end of the file. *)
Nearer(words, lines, words2, lines2) ==
    \/ Len(lines) < Len(lines2)
    \/ Len(lines) = Len(lines2) /\ Len(words) < Len(words2)

LEMMA TokenType ==
    ASSUME NEW words \in Seq(LineWords), NEW lines \in Seq(Lines), NEW t \in NextToken(words, lines)
    PROVE  /\ t.word \in LineWords /\ t.words \in Seq(LineWords) /\ t.lines \in Seq(Lines)
           /\ Nearer(t.words, t.lines, words, lines)
<1>1. CASE words # <<>>
  <2>1. t = Token(Head(words), Tail(words), lines)
    BY <1>1 DEF NextToken
  <2>2. Head(words) \in LineWords /\ Tail(words) \in Seq(LineWords) /\ Len(Tail(words)) < Len(words)
    BY <1>1
  <2> QED
    BY <2>1, <2>2 DEF Token, Nearer
<1>2. CASE words = <<>>
  <2> DEFINE n == Least(LinesToRead(lines))
  <2>1. LinesToRead(lines) # {}
    BY <1>2 DEF NextToken
  <2>2. n \in 1..Len(lines) /\ n \in LinesToRead(lines)
    BY <2>1, LinesToReadNumbers, LeastNumber
  <2>3. lines[n] \in Lines
    BY <2>2, ElementOfSeq
  <2>4. LinesBelow(lines, n) \in Seq(Lines) /\ Len(LinesBelow(lines, n)) < Len(lines)
    BY <2>2, LinesBelowType
  <2>5. CASE lines[n].kind = "bad"
    <3>1. t = Token(Broken, <<>>, LinesBelow(lines, n))
      BY <1>2, <2>1, <2>5 DEF NextToken
    <3> QED
      BY <2>4, <3>1 DEF Token, Nearer, LineWords
  <2>6. CASE lines[n].kind # "bad"
    <3>1. t = Token(Head(lines[n].words), Tail(lines[n].words), LinesBelow(lines, n))
      BY <1>2, <2>1, <2>6 DEF NextToken
    <3>2. lines[n].words \in Seq(LineWords) /\ lines[n].words # <<>>
      BY <2>2, <2>3, <2>6 DEF LinesToRead, Lines, LineWords
    <3>3. Head(lines[n].words) \in LineWords /\ Tail(lines[n].words) \in Seq(LineWords)
      BY <3>2
    <3> QED
      BY <2>4, <3>1, <3>3 DEF Token, Nearer
  <2> QED
    BY <2>5, <2>6
<1> QED
  BY <1>1, <1>2

LEMMA BelowMacroType ==
    ASSUME NEW lines \in Seq(Lines)
    PROVE  BelowMacro(lines) \in Seq(Lines) /\ Len(BelowMacro(lines)) <= Len(lines)
<1>1. CASE MacroEnding(lines) = {}
  BY <1>1 DEF BelowMacro
<1>2. CASE MacroEnding(lines) # {}
  <2> DEFINE n == Least(MacroEnding(lines))
  <2>1. n \in 1..Len(lines)
    BY <1>2, LinesToReadNumbers, LeastNumber
  <2> HIDE DEF n
  <2>2. BelowMacro(lines) \in {LinesBelow(lines, n - 1), LinesBelow(lines, n)}
    BY <1>2 DEF BelowMacro, n
  <2>3. n \in 0..Len(lines) /\ n - 1 \in 0..Len(lines)
    BY <2>1
  <2> QED
    BY <2>1, <2>2, <2>3, LinesBelowType
<1> QED
  BY <1>1, <1>2

----------------------------------------------------------------------------
Closer(p, q) == p \in Places /\ Nearer(p[2], p[3], q[2], q[3])

LEMMA PlaceType ==
    ASSUME NEW p \in Places
    PROVE  /\ p[2] \in Seq(LineWords) /\ p[3] \in Seq(Lines)
           /\ Len(p[2]) \in Nat /\ Len(p[3]) \in Nat
<1>1. p[2] \in Seq(LineWords) /\ p[3] \in Seq(Lines)
  BY DEF Places
<1> QED
  BY <1>1

LEMMA CloserIsOrder ==
    ASSUME NEW p \in Places, NEW q \in Places, NEW r \in Places
    PROVE  ~ Closer(p, p) /\ (Closer(p, q) /\ Closer(q, r) => Closer(p, r))
<1>1. \A x \in {p, q, r} : Len(x[2]) \in Nat /\ Len(x[3]) \in Nat
  BY PlaceType
<1> QED
  BY <1>1 DEF Closer, Nearer

(* Every set of places has one that no other is closer to the end than. *)
LEMMA ClosestPlace ==
    ASSUME NEW T, T \subseteq Places, T # {}
    PROVE  \E p \in T : \A q \in T : ~ Closer(q, p)
<1>1. \A p \in T : Len(p[2]) \in Nat /\ Len(p[3]) \in Nat
  BY PlaceType
<1> DEFINE Lengths == {Len(p[3]) : p \in T}
<1> DEFINE Low == {p \in T : Len(p[3]) = Least(Lengths)}
<1> DEFINE Widths == {Len(p[2]) : p \in Low}
<1>2. Lengths \subseteq Nat /\ Lengths # {}
  BY <1>1
<1>3. Least(Lengths) \in Lengths /\ \A n \in Lengths : Least(Lengths) <= n
  BY <1>2, LeastNumber
<1>4. Widths \subseteq Nat /\ Widths # {}
  BY <1>1, <1>3
<1>5. Least(Widths) \in Widths /\ \A n \in Widths : Least(Widths) <= n
  BY <1>4, LeastNumber
<1>6. PICK p \in Low : Len(p[2]) = Least(Widths)
  BY <1>5
<1>7. ASSUME NEW q \in T PROVE ~ Closer(q, p)
  <2>1. Len(p[3]) <= Len(q[3])
    BY <1>3, <1>6
  <2>2. Len(q[3]) = Len(p[3]) => Len(p[2]) <= Len(q[2])
    BY <1>5, <1>6
  <2>3. Len(p[2]) \in Nat /\ Len(p[3]) \in Nat /\ Len(q[2]) \in Nat /\ Len(q[3]) \in Nat
    BY <1>1, <1>6
  <2> QED
    BY <2>1, <2>2, <2>3 DEF Closer, Nearer
<1> QED
  BY <1>6, <1>7

(* What is behind a token, or behind the argument of an entry, is closer.  *)
LEMMA BehindToken ==
    ASSUME NEW p \in Places, NEW t \in NextToken(p[2], p[3]), NEW machine \in BOOLEAN
    PROVE  /\ Closer(<<machine, t.words, t.lines>>, p)
           /\ \A u \in NextToken(t.words, t.lines) :
                /\ Closer(<<machine, u.words, u.lines>>, p)
                /\ Closer(<<machine, <<>>, BelowMacro(u.lines)>>, p)
<1>1. p[2] \in Seq(LineWords) /\ p[3] \in Seq(Lines) /\ Len(p[2]) \in Nat /\ Len(p[3]) \in Nat
  BY PlaceType
<1>2. /\ t.words \in Seq(LineWords) /\ t.lines \in Seq(Lines)
      /\ Nearer(t.words, t.lines, p[2], p[3])
  BY <1>1, TokenType
<1>3. Closer(<<machine, t.words, t.lines>>, p)
  BY <1>2 DEF Closer, Places
<1>4. ASSUME NEW u \in NextToken(t.words, t.lines)
      PROVE  /\ Closer(<<machine, u.words, u.lines>>, p)
             /\ Closer(<<machine, <<>>, BelowMacro(u.lines)>>, p)
  <2>1. /\ u.words \in Seq(LineWords) /\ u.lines \in Seq(Lines)
        /\ Nearer(u.words, u.lines, t.words, t.lines)
    BY <1>2, TokenType
  <2>2. BelowMacro(u.lines) \in Seq(Lines) /\ Len(BelowMacro(u.lines)) <= Len(u.lines)
    BY <2>1, BelowMacroType
  <2>3. <<>> \in Seq(LineWords) /\ Len(<<>>) = 0
    OBVIOUS
  <2>4. /\ Len(u.words) \in Nat /\ Len(u.lines) \in Nat /\ Len(t.words) \in Nat /\ Len(t.lines) \in Nat
        /\ Len(BelowMacro(u.lines)) \in Nat
    BY <1>2, <2>1, <2>2
  <2>5. Nearer(u.words, u.lines, p[2], p[3])
    BY <1>1, <1>2, <2>1, <2>4 DEF Nearer
  <2>6. Nearer(<<>>, BelowMacro(u.lines), p[2], p[3])
    BY <1>1, <1>2, <2>1, <2>2, <2>3, <2>4 DEF Nearer
  <2>7. <<machine, u.words, u.lines>> \in Places /\ <<machine, <<>>, BelowMacro(u.lines)>> \in Places
    BY <2>1, <2>2, <2>3 DEF Places
  <2> QED
    BY <2>5, <2>6, <2>7 DEF Closer
<1> QED
  BY <1>3, <1>4

(* An entry is read from places that are closer to the end.                *)
LEMMA ReadsAhead ==
    ASSUME NEW f, NEW g, NEW p \in Places, \A q \in Places : Closer(q, p) => f[q] = g[q]
    PROVE  EntryRead(f, p) = EntryRead(g, p)
<1>1. ASSUME NEW t \in NextToken(p[2], p[3]) PROVE EntryAt(f, p[1], t) = EntryAt(g, p[1], t)
  <2>1. f[<<TRUE, t.words, t.lines>>] = g[<<TRUE, t.words, t.lines>>]
    BY BehindToken DEF Closer
  <2>2. \A u \in NextToken(t.words, t.lines) :
          /\ f[<<TRUE, u.words, u.lines>>] = g[<<TRUE, u.words, u.lines>>]
          /\ f[<<FALSE, <<>>, BelowMacro(u.lines)>>] = g[<<FALSE, <<>>, BelowMacro(u.lines)>>]
    BY BehindToken DEF Closer
  <2>3. Value(t.words, t.lines) \subseteq NextToken(t.words, t.lines)
    BY DEF Value
  <2>4. MachineRead(f, t.words, t.lines) = MachineRead(g, t.words, t.lines)
    BY <2>2, <2>3 DEF MachineRead
  <2>5. FieldRead(f, t.word, t.words, t.lines) = FieldRead(g, t.word, t.words, t.lines)
    BY <2>2, <2>3 DEF FieldRead
  <2>6. MacroRead(f, t.words, t.lines) = MacroRead(g, t.words, t.lines)
    BY <2>2 DEF MacroRead
  <2> QED
    BY <2>1, <2>4, <2>5, <2>6 DEF EntryAt
<1> QED
  BY <1>1 DEF EntryRead

----------------------------------------------------------------------------
(***************************************************************************)
(* Reading is a function that satisfies its definition: up to every place  *)
(* there is one, and no more than one.                                     *)
(***************************************************************************)
ReadsTo(f, p) == \A q \in Places : q = p \/ Closer(q, p) => f[q] = EntryRead(f, q)

LEMMA ReadsToCloser ==
    ASSUME NEW f, NEW p \in Places, NEW q \in Places, ReadsTo(f, p), Closer(q, p)
    PROVE  ReadsTo(f, q)
BY CloserIsOrder DEF ReadsTo

LEMMA OneReading ==
    ASSUME NEW f, NEW g, NEW p \in Places, ReadsTo(f, p), ReadsTo(g, p)
    PROVE  f[p] = g[p]
<1> DEFINE T == {q \in Places : ReadsTo(f, q) /\ ReadsTo(g, q) /\ f[q] # g[q]}
<1> SUFFICES ASSUME T # {} PROVE FALSE
  OBVIOUS
<1>1. PICK q \in T : \A r \in T : ~ Closer(r, q)
  <2>1. T \subseteq Places
    OBVIOUS
  <2> HIDE DEF T
  <2> QED
    BY <2>1, ClosestPlace
<1>2. \A r \in Places : Closer(r, q) => f[r] = g[r]
  BY <1>1, ReadsToCloser
<1>3. EntryRead(f, q) = EntryRead(g, q)
  BY <1>2, ReadsAhead
<1> QED
  BY <1>1, <1>3 DEF ReadsTo

SomeReading(p) == CHOOSE f : ReadsTo(f, p)

(* Readings up to the places before p make one up to all of them.          *)
Together == [q \in Places |-> SomeReading(q)[q]]

LEMMA TogetherReads ==
    ASSUME NEW q \in Places, ReadsTo(SomeReading(q), q),
           \A r \in Places : Closer(r, q) => ReadsTo(SomeReading(r), r)
    PROVE  Together[q] = EntryRead(Together, q)
<1>1. ASSUME NEW r \in Places, Closer(r, q) PROVE SomeReading(q)[r] = Together[r]
  BY <1>1, ReadsToCloser, OneReading DEF Together
<1>2. EntryRead(SomeReading(q), q) = EntryRead(Together, q)
  BY <1>1, ReadsAhead
<1> QED
  BY <1>2 DEF Together, ReadsTo

LEMMA ReadingExists ==
    ASSUME NEW p \in Places
    PROVE  ReadsTo(SomeReading(p), p)
<1> DEFINE T == {q \in Places : ~ ReadsTo(SomeReading(q), q)}
<1> SUFFICES ASSUME T # {} PROVE FALSE
  OBVIOUS
<1>1. PICK q \in T : \A r \in T : ~ Closer(r, q)
  <2>1. T \subseteq Places
    OBVIOUS
  <2> HIDE DEF T
  <2> QED
    BY <2>1, ClosestPlace
<1>2. \A r \in Places : Closer(r, q) => ReadsTo(SomeReading(r), r)
  BY <1>1
<1> DEFINE f == [r \in Places |-> IF r = q THEN EntryRead(Together, q) ELSE Together[r]]
<1>3. ASSUME NEW r \in Places, r = q \/ Closer(r, q) PROVE f[r] = EntryRead(f, r)
  <2>1. \A s \in Places : Closer(s, r) => f[s] = Together[s]
    BY <1>3, CloserIsOrder
  <2> HIDE DEF f
  <2>2. EntryRead(f, r) = EntryRead(Together, r)
    BY <2>1, ReadsAhead
  <2>3. CASE r = q
    BY <2>2, <2>3 DEF f
  <2>4. CASE r # q
    <3>1. f[r] = Together[r]
      BY <2>4 DEF f
    <3>2. Together[r] = EntryRead(Together, r)
      BY <1>2, <1>3, <2>4, CloserIsOrder, TogetherReads
    <3> QED
      BY <2>2, <3>1, <3>2
  <2> QED
    BY <2>3, <2>4
<1>4. ReadsTo(f, q)
  <2> HIDE DEF f
  <2> QED
    BY <1>3 DEF ReadsTo
<1>5. ReadsTo(SomeReading(q), q)
  <2> HIDE DEF f
  <2> QED
    BY <1>4 DEF SomeReading
<1> QED
  BY <1>1, <1>5

LEMMA ReadingDef ==
    ASSUME NEW p \in Places
    PROVE  Reading[p] = EntryRead(Reading, p)
<1>1. \A q \in Places : Together[q] = EntryRead(Together, q)
  BY ReadingExists, TogetherReads
<1>2. Together = [q \in Places |-> EntryRead(Together, q)]
  <2>1. Together = [q \in Places |-> Together[q]]
    BY DEF Together
  <2> QED
    BY <1>1, <2>1, Zenon
<1>3. Reading = [q \in Places |-> EntryRead(Reading, q)]
  BY <1>2, Zenon DEF Reading
<1> QED
  BY <1>3, Zenon

Rests == [login : FileWords \cup {NoWord}, records : Seq(Records)]

LEMMA ReadingType ==
    ASSUME NEW p \in Places
    PROVE  Reading[p] \subseteq Rests
<1> DEFINE T == {q \in Places : ~ (Reading[q] \subseteq Rests)}
<1> SUFFICES ASSUME T # {} PROVE FALSE
  OBVIOUS
<1>1. PICK q \in T : \A r \in T : ~ Closer(r, q)
  <2>1. T \subseteq Places
    OBVIOUS
  <2> HIDE DEF T
  <2> QED
    BY <2>1, ClosestPlace
<1>2. \A r \in Places : Closer(r, q) => Reading[r] \subseteq Rests
  BY <1>1
<1>3. ASSUME NEW readings, readings \subseteq Rests
      PROVE  /\ WithoutMachine(readings) \subseteq Rests
             /\ \A w \in FileWords : WithMachine(w, readings) \subseteq Rests
             /\ \A w \in FileWords : \A field : WithField(field, w, readings) \subseteq Rests
  <2>1. WithoutMachine(readings) \subseteq Rests
    BY <1>3 DEF WithoutMachine, Rests, Rest
  <2>2. ASSUME NEW w \in FileWords PROVE WithMachine(w, readings) \subseteq Rests
    <3>1. ASSUME NEW r \in readings
          PROVE  <<[host |-> w, login |-> r.login]>> \o r.records \in Seq(Records)
      <4>1. r.login \in FileWords \cup {NoWord} /\ r.records \in Seq(Records)
        BY <1>3, <3>1 DEF Rests
      <4>2. [host |-> w, login |-> r.login] \in Records
        BY <4>1 DEF Records
      <4> QED
        BY <4>1, <4>2
    <3>2. \A records \in Seq(Records) : Rest(NoWord, records) \in Rests
      BY DEF Rests, Rest
    <3> QED
      BY <3>1, <3>2 DEF WithMachine
  <2>3. ASSUME NEW w \in FileWords, NEW field PROVE WithField(field, w, readings) \subseteq Rests
    BY <1>3 DEF WithField, Rests, Rest
  <2> QED
    BY <2>1, <2>2, <2>3
<1>4. ASSUME NEW t \in NextToken(q[2], q[3]) PROVE EntryAt(Reading, q[1], t) \subseteq Rests
  <2>1. Reading[<<TRUE, t.words, t.lines>>] \subseteq Rests
    BY <1>2, BehindToken DEF Closer
  <2>2. \A u \in NextToken(t.words, t.lines) :
          /\ Reading[<<TRUE, u.words, u.lines>>] \subseteq Rests
          /\ Reading[<<FALSE, <<>>, BelowMacro(u.lines)>>] \subseteq Rests
    BY <1>2, BehindToken DEF Closer
  <2>3. /\ Value(t.words, t.lines) \subseteq NextToken(t.words, t.lines)
        /\ \A u \in Value(t.words, t.lines) : u.word \in FileWords
    BY DEF Value
  <2>4. MachineRead(Reading, t.words, t.lines) \subseteq Rests
    BY <1>3, <2>2, <2>3 DEF MachineRead
  <2>5. FieldRead(Reading, t.word, t.words, t.lines) \subseteq Rests
    <3>1. ASSUME NEW u \in Value(t.words, t.lines)
          PROVE  WithField(t.word, u.word, Reading[<<TRUE, u.words, u.lines>>]) \subseteq Rests
      BY <1>3, <2>2, <2>3
    <3> QED
      BY <3>1 DEF FieldRead
  <2>6. MacroRead(Reading, t.words, t.lines) \subseteq Rests
    BY <1>3, <2>2 DEF MacroRead
  <2>7. WithoutMachine(Reading[<<TRUE, t.words, t.lines>>]) \subseteq Rests
    BY <1>3, <2>1
  <2> QED
    BY <2>4, <2>5, <2>6, <2>7 DEF EntryAt
<1>5. Rest(NoWord, <<>>) \in Rests
  BY DEF Rest, Rests
<1>6. Reading[q] \subseteq Rests
  <2>1. q \in Places
    OBVIOUS
  <2> HIDE DEF T
  <2>2. EntryRead(Reading, q) \subseteq Rests
    BY <1>4, <1>5 DEF EntryRead
  <2> QED
    BY <2>1, <2>2, ReadingDef
<1> QED
  BY <1>1, <1>6

----------------------------------------------------------------------------
(***************************************************************************)
(* Where lines end makes no difference to the next word.                   *)
(***************************************************************************)
LEMMA LeastIs ==
    ASSUME NEW numbers, numbers \subseteq Nat, NEW n \in numbers, \A m \in numbers : n <= m
    PROVE  Least(numbers) = n
<1>1. Least(numbers) \in numbers /\ \A m \in numbers : Least(numbers) <= m
  BY LeastNumber
<1>2. Least(numbers) \in Nat /\ n \in Nat /\ Least(numbers) <= n /\ n <= Least(numbers)
  BY <1>1
<1> QED
  BY <1>2

LEMMA HeadAndTail ==
    ASSUME NEW lines \in Seq(Lines), lines # <<>>
    PROVE  /\ Len(lines) \in Nat \ {0} /\ Head(lines) = lines[1] /\ lines[1] \in Lines
           /\ Tail(lines) \in Seq(Lines) /\ Len(Tail(lines)) = Len(lines) - 1
           /\ \A i \in 1..(Len(lines) - 1) : Tail(lines)[i] = lines[i + 1]
           /\ LinesBelow(lines, 0) = lines /\ LinesBelow(lines, 1) = Tail(lines)
           /\ \A n \in 0..(Len(lines) - 1) : LinesBelow(Tail(lines), n) = LinesBelow(lines, n + 1)
<1>1. /\ Len(lines) \in Nat \ {0} /\ Head(lines) = lines[1] /\ lines[1] \in Lines
      /\ Tail(lines) \in Seq(Lines) /\ Len(Tail(lines)) = Len(lines) - 1
      /\ \A i \in 1..(Len(lines) - 1) : Tail(lines)[i] = lines[i + 1]
  OBVIOUS
<1>2. LinesBelow(lines, 0) = lines
  BY SubSeqFull DEF LinesBelow
<1>3. LinesBelow(lines, 1) = Tail(lines)
  BY TailIsSubSeq DEF LinesBelow
<1>4. ASSUME NEW n \in 0..(Len(lines) - 1)
      PROVE  LinesBelow(Tail(lines), n) = LinesBelow(lines, n + 1)
  <2>1. /\ LinesBelow(Tail(lines), n) \in Seq(Lines)
        /\ Len(LinesBelow(Tail(lines), n)) = Len(lines) - 1 - n
    BY <1>1, LinesBelowType
  <2>2. n + 1 \in 0..Len(lines) /\ Len(lines) - (n + 1) = Len(lines) - 1 - n
    BY <1>1
  <2>3. /\ LinesBelow(lines, n + 1) \in Seq(Lines)
        /\ Len(LinesBelow(lines, n + 1)) = Len(lines) - 1 - n
    BY <2>2, LinesBelowType
  <2>4. ASSUME NEW i \in 1..(Len(lines) - 1 - n)
        PROVE  LinesBelow(Tail(lines), n)[i] = LinesBelow(lines, n + 1)[i]
    <3>1. LinesBelow(Tail(lines), n)[i] = Tail(lines)[n + i]
      BY <1>1 DEF LinesBelow
    <3>2. LinesBelow(lines, n + 1)[i] = lines[n + 1 + i]
      BY <1>1 DEF LinesBelow
    <3> QED
      BY <1>1, <3>1, <3>2
  <2> QED
    BY <2>1, <2>3, <2>4, SeqEqual
<1> QED
  BY <1>1, <1>2, <1>3, <1>4

LEMMA LeastMoves ==
    ASSUME NEW k \in Nat \ {0}, NEW L, L \subseteq 1..k, NEW M, M \subseteq 1..(k - 1), 1 \notin L,
           \A i \in 1..(k - 1) : i \in M <=> i + 1 \in L
    PROVE  /\ L = {} <=> M = {}
           /\ M # {} => Least(M) \in M /\ Least(L) = Least(M) + 1
<1>1. ASSUME NEW m \in L PROVE m - 1 \in M
  <2>1. m - 1 \in 1..(k - 1) /\ (m - 1) + 1 = m
    OBVIOUS
  <2> QED
    BY <2>1
<1>2. ASSUME NEW m \in M PROVE m + 1 \in L
  OBVIOUS
<1>3. ASSUME M # {} PROVE Least(M) \in M /\ Least(L) = Least(M) + 1
  <2>1. L \subseteq Nat /\ M \subseteq Nat
    OBVIOUS
  <2>2. Least(M) \in M /\ \A m \in M : Least(M) <= m
    BY <1>3, <2>1, LeastNumber
  <2>3. Least(M) + 1 \in L
    BY <1>2, <2>2
  <2>4. ASSUME NEW m \in L PROVE Least(M) + 1 <= m
    <3>1. Least(M) <= m - 1
      BY <1>1, <2>2
    <3>2. m \in Nat /\ Least(M) \in Nat
      BY <2>1, <2>2
    <3> QED
      BY <3>1, <3>2
  <2> QED
    BY <2>1, <2>2, <2>3, <2>4, LeastIs
<1> QED
  BY <1>1, <1>2, <1>3

LEMMA RefillRead ==
    ASSUME NEW lines \in Seq(Lines), lines # <<>>, Head(lines).kind # "bad"
    PROVE  NextToken(<<>>, lines) = NextToken(Head(lines).words, Tail(lines))
<1> DEFINE L == LinesToRead(lines)
<1> DEFINE M == LinesToRead(Tail(lines))
<1>1. DOMAIN lines = 1..Len(lines) /\ DOMAIN Tail(lines) = 1..(Len(lines) - 1)
  BY HeadAndTail
<1>2. L \subseteq 1..Len(lines) /\ M \subseteq 1..(Len(lines) - 1) /\ L \subseteq Nat
  BY HeadAndTail, LinesToReadNumbers
<1>3. CASE lines[1].words # <<>>
  <2>1. 1 \in L /\ \A m \in L : 1 <= m
    BY <1>1, <1>2, <1>3, HeadAndTail DEF LinesToRead
  <2>2. Least(L) = 1
    BY <1>2, <2>1, LeastIs
  <2> QED
    BY <1>3, <2>1, <2>2, HeadAndTail DEF NextToken
<1>4. CASE lines[1].words = <<>>
  <2>1. \A i \in 1..(Len(lines) - 1) : i \in M <=> i + 1 \in L
    BY <1>1, HeadAndTail DEF LinesToRead
  <2>2. 1 \notin L
    BY <1>4, HeadAndTail DEF LinesToRead
  <2>3. Len(lines) \in Nat \ {0}
    BY HeadAndTail
  <2>4. L = {} <=> M = {}
    BY <1>2, <2>1, <2>2, <2>3, LeastMoves
  <2>5. M # {} => Least(M) \in M /\ Least(L) = Least(M) + 1
    BY <1>2, <2>1, <2>2, <2>3, LeastMoves
  <2>6. M # {} => /\ Tail(lines)[Least(M)] = lines[Least(L)]
                  /\ LinesBelow(Tail(lines), Least(M)) = LinesBelow(lines, Least(L))
    BY <1>2, <2>3, <2>5, HeadAndTail
  <2>7. Head(lines).words = <<>>
    BY <1>4, HeadAndTail
  <2> QED
    BY <2>4, <2>6, <2>7 DEF NextToken
<1> QED
  BY <1>3, <1>4

LEMMA NoLineRead ==
    /\ NextToken(<<>>, <<>>) = {}
    /\ BelowMacro(<<>>) = <<>>
BY DEF NextToken, LinesToRead, BelowMacro, MacroEnding

LEMMA BadLineRead ==
    ASSUME NEW lines \in Seq(Lines), lines # <<>>, Head(lines).kind = "bad"
    PROVE  /\ NextToken(<<>>, lines) = {Token(Broken, <<>>, Tail(lines))}
           /\ BelowMacro(lines) = lines
<1>1. DOMAIN lines = 1..Len(lines) /\ Len(lines) \in Nat \ {0} /\ lines[1].kind = "bad"
  BY HeadAndTail
<1>2. 1 \in LinesToRead(lines) /\ 1 \in MacroEnding(lines)
  BY <1>1 DEF LinesToRead, MacroEnding
<1>3. Least(LinesToRead(lines)) = 1 /\ Least(MacroEnding(lines)) = 1
  BY <1>1, <1>2, LinesToReadNumbers, LeastIs
<1>4. NextToken(<<>>, lines) = {Token(Broken, <<>>, Tail(lines))}
  BY <1>1, <1>2, <1>3, HeadAndTail DEF NextToken
<1>5. BelowMacro(lines) = lines
  BY <1>1, <1>2, <1>3, HeadAndTail DEF BelowMacro
<1> QED
  BY <1>4, <1>5

LEMMA MacroLineRead ==
    ASSUME NEW lines \in Seq(Lines), lines # <<>>, Head(lines).kind # "bad"
    PROVE  BelowMacro(lines) =
             IF Head(lines).kind = "blank" THEN Tail(lines) ELSE BelowMacro(Tail(lines))
<1> DEFINE L == MacroEnding(lines)
<1> DEFINE M == MacroEnding(Tail(lines))
<1>1. /\ DOMAIN lines = 1..Len(lines) /\ DOMAIN Tail(lines) = 1..(Len(lines) - 1)
      /\ Len(lines) \in Nat \ {0} /\ Head(lines) = lines[1]
  BY HeadAndTail
<1>2. L \subseteq 1..Len(lines) /\ M \subseteq 1..(Len(lines) - 1)
  BY HeadAndTail, LinesToReadNumbers
<1>3. CASE lines[1].kind = "blank"
  <2>1. 1 \in L
    BY <1>1, <1>3 DEF MacroEnding
  <2>2. Least(L) = 1
    BY <2>1, LinesToReadNumbers, LeastIs, <1>2
  <2> QED
    BY <1>1, <1>3, <2>1, <2>2, HeadAndTail DEF BelowMacro
<1>4. CASE lines[1].kind # "blank"
  <2>1. \A i \in 1..(Len(lines) - 1) : i \in M <=> i + 1 \in L
    BY <1>1, HeadAndTail DEF MacroEnding
  <2>2. 1 \notin L
    BY <1>1, <1>4 DEF MacroEnding
  <2>3. L = {} <=> M = {}
    BY <1>1, <1>2, <2>1, <2>2, LeastMoves
  <2>4. M # {} => Least(M) \in M /\ Least(L) = Least(M) + 1
    BY <1>1, <1>2, <2>1, <2>2, LeastMoves
  <2>5. M # {} => /\ Tail(lines)[Least(M)] = lines[Least(L)]
                  /\ LinesBelow(Tail(lines), Least(M)) = LinesBelow(lines, Least(L))
                  /\ LinesBelow(Tail(lines), Least(M) - 1) = LinesBelow(lines, Least(L) - 1)
    <3> SUFFICES ASSUME M # {}
                 PROVE  /\ Tail(lines)[Least(M)] = lines[Least(L)]
                        /\ LinesBelow(Tail(lines), Least(M)) = LinesBelow(lines, Least(L))
                        /\ LinesBelow(Tail(lines), Least(M) - 1) = LinesBelow(lines, Least(L) - 1)
      OBVIOUS
    <3> DEFINE n == Least(M)
    <3>1. n \in 1..(Len(lines) - 1) /\ Least(L) = n + 1
      BY <1>2, <2>4
    <3> HIDE DEF n
    <3>2. n - 1 \in 0..(Len(lines) - 1) /\ (n - 1) + 1 = (n + 1) - 1
      BY <1>1, <3>1
    <3>3. LinesBelow(Tail(lines), n - 1) = LinesBelow(lines, (n + 1) - 1)
      BY <3>2, HeadAndTail
    <3>4. Tail(lines)[n] = lines[n + 1] /\ LinesBelow(Tail(lines), n) = LinesBelow(lines, n + 1)
      BY <3>1, HeadAndTail
    <3> QED
      BY <3>1, <3>3, <3>4 DEF n
  <2> QED
    BY <1>1, <1>4, <2>3, <2>5 DEF BelowMacro
<1> QED
  BY <1>3, <1>4
----------------------------------------------------------------------------
(***************************************************************************)
(* The parser and the reading of the file.  Left is what it has still to   *)
(* make of the file, Outcome the records that come of it.                  *)
(***************************************************************************)
Left ==
    CASE item = "entry" -> Reading[<<HasMachine, line, unread>>]
      [] item = "machine" -> MachineRead(Reading, line, unread)
      [] item = "macdef" -> MacroRead(Reading, line, unread)
      [] item = "commands" -> WithoutMachine(Reading[<<FALSE, <<>>, BelowMacro(unread)>>])
      [] OTHER -> FieldRead(Reading, item, line, unread)

(* The records so far, if the current one gets this login.                 *)
RecordsWith(login) ==
    [i \in DOMAIN hosts |->
        [host |-> hosts[i].host,
         login |-> IF i = current /\ login # NoWord THEN login ELSE hosts[i].mach.login]]

(* With what is left. *)
MadeOf(rest) == RecordsWith(rest.login) \o rest.records
Made(rests) == {MadeOf(rest) : rest \in rests}

Outcome ==
    CASE parse = "parsing" -> Made(Left)
      [] parse = "parsed" -> {RecordsWith(NoWord)}
      [] OTHER -> {}

ReadAt(b, tokens) ==
    IF tokens = {} THEN {Rest(NoWord, <<>>)} ELSE UNION {EntryAt(Reading, b, t) : t \in tokens}

LEMMA ReadingAt ==
    ASSUME NEW b \in BOOLEAN, NEW words \in Seq(LineWords), NEW lines \in Seq(Lines)
    PROVE  /\ <<b, words, lines>> \in Places
           /\ Reading[<<b, words, lines>>] = ReadAt(b, NextToken(words, lines))
<1> DEFINE p == <<b, words, lines>>
<1>1. p \in Places /\ p[1] = b /\ p[2] = words /\ p[3] = lines
  BY DEF Places
<1> HIDE DEF p
<1>2. Reading[p] = EntryRead(Reading, p)
  BY <1>1, ReadingDef
<1>3. EntryRead(Reading, p) = ReadAt(b, NextToken(words, lines))
  BY <1>1, Zenon DEF EntryRead, ReadAt
<1> QED
  BY <1>1, <1>2, <1>3 DEF p

LEMMA SameTokens ==
    ASSUME NEW words \in Seq(LineWords), NEW lines \in Seq(Lines),
           NEW words2 \in Seq(LineWords), NEW lines2 \in Seq(Lines),
           NextToken(words, lines) = NextToken(words2, lines2)
    PROVE  /\ \A b \in BOOLEAN : Reading[<<b, words, lines>>] = Reading[<<b, words2, lines2>>]
           /\ MachineRead(Reading, words, lines) = MachineRead(Reading, words2, lines2)
           /\ MacroRead(Reading, words, lines) = MacroRead(Reading, words2, lines2)
           /\ \A f : FieldRead(Reading, f, words, lines) = FieldRead(Reading, f, words2, lines2)
<1>1. ASSUME NEW b \in BOOLEAN PROVE Reading[<<b, words, lines>>] = Reading[<<b, words2, lines2>>]
  <2>1. Reading[<<b, words, lines>>] = ReadAt(b, NextToken(words, lines))
    BY ReadingAt
  <2>2. Reading[<<b, words2, lines2>>] = ReadAt(b, NextToken(words2, lines2))
    BY ReadingAt
  <2> QED
    BY <2>1, <2>2, Zenon
<1>2. Value(words, lines) = Value(words2, lines2)
  BY DEF Value
<1> QED
  BY <1>1, <1>2 DEF MachineRead, MacroRead, FieldRead

(* What is read where the next word is w.                                  *)
LEMMA TokenRead ==
    ASSUME NEW words \in Seq(LineWords), NEW lines \in Seq(Lines), NEW t,
           NextToken(words, lines) = {t}
    PROVE  /\ \A b \in BOOLEAN : Reading[<<b, words, lines>>] = EntryAt(Reading, b, t)
           /\ MachineRead(Reading, words, lines) =
                IF t.word \in FileWords /\ Leftover[t.word] = NoWord
                  THEN WithMachine(t.word, Reading[<<TRUE, t.words, t.lines>>]) ELSE {}
           /\ MacroRead(Reading, words, lines) =
                IF t.word \in FileWords /\ Leftover[t.word] # Broken
                  THEN WithoutMachine(Reading[<<FALSE, <<>>, BelowMacro(t.lines)>>]) ELSE {}
           /\ \A f : FieldRead(Reading, f, words, lines) =
                IF /\ t.word \in FileWords /\ Leftover[t.word] = NoWord
                   /\ f = "port" => t.word \in Ports
                  THEN WithField(f, t.word, Reading[<<TRUE, t.words, t.lines>>]) ELSE {}
<1>1. ASSUME NEW b \in BOOLEAN PROVE Reading[<<b, words, lines>>] = EntryAt(Reading, b, t)
  <2>1. ReadAt(b, {t}) = EntryAt(Reading, b, t)
    BY DEF ReadAt
  <2> QED
    BY <2>1, ReadingAt
<1>2. Value(words, lines) = IF t.word \in FileWords /\ Leftover[t.word] = NoWord THEN {t} ELSE {}
  BY DEF Value
<1>3. MachineRead(Reading, words, lines) =
        IF t.word \in FileWords /\ Leftover[t.word] = NoWord
          THEN WithMachine(t.word, Reading[<<TRUE, t.words, t.lines>>]) ELSE {}
  BY <1>2 DEF MachineRead
<1>4. MacroRead(Reading, words, lines) =
        IF t.word \in FileWords /\ Leftover[t.word] # Broken
          THEN WithoutMachine(Reading[<<FALSE, <<>>, BelowMacro(t.lines)>>]) ELSE {}
  BY DEF MacroRead
<1>5. ASSUME NEW f
      PROVE  FieldRead(Reading, f, words, lines) =
               IF /\ t.word \in FileWords /\ Leftover[t.word] = NoWord
                  /\ f = "port" => t.word \in Ports
                 THEN WithField(f, t.word, Reading[<<TRUE, t.words, t.lines>>]) ELSE {}
  BY <1>2 DEF FieldRead
<1> QED
  BY <1>1, <1>3, <1>4, <1>5

(* Nothing is read where the next word is no keyword, or cannot be read.   *)
LEMMA SpoiltRead ==
    ASSUME NEW words \in Seq(LineWords), NEW lines \in Seq(Lines), NEW t,
           NextToken(words, lines) = {t}
    PROVE  /\ t.word \notin Keywords => \A b \in BOOLEAN : Reading[<<b, words, lines>>] = {}
           /\ t.word = Broken => /\ \A b \in BOOLEAN : Reading[<<b, words, lines>>] = {}
                                 /\ MachineRead(Reading, words, lines) = {}
                                 /\ MacroRead(Reading, words, lines) = {}
                                 /\ \A f : FieldRead(Reading, f, words, lines) = {}
<1>1. t.word \notin Keywords => \A b \in BOOLEAN : Reading[<<b, words, lines>>] = {}
  <2>1. t.word \notin Keywords => \A b \in BOOLEAN : EntryAt(Reading, b, t) = {}
    BY DEF EntryAt, Keywords
  <2> QED
    BY <2>1, TokenRead
<1>2. t.word = Broken => t.word \notin Keywords /\ t.word \notin FileWords
  BY WordsAssumption, BrokenAssumption
<1> QED
  BY <1>1, <1>2, TokenRead

LEMMA EndRead ==
    /\ \A b \in BOOLEAN : Reading[<<b, <<>>, <<>>>>] = {Rest(NoWord, <<>>)}
    /\ MachineRead(Reading, <<>>, <<>>) = {}
    /\ MacroRead(Reading, <<>>, <<>>) = {}
    /\ \A f : FieldRead(Reading, f, <<>>, <<>>) = {}
<1>1. ASSUME NEW b \in BOOLEAN PROVE Reading[<<b, <<>>, <<>>>>] = {Rest(NoWord, <<>>)}
  <2>1. <<>> \in Seq(LineWords) /\ <<>> \in Seq(Lines)
    OBVIOUS
  <2> QED
    BY <2>1, NoLineRead, ReadingAt DEF ReadAt
<1>2. Value(<<>>, <<>>) = {}
  BY NoLineRead DEF Value
<1> QED
  BY <1>1, <1>2, NoLineRead DEF MachineRead, MacroRead, FieldRead

(* next_subcommands takes the rest of the line before it reads lines.      *)
LineTaken == item = "commands" => line = <<>>

LEMMA LineTakenStays ==
    ASSUME LineTaken, ParserNext
    PROVE  LineTaken'
<1>1. CASE \/ RefillFails \/ EndOfFile \/ CursorInsideCharacter \/ FieldWithoutMachine
           \/ UnknownEntry \/ BadPort \/ MacroNameBreaks
  BY <1>1 DEF RefillFails, EndOfFile, CursorInsideCharacter, FieldWithoutMachine,
       UnknownEntry, BadPort, MacroNameBreaks, Fails, LineTaken
<1> QED
  BY <1>1 DEF ParserNext, LineTaken, Refill, DefaultEntry, StartsEntry, MachineEntry, FieldEntry,
       MacroEntry, MacroLine, MacroEnds, Fields

LEMMA WordRead ==
    ASSUME ParserInv, line # <<>>
    PROVE  /\ line \in Seq(LineWords) /\ unread \in Seq(Lines) /\ Tail(line) \in Seq(LineWords)
           /\ NextToken(line, unread) = {Token(Head(line), Tail(line), unread)}
BY DEF ParserInv, ParserTypeOK, LineWords, NextToken

(* The library gives up where nothing can be read.                         *)
LEMMA FailsRead ==
    ASSUME ParserInv, LineTaken,
           \/ RefillFails \/ CursorInsideCharacter \/ FieldWithoutMachine
           \/ UnknownEntry \/ BadPort \/ MacroNameBreaks
    PROVE  Left = {} /\ parse = "parsing" /\ parse' \in {"Io", "Parse", "panic"}
<1>1. line \in Seq(LineWords) /\ unread \in Seq(Lines) /\ HasMachine \in BOOLEAN
      /\ item \in {"entry", "machine", "macdef", "commands"} \cup Fields
  BY DEF ParserInv, ParserTypeOK, LineWords, HasMachine
<1>2. parse = "parsing" /\ parse' \in {"Io", "Parse", "panic"}
  BY DEF RefillFails, CursorInsideCharacter, FieldWithoutMachine, UnknownEntry, BadPort,
         MacroNameBreaks, WordIs, Fails
<1> SUFFICES Left = {}
  BY <1>2
<1>3. WithoutMachine({}) = {}
  BY DEF WithoutMachine
<1>4. ASSUME NEW t, NextToken(line, unread) = {t}, t.word = Broken, item # "commands"
      PROVE  Left = {}
  BY <1>1, <1>4, SpoiltRead DEF Left
<1>5. CASE RefillFails
  <2>1. line = <<>> /\ unread # <<>> /\ Head(unread).kind = "bad"
    BY <1>5 DEF RefillFails
  <2>2. /\ NextToken(<<>>, unread) = {Token(Broken, <<>>, Tail(unread))}
        /\ BelowMacro(unread) = unread
    BY <1>1, <2>1, BadLineRead
  <2>3. CASE item = "commands"
    <3> DEFINE t == Token(Broken, <<>>, Tail(unread))
    <3>0. <<>> \in Seq(LineWords) /\ t.word = Broken /\ FALSE \in BOOLEAN
      BY DEF Token
    <3> HIDE DEF t
    <3>1. Reading[<<FALSE, <<>>, unread>>] = {}
      BY <1>1, <2>2, <3>0, SpoiltRead DEF t
    <3> QED
      BY <1>3, <2>2, <2>3, <3>1 DEF Left
  <2> QED
    <3>1. Token(Broken, <<>>, Tail(unread)).word = Broken
      BY DEF Token
    <3> QED
      BY <1>4, <2>1, <2>2, <2>3, <3>1
<1>6. CASE line # <<>>
  <2> DEFINE t == Token(Head(line), Tail(line), unread)
  <2>1. NextToken(line, unread) = {t} /\ t.word = Head(line)
    BY <1>6, WordRead DEF Token
  <2> HIDE DEF t
  <2>2. item # "commands"
    BY <1>6 DEF LineTaken
  <2>3. CASE CursorInsideCharacter
    BY <1>4, <2>1, <2>2, <2>3 DEF CursorInsideCharacter
  <2>4. CASE FieldWithoutMachine
    <3>1. item = "entry" /\ HasMachine = FALSE /\ t.word \in Fields
      BY <2>1, <2>4, <1>1 DEF FieldWithoutMachine, WordIs
    <3>2. EntryAt(Reading, FALSE, t) = {}
      BY <3>1 DEF EntryAt, Fields
    <3> QED
      BY <1>1, <2>1, <3>1, <3>2, TokenRead DEF Left
  <2>5. CASE UnknownEntry
    <3>1. item = "entry" /\ t.word \notin Keywords
      BY <2>1, <2>5 DEF UnknownEntry, WordIs
    <3> QED
      BY <1>1, <2>1, <3>1, SpoiltRead DEF Left
  <2>6. CASE BadPort
    <3>1. item = "port" /\ t.word \notin Ports
      BY <2>1, <2>6 DEF BadPort, WordIs
    <3> QED
      BY <1>1, <2>1, <3>1, TokenRead DEF Left
  <2>7. CASE MacroNameBreaks
    <3>1. item = "macdef" /\ Leftover[t.word] = Broken
      BY <2>1, <2>7 DEF MacroNameBreaks, WordIs
    <3> QED
      BY <1>1, <2>1, <3>1, TokenRead DEF Left
  <2> QED
    BY <1>5, <2>3, <2>4, <2>5, <2>6, <2>7
<1>7. line = <<>> => RefillFails
  BY DEF CursorInsideCharacter, FieldWithoutMachine, UnknownEntry, BadPort, MacroNameBreaks, WordIs
<1> QED
  BY <1>5, <1>6, <1>7

(* At the end of the file there is nothing left, or the argument missing.  *)
LEMMA EndOfFileRead ==
    ASSUME ParserInv, EndOfFile
    PROVE  IF item = "entry" THEN Left = {Rest(NoWord, <<>>)} /\ parse' = "parsed"
                             ELSE Left = {} /\ parse' = "Parse"
<1>1. line = <<>> /\ unread = <<>> /\ item # "commands" /\ HasMachine \in BOOLEAN
      /\ parse' = IF item = "entry" THEN "parsed" ELSE "Parse"
  BY DEF EndOfFile, Fails, HasMachine
<1> QED
  BY <1>1, EndRead DEF Left

LEMMA RefillLeft ==
    ASSUME ParserInv, Refill
    PROVE  Left' = Left
<1>1. /\ line = <<>> /\ unread \in Seq(Lines) /\ unread # <<>> /\ Head(unread).kind # "bad"
      /\ unread' = Tail(unread) /\ line' = Head(unread).words
      /\ item # "commands" /\ UNCHANGED <<item, current>>
  BY DEF Refill, ParserInv, ParserTypeOK
<1>2. Tail(unread) \in Seq(Lines) /\ Head(unread).words \in Seq(LineWords) /\ <<>> \in Seq(LineWords)
  <2>1. Head(unread) \in Lines /\ Tail(unread) \in Seq(Lines)
    BY <1>1
  <2> QED
    BY <2>1 DEF Lines, LineWords
<1>3. /\ NextToken(line, unread) = NextToken(line', unread')
      /\ line \in Seq(LineWords) /\ line' \in Seq(LineWords) /\ unread' \in Seq(Lines)
  BY <1>1, <1>2, RefillRead
<1> DEFINE b == HasMachine
<1>4. b \in BOOLEAN /\ unread \in Seq(Lines)
  BY <1>1 DEF HasMachine
<1>5. item = "entry" => /\ Left = Reading[<<b, line, unread>>]
                        /\ Left' = Reading[<<b, line', unread'>>]
  BY <1>1 DEF Left, HasMachine
<1> HIDE DEF b
<1>6. /\ Reading[<<b, line, unread>>] = Reading[<<b, line', unread'>>]
      /\ MachineRead(Reading, line, unread) = MachineRead(Reading, line', unread')
      /\ MacroRead(Reading, line, unread) = MacroRead(Reading, line', unread')
      /\ FieldRead(Reading, item, line, unread) = FieldRead(Reading, item, line', unread')
  <2> DEFINE words == line'
  <2> DEFINE lines == unread'
  <2>1. words \in Seq(LineWords) /\ lines \in Seq(Lines) /\ NextToken(line, unread) = NextToken(words, lines)
    BY <1>3
  <2> HIDE DEF words, lines
  <2>2. /\ Reading[<<b, line, unread>>] = Reading[<<b, words, lines>>]
        /\ MachineRead(Reading, line, unread) = MachineRead(Reading, words, lines)
        /\ MacroRead(Reading, line, unread) = MacroRead(Reading, words, lines)
        /\ FieldRead(Reading, item, line, unread) = FieldRead(Reading, item, words, lines)
    BY <1>3, <1>4, <2>1, SameTokens
  <2> QED
    BY <2>2 DEF words, lines
<1>7. item # "entry" => Left' = Left
  BY <1>1, <1>6 DEF Left
<1> QED
  BY <1>5, <1>6, <1>7

LEMMA MacroLineLeft ==
    ASSUME ParserInv, MacroLine
    PROVE  Left' = Left
<1>1. /\ item = "commands" /\ UNCHANGED item
      /\ unread \in Seq(Lines) /\ unread # <<>> /\ Head(unread).kind \notin {"bad", "blank"}
      /\ unread' = Tail(unread)
  BY DEF MacroLine, EndsMacro, ParserInv, ParserTypeOK
<1>2. BelowMacro(unread') = BelowMacro(unread)
  BY <1>1, MacroLineRead
<1> QED
  BY <1>1, <1>2 DEF Left

(* What the words that start an entry leave.                               *)
LEMMA StartsEntryLeft ==
    ASSUME ParserInv, StartsEntry
    PROVE  Left' = Left
<1>1. PICK w \in {"machine", "macdef"} \cup (IF HasMachine THEN Fields ELSE {}) :
           NextWord(w) /\ item' = w
  BY DEF StartsEntry
<1>2. item = "entry" /\ w \in Keywords /\ w # "default" /\ (w \in Fields => HasMachine)
  BY <1>1 DEF StartsEntry, Keywords, Fields
<1>3. line # <<>> /\ Head(line) = w /\ line' = Tail(line) /\ unread' = unread
  BY <1>1, <1>2, KeywordsAssumption DEF NextWord, WordIs, AfterWord
<1> DEFINE t == Token(w, Tail(line), unread)
<1>4. t.word = w /\ t.words = line' /\ t.lines = unread'
  BY <1>3 DEF Token
<1>5. NextToken(line, unread) = {t} /\ line \in Seq(LineWords) /\ unread \in Seq(Lines)
  BY <1>3, WordRead
<1> DEFINE b == HasMachine
<1> HIDE DEF t
<1>6. Left = EntryAt(Reading, b, t) /\ b \in BOOLEAN
  <2>1. b \in BOOLEAN
    BY DEF HasMachine
  <2>2. Left = Reading[<<b, line, unread>>]
    BY <1>2 DEF Left
  <2> HIDE DEF b
  <2> QED
    BY <1>2, <1>5, <2>1, <2>2, TokenRead
<1> HIDE DEF b
<1>7. CASE w = "machine"
  <2>1. EntryAt(Reading, b, t) = MachineRead(Reading, line', unread')
    BY <1>4, <1>7 DEF EntryAt, Fields
  <2>2. Left' = MachineRead(Reading, line', unread')
    BY <1>1, <1>7 DEF Left
  <2> QED
    BY <1>6, <2>1, <2>2
<1>8. CASE w = "macdef"
  <2>1. EntryAt(Reading, b, t) = MacroRead(Reading, line', unread')
    BY <1>4, <1>8 DEF EntryAt, Fields
  <2>2. Left' = MacroRead(Reading, line', unread')
    BY <1>1, <1>8 DEF Left
  <2> QED
    BY <1>6, <2>1, <2>2
<1>9. CASE w \in Fields
  <2>1. EntryAt(Reading, TRUE, t) = FieldRead(Reading, w, line', unread')
    BY <1>4, <1>9 DEF EntryAt, Fields
  <2>2. Left' = FieldRead(Reading, w, line', unread')
    BY <1>1, <1>9 DEF Left, Fields
  <2>3. b = TRUE
    BY <1>2, <1>9 DEF HasMachine, b
  <2> QED
    BY <1>6, <2>1, <2>2, <2>3
<1> QED
  BY <1>1, <1>7, <1>8, <1>9

LEMMA DefaultEntryLeft ==
    ASSUME ParserInv, DefaultEntry
    PROVE  Left = WithoutMachine(Left')
<1>1. /\ item = "entry" /\ item' = "entry" /\ HasMachine' = TRUE
      /\ line # <<>> /\ Head(line) = "default" /\ line' = Tail(line) /\ unread' = unread
  BY KeywordsAssumption
     DEF DefaultEntry, NextWord, WordIs, AfterWord, Keywords, HasMachine, Default, Nothing
<1> DEFINE t == Token("default", Tail(line), unread)
<1>2. t.word = "default" /\ t.words = line' /\ t.lines = unread'
  BY <1>1 DEF Token
<1>3. NextToken(line, unread) = {t} /\ line \in Seq(LineWords) /\ unread \in Seq(Lines)
  BY <1>1, WordRead
<1> DEFINE b == HasMachine
<1> HIDE DEF t
<1>4. Left = EntryAt(Reading, b, t) /\ b \in BOOLEAN
  <2>1. b \in BOOLEAN
    BY DEF HasMachine
  <2>2. Left = Reading[<<b, line, unread>>]
    BY <1>1 DEF Left
  <2> HIDE DEF b
  <2> QED
    BY <1>1, <1>3, <2>1, <2>2, TokenRead
<1> HIDE DEF b
<1>5. Left' = Reading[<<TRUE, line', unread'>>]
  BY <1>1 DEF Left
<1>6. EntryAt(Reading, b, t) = WithoutMachine(Reading[<<TRUE, line', unread'>>])
  BY <1>2 DEF EntryAt, Fields
<1> QED
  BY <1>4, <1>5, <1>6

LEMMA MacroEntryLeft ==
    ASSUME ParserInv, MacroEntry
    PROVE  Left' = Left
<1>1. PICK w \in FileWords : WordIs(w) /\ Leftover[w] # Broken
  BY DEF MacroEntry
<1>2. /\ item = "macdef" /\ item' = "commands" /\ unread' = unread
      /\ line # <<>> /\ Head(line) = w
  BY <1>1 DEF MacroEntry, WordIs
<1> DEFINE t == Token(w, Tail(line), unread)
<1>3. t.word = w /\ t.lines = unread
  BY DEF Token
<1>4. NextToken(line, unread) = {t} /\ line \in Seq(LineWords) /\ unread \in Seq(Lines)
  BY <1>2, WordRead
<1> HIDE DEF t
<1>5. MacroRead(Reading, line, unread) = WithoutMachine(Reading[<<FALSE, <<>>, BelowMacro(unread)>>])
  BY <1>1, <1>3, <1>4, TokenRead
<1> QED
  BY <1>2, <1>5 DEF Left

LEMMA MacroEndsLeft ==
    ASSUME ParserInv, LineTaken, MacroEnds
    PROVE  Left = WithoutMachine(Left')
<1>1. /\ item = "commands" /\ item' = "entry" /\ line = <<>> /\ line' = <<>>
      /\ HasMachine' = FALSE /\ unread \in Seq(Lines)
  BY DEF MacroEnds, LineTaken, AfterMacro, HasMachine, ParserInv, ParserTypeOK
<1>2. BelowMacro(unread) = unread'
  <2>1. CASE unread = <<>>
    BY <2>1, NoLineRead DEF MacroEnds
  <2>2. CASE unread # <<>>
    <3>1. Head(unread).kind = "blank" /\ unread' = Tail(unread)
      BY <2>2 DEF MacroEnds, EndsMacro
    <3> QED
      BY <1>1, <2>2, <3>1, MacroLineRead
  <2> QED
    BY <2>1, <2>2
<1> QED
  BY <1>1, <1>2 DEF Left

(* An argument leaves what follows it; or what cannot be read, when the    *)
(* lexer does not get it whole, unless a keyword is left of it.            *)
NoKeywordLeft == \A w \in FileWords : Leftover[w] \notin Keywords

LEMMA ArgumentLeft ==
    ASSUME ParserInv, NEW w \in FileWords, NextWord(w), item' = "entry", HasMachine'
    PROVE  /\ Leftover[w] # NoWord /\ NoKeywordLeft => Left' = {}
           /\ Leftover[w] = NoWord =>
                /\ NextToken(line, unread) = {Token(w, line', unread')}
                /\ Left' = Reading[<<TRUE, line', unread'>>]
<1>1. /\ line # <<>> /\ Head(line) = w /\ line' = AfterWord(w) /\ unread' = unread
      /\ line \in Seq(LineWords) /\ unread \in Seq(Lines) /\ Tail(line) \in Seq(LineWords)
  BY WordRead DEF NextWord, WordIs
<1>2. Left' = Reading[<<TRUE, line', unread'>>]
  <2>1. HasMachine' = TRUE
    BY DEF HasMachine
  <2> QED
    BY <2>1 DEF Left
<1>3. CASE Leftover[w] = NoWord
  BY <1>1, <1>2, <1>3, WordRead DEF AfterWord
<1>4. CASE Leftover[w] # NoWord /\ NoKeywordLeft
  <2>1. Leftover[w] \in LineWords /\ Leftover[w] \notin Keywords
    BY <1>4, LeftoverAssumption DEF LineWords, NoKeywordLeft
  <2>2. line' \in Seq(LineWords) /\ line' # <<>> /\ Head(line') = Leftover[w]
    BY <1>1, <1>4, <2>1 DEF AfterWord
  <2> DEFINE t == Token(Head(line'), Tail(line'), unread')
  <2>3. NextToken(line', unread') = {t} /\ t.word = Leftover[w]
    BY <2>2 DEF NextToken, Token
  <2> HIDE DEF t
  <2>4. Reading[<<TRUE, line', unread'>>] = {}
    BY <1>1, <2>1, <2>2, <2>3, SpoiltRead
  <2> QED
    BY <1>2, <1>4, <2>4
<1> QED
  BY <1>3, <1>4

----------------------------------------------------------------------------
LEMMA RecordsWithType ==
    ASSUME ParserInv, NEW login \in FileWords \cup {NoWord}
    PROVE  RecordsWith(login) \in Seq(Records) /\ Len(RecordsWith(login)) = Len(hosts)
<1>1. hosts \in Hosts /\ Len(hosts) \in Nat /\ DOMAIN hosts = 1..Len(hosts)
  BY DEF ParserInv, ParserTypeOK, Hosts
<1>2. ASSUME NEW i \in 1..Len(hosts)
      PROVE  hosts[i].host \in FileWords /\ hosts[i].mach.login \in FileWords \cup {NoWord}
  <2>1. hosts[i] \in [host : FileWords, mach : Machines]
    BY <1>1, <1>2, ElementOfSeq DEF Hosts
  <2> QED
    BY <2>1 DEF Machines, Fields
<1>3. RecordsWith(login) \in [1..Len(hosts) -> Records]
  <2> HIDE DEF NoWord
  <2> QED
    BY <1>1, <1>2 DEF RecordsWith, Records
<1> QED
  BY <1>1, <1>3

(* Outside a machine a login changes no record.                            *)
LEMMA NoCurrentMachine ==
    ASSUME ParserInv, current \in {Nothing, Default}, NEW login
    PROVE  RecordsWith(login) = RecordsWith(NoWord)
<1>1. DOMAIN hosts = 1..Len(hosts) /\ Len(hosts) \in Nat
  BY DEF ParserInv, ParserTypeOK
<1>2. \A i \in DOMAIN hosts : i # current
  BY <1>1 DEF Nothing, Default
<1> QED
  BY <1>2 DEF RecordsWith

LEMMA RecordsUnchanged ==
    ASSUME NEW login, UNCHANGED <<hosts, current>>
    PROVE  RecordsWith(login)' = RecordsWith(login)
BY DEF RecordsWith

LEMMA MachineEntryRecords ==
    ASSUME ParserInv, NEW w \in FileWords, MachineEntry,
           hosts' = Append(hosts, [host |-> w, mach |-> NewMachine]),
           NEW login \in FileWords \cup {NoWord}
    PROVE  RecordsWith(login)' = Append(RecordsWith(NoWord), [host |-> w, login |-> login])
<1> DEFINE n == Len(hosts)
<1>1. n \in Nat /\ DOMAIN hosts = 1..n /\ current \in Refs
  BY DEF ParserInv, ParserTypeOK, CurrentIsThere
<1>2. /\ Len(hosts') = n + 1 /\ DOMAIN hosts' = 1..(n + 1) /\ current' = n + 1
      /\ hosts'[n + 1] = [host |-> w, mach |-> NewMachine]
      /\ \A i \in 1..n : hosts'[i] = hosts[i]
  <2>1. hosts \in Hosts /\ [host |-> w, mach |-> NewMachine] \in [host : FileWords, mach : Machines]
    BY NewMachineType DEF ParserInv, ParserTypeOK, Hosts
  <2>2. /\ hosts' \in Hosts /\ Len(hosts') = n + 1
        /\ hosts'[n + 1] = [host |-> w, mach |-> NewMachine]
        /\ \A i \in 1..n : hosts'[i] = hosts[i]
    BY <2>1, AppendProperties DEF Hosts
  <2> QED
    BY <2>2 DEF MachineEntry, MachineAt, Hosts
<1>3. RecordsWith(NoWord) \in Seq(Records) /\ Len(RecordsWith(NoWord)) = n
  BY RecordsWithType
<1> DEFINE R == Append(RecordsWith(NoWord), [host |-> w, login |-> login])
<1>4. /\ R \in Seq(Records) /\ Len(R) = n + 1 /\ R[n + 1] = [host |-> w, login |-> login]
      /\ \A i \in 1..n : R[i] = RecordsWith(NoWord)[i]
  <2>1. [host |-> w, login |-> login] \in Records
    BY DEF Records
  <2> QED
    BY <1>1, <1>3, <2>1, AppendProperties
<1>5. DOMAIN RecordsWith(login)' = 1..(n + 1)
  BY <1>2 DEF RecordsWith
<1>6. RecordsWith(login)'[n + 1] = [host |-> w, login |-> login]
  <2>1. NewMachine.login = NoWord
    BY DEF NewMachine, Fields
  <2> HIDE DEF NoWord
  <2> QED
    BY <1>1, <1>2, <2>1 DEF RecordsWith
<1>7. ASSUME NEW i \in 1..n PROVE RecordsWith(login)'[i] = RecordsWith(NoWord)[i]
  <2>1. i \in DOMAIN hosts /\ i \in DOMAIN hosts' /\ i # current' /\ hosts'[i] = hosts[i]
    BY <1>1, <1>2
  <2> QED
    BY <2>1 DEF RecordsWith
<1>8. R = [i \in 1..(n + 1) |-> R[i]] /\ RecordsWith(login)' = [i \in 1..(n + 1) |-> RecordsWith(login)'[i]]
  <2>1. DOMAIN R = 1..(n + 1)
    BY <1>4
  <2> HIDE DEF R
  <2>2. R = [i \in 1..(n + 1) |-> R[i]]
    BY <1>4, <2>1
  <2>3. RecordsWith(login)' = [i \in 1..(n + 1) |-> RecordsWith(login)'[i]]
    BY <1>2 DEF RecordsWith
  <2> QED
    BY <2>2, <2>3
<1>9. \A i \in 1..(n + 1) : R[i] = RecordsWith(login)'[i]
  <2> HIDE DEF R
  <2>1. \A i \in 1..(n + 1) : i = n + 1 \/ i \in 1..n
    BY <1>1
  <2> QED
    BY <1>4, <1>6, <1>7, <2>1
<1> QED
  BY <1>8, <1>9

LEMMA FieldEntryRecords ==
    ASSUME ParserInv, FieldEntry, NEW w \in FileWords, SetField(w), NEW login
    PROVE  RecordsWith(login)' =
             RecordsWith(IF item = "login" /\ login = NoWord THEN w ELSE login)
<1>1. /\ current' = current /\ current \in Refs /\ current # Nothing /\ item \in Fields
      /\ hosts \in Hosts /\ DOMAIN hosts = 1..Len(hosts) /\ Len(hosts) \in Nat
  BY DEF FieldEntry, ParserInv, ParserTypeOK, CurrentIsThere, HasMachine, Hosts
<1>2. CASE current = Default
  <2>1. hosts' = hosts
    BY <1>2 DEF SetField
  <2>2. \A i \in DOMAIN hosts : i # current
    BY <1>1, <1>2 DEF Default
  <2> QED
    BY <1>1, <2>1, <2>2 DEF RecordsWith
<1>3. CASE current # Default
  <2>1. current \in 1..Len(hosts)
    BY <1>1, <1>3 DEF Refs
  <2>2. hosts' = [hosts EXCEPT ![current].mach[item] = w]
    BY <1>3 DEF SetField
  <2>3. hosts[current] \in [host : FileWords, mach : Machines]
    BY <1>1, <2>1, ElementOfSeq DEF Hosts
  <2>4. /\ DOMAIN hosts' = DOMAIN hosts /\ \A i \in DOMAIN hosts : hosts'[i].host = hosts[i].host
        /\ \A i \in DOMAIN hosts : i # current => hosts'[i].mach = hosts[i].mach
        /\ hosts'[current].mach.login = IF item = "login" THEN w ELSE hosts[current].mach.login
    <3>1. hosts'[current].mach = [hosts[current].mach EXCEPT ![item] = w]
      BY <1>1, <2>1, <2>2, <2>3
    <3>2. [hosts[current].mach EXCEPT ![item] = w].login =
            IF item = "login" THEN w ELSE hosts[current].mach.login
      BY <1>1, <2>3 DEF Machines, Fields
    <3>3. /\ DOMAIN hosts' = DOMAIN hosts
          /\ \A i \in DOMAIN hosts : i # current => hosts'[i] = hosts[i]
          /\ hosts'[current].host = hosts[current].host
      BY <1>1, <2>1, <2>2, <2>3
    <3> QED
      BY <3>1, <3>2, <3>3
  <2>5. w # NoWord
    BY WordsAssumption
  <2> HIDE DEF NoWord
  <2> QED
    BY <1>1, <2>1, <2>4, <2>5 DEF RecordsWith
<1> QED
  BY <1>2, <1>3

----------------------------------------------------------------------------
(***************************************************************************)
(* No step of the parser changes what comes of the file.                   *)
(***************************************************************************)
LEMMA MadeOfNothing == Made({}) = {}
BY DEF Made

LEMMA MadeOfRest ==
    ASSUME NEW login, NEW records
    PROVE  MadeOf(Rest(login, records)) = RecordsWith(login) \o records
<1>1. Rest(login, records).login = login /\ Rest(login, records).records = records
  BY DEF Rest
<1> QED
  BY <1>1 DEF MadeOf

LEMMA MadeWithoutMachine ==
    ASSUME NEW rests
    PROVE  Made(WithoutMachine(rests)) = {RecordsWith(NoWord) \o rest.records : rest \in rests}
<1>1. WithoutMachine(rests) = {Rest(NoWord, rest.records) : rest \in rests}
  BY DEF WithoutMachine
<1>2. \A rest \in rests : MadeOf(Rest(NoWord, rest.records)) = RecordsWith(NoWord) \o rest.records
  BY MadeOfRest
<1> QED
  BY <1>1, <1>2 DEF Made

LEMMA MadeWithMachine ==
    ASSUME NEW w, NEW rests
    PROVE  Made(WithMachine(w, rests)) =
             {RecordsWith(NoWord) \o (<<[host |-> w, login |-> rest.login]>> \o rest.records) : rest \in rests}
<1> DEFINE records(rest) == <<[host |-> w, login |-> rest.login]>> \o rest.records
<1>1. WithMachine(w, rests) = {Rest(NoWord, records(rest)) : rest \in rests}
  BY DEF WithMachine
<1>2. Made(WithMachine(w, rests)) = {RecordsWith(NoWord) \o records(rest) : rest \in rests}
  <2> HIDE DEF records
  <2>1. \A rest \in rests : MadeOf(Rest(NoWord, records(rest))) = RecordsWith(NoWord) \o records(rest)
    BY MadeOfRest
  <2> QED
    BY <1>1, <2>1 DEF Made
<1> QED
  BY <1>2

LEMMA MadeWithLogin ==
    ASSUME NEW w, NEW rests
    PROVE  Made(WithField("login", w, rests)) =
             {RecordsWith(IF rest.login = NoWord THEN w ELSE rest.login) \o rest.records : rest \in rests}
<1> DEFINE login(rest) == IF rest.login = NoWord THEN w ELSE rest.login
<1>1. WithField("login", w, rests) = {Rest(login(rest), rest.records) : rest \in rests}
  BY DEF WithField
<1>2. Made(WithField("login", w, rests)) = {RecordsWith(login(rest)) \o rest.records : rest \in rests}
  <2> HIDE DEF login
  <2>1. \A rest \in rests :
           MadeOf(Rest(login(rest), rest.records)) = RecordsWith(login(rest)) \o rest.records
    BY MadeOfRest
  <2> QED
    BY <1>1, <2>1 DEF Made
<1> QED
  BY <1>2

LEMMA FailsOutcome ==
    ASSUME ParserInv, LineTaken,
           \/ RefillFails \/ CursorInsideCharacter \/ FieldWithoutMachine
           \/ UnknownEntry \/ BadPort \/ MacroNameBreaks
    PROVE  Outcome' = Outcome
<1>1. Left = {} /\ parse = "parsing" /\ parse' \in {"Io", "Parse", "panic"}
  BY FailsRead
<1>2. Outcome = {}
  BY <1>1, MadeOfNothing DEF Outcome
<1>3. Outcome' = {}
  BY <1>1 DEF Outcome
<1> QED
  BY <1>2, <1>3

LEMMA EndOfFileOutcome ==
    ASSUME ParserInv, EndOfFile
    PROVE  Outcome' = Outcome
<1>1. parse = "parsing" /\ UNCHANGED <<hosts, current>>
  BY DEF EndOfFile, Fails, netrc
<1>2. CASE item = "entry"
  <2>1. Left = {Rest(NoWord, <<>>)} /\ parse' = "parsed"
    BY <1>2, EndOfFileRead
  <2>2. RecordsWith(NoWord) \in Seq(Records) /\ RecordsWith(NoWord)' = RecordsWith(NoWord)
    BY <1>1, RecordsWithType, RecordsUnchanged
  <2>3. RecordsWith(NoWord) \o <<>> = RecordsWith(NoWord)
    BY <2>2
  <2>4. Made(Left) = {RecordsWith(NoWord)}
    BY <2>1, <2>3, MadeOfRest DEF Made
  <2>5. Outcome = {RecordsWith(NoWord)} /\ Outcome' = {RecordsWith(NoWord)'}
    BY <1>1, <2>1, <2>4 DEF Outcome
  <2> QED
    BY <2>2, <2>5
<1>3. CASE item # "entry"
  <2>1. Left = {} /\ parse' = "Parse"
    BY <1>3, EndOfFileRead
  <2> QED
    BY <1>1, <2>1, MadeOfNothing DEF Outcome
<1> QED
  BY <1>2, <1>3

(* Steps that take a word or a line and give no record anything.           *)
LEMMA ReadsOnOutcome ==
    ASSUME ParserInv, Refill \/ MacroLine \/ StartsEntry \/ MacroEntry
    PROVE  Outcome' = Outcome
<1>1. parse = "parsing" /\ parse' = "parsing" /\ UNCHANGED <<hosts, current>>
  BY DEF Refill, MacroLine, StartsEntry, MacroEntry, NextWord, WordIs, netrc
<1>2. Left' = Left
  BY RefillLeft, MacroLineLeft, StartsEntryLeft, MacroEntryLeft
<1>3. Made(Left)' = Made(Left)
  BY <1>1, <1>2 DEF Made, MadeOf, RecordsWith
<1> QED
  BY <1>1, <1>3 DEF Outcome

(* The steps after which no machine gets what follows.                     *)
LEMMA NoMachineOutcome ==
    ASSUME ParserInv, ParserInv', LineTaken, DefaultEntry \/ MacroEnds
    PROVE  Outcome' = Outcome
<1>1. /\ parse = "parsing" /\ parse' = "parsing" /\ hosts' = hosts
      /\ current' \in {Nothing, Default}
  BY DEF DefaultEntry, MacroEnds, NextWord, WordIs, netrc, AfterMacro
<1>2. Left = WithoutMachine(Left')
  BY DefaultEntryLeft, MacroEndsLeft
<1>3. \A login : RecordsWith(login)' = RecordsWith(NoWord)
  <2> SUFFICES ASSUME NEW login PROVE RecordsWith(login)' = RecordsWith(NoWord)
    OBVIOUS
  <2>1. DOMAIN hosts = 1..Len(hosts) /\ Len(hosts) \in Nat
    BY DEF ParserInv, ParserTypeOK
  <2>2. \A i \in DOMAIN hosts : i # current'
    BY <1>1, <2>1 DEF Nothing, Default
  <2> QED
    BY <1>1, <2>2 DEF RecordsWith
<1>4. Made(Left)' = {RecordsWith(NoWord) \o rest.records : rest \in Left'}
  BY <1>3 DEF Made, MadeOf
<1>5. Made(Left) = {RecordsWith(NoWord) \o rest.records : rest \in Left'}
  <2> DEFINE rests == Left'
  <2>1. Left = WithoutMachine(rests)
    BY <1>2
  <2> HIDE DEF rests
  <2>2. Made(Left) = {RecordsWith(NoWord) \o rest.records : rest \in rests}
    BY <2>1, MadeWithoutMachine
  <2> QED
    BY <2>2 DEF rests
<1> QED
  BY <1>1, <1>4, <1>5 DEF Outcome

LEMMA MachineEntryOutcome ==
    ASSUME ParserInv, NoKeywordLeft \/ Outcome # {}, MachineEntry
    PROVE  Outcome' = Outcome
<1>1. PICK w \in FileWords :
           NextWord(w) /\ hosts' = Append(hosts, [host |-> w, mach |-> NewMachine])
  BY DEF MachineEntry
<1>2. item = "machine" /\ item' = "entry" /\ parse = "parsing" /\ parse' = "parsing" /\ HasMachine'
  <2>1. current' = Len(hosts) + 1 /\ Len(hosts) \in Nat
    BY <1>1 DEF MachineEntry, MachineAt, ParserInv, ParserTypeOK
  <2> QED
    BY <1>1, <2>1 DEF MachineEntry, NextWord, WordIs, HasMachine, Nothing
<1>3. Left = MachineRead(Reading, line, unread)
  BY <1>2 DEF Left
<1> DEFINE lineWords == line'
<1> DEFINE lines == unread'
<1> DEFINE rests == Left'
<1>4. CASE Leftover[w] # NoWord
  <2>1. NoKeywordLeft => Left' = {}
    BY <1>1, <1>2, <1>4, ArgumentLeft
  <2>2. Left = {}
    <3> DEFINE t == Token(Head(line), Tail(line), unread)
    <3>1. NextToken(line, unread) = {t} /\ t.word = w /\ line \in Seq(LineWords) /\ unread \in Seq(Lines)
      BY <1>1, WordRead DEF NextWord, WordIs, Token
    <3> HIDE DEF t
    <3> QED
      BY <1>3, <1>4, <3>1, TokenRead
  <2>3. Outcome = {}
    BY <1>2, <2>2, MadeOfNothing DEF Outcome
  <2>4. Outcome' = {}
    BY <1>2, <2>1, <2>3, MadeOfNothing DEF Outcome, Made
  <2> QED
    BY <2>3, <2>4
<1>5. CASE Leftover[w] = NoWord
  <2>1. NextToken(line, unread) = {Token(w, line', unread')} /\ Left' = Reading[<<TRUE, line', unread'>>]
    BY <1>1, <1>2, <1>5, ArgumentLeft
  <2>2. line' \in Seq(LineWords) /\ unread' \in Seq(Lines)
    BY <1>1, NextWordType DEF ParserInv, ParserTypeOK
  <2>3. rests = Reading[<<TRUE, lineWords, lines>>] /\ lineWords \in Seq(LineWords) /\ lines \in Seq(Lines)
        /\ NextToken(line, unread) = {Token(w, lineWords, lines)}
    BY <2>1, <2>2
  <2> HIDE DEF lineWords, lines, rests
  <2>4. line \in Seq(LineWords) /\ unread \in Seq(Lines)
    BY DEF ParserInv, ParserTypeOK, LineWords
  <2>5. rests \subseteq Rests
    BY <2>3, ReadingAt, ReadingType
  <2>6. Left = WithMachine(w, rests)
    <3> DEFINE t == Token(w, lineWords, lines)
    <3>1. t.word = w /\ t.words = lineWords /\ t.lines = lines
      BY DEF Token
    <3> HIDE DEF t
    <3>2. NextToken(line, unread) = {t}
      BY <2>3 DEF t
    <3> QED
      BY <1>3, <1>5, <2>3, <2>4, <3>1, <3>2, TokenRead
  <2>7. ASSUME NEW rest \in rests
        PROVE  RecordsWith(rest.login)' \o rest.records
                 = RecordsWith(NoWord) \o (<<[host |-> w, login |-> rest.login]>> \o rest.records)
    <3>1. rest.login \in FileWords \cup {NoWord} /\ rest.records \in Seq(Records)
      BY <2>5 DEF Rests
    <3>2. RecordsWith(NoWord) \in Seq(Records)
      BY RecordsWithType
    <3>3. [host |-> w, login |-> rest.login] \in Records
      BY <3>1 DEF Records
    <3>4. RecordsWith(rest.login)' = Append(RecordsWith(NoWord), [host |-> w, login |-> rest.login])
      BY <1>1, <3>1, MachineEntryRecords
    <3>5. ASSUME NEW a \in Seq(Records), NEW e \in Records, NEW b \in Seq(Records)
          PROVE  Append(a, e) \o b = a \o (<<e>> \o b)
      OBVIOUS
    <3> QED
      BY <3>1, <3>2, <3>3, <3>4, <3>5
  <2>8. Made(Left)' = {RecordsWith(rest.login)' \o rest.records : rest \in rests}
    BY DEF Made, MadeOf, rests
  <2>9. Made(Left) = {RecordsWith(NoWord) \o (<<[host |-> w, login |-> rest.login]>> \o rest.records)
                       : rest \in rests}
    BY <2>6, MadeWithMachine
  <2>10. Made(Left)' = Made(Left)
    BY <2>7, <2>8, <2>9
  <2> QED
    BY <1>2, <2>10 DEF Outcome
<1> QED
  BY <1>4, <1>5

LEMMA FieldEntryOutcome ==
    ASSUME ParserInv, NoKeywordLeft \/ Outcome # {}, FieldEntry
    PROVE  Outcome' = Outcome
<1>1. PICK w \in FileWords : NextWord(w) /\ (item = "port" => w \in Ports) /\ SetField(w)
  BY DEF FieldEntry
<1>2. item \in Fields /\ item' = "entry" /\ parse = "parsing" /\ parse' = "parsing" /\ HasMachine'
  BY <1>1 DEF FieldEntry, NextWord, WordIs, HasMachine, ParserInv, CurrentIsThere
<1>3. Left = FieldRead(Reading, item, line, unread)
  BY <1>2 DEF Left, Fields
<1> DEFINE lineWords == line'
<1> DEFINE lines == unread'
<1> DEFINE rests == Left'
<1>4. CASE Leftover[w] # NoWord
  <2>1. NoKeywordLeft => Left' = {}
    BY <1>1, <1>2, <1>4, ArgumentLeft
  <2>2. Left = {}
    <3> DEFINE t == Token(Head(line), Tail(line), unread)
    <3>1. NextToken(line, unread) = {t} /\ t.word = w /\ line \in Seq(LineWords) /\ unread \in Seq(Lines)
      BY <1>1, WordRead DEF NextWord, WordIs, Token
    <3> HIDE DEF t
    <3> QED
      BY <1>3, <1>4, <3>1, TokenRead
  <2>3. Outcome = {}
    BY <1>2, <2>2, MadeOfNothing DEF Outcome
  <2>4. Outcome' = {}
    BY <1>2, <2>1, <2>3, MadeOfNothing DEF Outcome, Made
  <2> QED
    BY <2>3, <2>4
<1>5. CASE Leftover[w] = NoWord
  <2>1. NextToken(line, unread) = {Token(w, line', unread')} /\ Left' = Reading[<<TRUE, line', unread'>>]
    BY <1>1, <1>2, <1>5, ArgumentLeft
  <2>2. line' \in Seq(LineWords) /\ unread' \in Seq(Lines)
    BY <1>1, NextWordType DEF ParserInv, ParserTypeOK
  <2>3. rests = Reading[<<TRUE, lineWords, lines>>] /\ lineWords \in Seq(LineWords) /\ lines \in Seq(Lines)
        /\ NextToken(line, unread) = {Token(w, lineWords, lines)}
    BY <2>1, <2>2
  <2> HIDE DEF lineWords, lines, rests
  <2>4. line \in Seq(LineWords) /\ unread \in Seq(Lines)
    BY DEF ParserInv, ParserTypeOK, LineWords
  <2>6. Left = WithField(item, w, rests)
    <3> DEFINE t == Token(w, lineWords, lines)
    <3>1. t.word = w /\ t.words = lineWords /\ t.lines = lines
      BY DEF Token
    <3> HIDE DEF t
    <3>2. NextToken(line, unread) = {t}
      BY <2>3 DEF t
    <3>3. FieldRead(Reading, item, line, unread) =
            IF /\ t.word \in FileWords /\ Leftover[t.word] = NoWord
               /\ item = "port" => t.word \in Ports
              THEN WithField(item, t.word, Reading[<<TRUE, t.words, t.lines>>]) ELSE {}
      BY <2>4, <3>2, TokenRead
    <3>4. item = "port" => w \in Ports
      BY <1>1
    <3> QED
      BY <1>3, <1>5, <2>3, <3>1, <3>3, <3>4
  <2>7. \A login : RecordsWith(login)' = RecordsWith(IF item = "login" /\ login = NoWord THEN w ELSE login)
    BY <1>1, FieldEntryRecords
  <2>8. Made(Left)' = {RecordsWith(rest.login)' \o rest.records : rest \in rests}
    BY DEF Made, MadeOf, rests
  <2>9. CASE item = "login"
    <3>1. Made(Left) = {RecordsWith(IF rest.login = NoWord THEN w ELSE rest.login) \o rest.records
                         : rest \in rests}
      BY <2>6, <2>9, MadeWithLogin
    <3> QED
      BY <1>2, <2>7, <2>8, <2>9, <3>1 DEF Outcome
  <2>10. CASE item # "login"
    <3>1. Made(Left) = {RecordsWith(rest.login) \o rest.records : rest \in rests}
      BY <2>6, <2>10 DEF Made, MadeOf, WithField
    <3> QED
      BY <1>2, <2>7, <2>8, <2>10, <3>1 DEF Outcome
  <2> QED
    BY <2>9, <2>10
<1> QED
  BY <1>4, <1>5

LEMMA OutcomeStays ==
    ASSUME ParserInv, LineTaken, NoKeywordLeft \/ Outcome # {}, ParserNext
    PROVE  Outcome' = Outcome
<1>1. ParserInv'
  BY ParserNextInv
<1> QED
  BY <1>1, FailsOutcome, EndOfFileOutcome, ReadsOnOutcome, NoMachineOutcome, MachineEntryOutcome,
     FieldEntryOutcome DEF ParserNext

(* When a file is opened it is what the file declares.                     *)
LEMMA OutcomeOpens ==
    ASSUME ParserInit, NEW file \in Seq(Lines), unread' = file,
           UNCHANGED <<line, item, netrc, current, parse>>
    PROVE  Outcome' = {rest.records : rest \in FileReading(file)}
<1>1. /\ hosts' = <<>> /\ item' = "entry" /\ line' = <<>> /\ parse' = "parsing" /\ HasMachine' = FALSE
  BY DEF ParserInit, HasMachine, netrc
<1>2. Left' = FileReading(file)
  BY <1>1 DEF Left, FileReading
<1>3. \A login : RecordsWith(login)' = <<>>
  BY <1>1 DEF RecordsWith
<1>4. <<FALSE, <<>>, file>> \in Places
  <2>1. <<>> \in Seq(LineWords)
    OBVIOUS
  <2> QED
    BY <2>1, ReadingAt
<1>5. FileReading(file) \subseteq Rests
  BY <1>4, ReadingType DEF FileReading
<1>6. ASSUME NEW rest \in FileReading(file) PROVE MadeOf(rest)' = rest.records
  <2>1. rest.records \in Seq(Records)
    BY <1>5 DEF Rests
  <2>2. RecordsWith(rest.login)' = <<>>
    BY <1>3
  <2>3. <<>> \o rest.records = rest.records
    BY <2>1
  <2> QED
    BY <2>2, <2>3 DEF MadeOf
<1>7. Made(Left)' = {rest.records : rest \in FileReading(file)}
  BY <1>2, <1>6 DEF Made
<1> QED
  BY <1>1, <1>7 DEF Outcome
=============================================================================
