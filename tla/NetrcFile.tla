----------------------------- MODULE NetrcFile -----------------------------
(***************************************************************************)
(* What a netrc file is, and what it declares.                             *)
(*                                                                         *)
(* A line is the sequence of its words and a kind: "blank" is a newline    *)
(* and nothing else, "text" is longer (it may still have no word, as the   *)
(* blank line of a CRLF file), "bad" cannot be read or is not UTF-8.       *)
(*                                                                         *)
(* The lexer's cursor counts characters where it should count bytes: after *)
(* a word with k more bytes than characters it stands k bytes before the   *)
(* end of the word.  Leftover[w] is what is there: "" (all of w is ASCII), *)
(* a word that is read next, or Broken, the middle of a character, where   *)
(* taking the rest of the line panics.                                     *)
(***************************************************************************)
EXTENDS Integers, Sequences

CONSTANTS
    FileWords,  \* words of netrc files
    Ports,      \* those that parse as a u16
    Broken,     \* not a word: the cursor is inside a character
    Leftover    \* what the cursor leaves of a word, see above

(* The empty login, or None; nothing left of a word. *)
NoWord == ""

Fields == {"login", "password", "account", "port"}
Keywords == {"machine", "default", "macdef"} \cup Fields

ASSUME WordsAssumption == Keywords \cup Ports \subseteq FileWords /\ NoWord \notin FileWords
ASSUME BrokenAssumption == Broken \notin FileWords \cup {NoWord}
ASSUME LeftoverAssumption == Leftover \in [FileWords -> FileWords \cup {NoWord, Broken}]
(* Keywords are ASCII. *)
ASSUME KeywordsAssumption == \A w \in Keywords : Leftover[w] = NoWord

Lines == [words : Seq(FileWords), kind : {"blank", "text", "bad"}]
LineWords == FileWords \cup {Broken}
Records == [host : FileWords, login : FileWords \cup {NoWord}]

----------------------------------------------------------------------------
(***************************************************************************)
(* The words.  A place in a file is what is left of the line and the lines *)
(* below it; the next word is the first one on any of these.               *)
(***************************************************************************)
Least(numbers) == CHOOSE n \in numbers : \A m \in numbers : n <= m
LinesBelow(lines, n) == SubSeq(lines, n + 1, Len(lines))

LinesToRead(lines) == {i \in DOMAIN lines : lines[i].kind = "bad" \/ lines[i].words # <<>>}
MacroEnding(lines) == {i \in DOMAIN lines : lines[i].kind \in {"bad", "blank"}}

Token(word, words, lines) == [word |-> word, words |-> words, lines |-> lines]

(* The next word and the place behind it, Broken where no line can be      *)
(* read; none at the end of the file.                                      *)
NextToken(words, lines) ==
    IF words # <<>> THEN {Token(Head(words), Tail(words), lines)}
    ELSE IF LinesToRead(lines) = {} THEN {}
    ELSE LET n == Least(LinesToRead(lines)) IN
         IF lines[n].kind = "bad" THEN {Token(Broken, <<>>, LinesBelow(lines, n))}
         ELSE {Token(Head(lines[n].words), Tail(lines[n].words), LinesBelow(lines, n))}

(* What follows a macro, which a blank line ends. *)
BelowMacro(lines) ==
    IF MacroEnding(lines) = {} THEN <<>>
    ELSE LET n == Least(MacroEnding(lines)) IN
         LinesBelow(lines, IF lines[n].kind = "bad" THEN n - 1 ELSE n)

----------------------------------------------------------------------------
(***************************************************************************)
(* The entries: "machine NAME", "default", "macdef NAME" with its lines,   *)
(* and a field with its value, which belongs to the machine or default     *)
(* before it; the last value counts.  The file is read from its end:       *)
(* Reading at a place has one element, the login that the rest of the file *)
(* gives to the entry before it, NoWord if none, and the records that it   *)
(* declares; or no element, if the rest is not made of entries or has a    *)
(* value that the lexer does not get whole.                                *)
(***************************************************************************)
Places == BOOLEAN \X Seq(LineWords) \X Seq(Lines)

Rest(login, records) == [login |-> login, records |-> records]

(* The argument of an entry. *)
Value(words, lines) ==
    {token \in NextToken(words, lines) :
        token.word \in FileWords /\ Leftover[token.word] = NoWord}

(* What an entry makes of the rest: "default" and "macdef" declare nothing, *)
(* but what is behind them belongs to no machine before them.              *)
WithoutMachine(readings) == {Rest(NoWord, rest.records) : rest \in readings}

WithMachine(name, readings) ==
    {Rest(NoWord, <<[host |-> name, login |-> rest.login]>> \o rest.records) : rest \in readings}

WithField(field, value, readings) ==
    IF field = "login"
      THEN {Rest(IF rest.login = NoWord THEN value ELSE rest.login, rest.records) : rest \in readings}
      ELSE readings

MachineRead(read, words, lines) ==
    UNION {WithMachine(name.word, read[<<TRUE, name.words, name.lines>>]) :
           name \in Value(words, lines)}

FieldRead(read, field, words, lines) ==
    UNION {WithField(field, value.word, read[<<TRUE, value.words, value.lines>>]) :
           value \in {v \in Value(words, lines) : field = "port" => v.word \in Ports}}

(* The commands are no words; the name has to end with a character. *)
MacroRead(read, words, lines) ==
    UNION {WithoutMachine(read[<<FALSE, <<>>, BelowMacro(name.lines)>>]) :
           name \in {t \in NextToken(words, lines) : t.word \in FileWords /\ Leftover[t.word] # Broken}}

EntryAt(read, machine, entry) ==
    CASE entry.word = "machine" -> MachineRead(read, entry.words, entry.lines)
      [] entry.word = "default" -> WithoutMachine(read[<<TRUE, entry.words, entry.lines>>])
      [] entry.word = "macdef" -> MacroRead(read, entry.words, entry.lines)
      [] machine /\ entry.word \in Fields -> FieldRead(read, entry.word, entry.words, entry.lines)
      [] OTHER -> {}

EntryRead(read, place) ==
    IF NextToken(place[2], place[3]) = {} THEN {Rest(NoWord, <<>>)}
    ELSE UNION {EntryAt(read, place[1], entry) : entry \in NextToken(place[2], place[3])}

Reading[place \in Places] == EntryRead(Reading, place)

FileReading(lines) == Reading[<<FALSE, <<>>, lines>>]
=============================================================================
