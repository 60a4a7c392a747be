---------------------------- MODULE NetrcParser ----------------------------
(***************************************************************************)
(* The netrc 0.4.1 library that parse-netrc is linked with: Netrc::parse   *)
(* over a lexer that reads the file line by line and the line word by      *)
(* word.                                                                   *)
(***************************************************************************)
EXTENDS NetrcFile

VARIABLES
    unread,    \* the lines of the opened file that were not read yet
    line,      \* what is left of the current line
    item,      \* the entry whose argument is read, "entry" between entries
    hosts, default,   \* the Netrc that is built; its macros are never used
    current,   \* the MachineRef: Nothing, Default, or a position in hosts
    parse      \* "parsing", or the result

netrc == <<hosts, default>>
parserVars == <<unread, line, item, netrc, current, parse>>

Nothing == 0
Default == -1
Refs == {Default, Nothing} \cup (1..Len(hosts))

ParseResults == {"parsed", "Io", "Parse", "panic"}

NewMachine == [f \in Fields |-> NoWord]
Machines == [Fields -> FileWords \cup {NoWord}]

ParserInit ==
    /\ unread = <<>>
    /\ line = <<>>
    /\ item = "entry"
    /\ hosts = <<>>
    /\ default = <<>>
    /\ current = Nothing
    /\ parse = "parsing"

Fails(result) ==
    parse' = result /\ UNCHANGED <<unread, line, item, netrc, current>>

----------------------------------------------------------------------------
(***************************************************************************)
(* The lexer.                                                              *)
(***************************************************************************)
Refill ==
    /\ parse = "parsing" /\ item # "commands"
    /\ line = <<>> /\ unread # <<>> /\ Head(unread).kind # "bad"
    /\ unread' = Tail(unread)
    /\ line' = Head(unread).words
    /\ UNCHANGED <<item, netrc, current, parse>>

RefillFails ==
    /\ parse = "parsing"
    /\ line = <<>> /\ unread # <<>> /\ Head(unread).kind = "bad"
    /\ Fails("Io")

(* The end of the file is the end of the loop, or "Unexpected end of file". *)
EndOfFile ==
    /\ parse = "parsing" /\ item # "commands"
    /\ line = <<>> /\ unread = <<>>
    /\ Fails(IF item = "entry" THEN "parsed" ELSE "Parse")

CursorInsideCharacter ==
    /\ parse = "parsing"
    /\ line # <<>> /\ Head(line) = Broken
    /\ Fails("panic")

AfterWord(w) ==
    IF Leftover[w] = NoWord THEN Tail(line) ELSE <<Leftover[w]>> \o Tail(line)

WordIs(w) == parse = "parsing" /\ line # <<>> /\ Head(line) = w

NextWord(w) == WordIs(w) /\ line' = AfterWord(w) /\ UNCHANGED unread

----------------------------------------------------------------------------
(***************************************************************************)
(* Netrc::parse_entry: the entry, and then its argument, if it has one.    *)
(***************************************************************************)
HasMachine == current # Nothing

DefaultEntry ==
    /\ item = "entry" /\ NextWord("default")
    /\ default' = <<NewMachine>>
    /\ current' = Default
    /\ UNCHANGED <<item, hosts, parse>>

StartsEntry ==
    /\ item = "entry"
    /\ \E w \in {"machine", "macdef"} \cup (IF HasMachine THEN Fields ELSE {}) :
         NextWord(w) /\ item' = w
    /\ UNCHANGED <<netrc, current, parse>>

(* "No machine defined for ..." *)
FieldWithoutMachine ==
    /\ item = "entry" /\ ~HasMachine
    /\ \E w \in Fields : WordIs(w)
    /\ Fails("Parse")

UnknownEntry ==
    /\ item = "entry"
    /\ \E w \in FileWords \ Keywords : WordIs(w)
    /\ Fails("Parse")

(* Mutant of MachineAt: the position of the next machine, not of this one. *)
MachineAfter(n) == n + 1

MachineAt(n) == n

MachineEntry ==
    /\ item = "machine"
    /\ \E w \in FileWords : NextWord(w) /\ hosts' = Append(hosts, [host |-> w, mach |-> NewMachine])
    /\ current' = MachineAt(Len(hosts'))
    /\ item' = "entry"
    /\ UNCHANGED <<default, parse>>

(* The field of the machine that find_machine returns. *)
SetField(w) ==
    IF current = Default
      THEN default' = [default EXCEPT ![1][item] = w] /\ UNCHANGED hosts
      ELSE hosts' = [hosts EXCEPT ![current].mach[item] = w] /\ UNCHANGED default

FieldEntry ==
    /\ item \in Fields
    /\ \E w \in FileWords : NextWord(w) /\ (item = "port" => w \in Ports) /\ SetField(w)
    /\ item' = "entry"
    /\ UNCHANGED <<current, parse>>

BadPort ==
    /\ item = "port"
    /\ \E w \in FileWords \ Ports : WordIs(w)
    /\ Fails("Parse")

(* The name of a macro; the rest of its line is the first command, which   *)
(* next_subcommands takes as it is, with the lines that follow.            *)
MacroEntry ==
    /\ item = "macdef"
    /\ \E w \in FileWords : WordIs(w) /\ Leftover[w] # Broken
    /\ item' = "commands"
    /\ line' = <<>>
    /\ UNCHANGED <<unread, netrc, current, parse>>

MacroNameBreaks ==
    /\ item = "macdef"
    /\ \E w \in FileWords : WordIs(w) /\ Leftover[w] = Broken
    /\ Fails("panic")

(* Mutant of EndsMacro: any line without words ends a macro. *)
EndsMacroWithoutWords(l) == l.words = <<>>

(* A line of at most one byte. *)
EndsMacro(l) == l.kind = "blank"

MacroLine ==
    /\ parse = "parsing" /\ item = "commands"
    /\ unread # <<>> /\ Head(unread).kind # "bad" /\ ~EndsMacro(Head(unread))
    /\ unread' = Tail(unread)
    /\ UNCHANGED <<line, item, netrc, current, parse>>

AfterMacro == Nothing

(* Mutant of MacroEnds: the loop over the lines only ends at a blank one. *)
MacroEndsAtBlankLine ==
    /\ parse = "parsing" /\ item = "commands"
    /\ unread # <<>> /\ EndsMacro(Head(unread)) /\ unread' = Tail(unread)
    /\ item' = "entry"
    /\ current' = AfterMacro
    /\ UNCHANGED <<line, netrc, parse>>

MacroEnds ==
    /\ parse = "parsing" /\ item = "commands"
    /\ \/ unread = <<>> /\ UNCHANGED unread
       \/ unread # <<>> /\ EndsMacro(Head(unread)) /\ unread' = Tail(unread)
    /\ item' = "entry"
    /\ current' = AfterMacro
    /\ UNCHANGED <<line, netrc, parse>>

ParserNext ==
    \/ Refill \/ RefillFails \/ EndOfFile \/ CursorInsideCharacter
    \/ DefaultEntry \/ StartsEntry \/ FieldWithoutMachine \/ UnknownEntry
    \/ MachineEntry \/ FieldEntry \/ BadPort
    \/ MacroEntry \/ MacroNameBreaks \/ MacroLine \/ MacroEnds

----------------------------------------------------------------------------
(***************************************************************************)
(* Properties.                                                             *)
(***************************************************************************)
ParserTypeOK ==
    /\ unread \in Seq(Lines)
    /\ line \in Seq(FileWords \cup {Broken})
    /\ item \in {"entry", "machine", "macdef", "commands"} \cup Fields
    /\ hosts \in Seq([host : FileWords, mach : Machines])
    /\ default \in Seq(Machines)
    /\ parse \in {"parsing"} \cup ParseResults

(* find_machine indexes hosts and unwraps no Option it should not: the     *)
(* machine that a login, password, account or port goes to is there, from  *)
(* its entry until the argument is read, and it is the latest one.         *)
CurrentIsThere ==
    /\ current \in Refs
    /\ current = Default => Len(default) = 1
    /\ current > 0 => current = Len(hosts)
    /\ item \in Fields => HasMachine
=============================================================================
