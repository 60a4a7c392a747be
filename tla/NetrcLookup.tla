---------------------------- MODULE NetrcLookup ----------------------------
(***************************************************************************)
(* What a caller of parse-netrc is promised.  A netrc file is the sequence *)
(* of the records it declares.  The program looks at the file at one       *)
(* moment and then answers as grep(1) does: 0 and the login of the first   *)
(* record that matches, or 1 and nothing; or it gives up, with nothing.    *)
(***************************************************************************)
EXTENDS Naturals, Sequences

CONSTANTS
    Files,     \* record sequences the file may have
    Queries,   \* host names, with a user name or without
    Screens    \* what --help and --version show

VARIABLES
    file,    \* the records of the file now
    want,    \* <<query>>, or nothing yet
    seen,    \* <<the records of the file when it was looked at>>
    reply    \* <<[status, out]>>

vars == <<file, want, seen, reply>>

Matches(record, query) ==
    /\ record.host = query.host
    /\ query.user \in {<<>>, <<record.login>>}

Found(records, query, i) ==
    /\ i \in DOMAIN records
    /\ Matches(records[i], query)
    /\ \A j \in 1..(i - 1) : ~Matches(records[j], query)

Answers(records, query) ==
    IF \E i \in DOMAIN records : Matches(records[i], query)
      THEN {[status |-> 0, out |-> <<records[i].login>>] :
               i \in {k \in DOMAIN records : Found(records, query, k)}}
      ELSE {[status |-> 1, out |-> <<>>]}

Init ==
    /\ file \in Files
    /\ want = <<>>
    /\ seen = <<>>
    /\ reply = <<>>

Replace ==
    /\ file' \in Files
    /\ UNCHANGED <<want, seen, reply>>

Ask ==
    /\ want = <<>>
    /\ \E query \in Queries : want' = <<query>>
    /\ UNCHANGED <<file, seen, reply>>

Look ==
    /\ want # <<>>
    /\ seen = <<>>
    /\ seen' = <<file>>
    /\ UNCHANGED <<file, want, reply>>

Answer ==
    /\ seen # <<>>
    /\ \E answer \in Answers(seen[1], want[1]) : reply' = <<answer>>
    /\ UNCHANGED <<file, want, seen>>

Show ==
    /\ want = <<>>
    /\ \E screen \in Screens : reply' = <<[status |-> 0, out |-> <<screen>>]>>
    /\ UNCHANGED <<file, want, seen>>

GiveUp ==
    /\ \E status \in {2, 101} : reply' = <<[status |-> status, out |-> <<>>]>>
    /\ UNCHANGED <<file, want, seen>>

Reply == reply = <<>> /\ (Answer \/ Show \/ GiveUp)

Next == Replace \/ (reply = <<>> /\ (Ask \/ Look)) \/ Reply

(* Every caller gets a reply. *)
Spec == Init /\ [][Next]_vars /\ WF_vars(Reply)
=============================================================================
