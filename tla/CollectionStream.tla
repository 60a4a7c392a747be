-------------------------- MODULE CollectionStream --------------------------
(***************************************************************************)
(* What ads-github-cache promises to a caller that asks for a whole        *)
(* collection: the pages, in order and without a gap, are written on       *)
(* stdout after every one of them was obtained, or the program fails       *)
(* having written nothing.  Only a signal cuts the output short.  Whatever *)
(* happens, the program comes to its end.                                  *)
(***************************************************************************)
EXTENDS Naturals, Sequences

CONSTANT MaxPage  \* bound on the number of pages

VARIABLES
    total,     \* the number of pages, 0 until it is known
    obtained,  \* the pages that were obtained
    stream,    \* the page numbers written on stdout
    status     \* "working", "done", "failed" or "killed"

vars == <<total, obtained, stream, status>>

Init ==
    /\ total = 0
    /\ obtained = {}
    /\ stream = <<>>
    /\ status = "working"

Size(n) ==
    /\ total = 0
    /\ total' = n
    /\ UNCHANGED <<obtained, stream, status>>

Obtain(p) ==
    /\ stream = <<>>
    /\ p \in 1..total
    /\ obtained' = obtained \cup {p}
    /\ UNCHANGED <<total, stream, status>>

Emit ==
    /\ obtained = 1..total
    /\ Len(stream) < total
    /\ stream' = Append(stream, Len(stream) + 1)
    /\ UNCHANGED <<total, obtained, status>>

Finish ==
    /\ total # 0
    /\ Len(stream) = total
    /\ status' = "done"
    /\ UNCHANGED <<total, obtained, stream>>

Fail ==
    /\ stream = <<>>
    /\ status' = "failed"
    /\ UNCHANGED <<total, obtained, stream>>

Kill ==
    /\ status' = "killed"
    /\ UNCHANGED <<total, obtained, stream>>

Run ==
    /\ status = "working"
    /\ (\E n \in 1..MaxPage : Size(n)) \/ Emit \/ Finish \/ Fail \/ Kill

(* A subprocess that outlives a killed program may still obtain its page. *)
Next == Run \/ \E p \in 1..MaxPage : Obtain(p)

Spec == Init /\ [][Next]_vars /\ WF_vars(Run)
=============================================================================
