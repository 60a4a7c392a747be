----------------------------- MODULE EachInTurn -----------------------------
(***************************************************************************)
(* What the two programs that go through all of a user's repositories      *)
(* promise.  A run takes the repositories up one at a time, and only those *)
(* it was asked for; while it has one in hand it changes no other.  It     *)
(* succeeds only when it is through with all of them, has done each one    *)
(* that it was asked for by name, and has given up none.                   *)
(*                                                                         *)
(* The lists are sets of repositories: that a line is read once is a       *)
(* promise, that a list does not name a repository twice is not.           *)
(***************************************************************************)
CONSTANTS
    Repos,    \* the repositories
    Contents  \* what a working directory may be like

VARIABLES
    phase,    \* "idle", "running", "succeeded" or "failed"
    asked,    \* the repositories given by name; all are meant when it is empty
    todo,     \* the repositories that may still be taken up
    hand,     \* the repository taken up, if any
    done,     \* the repositories that were done
    trouble,  \* has the run given one up and gone on?
    tree      \* the working directories

vars == <<phase, asked, todo, hand, done, trouble, tree>>

Init ==
    /\ phase = "idle"
    /\ asked = {} /\ todo = {} /\ hand = {} /\ done = {}
    /\ trouble = FALSE
    /\ tree \in [Repos -> Contents]

(* Between the runs the directories are the user's. *)
UserWorks ==
    /\ phase = "idle"
    /\ tree' \in [Repos -> Contents]
    /\ UNCHANGED <<phase, asked, todo, hand, done, trouble>>

Start ==
    /\ phase = "idle"
    /\ phase' = "running"
    /\ asked' \in SUBSET Repos
    /\ todo' = Repos
    /\ hand' = {} /\ done' = {}
    /\ trouble' = FALSE
    /\ UNCHANGED tree

Meant(r) == asked = {} \/ r \in asked

(* Repositories that are not listed, or that need no work. *)
PassOver ==
    /\ hand = {}
    /\ todo' \in SUBSET todo
    /\ done \subseteq done'
    /\ done' \ done \subseteq {r \in todo \ todo' : Meant(r)}
    /\ UNCHANGED <<phase, asked, hand, trouble, tree>>

TakeUp(r) ==
    /\ hand = {}
    /\ r \in todo /\ Meant(r)
    /\ hand' = {r}
    /\ todo' = todo \ {r}
    /\ UNCHANGED <<phase, asked, done, trouble, tree>>

OthersUntouched ==
    /\ tree' \in [Repos -> Contents]
    /\ \A r \in Repos \ hand : tree'[r] = tree[r]

Work ==
    /\ OthersUntouched
    /\ UNCHANGED <<phase, asked, todo, hand, done, trouble>>

Complete ==
    /\ OthersUntouched
    /\ hand' = {}
    /\ done' = done \cup hand
    /\ UNCHANGED <<phase, asked, todo, trouble>>

GiveUp ==
    /\ hand # {}
    /\ OthersUntouched
    /\ hand' = {}
    /\ trouble' = TRUE
    /\ UNCHANGED <<phase, asked, todo, done>>

(* On an error, on a signal, or with too little done in the end. *)
Fail ==
    /\ OthersUntouched
    /\ hand' = {}
    /\ phase' = "failed"
    /\ todo' \in SUBSET todo
    /\ UNCHANGED <<asked, done, trouble>>

Succeed ==
    /\ hand = {} /\ todo = {}
    /\ asked \subseteq done
    /\ ~trouble
    /\ phase' = "succeeded"
    /\ UNCHANGED <<asked, todo, hand, done, trouble, tree>>

Return ==
    /\ phase \in {"succeeded", "failed"}
    /\ phase' = "idle"
    /\ UNCHANGED <<asked, todo, hand, done, trouble, tree>>

Run ==
    /\ phase = "running"
    /\ \/ PassOver \/ (\E r \in Repos : TakeUp(r))
       \/ Work \/ Complete \/ GiveUp \/ Fail \/ Succeed

Next == UserWorks \/ Start \/ Run \/ Return

Spec == Init /\ [][Next]_vars
=============================================================================
