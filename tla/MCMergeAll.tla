----------------------------- MODULE MCMergeAll -----------------------------
(***************************************************************************)
(* Two instances of MergeAll in one: two repositories with all in place    *)
(* and one invocation without -L, or one repository of any kind, a second  *)
(* name that GitHub does not know, and two invocations.                    *)
(***************************************************************************)
EXTENDS MergeAll

CONSTANTS r1, r2

OneRepo == kind[r2] = "unknown"

MCInit ==
    /\ Init
    /\ OneRepo \/ kind = [r \in Repos |-> "work"]
    /\ OneRepo => head[r2] = "default"
    /\ pageOf[r1] = 1 /\ pageOf[r2] = 2

MaxRunsHere == IF OneRepo THEN 2 ELSE 1
MaxChangesHere == IF OneRepo /\ kind[r1] = "work" THEN 3 ELSE 2

MCNext ==
    /\ Next
    /\ runs' <= MaxRunsHere /\ changes' <= MaxChangesHere
    /\ OneRepo => ~mods'[r2]
    /\ ~OneRepo => ~stop'

MCSpec == MCInit /\ [][MCNext]_vars /\ WF_vars(Program)
=============================================================================
