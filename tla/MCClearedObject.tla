-------------------------- MODULE MCClearedObject --------------------------
(***************************************************************************)
(* ClearedObject with a bound on when an invocation dies: only while       *)
(* nothing has gone wrong yet, and no other one changes the object.  What  *)
(* it leaves may be added to by any overlap that follows.                  *)
(***************************************************************************)
EXTENDS ClearedObject

MCNext ==
    /\ ClearedNext
    /\ deaths' # deaths => ~spoiled /\ ~Overlapping

MCSpec == ClearedInit /\ [][MCNext]_<<vars, spoiled>>
============================================================================
