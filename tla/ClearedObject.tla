--------------------------- MODULE ClearedObject ---------------------------
(***************************************************************************)
(* The cached object of CacheObject, with a history variable that tells    *)
(* whether something may have gone wrong with it since the last --clear.   *)
(* Two things leave an object whose headers and body are of different      *)
(* responses: an invocation that dies half-way, and invocations that       *)
(* change the object at the same time.  A --clear by an invocation that    *)
(* was alone is the remedy for both.                                       *)
(***************************************************************************)
EXTENDS CacheObject

VARIABLE
    spoiled   \* history: has an invocation died, or have two that change
              \* the object overlapped, since it was last cleared?

Changers == Writers \cup Clearers

Overlapping == \E p, q \in Changers : p # q /\ Active(p) /\ Active(q)

(* A --clear that was alone with the object succeeds. *)
ClearedAlone == \E c \in Clearers \cap alone : Active(c) /\ pc'[c] = "ok"

Record ==
    spoiled' = CASE ClearedAlone -> FALSE
                 [] ~ClearedAlone /\ (deaths' # deaths \/ Overlapping') -> TRUE
                 [] OTHER -> spoiled

ClearedInit == Init /\ spoiled = FALSE
ClearedNext == Next /\ Record

ClearedSpec == ClearedInit /\ [][ClearedNext]_<<vars, spoiled>>
----------------------------------------------------------------------------
(* Whatever deaths and races left in the cache, once the object has been   *)
(* cleared a --get emits a version that the server had while it ran, also  *)
(* when the server goes back to an earlier version: "checks with the       *)
(* GitHub service to make sure the locally cached copy (if any) is         *)
(* up-to-data" (4552-4554) of whatever --clear and later gets make of it.  *)
FreshSinceClear ==
    [][\A w \in Writers :
          Active(w) /\ pc'[w] = "ok" /\ ~spoiled => out'[w] \in seen'[w]]_<<vars, spoiled>>
============================================================================
