------------------------ MODULE PagedCollectionProofs ------------------------
(***************************************************************************)
(* Proofs about PagedCollection: its invariants for any number of pages,   *)
(* any limit of subprocesses and any number of pages that others clear,    *)
(* and that it implements CollectionStream when nobody clears a page.      *)
(***************************************************************************)
EXTENDS PagedCollection, FiniteSetTheorems, TLAPS

FirstPass == {"spawn", "wait", "drain"}

(***************************************************************************)
(* The inductive invariant.                                                *)
(***************************************************************************)

(* The recorded subprocesses: every one that runs is recorded, the limit   *)
(* holds, and it is not reached when another one is about to be started.   *)
PoolInv ==
    /\ Running \subseteq pool
    /\ Cardinality(pool) <= MaxBg
    /\ phase = "spawn" => Cardinality(pool) < MaxBg
    /\ phase \in {"head", "link", "emit", "done", "failed"} => pool = {}
    /\ phase \notin Ended => tmp

(* The pages: which are started, and what has become of them.              *)
PageInv ==
    /\ phase \in {"head", "link"} => lastPage = 0
    /\ \A p \in Pages : child[p] # "none" => p <= lastPage
    /\ \A p \in pool : child[p] # "none"
    /\ phase \in FirstPass =>
         /\ \A p \in 1..thisPage : p \in pool \/ child[p] = "ok" \/ err
         /\ \A p \in Pages : child[p] # "none" => p <= thisPage
    /\ phase = "drain" => thisPage = lastPage \/ err
    /\ phase \in {"emit", "done"} => \A p \in 1..lastPage : child[p] = "ok"

(* The cache: what a successful subprocess has put or found there.         *)
CacheInv ==
    /\ ~CachedOnly => \A p \in Pages : child[p] = "ok" => cache[p] # "old"
    /\ MaxClears = 0 => \A p \in Pages : child[p] = "ok" => cache[p] # "absent"

(* The output: nothing during the first pass, then the pages in order.     *)
OutInv ==
    /\ phase \in {"head", "link"} \cup FirstPass => emitted = <<>>
    /\ pool # {} => emitted = <<>>
    /\ phase = "emit" => Len(emitted) = thisPage
    /\ phase \in FirstPass \cup {"emit"} => lastPage # 0
    /\ \A i \in DOMAIN emitted : emitted[i].page = i

CollectionInv == TypeOK /\ PoolInv /\ PageInv /\ CacheInv /\ FreshPages /\ OutInv

(***************************************************************************)
(* Facts about sets of pages.                                              *)
(***************************************************************************)

(* A set of pages is finite, so that the pool has a size. *)
LEMMA PagesFinite == \A S \in SUBSET Pages : IsFiniteSet(S) /\ Cardinality(S) \in Nat
<1>1. IsFiniteSet(Pages)
  BY FS_Interval, CountsAssumption DEF Pages
<1> QED
  BY <1>1, FS_Subset, FS_CardinalityType

(* Recording a subprocess adds at most one to the size of the pool. *)
LEMMA AddOne ==
  ASSUME NEW S \in SUBSET Pages, NEW p \in Pages
  PROVE  Cardinality(S \cup {p}) <= Cardinality(S) + 1
<1>1. IsFiniteSet(S) /\ Cardinality(S) \in Nat
  BY PagesFinite
<1>2. Cardinality(S \cup {p}) = Cardinality(S) \/ Cardinality(S \cup {p}) = Cardinality(S) + 1
  BY <1>1, FS_AddElement
<1> QED
  BY <1>1, <1>2

(* A smaller pool is not larger. *)
LEMMA SmallerPool ==
  ASSUME NEW S \in SUBSET Pages, NEW T \in SUBSET S
  PROVE  Cardinality(T) <= Cardinality(S)
BY PagesFinite, FS_Subset

----------------------------------------------------------------------------
(***************************************************************************)
(* The types.  The flags are kept apart from the numbers and the sets, as  *)
(* the provers need different backends for them.                           *)
(***************************************************************************)
FlagsOK == err \in BOOLEAN /\ tmp \in BOOLEAN /\ refused \in BOOLEAN

PlacesOK ==
    /\ size \in Pages /\ link \in 0..MaxPage
    /\ lastPage \in 0..MaxPage /\ thisPage \in 0..lastPage
    /\ child \in [Pages -> {"none", "running", "ok", "failed"}]
    /\ pool \subseteq Pages /\ scan \subseteq pool
    /\ cache \in [Pages -> {"absent", "old", "new"}]
    /\ emitted \in Seq(Written)
    /\ phase \in {"head", "link", "spawn", "wait", "drain", "emit"} \cup Ended
    /\ clears \in 0..MaxClears

LEMMA TypeParts == TypeOK <=> PlacesOK /\ FlagsOK
BY Zenon DEF TypeOK, PlacesOK, FlagsOK

LEMMA TypePartsNext == TypeOK' <=> PlacesOK' /\ FlagsOK'
BY Zenon DEF TypeOK, PlacesOK, FlagsOK

LEMMA TypeInit == Init => TypeOK
<1> SUFFICES ASSUME Init PROVE TypeOK
  OBVIOUS
<1>1. FlagsOK
  BY Zenon DEF Init, FlagsOK
<1>2. PlacesOK
  BY CountsAssumption DEF Init, PlacesOK, Pages, Ended
<1> QED
  BY <1>1, <1>2, TypeParts

(* A flag is only set to TRUE, to FALSE or to a disjunction. *)
LEMMA FlagsStep ==
  ASSUME FlagsOK, [Next]_vars
  PROVE  FlagsOK'
<1> USE DEF FlagsOK
<1>1. CASE HeadAnswered \/ HeadFromCache \/ HeadFails \/ ReadLink \/ NoLink
  BY Zenon, <1>1 DEF HeadAnswered, HeadFromCache, HeadFails, ReadLink, NoLink,
     Exit, scratch, others
<1>2. CASE Spawn \/ SpawnEnds \/ WaitRoundEnds \/ DrainRoundEnds
  BY Zenon, <1>2 DEF Spawn, SpawnEnds, WaitRoundEnds, DrainRoundEnds, others
<1>3. ASSUME NEW p \in Pages, Visit(p) PROVE FlagsOK'
  <2>1. err' \in BOOLEAN
    BY Zenon, <1>3 DEF Visit, Reap
  <2> QED
    BY Zenon, <1>3, <2>1 DEF Visit, others
<1>4. CASE FirstPassFails \/ FirstPassSucceeds \/ Emit \/ Done \/ Killed
  BY Zenon, <1>4 DEF FirstPassFails, FirstPassSucceeds, Emit, Done, Killed,
     Exit, scratch, others
<1>5. ASSUME NEW p \in Pages, ChildEnds(p) \/ OthersClear(p) PROVE FlagsOK'
  BY Zenon, <1>5 DEF ChildEnds, ChildSucceeds, ChildFails, OthersClear, scratch, others
<1>6. CASE UNCHANGED vars
  BY Zenon, <1>6 DEF vars, scratch, others
<1> QED
  BY Zenon, <1>1, <1>2, <1>3, <1>4, <1>5, <1>6 DEF Next, Parent

(* No last page is known before the Link header is read. *)
LEMMA PlacesStep ==
  ASSUME PlacesOK, PageInv, [Next]_vars
  PROVE  PlacesOK'
<1> USE CountsAssumption DEF PlacesOK, Pages, Ended
<1>1. CASE HeadAnswered \/ HeadFromCache
  <2>1. link' \in {link, size} /\ phase' = "link"
    BY Zenon, <1>1 DEF HeadAnswered, HeadFromCache
  <2>2. UNCHANGED <<size, lastPage, thisPage, child, pool, scan, cache, emitted, clears>>
    BY Zenon, <1>1 DEF HeadAnswered, HeadFromCache, scratch, others
  <2> QED
    BY <2>1, <2>2
<1>11. CASE HeadFails \/ NoLink \/ FirstPassFails \/ Done \/ Killed
  <2>1. phase' \in Ended
    BY Zenon, <1>11 DEF HeadFails, NoLink, FirstPassFails, Done, Killed, Exit
  <2>2. UNCHANGED <<size, link, lastPage, thisPage, child, pool, scan, cache, emitted, clears>>
    BY Zenon, <1>11 DEF HeadFails, NoLink, FirstPassFails, Done, Killed, scratch, others
  <2> QED
    BY <2>1, <2>2
<1>2. CASE ReadLink
  BY <1>2 DEF ReadLink, scratch, others, PageInv
<1>3. CASE Spawn
  <2>1. /\ thisPage' \in Pages /\ thisPage' \in 0..lastPage'
        /\ UNCHANGED <<size, link, lastPage, cache, emitted, clears>>
    BY <1>3 DEF Spawn, PagesLeft, others
  <2>2. child' = [child EXCEPT ![thisPage'] = "running"]
    BY <1>3 DEF Spawn, Started
  <2>3. pool' \subseteq Pages /\ scan' \subseteq pool'
    BY <1>3, <2>1 DEF Spawn
  <2>4. phase' \in {"spawn", "wait"}
    BY <1>3 DEF Spawn
  <2> QED
    BY <2>1, <2>2, <2>3, <2>4
<1>4. ASSUME NEW p \in Pages, Visit(p) PROVE PlacesOK'
  BY <1>4 DEF Visit, Reap, others
<1>5. CASE SpawnEnds \/ WaitRoundEnds \/ DrainRoundEnds
  BY <1>5 DEF SpawnEnds, WaitRoundEnds, DrainRoundEnds, others
<1>6. CASE FirstPassSucceeds
  BY <1>6 DEF FirstPassSucceeds, Drained, scratch, others
<1>7. CASE Emit
  <2>1. thisPage' \in Pages /\ thisPage' \in 0..lastPage'
    BY <1>7 DEF Emit, PagesLeft
  <2>2. emitted' \in Seq(Written)
    <3>1. CASE cache[thisPage'] = "absent"
      BY <1>7, <3>1 DEF Emit
    <3>2. CASE cache[thisPage'] # "absent"
      <4>1. [page |-> thisPage', content |-> cache[thisPage']] \in Written
        BY <2>1, <3>2 DEF Written
      <4>2. emitted' = Append(emitted, [page |-> thisPage', content |-> cache[thisPage']])
        BY <1>7, <3>2 DEF Emit
      <4> HIDE DEF Pages
      <4> QED
        BY <4>1, <4>2
    <3> QED
      BY <3>1, <3>2
  <2> QED
    BY <1>7, <2>1, <2>2 DEF Emit, Exit, scratch, others
<1>8. ASSUME NEW p \in Pages, ChildEnds(p) PROVE PlacesOK'
  BY <1>8 DEF ChildEnds, ChildSucceeds, ChildFails, others
<1>9. ASSUME NEW p \in Pages, OthersClear(p) PROVE PlacesOK'
  BY <1>9 DEF OthersClear, scratch, others
<1>10. CASE UNCHANGED vars
  BY <1>10 DEF vars, scratch, others
<1> QED
  BY <1>1, <1>2, <1>3, <1>4, <1>5, <1>6, <1>7, <1>8, <1>9, <1>10, <1>11 DEF Next, Parent

----------------------------------------------------------------------------
(***************************************************************************)
(* The pool.                                                               *)
(***************************************************************************)
LEMMA PoolInit == Init => PoolInv
<1> SUFFICES ASSUME Init PROVE PoolInv
  OBVIOUS
<1>1. Running = {} /\ pool = {} /\ phase = "head"
  BY DEF Init, Running
<1>2. phase \notin Ended => tmp
  BY Zenon DEF Init
<1>3. Cardinality({}) = 0
  BY FS_EmptySet
<1> QED
  BY <1>1, <1>2, <1>3, CountsAssumption DEF PoolInv

(* A step that leaves the subprocesses and the pool alone only has to end  *)
(* in a phase that fits.                                                   *)
LEMMA PoolKept ==
  ASSUME PoolInv, UNCHANGED <<child, pool>>,
         phase' = "spawn" => Cardinality(pool) < MaxBg,
         phase' \in {"head", "link", "emit", "done", "failed"} => pool = {},
         phase' \notin Ended => tmp'
  PROVE  PoolInv'
BY Zenon DEF PoolInv, Running

LEMMA PoolStep ==
  ASSUME TypeOK, PoolInv, [Next]_vars
  PROVE  PoolInv'
<1>0. PlacesOK
  BY TypeParts
<1>1. CASE HeadAnswered \/ HeadFromCache
  <2>1. phase \in {"head"} /\ phase' = "link" /\ UNCHANGED <<child, pool, tmp>>
    BY Zenon, <1>1 DEF HeadAnswered, HeadFromCache, scratch
  <2> QED
    BY <2>1, PoolKept DEF PoolInv, Ended
<1>2. CASE ReadLink
  <2>1. phase = "link" /\ phase' = "spawn" /\ UNCHANGED <<child, pool, tmp>>
    BY Zenon, <1>2 DEF ReadLink, scratch
  <2>2. Cardinality(pool) < MaxBg
    BY <2>1, FS_EmptySet, CountsAssumption DEF PoolInv
  <2> QED
    BY <2>1, <2>2, PoolKept DEF PoolInv, Ended
<1>3. CASE HeadFails \/ NoLink \/ FirstPassFails \/ Done \/ Killed
  <2>1. phase' \in Ended /\ UNCHANGED <<child, pool>>
    BY Zenon, <1>3 DEF HeadFails, NoLink, FirstPassFails, Done, Killed, Exit, Ended, scratch
  <2>2. phase' # "killed" => pool = {}
    BY Zenon, <1>3 DEF HeadFails, NoLink, FirstPassFails, Done, Killed, Exit, Drained, PoolInv
  <2> QED
    BY <2>1, <2>2, PoolKept DEF Ended
<1>4. CASE Spawn
  <2> DEFINE q == thisPage'
  <2>1. q \in Pages
    BY <1>0, <1>4, CountsAssumption DEF Spawn, PagesLeft, PlacesOK, Pages
  <2>2. Running' \subseteq pool'
    BY <1>0, <1>4, <2>1 DEF Spawn, Started, PlacesOK, PoolInv, Running
  <2>3. Cardinality(pool') <= Cardinality(pool) + 1 /\ Cardinality(pool) < MaxBg
        /\ Cardinality(pool) \in Nat /\ Cardinality(pool') \in Nat
    BY <1>0, <1>4, <2>1, AddOne, PagesFinite DEF Spawn, PlacesOK, PoolInv
  <2>4. phase' = "wait" \/ (phase' = "spawn" /\ Cardinality(pool') # MaxBg)
    BY <1>4 DEF Spawn, PoolFull
  <2>5. tmp'
    BY Zenon, <1>4 DEF Spawn, PoolInv, Ended
  <2> QED
    BY <2>2, <2>3, <2>4, <2>5, CountsAssumption DEF PoolInv
<1>5. ASSUME NEW p \in Pages, Visit(p) PROVE PoolInv'
  <2>1. pool' \subseteq pool /\ Running' \subseteq pool'
    BY <1>0, <1>5 DEF Visit, Reap, PoolInv, Running
  <2>2. Cardinality(pool') <= Cardinality(pool)
    BY <1>0, <2>1, SmallerPool DEF PlacesOK
  <2>3. Cardinality(pool') \in Nat /\ Cardinality(pool) \in Nat
    BY <1>0, <2>1, PagesFinite DEF PlacesOK
  <2>4. phase' \in {"wait", "drain"}
    BY <1>5 DEF Visit
  <2>5. tmp'
    BY Zenon, <1>5 DEF Visit, PoolInv, Ended
  <2> QED
    BY <2>1, <2>2, <2>3, <2>4, <2>5, CountsAssumption DEF PoolInv
<1>6. CASE SpawnEnds \/ DrainRoundEnds
  <2>1. phase \notin Ended /\ phase' = "drain" /\ UNCHANGED <<child, pool, tmp>>
    BY Zenon, <1>6 DEF SpawnEnds, DrainRoundEnds, Ended
  <2> QED
    BY <2>1, PoolKept DEF PoolInv
<1>7. CASE WaitRoundEnds
  <2>1. phase \notin Ended /\ UNCHANGED <<child, pool, tmp>>
    BY Zenon, <1>7 DEF WaitRoundEnds, Ended
  <2>2. phase' = "wait" \/ (phase' = "spawn" /\ Cardinality(pool) # MaxBg)
    BY <1>7 DEF WaitRoundEnds, PoolFull
  <2>3. Cardinality(pool) \in Nat /\ Cardinality(pool) <= MaxBg
    BY <1>0, PagesFinite DEF PlacesOK, PoolInv
  <2> QED
    BY <2>1, <2>2, <2>3, PoolKept, CountsAssumption DEF PoolInv
<1>8. CASE FirstPassSucceeds
  <2>1. phase \notin Ended /\ phase' = "emit" /\ pool = {} /\ UNCHANGED <<child, pool, tmp>>
    BY Zenon, <1>8 DEF FirstPassSucceeds, Drained, Ended, scratch
  <2> QED
    BY <2>1, PoolKept DEF PoolInv
<1>9. CASE Emit
  <2>1. phase = "emit" /\ UNCHANGED <<child, pool>>
    BY Zenon, <1>9 DEF Emit, scratch
  <2>2. phase' = "failed" \/ (phase' = "emit" /\ tmp' = tmp)
    BY Zenon, <1>9 DEF Emit, Exit
  <2> QED
    BY <2>1, <2>2, PoolKept DEF PoolInv, Ended
<1>10. ASSUME NEW p \in Pages, ChildEnds(p) PROVE PoolInv'
  <2>1. Running' \subseteq Running
    BY <1>0, <1>10 DEF ChildEnds, ChildSucceeds, ChildFails, Running, PlacesOK
  <2>2. UNCHANGED <<pool, phase, tmp>>
    BY Zenon, <1>10 DEF ChildEnds, ChildSucceeds, ChildFails
  <2> QED
    BY Zenon, <2>1, <2>2 DEF PoolInv
<1>11. ASSUME NEW p \in Pages, OthersClear(p) PROVE PoolInv'
  BY Zenon, <1>11 DEF OthersClear, scratch, PoolInv, Running
<1>12. CASE UNCHANGED vars
  BY Zenon, <1>12 DEF vars, scratch, PoolInv, Running
<1> QED
  BY Zenon, <1>1, <1>2, <1>3, <1>4, <1>5, <1>6, <1>7, <1>8, <1>9, <1>10, <1>11, <1>12
     DEF Next, Parent

----------------------------------------------------------------------------
(***************************************************************************)
(* The pages.                                                              *)
(***************************************************************************)
LEMMA PageInit == Init => PageInv
BY CountsAssumption DEF Init, PageInv, FirstPass, Pages

(* A step after which the same pages are started, with the same outcome.   *)
LEMMA PageKept ==
  ASSUME PageInv, UNCHANGED <<child, pool, lastPage>>,
         phase' \in {"head", "link"} => phase \in {"head", "link"},
         phase' \in FirstPass => phase \in FirstPass /\ UNCHANGED <<thisPage, err>>,
         phase' = "drain" => thisPage = lastPage \/ err,
         phase' \in {"emit", "done"} => phase \in {"emit", "done"}
  PROVE  PageInv'
<1>1. child' = child /\ pool' = pool /\ lastPage' = lastPage
  OBVIOUS
<1>2. ASSUME phase' \in FirstPass
      PROVE  /\ \A p \in 1..thisPage' : p \in pool' \/ child'[p] = "ok" \/ err'
             /\ \A p \in Pages : child'[p] # "none" => p <= thisPage'
  <2>1. phase \in FirstPass /\ thisPage' = thisPage /\ err' = err
    BY Zenon, <1>2
  <2> QED
    BY Zenon, <1>1, <2>1 DEF PageInv
<1>3. ASSUME phase' = "drain" PROVE thisPage' = lastPage' \/ err'
  <2>1. phase' \in FirstPass
    BY <1>3 DEF FirstPass
  <2>2. thisPage' = thisPage /\ err' = err
    BY Zenon, <2>1
  <2> QED
    BY Zenon, <1>1, <1>3, <2>2
<1>4. phase' \in {"head", "link"} => lastPage' = 0
  BY Zenon, <1>1 DEF PageInv
<1>5. phase' \in {"emit", "done"} => \A p \in 1..lastPage' : child'[p] = "ok"
  BY Zenon, <1>1 DEF PageInv
<1>6. /\ \A p \in Pages : child'[p] # "none" => p <= lastPage'
      /\ \A p \in pool' : child'[p] # "none"
  BY Zenon, <1>1 DEF PageInv
<1> QED
  BY Zenon, <1>2, <1>3, <1>4, <1>5, <1>6 DEF PageInv

LEMMA PageStep ==
  ASSUME TypeOK, PoolInv, PageInv, [Next]_vars
  PROVE  PageInv'
<1>0. PlacesOK
  BY TypeParts
<1>1. CASE HeadAnswered \/ HeadFromCache
  <2>1. phase = "head" /\ phase' = "link" /\ UNCHANGED <<child, pool, lastPage>>
    BY Zenon, <1>1 DEF HeadAnswered, HeadFromCache, scratch
  <2> QED
    BY <2>1, PageKept DEF FirstPass
<1>2. CASE ReadLink
  <2>1. /\ phase = "link" /\ phase' = "spawn" /\ lastPage = 0
        /\ UNCHANGED <<child, pool, thisPage>>
    BY Zenon, <1>2 DEF ReadLink, scratch, PageInv
  <2>2. thisPage = 0 /\ \A p \in Pages : child[p] = "none"
    BY <1>0, <2>1 DEF PlacesOK, PageInv, Pages
  <2>3. pool = {}
    BY <2>1 DEF PoolInv
  <2> QED
    BY <2>1, <2>2, <2>3 DEF PageInv
<1>3. CASE HeadFails \/ NoLink \/ FirstPassFails \/ Done \/ Killed
  <2>1. phase' \in Ended /\ UNCHANGED <<child, pool, lastPage>>
    BY Zenon, <1>3 DEF HeadFails, NoLink, FirstPassFails, Done, Killed, Exit, Ended, scratch
  <2>2. phase' = "done" => phase = "emit"
    BY Zenon, <1>3 DEF HeadFails, NoLink, FirstPassFails, Done, Killed, Exit
  <2> QED
    BY <2>1, <2>2, PageKept DEF Ended, FirstPass
<1>4. CASE Spawn
  <2>1. /\ thisPage' = thisPage + 1 /\ thisPage' \in Pages /\ thisPage' <= lastPage
        /\ thisPage \in Nat /\ lastPage \in Nat
    BY <1>0, <1>4, CountsAssumption DEF Spawn, PagesLeft, PlacesOK, Pages
  <2>2. /\ child' = [child EXCEPT ![thisPage'] = "running"]
        /\ pool' = pool \cup {thisPage'}
        /\ UNCHANGED <<lastPage, err>>
    BY Zenon, <1>4 DEF Spawn, Started
  <2>3. phase = "spawn" /\ phase' \in {"spawn", "wait"}
    BY <1>4 DEF Spawn
  <2>4. \A p \in Pages : child'[p] # "none" => p <= lastPage'
    BY <1>0, <2>1, <2>2 DEF PageInv, PlacesOK
  <2>5. \A p \in pool' : child'[p] # "none"
    BY <1>0, <2>1, <2>2 DEF PageInv, PlacesOK
  <2>8. \A p \in Pages : child'[p] # "none" => p <= thisPage'
    BY <1>0, <2>1, <2>2, <2>3 DEF PageInv, PlacesOK, FirstPass, Pages
  <2>6. ASSUME NEW p \in 1..thisPage' PROVE p \in pool' \/ child'[p] = "ok" \/ err'
    <3>1. CASE p = thisPage'
      BY <2>2, <3>1
    <3>2. CASE p # thisPage'
      <4>1. p \in 1..thisPage /\ p \in Pages
        BY <2>1, <3>2, CountsAssumption DEF Pages
      <4>2. child'[p] = child[p]
        BY <1>0, <2>2, <3>2, <4>1 DEF PlacesOK
      <4>3. p \in pool \/ child[p] = "ok" \/ err
        BY Zenon, <2>3, <4>1 DEF PageInv, FirstPass
      <4> QED
        BY Zenon, <2>2, <4>2, <4>3
    <3> QED
      BY <3>1, <3>2
  <2>7. phase' \notin {"head", "link", "drain", "emit", "done"}
    BY <2>3
  <2> QED
    BY Zenon, <2>4, <2>5, <2>6, <2>7, <2>8 DEF PageInv
<1>5. ASSUME NEW p \in Pages, Visit(p) PROVE PageInv'
  <2>1. UNCHANGED <<child, lastPage, thisPage, phase>> /\ phase \in {"wait", "drain"}
    BY Zenon, <1>5 DEF Visit
  <2>2. CASE child[p] = "running"
    BY Zenon, <1>5, <2>1, <2>2 DEF Visit, PageInv
  <2>3. CASE child[p] # "running"
    <3>1. pool' = pool \ {p} /\ err' = (err \/ child[p] = "failed")
      BY Zenon, <1>5, <2>3 DEF Visit, Reap
    <3>2. child[p] \in {"ok", "failed"}
      BY <1>0, <1>5, <2>3 DEF Visit, PlacesOK, PageInv
    <3>3. ASSUME NEW q \in 1..thisPage PROVE q \in pool' \/ child[q] = "ok" \/ err'
      <4>1. q \in pool \/ child[q] = "ok" \/ err
        BY Zenon, <2>1 DEF PageInv, FirstPass
      <4>2. CASE q = p
        BY Zenon, <3>1, <3>2, <4>2
      <4>3. CASE q # p
        BY Zenon, <3>1, <4>1, <4>3
      <4> QED
        BY Zenon, <4>2, <4>3
    <3>4. \A q \in pool' : child[q] # "none"
      BY <3>1 DEF PageInv
    <3>5. err => err'
      BY Zenon, <3>1
    <3> QED
      BY Zenon, <2>1, <3>3, <3>4, <3>5 DEF PageInv
  <2> QED
    BY <2>2, <2>3
<1>6. CASE SpawnEnds
  <2>1. /\ phase = "spawn" /\ phase' = "drain"
        /\ UNCHANGED <<child, pool, lastPage, thisPage, err>>
    BY Zenon, <1>6 DEF SpawnEnds
  <2>2. thisPage = lastPage \/ err
    <3>1. ~PagesLeft => thisPage = lastPage
      BY <1>0, CountsAssumption DEF PlacesOK, PagesLeft
    <3> QED
      BY Zenon, <1>6, <3>1 DEF SpawnEnds
  <2> QED
    BY <2>1, <2>2, PageKept DEF FirstPass
<1>7. CASE WaitRoundEnds \/ DrainRoundEnds
  <2>1. /\ phase \in FirstPass /\ phase' \in FirstPass
        /\ phase' = "drain" => phase = "drain"
        /\ UNCHANGED <<child, pool, lastPage, thisPage, err>>
    BY <1>7 DEF WaitRoundEnds, DrainRoundEnds, FirstPass
  <2>2. phase' = "drain" => thisPage = lastPage \/ err
    BY Zenon, <2>1 DEF PageInv
  <2>3. phase' \notin {"head", "link", "emit", "done"}
    BY <2>1 DEF FirstPass
  <2> QED
    BY Zenon, <2>1, <2>2, <2>3, PageKept
<1>8. CASE FirstPassSucceeds
  <2>1. /\ phase = "drain" /\ phase' = "emit" /\ pool = {} /\ ~err
        /\ UNCHANGED <<child, pool, lastPage>>
    BY Zenon, <1>8 DEF FirstPassSucceeds, Drained, scratch
  <2>2. thisPage = lastPage
    BY Zenon, <2>1 DEF PageInv
  <2>3. \A p \in 1..lastPage : child[p] = "ok"
    BY Zenon, <2>1, <2>2 DEF PageInv, FirstPass
  <2>4. phase' \notin {"head", "link", "drain"} \cup FirstPass
    BY <2>1 DEF FirstPass
  <2> QED
    BY Zenon, <2>1, <2>3, <2>4 DEF PageInv
<1>9. CASE Emit
  <2>1. phase = "emit" /\ phase' \in {"emit", "failed"} /\ UNCHANGED <<child, pool, lastPage>>
    BY Zenon, <1>9 DEF Emit, Exit, scratch
  <2> QED
    BY <2>1, PageKept DEF FirstPass
<1>10. ASSUME NEW p \in Pages, ChildEnds(p) PROVE PageInv'
  <2>1. /\ child[p] = "running" /\ child' \in {[child EXCEPT ![p] = "ok"], [child EXCEPT ![p] = "failed"]}
        /\ UNCHANGED <<pool, lastPage, thisPage, err, phase>>
    BY Zenon, <1>10 DEF ChildEnds, ChildSucceeds, ChildFails
  <2>2. p \in pool /\ p <= lastPage
    BY <2>1 DEF PoolInv, Running, PageInv
  <2>3. phase \notin {"head", "link", "emit", "done"}
    BY <2>2 DEF PoolInv
  <2>4. \A q \in Pages : q # p => child'[q] = child[q]
    BY <1>0, <2>1 DEF PlacesOK
  <2>5. child'[p] \in {"ok", "failed"}
    BY <1>0, <2>1 DEF PlacesOK
  <2>6. \A q \in Pages : child'[q] # "none" => q <= lastPage
    BY <2>2, <2>4, <2>5 DEF PageInv
  <2>7. \A q \in pool : child'[q] # "none"
    BY <1>0, <2>4, <2>5 DEF PageInv, PlacesOK
  <2>9. phase \in FirstPass => \A q \in Pages : child'[q] # "none" => q <= thisPage
    BY <2>1, <2>4, <2>5 DEF PageInv
  <2>8. ASSUME phase \in FirstPass, NEW q \in 1..thisPage
        PROVE  q \in pool \/ child'[q] = "ok" \/ err
    <3>1. q \in pool \/ child[q] = "ok" \/ err
      BY Zenon, <2>8 DEF PageInv
    <3>2. q \in Pages
      BY <1>0, CountsAssumption DEF PlacesOK, Pages
    <3> QED
      BY Zenon, <2>2, <2>4, <3>1, <3>2
  <2> QED
    BY Zenon, <2>1, <2>3, <2>6, <2>7, <2>8, <2>9 DEF PageInv
<1>11. ASSUME NEW p \in Pages, OthersClear(p) PROVE PageInv'
  BY Zenon, <1>11 DEF OthersClear, scratch, PageInv
<1>12. CASE UNCHANGED vars
  BY Zenon, <1>12 DEF vars, scratch, PageInv
<1> QED
  BY Zenon, <1>1, <1>2, <1>3, <1>4, <1>5, <1>6, <1>7, <1>8, <1>9, <1>10, <1>11, <1>12
     DEF Next, Parent

----------------------------------------------------------------------------
(***************************************************************************)
(* The cache and the output.                                               *)
(***************************************************************************)
LEMMA CacheInit == Init => CacheInv /\ FreshPages /\ OutInv
BY DEF Init, CacheInv, FreshPages, OutInv, FirstPass

(* Only the end of a subprocess and a clear change the cache, and only the *)
(* subprocess of a page that succeeded leaves it "ok".                     *)
LEMMA CacheStep ==
  ASSUME TypeOK, PoolInv, PageInv, CacheInv, [Next]_vars
  PROVE  CacheInv'
<1>0. PlacesOK
  BY TypeParts
<1>1. ASSUME NEW p \in Pages, ChildSucceeds(p) PROVE CacheInv'
  <2>1. \A q \in Pages : q # p => child'[q] = child[q] /\ cache'[q] = cache[q]
    BY <1>0, <1>1 DEF ChildSucceeds, PlacesOK
  <2>2. CASE CachedOnly
    <3>1. cache' = cache /\ cache[p] # "absent"
      BY Zenon, <1>1, <2>2 DEF ChildSucceeds
    <3> QED
      BY Zenon, <2>1, <2>2, <3>1 DEF CacheInv
  <2>3. CASE ~CachedOnly
    <3>1. cache' = [cache EXCEPT ![p] = "new"]
      BY Zenon, <1>1, <2>3 DEF ChildSucceeds
    <3>2. cache'[p] = "new"
      BY <1>0, <3>1 DEF PlacesOK
    <3> QED
      BY <2>1, <3>2 DEF CacheInv
  <2> QED
    BY <2>2, <2>3
<1>2. ASSUME NEW p \in Pages, ChildFails(p) PROVE CacheInv'
  <2>1. child'[p] = "failed" /\ \A q \in Pages : q # p => child'[q] = child[q]
    BY <1>0, <1>2 DEF ChildFails, PlacesOK
  <2>2. cache' = cache \/ \E left : cache' = [cache EXCEPT ![p] = left]
    BY Zenon, <1>2 DEF ChildFails
  <2>3. \A q \in Pages : q # p => cache'[q] = cache[q]
    BY <1>0, <2>2 DEF PlacesOK
  <2> QED
    BY <2>1, <2>3 DEF CacheInv
<1>3. ASSUME NEW p \in Pages, OthersClear(p) PROVE CacheInv'
  <2>1. MaxClears # 0 /\ child' = child /\ cache' = [cache EXCEPT ![p] = "absent"]
    BY <1>0, <1>3, CountsAssumption DEF OthersClear, PlacesOK, scratch
  <2>2. \A q \in Pages : cache'[q] = cache[q] \/ cache'[q] = "absent"
    BY <1>0, <2>1 DEF PlacesOK
  <2> QED
    BY <2>1, <2>2 DEF CacheInv
<1>4. CASE Spawn
  <2>1. cache' = cache /\ \A q \in Pages : child'[q] \in {child[q], "running"}
    BY <1>0, <1>4 DEF Spawn, Started, PlacesOK
  <2> QED
    BY <2>1 DEF CacheInv
<1>5. CASE \/ HeadAnswered \/ HeadFromCache \/ HeadFails \/ ReadLink \/ NoLink
           \/ SpawnEnds \/ (\E p \in Pages : Visit(p))
           \/ WaitRoundEnds \/ DrainRoundEnds \/ FirstPassFails \/ FirstPassSucceeds
           \/ Emit \/ Done \/ Killed \/ UNCHANGED vars
  <2>1. UNCHANGED <<child, cache>>
    BY Zenon, <1>5 DEF HeadAnswered, HeadFromCache, HeadFails, ReadLink, NoLink,
       SpawnEnds, Visit, WaitRoundEnds, DrainRoundEnds, FirstPassFails,
       FirstPassSucceeds, Emit, Done, Killed, vars, scratch
  <2> QED
    BY Zenon, <2>1 DEF CacheInv
<1> QED
  BY Zenon, <1>1, <1>2, <1>3, <1>4, <1>5 DEF Next, Parent, ChildEnds

(* What a step adds to the output is the next page, as it is in the cache. *)
LEMMA Written1 ==
  ASSUME TypeOK, PageInv, Emit
  PROVE  \/ emitted' = emitted
         \/ /\ thisPage' \in 1..lastPage /\ child[thisPage'] = "ok"
            /\ cache[thisPage'] # "absent"
            /\ thisPage' = thisPage + 1 /\ thisPage' \in Pages
            /\ emitted' = Append(emitted, [page |-> thisPage', content |-> cache[thisPage']])
            /\ phase' = phase
<1>0. PlacesOK
  BY TypeParts
<1>1. thisPage' \in 1..lastPage /\ thisPage' = thisPage + 1 /\ thisPage' \in Pages
  BY <1>0, CountsAssumption DEF Emit, PagesLeft, PlacesOK, Pages
<1>2. child[thisPage'] = "ok"
  BY Zenon, <1>1 DEF PageInv, Emit
<1> QED
  BY Zenon, <1>1, <1>2 DEF Emit

(* Steps other than those of the second pass leave the output alone. *)
LEMMA OutputKept ==
  ASSUME [Next]_vars, ~Emit
  PROVE  emitted' = emitted
BY Zenon DEF Next, Parent, HeadAnswered, HeadFromCache, HeadFails, ReadLink, NoLink,
   Spawn, SpawnEnds, Visit, WaitRoundEnds, DrainRoundEnds, FirstPassFails,
   FirstPassSucceeds, Done, ChildEnds, ChildSucceeds, ChildFails, OthersClear, Killed, vars

LEMMA FreshStep ==
  ASSUME TypeOK, PageInv, CacheInv, FreshPages, [Next]_vars
  PROVE  FreshPages'
<1>0. PlacesOK
  BY TypeParts
<1>1. CASE emitted' = emitted
  BY Zenon, <1>1 DEF FreshPages
<1>2. CASE emitted' # emitted
  <2>1. Emit
    BY Zenon, <1>2, OutputKept
  <2>2. /\ thisPage' \in Pages /\ child[thisPage'] = "ok" /\ cache[thisPage'] # "absent"
        /\ emitted' = Append(emitted, [page |-> thisPage', content |-> cache[thisPage']])
    BY Zenon, <1>2, <2>1, Written1
  <2>3. ASSUME ~CachedOnly, NEW i \in DOMAIN emitted' PROVE emitted'[i].content = "new"
    <3>1. cache[thisPage'] = "new"
      BY <1>0, <2>2, <2>3 DEF CacheInv, PlacesOK
    <3>2. emitted \in Seq(Written)
      BY <1>0 DEF PlacesOK
    <3>3. CASE i \in DOMAIN emitted
      <4>1. emitted'[i] = emitted[i]
        BY <2>2, <3>2, <3>3
      <4> QED
        BY Zenon, <2>3, <3>3, <4>1 DEF FreshPages
    <3>4. CASE i \notin DOMAIN emitted
      <4>1. emitted'[i] = [page |-> thisPage', content |-> cache[thisPage']]
        BY <2>2, <2>3, <3>2, <3>4
      <4> QED
        BY <3>1, <4>1
    <3> QED
      BY <3>3, <3>4
  <2> QED
    BY Zenon, <2>3 DEF FreshPages
<1> QED
  BY <1>1, <1>2

(* The output is empty until every page was obtained, and then grows by    *)
(* one page at a time.                                                     *)
LEMMA OutStep ==
  ASSUME TypeOK, PoolInv, PageInv, OutInv, [Next]_vars
  PROVE  OutInv'
<1>0. PlacesOK /\ emitted \in Seq(Written)
  BY TypeParts DEF PlacesOK
<1>1. CASE Emit
  <2>1. phase = "emit" /\ phase' \in {"emit", "failed"} /\ UNCHANGED <<pool, lastPage>>
    BY Zenon, <1>1 DEF Emit, Exit, scratch
  <2>2. pool = {} /\ lastPage # 0 /\ Len(emitted) = thisPage
    BY Zenon, <2>1 DEF PoolInv, OutInv
  <2>3. CASE emitted' = emitted
    <3>1. phase' = "failed"
      BY <1>0, <1>1, <2>3 DEF Emit, Exit
    <3> QED
      BY Zenon, <2>1, <2>2, <2>3, <3>1 DEF OutInv, FirstPass
  <2>4. CASE emitted' # emitted
    <3> DEFINE e == [page |-> thisPage', content |-> cache[thisPage']]
    <3>1. emitted' = Append(emitted, e) /\ thisPage' = thisPage + 1
      BY Zenon, <1>1, <2>4, Written1
    <3>2. Len(emitted') = thisPage'
      BY <1>0, <2>2, <3>1
    <3>3. ASSUME NEW i \in DOMAIN emitted' PROVE emitted'[i].page = i
      <4>1. CASE i \in DOMAIN emitted
        <5>1. emitted'[i] = emitted[i]
          BY <1>0, <3>1, <4>1
        <5> QED
          BY Zenon, <4>1, <5>1 DEF OutInv
      <4>2. CASE i \notin DOMAIN emitted
        <5>1. i = Len(emitted) + 1 /\ emitted'[i] = e
          BY <1>0, <3>1, <3>3, <4>2
        <5> QED
          BY <2>2, <3>1, <5>1
      <4> QED
        BY <4>1, <4>2
    <3>4. phase' \notin {"head", "link"} \cup FirstPass
      BY <2>1 DEF FirstPass
    <3> QED
      BY Zenon, <2>1, <2>2, <3>2, <3>3, <3>4 DEF OutInv
  <2> QED
    BY <2>3, <2>4
<1>2. CASE ~Emit
  <2>1. emitted' = emitted
    BY <1>2, OutputKept
  <2>2. CASE Spawn
    <3>1. phase = "spawn" /\ phase' \in {"spawn", "wait"} /\ lastPage' = lastPage
      BY <2>2 DEF Spawn
    <3> QED
      BY <2>1, <3>1 DEF OutInv, FirstPass
  <2>3. CASE ReadLink
    <3>1. phase = "link" /\ phase' = "spawn" /\ lastPage' = link /\ link > 1
      BY <2>3 DEF ReadLink
    <3> QED
      BY <2>1, <3>1 DEF OutInv, FirstPass
  <2>4. CASE FirstPassSucceeds
    <3>1. phase = "drain" /\ phase' = "emit" /\ lastPage' = lastPage /\ thisPage' = 0 /\ pool' = {}
      BY Zenon, <2>4 DEF FirstPassSucceeds, Drained, scratch
    <3> QED
      BY <2>1, <3>1 DEF OutInv, FirstPass
  <2>5. CASE \/ HeadAnswered \/ HeadFromCache \/ HeadFails \/ NoLink \/ FirstPassFails
             \/ Done \/ Killed
    <3>1. (phase \in {"head"} /\ phase' = "link") \/ phase' \in Ended
      BY Zenon, <2>5 DEF HeadAnswered, HeadFromCache, HeadFails, NoLink,
         FirstPassFails, Done, Killed, Exit, Ended
    <3>2. pool' = pool
      BY Zenon, <2>5 DEF HeadAnswered, HeadFromCache, HeadFails, NoLink,
         FirstPassFails, Done, Killed, scratch
    <3> QED
      BY <2>1, <3>1, <3>2 DEF OutInv, FirstPass, Ended
  <2>6. CASE SpawnEnds \/ WaitRoundEnds \/ DrainRoundEnds \/ (\E p \in Pages : Visit(p))
    <3>1. phase \in FirstPass /\ phase' \in FirstPass /\ lastPage' = lastPage
      BY <2>6 DEF SpawnEnds, WaitRoundEnds, DrainRoundEnds, Visit, FirstPass
    <3> QED
      BY <2>1, <3>1 DEF OutInv, FirstPass
  <2>7. CASE (\E p \in Pages : ChildEnds(p) \/ OthersClear(p)) \/ UNCHANGED vars
    <3>1. UNCHANGED <<phase, pool, lastPage, thisPage>>
      BY Zenon, <2>7 DEF ChildEnds, ChildSucceeds, ChildFails, OthersClear, vars, scratch
    <3> QED
      BY Zenon, <2>1, <3>1 DEF OutInv
  <2> QED
    BY Zenon, <1>2, <2>2, <2>3, <2>4, <2>5, <2>6, <2>7 DEF Next, Parent
<1> QED
  BY <1>1, <1>2

----------------------------------------------------------------------------
(***************************************************************************)
(* The theorems.                                                           *)
(***************************************************************************)
THEOREM Inductive == Spec => []CollectionInv
<1>1. Init => CollectionInv
  BY TypeInit, PoolInit, PageInit, CacheInit DEF CollectionInv
<1>2. CollectionInv /\ [Next]_vars => CollectionInv'
  <2> SUFFICES ASSUME CollectionInv, [Next]_vars PROVE CollectionInv'
    OBVIOUS
  <2>1. TypeOK'
    BY TypeParts, TypePartsNext, FlagsStep, PlacesStep DEF CollectionInv
  <2> QED
    BY <2>1, PoolStep, PageStep, CacheStep, FreshStep, OutStep DEF CollectionInv
<1> QED
  BY <1>1, <1>2, PTL DEF Spec

(* Every variable always has its type. *)
THEOREM CollectionTypeCorrect == Spec => []TypeOK
<1>1. CollectionInv => TypeOK
  BY DEF CollectionInv
<1> QED
  BY <1>1, Inductive, PTL

(* Never more subprocesses than -j allows, whatever their number and order *)
(* of ending.                                                              *)
THEOREM ChildrenAreBounded == Spec => []BoundedChildren
<1>1. CollectionInv => BoundedChildren
  <2> SUFFICES ASSUME CollectionInv PROVE BoundedChildren
    OBVIOUS
  <2>1. pool \in SUBSET Pages /\ Running \in SUBSET pool /\ Cardinality(pool) <= MaxBg
    BY TypeParts DEF CollectionInv, PlacesOK, PoolInv
  <2>2. Cardinality(Running) <= Cardinality(pool)
    BY <2>1, SmallerPool
  <2>3. Cardinality(Running) \in Nat /\ Cardinality(pool) \in Nat
    BY <2>1, PagesFinite
  <2> QED
    BY <2>1, <2>2, <2>3, CountsAssumption DEF BoundedChildren
<1> QED
  BY <1>1, Inductive, PTL

(* Unless a signal ends it, the invocation removes its temporary directory *)
(* only when no subprocess is left.                                        *)
THEOREM TmpIsSafe == Spec => []TmpOutlivesChildren
<1>1. CollectionInv => TmpOutlivesChildren
  <2> SUFFICES ASSUME CollectionInv, Running # {}, phase # "killed" PROVE tmp
    BY Zenon DEF TmpOutlivesChildren
  <2>1. pool # {}
    BY DEF CollectionInv, PoolInv
  <2>2. phase \notin Ended
    BY <2>1 DEF CollectionInv, PoolInv, Ended
  <2> QED
    BY Zenon, <2>2 DEF CollectionInv, PoolInv
<1> QED
  BY <1>1, Inductive, PTL

(* --get writes only pages that the server confirmed, also while other     *)
(* invocations clear pages.                                                *)
THEOREM PagesAreFresh == Spec => []FreshPages
<1>1. CollectionInv => FreshPages
  BY DEF CollectionInv
<1> QED
  BY <1>1, Inductive, PTL

(* When nobody clears a page, the second pass finds them all. *)
THEOREM PagesAreThere ==
  ASSUME MaxClears = 0
  PROVE  Spec => []SecondPassFinds
<1>1. CollectionInv => SecondPassFinds
  <2> SUFFICES ASSUME CollectionInv, phase = "emit", NEW p \in 1..lastPage
               PROVE  cache[p] # "absent"
    BY DEF SecondPassFinds
  <2>1. p \in Pages
    BY TypeParts, CountsAssumption DEF CollectionInv, PlacesOK, Pages
  <2>2. child[p] = "ok"
    BY Zenon DEF CollectionInv, PageInv
  <2> QED
    BY Zenon, <2>1, <2>2, MaxClears = 0 DEF CollectionInv, CacheInv
<1> QED
  BY <1>1, Inductive, PTL

(* err is set by a subprocess that failed and by nothing else, and the     *)
(* second pass finds all pages.                                            *)
TroubleInv ==
    /\ err => \E p \in Pages : child[p] = "failed"
    /\ NoTroubleNoFailure

(* While err, the failures and the phase are as they were, or more fail. *)
LEMMA TroubleKept ==
  ASSUME TroubleInv, UNCHANGED <<err, refused>>,
         \A p \in Pages : child[p] = "failed" => child'[p] = "failed",
         phase' = "failed" => phase = "failed", UNCHANGED link
  PROVE  TroubleInv'
BY DEF TroubleInv, NoTroubleNoFailure

LEMMA TroubleStep ==
  ASSUME MaxClears = 0, CollectionInv, TroubleInv, [Next]_vars
  PROVE  TroubleInv'
<1>0. PlacesOK /\ PoolInv /\ PageInv /\ CacheInv
  BY TypeParts DEF CollectionInv
<1>1. CASE HeadAnswered \/ HeadFromCache
  <2>1. phase' = "link" /\ UNCHANGED <<err, child>>
    BY Zenon, <1>1 DEF HeadAnswered, HeadFromCache, scratch
  <2> QED
    BY <2>1 DEF TroubleInv, NoTroubleNoFailure
<1>2. CASE HeadFails
  <2>1. refused' = TRUE /\ UNCHANGED <<err, child>>
    BY Zenon, <1>2 DEF HeadFails, scratch
  <2> QED
    BY <2>1 DEF TroubleInv, NoTroubleNoFailure
<1>3. CASE NoLink
  <2>1. link' = 1 /\ UNCHANGED <<err, child>>
    BY Zenon, <1>3 DEF NoLink, scratch
  <2> QED
    BY <2>1 DEF TroubleInv, NoTroubleNoFailure
<1>4. CASE FirstPassFails
  <2>1. err /\ UNCHANGED <<err, child>>
    BY Zenon, <1>4 DEF FirstPassFails, scratch
  <2> QED
    BY <2>1 DEF TroubleInv, NoTroubleNoFailure
<1>5. CASE Spawn
  <2>1. /\ phase = "spawn" /\ thisPage' = thisPage + 1 /\ phase' \in {"spawn", "wait"}
        /\ UNCHANGED <<err, refused, link>>
    BY <1>5 DEF Spawn, others
  <2>2. child' = [child EXCEPT ![thisPage'] = "running"]
    BY Zenon, <1>5 DEF Spawn, Started
  <2>3. thisPage' \in Pages => child[thisPage'] = "none"
    BY <1>0, <2>1 DEF PageInv, FirstPass, PlacesOK, Pages
  <2>4. \A p \in Pages : child[p] = "failed" => child'[p] = "failed"
    BY <1>0, <2>2, <2>3 DEF PlacesOK
  <2> QED
    BY <2>1, <2>4, TroubleKept
<1>6. ASSUME NEW p \in Pages, Visit(p) PROVE TroubleInv'
  <2>1. phase' # "failed" /\ UNCHANGED child /\ (err' => err \/ child[p] = "failed")
    BY Zenon, <1>6 DEF Visit, Reap
  <2> QED
    BY <2>1 DEF TroubleInv, NoTroubleNoFailure
<1>7. CASE ReadLink \/ SpawnEnds \/ WaitRoundEnds \/ DrainRoundEnds \/ FirstPassSucceeds \/ Done \/ Killed
  <2>1. phase' # "failed" /\ UNCHANGED <<child, err, refused, link>>
    BY Zenon, <1>7 DEF ReadLink, SpawnEnds, WaitRoundEnds, DrainRoundEnds, FirstPassSucceeds, Drained, Done,
       Killed, Exit, scratch, others
  <2> QED
    BY <2>1, TroubleKept
<1>8. CASE Emit
  <2>1. thisPage' \in 1..lastPage /\ thisPage' \in Pages /\ phase = "emit"
    BY <1>0, <1>8, CountsAssumption DEF Emit, PagesLeft, PlacesOK, Pages
  <2>2. cache[thisPage'] # "absent"
    BY Zenon, <1>0, <2>1, MaxClears = 0 DEF PageInv, CacheInv
  <2>3. UNCHANGED <<phase, child, err, refused, link>>
    BY Zenon, <1>8, <2>2 DEF Emit, scratch, others
  <2> QED
    BY <2>3, TroubleKept
<1>9. ASSUME NEW p \in Pages, ChildEnds(p) PROVE TroubleInv'
  <2>1. /\ child[p] = "running" /\ UNCHANGED <<phase, err, refused, link>>
        /\ \E result : child' = [child EXCEPT ![p] = result]
    BY Zenon, <1>9 DEF ChildEnds, ChildSucceeds, ChildFails, others
  <2>2. \A q \in Pages : child[q] = "failed" => child'[q] = "failed"
    BY <1>0, <2>1 DEF PlacesOK
  <2> QED
    BY <2>1, <2>2, TroubleKept
<1>10. CASE (\E p \in Pages : OthersClear(p)) \/ UNCHANGED vars
  <2>1. UNCHANGED <<phase, child, err, refused, link>>
    BY Zenon, <1>10 DEF OthersClear, vars, scratch, others
  <2> QED
    BY <2>1, TroubleKept
<1> QED
  BY Zenon, <1>1, <1>2, <1>3, <1>4, <1>5, <1>6, <1>7, <1>8, <1>9, <1>10 DEF Next, Parent

(* As long as nobody clears a page, an invocation that knows of more pages *)
(* than one fails only because a page could not be obtained.               *)
THEOREM OnlyPagesFail ==
  ASSUME MaxClears = 0
  PROVE  Spec => []NoTroubleNoFailure
<1>1. Init => TroubleInv
  BY DEF Init, TroubleInv, NoTroubleNoFailure
<1>2. CollectionInv /\ TroubleInv /\ [Next]_vars => TroubleInv'
  BY TroubleStep
<1>3. TroubleInv => NoTroubleNoFailure
  BY DEF TroubleInv
<1> QED
  BY <1>1, <1>2, <1>3, Inductive, PTL DEF Spec

----------------------------------------------------------------------------
(***************************************************************************)
(* The refinement.  These are the expressions that Stream substitutes for  *)
(* the variables of CollectionStream.                                      *)
(***************************************************************************)
Obtained == {p \in Pages : child[p] = "ok"}
Numbers == [i \in DOMAIN emitted |-> emitted[i].page]
Status == IF phase \in Ended THEN phase ELSE "working"

(* The output that the second pass has written so far is 1, 2, 3, ... *)
LEMMA NumbersInOrder ==
  ASSUME TypeOK, OutInv
  PROVE  Numbers \in Seq(Nat) /\ Len(Numbers) = Len(emitted) /\ (emitted = <<>> => Numbers = <<>>)
<1>1. emitted \in Seq(Written)
  BY TypeParts DEF PlacesOK
<1>2. \A i \in 1..Len(emitted) : emitted[i].page = i
  BY <1>1 DEF OutInv
<1>3. Numbers = [i \in 1..Len(emitted) |-> i]
  BY <1>1, <1>2 DEF Numbers
<1> QED
  BY <1>1, <1>3

(* The steps that only change what CollectionStream does not have. *)
LEMMA Stutter ==
  ASSUME UNCHANGED <<lastPage, emitted>>, Obtained' = Obtained, Status' = Status
  PROVE  UNCHANGED Stream!vars
BY DEF Stream!vars, Obtained, Status

LEMMA StreamStep ==
  ASSUME MaxClears = 0, CollectionInv, [Next]_vars
  PROVE  [Stream!Next]_(Stream!vars)
<1>0. TypeOK /\ PlacesOK /\ PoolInv /\ PageInv /\ CacheInv /\ OutInv
  BY TypeParts DEF CollectionInv
<1>1. CASE HeadAnswered \/ HeadFromCache
  <2>1. phase = "head" /\ phase' = "link" /\ UNCHANGED <<lastPage, emitted, child>>
    BY Zenon, <1>1 DEF HeadAnswered, HeadFromCache, scratch
  <2> QED
    BY <2>1, Stutter DEF Obtained, Status, Ended
<1>2. CASE ReadLink
  <2>1. /\ phase = "link" /\ phase' = "spawn" /\ lastPage = 0
        /\ lastPage' = link /\ link \in 1..MaxPage /\ UNCHANGED <<emitted, child>>
    BY <1>0, <1>2, CountsAssumption DEF ReadLink, scratch, PlacesOK, PageInv
  <2>2. Stream!Size(link)
    BY <2>1 DEF Stream!Size, Ended
  <2> QED
    BY <2>1, <2>2 DEF Stream!Next, Stream!Run, Ended
<1>3. CASE HeadFails \/ NoLink \/ FirstPassFails
  <2>1. /\ phase \in {"head", "link", "drain"} /\ phase' = "failed"
        /\ UNCHANGED <<lastPage, emitted, child>>
    BY Zenon, <1>3 DEF HeadFails, NoLink, FirstPassFails, Drained, Exit, scratch
  <2>2. emitted = <<>>
    BY <1>0, <2>1 DEF OutInv, FirstPass
  <2>3. Stream!Fail
    BY <1>0, <2>1, <2>2 DEF Stream!Fail, Ended
  <2> QED
    BY <2>1, <2>3 DEF Stream!Next, Stream!Run, Ended
<1>4. CASE Spawn
  <2>1. /\ phase = "spawn" /\ phase' \in {"spawn", "wait"} /\ thisPage' = thisPage + 1
        /\ UNCHANGED <<lastPage, emitted>>
    BY <1>4 DEF Spawn
  <2>2. child' = [child EXCEPT ![thisPage'] = "running"]
    BY Zenon, <1>4 DEF Spawn, Started
  <2>3. thisPage' \in Pages => child[thisPage'] = "none"
    BY <1>0, <2>1 DEF PageInv, FirstPass, PlacesOK, Pages
  <2>4. Obtained' = Obtained
    BY <1>0, <2>2, <2>3 DEF Obtained, PlacesOK
  <2> QED
    BY <2>1, <2>4, Stutter DEF Status, Ended
<1>5. CASE SpawnEnds \/ WaitRoundEnds \/ DrainRoundEnds \/ FirstPassSucceeds
           \/ (\E p \in Pages : Visit(p))
  <2>1. phase \notin Ended /\ phase' \notin Ended /\ UNCHANGED <<lastPage, emitted, child>>
    BY <1>5 DEF SpawnEnds, WaitRoundEnds, DrainRoundEnds, FirstPassSucceeds, Drained,
       Visit, scratch, Ended
  <2> QED
    BY <2>1, Stutter DEF Obtained, Status
<1>6. CASE Emit
  <2>1. /\ phase = "emit" /\ thisPage' = thisPage + 1 /\ thisPage' \in 1..lastPage
        /\ thisPage' \in Pages /\ UNCHANGED <<lastPage, child>>
    BY <1>0, <1>6, CountsAssumption DEF Emit, PagesLeft, PlacesOK, Pages, scratch
  <2>2. cache[thisPage'] # "absent"
    BY Zenon, <1>0, <2>1, MaxClears = 0 DEF PageInv, CacheInv
  <2> DEFINE e == [page |-> thisPage', content |-> cache[thisPage']]
  <2>3. emitted' = Append(emitted, e) /\ phase' = phase
    BY Zenon, <1>6, <2>2 DEF Emit
  <2>4. emitted \in Seq(Written) /\ Len(emitted) = thisPage /\ lastPage \in Nat
    BY <1>0, <2>1 DEF PlacesOK, OutInv
  <2>5. Numbers' = Append(Numbers, Len(Numbers) + 1)
    <3>1. \A i \in 1..Len(emitted) : emitted'[i] = emitted[i]
      BY <2>3, <2>4
    <3>2. emitted'[Len(emitted) + 1].page = Len(emitted) + 1 /\ DOMAIN emitted' = 1..(Len(emitted) + 1)
      BY <2>1, <2>3, <2>4
    <3>3. Numbers \in Seq(Nat) /\ Len(Numbers) = Len(emitted)
      BY <1>0, NumbersInOrder
    <3>4. \A i \in 1..Len(emitted) : Numbers[i] = emitted[i].page
      BY <2>4 DEF Numbers
    <3>5. Numbers' = [i \in 1..(Len(emitted) + 1) |-> emitted'[i].page]
      BY <3>2 DEF Numbers
    <3> QED
      BY <2>4, <3>1, <3>2, <3>3, <3>4, <3>5
  <2>6. Obtained = 1..lastPage
    BY <1>0, <2>1, CountsAssumption DEF Obtained, PageInv, PlacesOK, Pages
  <2>7. Len(Numbers) < lastPage
    BY <1>0, <2>1, <2>4, NumbersInOrder DEF PlacesOK
  <2>8. Stream!Emit
    BY <2>1, <2>3, <2>5, <2>6, <2>7 DEF Stream!Emit, Numbers, Obtained
  <2> QED
    BY <2>1, <2>8 DEF Stream!Next, Stream!Run, Ended
<1>7. CASE Done
  <2>1. phase = "emit" /\ phase' = "done" /\ UNCHANGED <<lastPage, emitted, child>>
    BY Zenon, <1>7 DEF Done, Exit, scratch
  <2>2. Len(Numbers) = lastPage /\ lastPage # 0
    <3>1. thisPage = lastPage
      BY <1>0, <1>7, CountsAssumption DEF Done, PagesLeft, PlacesOK
    <3>2. Len(emitted) = thisPage /\ lastPage # 0
      BY <1>0, <2>1 DEF OutInv
    <3> QED
      BY <1>0, <3>1, <3>2, NumbersInOrder
  <2>3. Stream!Finish
    BY <2>1, <2>2 DEF Stream!Finish, Numbers, Ended
  <2> QED
    BY <2>1, <2>3 DEF Stream!Next, Stream!Run, Ended
<1>8. CASE Killed
  <2>1. phase \notin Ended /\ phase' = "killed" /\ UNCHANGED <<lastPage, emitted, child>>
    BY Zenon, <1>8 DEF Killed, Exit, scratch
  <2>2. Stream!Kill
    BY <2>1 DEF Stream!Kill, Ended
  <2> QED
    BY <2>1, <2>2 DEF Stream!Next, Stream!Run
<1>9. ASSUME NEW p \in Pages, ChildSucceeds(p) PROVE Stream!Next
  <2>1. /\ child[p] = "running" /\ child' = [child EXCEPT ![p] = "ok"]
        /\ UNCHANGED <<lastPage, emitted, phase>>
    BY Zenon, <1>9 DEF ChildSucceeds
  <2>2. p \in pool /\ p \in 1..lastPage
    BY <1>0, <2>1, CountsAssumption DEF PoolInv, Running, PageInv, PlacesOK, Pages
  <2>3. emitted = <<>>
    BY <1>0, <2>2 DEF OutInv
  <2>4. Obtained' = Obtained \cup {p}
    BY <1>0, <2>1 DEF Obtained, PlacesOK
  <2>5. Stream!Obtain(p)
    BY <2>1, <2>2, <2>3, <2>4 DEF Stream!Obtain, Obtained
  <2> QED
    BY <2>5 DEF Stream!Next, Pages
<1>10. ASSUME NEW p \in Pages, ChildFails(p) PROVE UNCHANGED Stream!vars
  <2>1. /\ child[p] = "running" /\ child' = [child EXCEPT ![p] = "failed"]
        /\ UNCHANGED <<lastPage, emitted, phase>>
    BY Zenon, <1>10 DEF ChildFails
  <2>2. Obtained' = Obtained
    BY <1>0, <2>1 DEF Obtained, PlacesOK
  <2> QED
    BY <2>1, <2>2, Stutter DEF Status
<1>11. ASSUME NEW p \in Pages, OthersClear(p) PROVE UNCHANGED Stream!vars
  BY <1>0, <1>11, MaxClears = 0 DEF OthersClear, PlacesOK
<1>12. CASE UNCHANGED vars
  <2>1. UNCHANGED <<lastPage, emitted, phase, child>>
    BY Zenon, <1>12 DEF vars, scratch
  <2> QED
    BY <2>1, Stutter DEF Obtained, Status
<1> QED
  BY Zenon, <1>1, <1>2, <1>3, <1>4, <1>5, <1>6, <1>7, <1>8, <1>9, <1>10, <1>11, <1>12
     DEF Next, Parent, ChildEnds

(* A --get or --get-cached of a collection writes all pages in order or    *)
(* nothing at all, whatever fails, as long as nobody clears a page: every  *)
(* step is one of CollectionStream or changes nothing there.               *)
THEOREM ImplementsStream ==
  ASSUME MaxClears = 0
  PROVE  Spec => Stream!Init /\ [][Stream!Next]_(Stream!vars)
<1>1. Init => Stream!Init
  BY DEF Init, Stream!Init, Ended
<1>2. CollectionInv /\ [Next]_vars => [Stream!Next]_(Stream!vars)
  BY MaxClears = 0, StreamStep
<1> QED
  BY <1>1, <1>2, Inductive, PTL DEF Spec
----------------------------------------------------------------------------
(***************************************************************************)
(* The polling.  A round of `kill -n 0' need not bring anything: that the  *)
(* loops end rests on the subprocesses.  Variant is a tuple of natural     *)
(* numbers, the earlier of which count for more.  The first four measure   *)
(* what is left to do, the last two how far a round is from noticing a     *)
(* subprocess that has ended.                                              *)
(***************************************************************************)
PhaseRank(place) ==
    CASE place = "head" -> 6 [] place = "link" -> 5 [] place \in {"spawn", "wait"} -> 4
      [] place = "drain" -> 3 [] place = "emit" -> 2 [] OTHER -> 0

Waiting == IF phase = "wait" THEN 1 ELSE 0

Variant ==
    <<PhaseRank(phase), lastPage - thisPage, Waiting, Cardinality(Running),
      Cardinality(pool \ scan), Cardinality(pool)>>

Below(m, n) == \E k \in 1..6 : m[k] < n[k] /\ \A j \in 1..(k - 1) : m[j] = n[j]

Level(m, n) == \A k \in 1..4 : m[k] = n[k]

(* No subprocess ends unnoticed for ever: with none running, every step of *)
(* the parent counts.                                                      *)
Counts == (Parent /\ Running = {}) \/ \E p \in Pages : ChildEnds(p)

LEMMA VariantType == ASSUME PlacesOK PROVE Variant \in Seq(Nat)
<1>1. PhaseRank(phase) \in Nat /\ Waiting \in Nat
  BY DEF PhaseRank, Waiting
<1>2. lastPage - thisPage \in Nat
  BY CountsAssumption DEF PlacesOK
<1>3. Cardinality(Running) \in Nat /\ Cardinality(pool \ scan) \in Nat /\ Cardinality(pool) \in Nat
  <2>1. Running \in SUBSET Pages /\ pool \ scan \in SUBSET Pages /\ pool \in SUBSET Pages
    BY DEF PlacesOK, Running
  <2> QED
    BY <2>1, PagesFinite
<1> QED
  BY <1>1, <1>2, <1>3 DEF Variant

(* A step to a later phase.                                                *)
LEMMA LaterPhase ==
  ASSUME PhaseRank(phase') < PhaseRank(phase)
  PROVE  Below(Variant', Variant)
BY DEF Below, Variant

(* A step to the next page.                                                *)
LEMMA NextPage ==
  ASSUME PlacesOK, PhaseRank(phase') = PhaseRank(phase), UNCHANGED lastPage,
         thisPage' = thisPage + 1
  PROVE  Below(Variant', Variant)
<1>1. lastPage' - thisPage' < lastPage - thisPage
  BY CountsAssumption DEF PlacesOK
<1> QED
  BY <1>1 DEF Below, Variant

(* A subprocess ends.                                                      *)
LEMMA OneRunsLess ==
  ASSUME PlacesOK, NEW p \in Pages, ChildEnds(p)
  PROVE  Below(Variant', Variant)
<1>1. UNCHANGED <<phase, lastPage, thisPage>> /\ p \in Running /\ Running' = Running \ {p}
  BY DEF ChildEnds, ChildSucceeds, ChildFails, Running, PlacesOK
<1>2. Running \in SUBSET Pages
  BY DEF Running
<1>3. Cardinality(Running') < Cardinality(Running)
  <2>1. IsFiniteSet(Running) /\ Cardinality(Running) \in Nat
    BY <1>2, PagesFinite
  <2>2. Cardinality(Running \ {p}) = Cardinality(Running) - 1
    BY <1>1, <2>1, FS_RemoveElement
  <2> QED
    BY <1>1, <2>1, <2>2
<1>4. UNCHANGED <<PhaseRank(phase), lastPage - thisPage, Waiting>>
  BY <1>1 DEF Waiting
<1> QED
  BY <1>3, <1>4 DEF Below, Variant

(* A visit, and a round that begins again, leave the first four numbers.   *)
LEMMA RoundIsLevel ==
  ASSUME UNCHANGED <<phase, lastPage, thisPage, child>>
  PROVE  Level(Variant', Variant)
<1>1. UNCHANGED <<PhaseRank(phase), lastPage - thisPage, Waiting, Cardinality(Running)>>
  BY DEF Waiting, Running
<1> QED
  BY <1>1 DEF Level, Variant

(* A visit finds that the subprocess has ended.                            *)
LEMMA VisitCounts ==
  ASSUME PlacesOK, Running = {}, NEW p \in Pages, Visit(p)
  PROVE  Below(Variant', Variant)
<1>1. /\ UNCHANGED <<phase, lastPage, thisPage, child>>
      /\ p \in scan /\ scan' = scan \ {p} /\ pool' = pool \ {p}
  BY DEF Visit, Running, Reap
<1>2. pool' \ scan' = pool \ scan
  BY <1>1
<1>3. Cardinality(pool') < Cardinality(pool)
  <2>1. p \in pool /\ IsFiniteSet(pool) /\ Cardinality(pool) \in Nat
    BY <1>1, PagesFinite DEF PlacesOK
  <2>2. Cardinality(pool \ {p}) = Cardinality(pool) - 1
    BY <2>1, FS_RemoveElement
  <2> QED
    BY <1>1, <2>1, <2>2
<1>4. UNCHANGED <<PhaseRank(phase), lastPage - thisPage, Waiting, Cardinality(Running)>>
  BY <1>1 DEF Waiting, Running
<1> QED
  BY <1>2, <1>3, <1>4 DEF Below, Variant

(* A round that begins again has those to visit that the last one left.    *)
LEMMA RoundCounts ==
  ASSUME PlacesOK, UNCHANGED <<phase, lastPage, thisPage, child>>,
         scan = {}, pool # {}, scan' = pool, pool' = pool
  PROVE  Below(Variant', Variant)
<1>1. pool' \ scan' = {} /\ pool \ scan = pool
  OBVIOUS
<1>2. IsFiniteSet(pool) /\ Cardinality(pool) \in Nat
  BY PagesFinite DEF PlacesOK
<1>3. Cardinality({}) = 0 /\ Cardinality(pool) # 0
  BY <1>2, FS_EmptySet
<1>4. Cardinality(pool' \ scan') < Cardinality(pool \ scan)
  BY <1>1, <1>2, <1>3
<1>5. UNCHANGED <<PhaseRank(phase), lastPage - thisPage, Waiting, Cardinality(Running)>>
  BY DEF Waiting, Running
<1> QED
  BY <1>4, <1>5 DEF Below, Variant

LEMMA RoundStep ==
  ASSUME PlacesOK, PoolInv, [Next]_vars
  PROVE  /\ Below(Variant', Variant) \/ Level(Variant', Variant)
         /\ Counts => Below(Variant', Variant) \/ UNCHANGED vars
<1>1. CASE \/ HeadAnswered \/ HeadFromCache \/ HeadFails \/ ReadLink \/ NoLink
           \/ SpawnEnds \/ FirstPassFails \/ FirstPassSucceeds \/ Done \/ Killed
  <2>1. \/ phase = "head" /\ phase' \in {"link", "failed"}
        \/ phase = "link" /\ phase' \in {"spawn", "failed"}
        \/ phase = "spawn" /\ phase' = "drain"
        \/ phase = "drain" /\ phase' \in {"failed", "emit"}
        \/ phase = "emit" /\ phase' = "done"
        \/ phase \notin Ended /\ phase' = "killed"
    BY <1>1 DEF HeadAnswered, HeadFromCache, HeadFails, ReadLink, NoLink, SpawnEnds,
       FirstPassFails, FirstPassSucceeds, Drained, Done, Killed, Exit
  <2>2. PhaseRank(phase') < PhaseRank(phase)
    BY <2>1 DEF PhaseRank, PlacesOK, Ended
  <2> QED
    BY <2>2, LaterPhase
<1>2. CASE Spawn
  <2>1. /\ phase = "spawn" /\ phase' \in {"spawn", "wait"} /\ UNCHANGED lastPage
        /\ thisPage' = thisPage + 1
    BY <1>2 DEF Spawn
  <2>2. PhaseRank(phase') = PhaseRank(phase)
    BY <2>1 DEF PhaseRank
  <2> QED
    BY <2>1, <2>2, NextPage
<1>3. CASE Emit
  <2>1. /\ phase = "emit" /\ phase' \in {"emit", "failed"} /\ UNCHANGED lastPage
        /\ thisPage' = thisPage + 1
    BY <1>3 DEF Emit, Exit
  <2>2. PhaseRank(phase') < PhaseRank(phase) \/ PhaseRank(phase') = PhaseRank(phase)
    BY <2>1 DEF PhaseRank
  <2> QED
    BY <2>1, <2>2, NextPage, LaterPhase
<1>4. ASSUME NEW p \in Pages, Visit(p)
      PROVE  /\ Level(Variant', Variant)
             /\ Running = {} => Below(Variant', Variant)
  <2>1. UNCHANGED <<phase, lastPage, thisPage, child>>
    BY <1>4 DEF Visit
  <2> QED
    BY <1>4, <2>1, RoundIsLevel, VisitCounts
<1>5. CASE WaitRoundEnds \/ DrainRoundEnds
  <2>1. UNCHANGED <<lastPage, thisPage, child, pool>> /\ scan = {}
    BY <1>5 DEF WaitRoundEnds, DrainRoundEnds
  <2>2. CASE phase' = phase
    <3>1. pool # {} /\ scan' = pool
      BY <1>5, <2>2, FS_EmptySet, CountsAssumption DEF WaitRoundEnds, DrainRoundEnds, PoolFull
    <3> QED
      BY <2>1, <2>2, <3>1, RoundCounts, RoundIsLevel
  <2>3. CASE phase' # phase
    <3>1. phase = "wait" /\ phase' = "spawn"
      BY <1>5, <2>3 DEF WaitRoundEnds, DrainRoundEnds
    <3>2. PhaseRank(phase') = PhaseRank(phase) /\ Waiting' < Waiting
      BY <3>1 DEF PhaseRank, Waiting
    <3> QED
      BY <2>1, <3>2 DEF Below, Variant
  <2> QED
    BY <2>2, <2>3
<1>6. ASSUME NEW p \in Pages, ChildEnds(p) PROVE Below(Variant', Variant)
  BY <1>6, OneRunsLess
<1>7. (\E p \in Pages : OthersClear(p)) \/ UNCHANGED vars => UNCHANGED <<phase, lastPage, thisPage, child>>
  BY DEF OthersClear, vars, scratch
<1> QED
  BY <1>1, <1>2, <1>3, <1>4, <1>5, <1>6, <1>7, RoundIsLevel DEF Next, Parent, Counts

(* The polling loops end, for any number of pages, subprocesses and         *)
(* clears, if the parent runs on and every curl(1) ends: what is left to do *)
(* never grows, each subprocess that ends makes it less, and as long as     *)
(* none is running no step of the parent is in vain (3278-3298, 3322-3341). *)
THEOREM RoundsAreProgress ==
  Spec => /\ [](Variant \in Seq(Nat))
          /\ [][Below(Variant', Variant) \/ Level(Variant', Variant)]_vars
          /\ [][Counts => Below(Variant', Variant)]_vars
<1>1. CollectionInv => Variant \in Seq(Nat)
  BY TypeParts, VariantType DEF CollectionInv
<1>2. CollectionInv /\ [Next]_vars
      => /\ [Below(Variant', Variant) \/ Level(Variant', Variant)]_vars
         /\ [Counts => Below(Variant', Variant)]_vars
  BY TypeParts, RoundStep DEF CollectionInv
<1> QED
  BY <1>1, <1>2, Inductive, PTL DEF Spec
=============================================================================
