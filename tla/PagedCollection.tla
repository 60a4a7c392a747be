--------------------------- MODULE PagedCollection ---------------------------
(***************************************************************************)
(* One invocation of ads-github-cache that is asked for a whole "paged     *)
(* collection" (--get, --get-cached or --update of a path such as          *)
(* /user/repos): it learns the number of pages from the collection's HEAD  *)
(* metadata, has the pages fetched into the cache by background            *)
(* subprocesses, at most MaxBg of them at a time, and then writes the      *)
(* pages from the cache on stdout, one after the other.                    *)
(*                                                                         *)
(* The cache directory is shared with the other invocations of the         *)
(* program, one of which may clear a page at any time.                     *)
(***************************************************************************)
EXTENDS Naturals, Sequences, FiniteSets

CONSTANTS
    MaxPage,       \* bound: pages of the collection
    MaxBg,         \* limit of background subprocesses, -j NUM
    CachedOnly,    \* --get-cached: nothing is asked of the server
    MaxClears,     \* bound: pages that others clear meanwhile
    MayBeKilled    \* may a signal end the invocation?

ASSUME CountsAssumption ==
    MaxPage \in Nat \ {0} /\ MaxBg \in Nat \ {0} /\ MaxClears \in Nat
ASSUME ModeAssumption == CachedOnly \in BOOLEAN /\ MayBeKilled \in BOOLEAN

Pages == 1..MaxPage

VARIABLES
    size,      \* how many pages the server has
    link,      \* rel="last" of the cached HEAD metadata, 0 if there is none
    lastPage,  \* t_last_page_number
    thisPage,  \* this_page
    child,     \* the background subprocess of each page
    pool,      \* t_bg_pid_to_pagenum: the pages of the recorded subprocesses
    scan,      \* those that the running `for one_pid' loop has yet to visit
    err,       \* t_was_bg_err
    cache,     \* each page's object in the cache
    emitted,   \* what was written on stdout
    phase,     \* where the invocation is
    tmp,       \* does its temporary directory exist?
    clears,    \* pages that others have cleared so far
    refused    \* history: the HEAD metadata was not obtained

scratch == <<child, pool, scan, err>>
others == <<clears, refused>>
vars == <<size, link, lastPage, thisPage, scratch, cache, emitted, phase, tmp, others>>

Ended == {"done", "failed", "killed"}
Running == {p \in Pages : child[p] = "running"}

(* The exit trap removes the temporary directory. *)
Exit(result) == phase' = result /\ tmp' = FALSE

Init ==
    /\ size \in Pages
    /\ link \in 0..MaxPage
    /\ lastPage = 0
    /\ thisPage = 0
    /\ child = [p \in Pages |-> "none"]
    /\ pool = {}
    /\ scan = {}
    /\ err = FALSE
    /\ cache \in [Pages -> {"absent", "old"}]
    /\ emitted = <<>>
    /\ phase = "head"
    /\ tmp = TRUE
    /\ clears = 0
    /\ refused = FALSE

(***************************************************************************)
(* The HEAD metadata: a fresh answer replaces the cached one, a 304 keeps  *)
(* it (the ETag is that of page 1, so the last page may be an old one).    *)
(***************************************************************************)
HeadAnswered ==
    /\ phase = "head"
    /\ ~CachedOnly
    /\ link' = size \/ (link # 0 /\ link' = link)
    /\ phase' = "link"
    /\ UNCHANGED <<size, lastPage, thisPage, scratch, cache, emitted, tmp, others>>

HeadFromCache ==
    /\ phase = "head"
    /\ CachedOnly
    /\ link # 0
    /\ phase' = "link"
    /\ UNCHANGED <<size, link, lastPage, thisPage, scratch, cache, emitted, tmp, others>>

HeadFails ==
    /\ phase = "head"
    /\ CachedOnly => link = 0
    /\ Exit("failed")
    /\ refused' = TRUE
    /\ UNCHANGED <<size, link, lastPage, thisPage, scratch, cache, emitted, clears>>

(***************************************************************************)
(* The number of the last page comes from the Link: header, which GitHub   *)
(* sends only when there is more than one page.                            *)
(***************************************************************************)
ReadLink ==
    /\ phase = "link"
    /\ link > 1
    /\ lastPage' = link
    /\ phase' = "spawn"
    /\ UNCHANGED <<size, link, thisPage, scratch, cache, emitted, tmp, others>>

NoLink ==
    /\ phase = "link"
    /\ link = 1
    /\ Exit("failed")
    /\ UNCHANGED <<size, link, lastPage, thisPage, scratch, cache, emitted, others>>

----------------------------------------------------------------------------
(***************************************************************************)
(* First pass: start a subprocess per page.  When the limit is reached the *)
(* recorded ones are visited, again and again, until one has ended.  The   *)
(* half second of sleep(1) between two rounds is not modelled.             *)
(***************************************************************************)
PagesLeftOrOneMore == thisPage <= lastPage  \* mutant of PagesLeft

PagesLeft == thisPage < lastPage

PoolOverfull(recorded) == Cardinality(recorded) > MaxBg  \* mutant of PoolFull

PoolFull(recorded) == Cardinality(recorded) = MaxBg

(* Mutant of Started: a page that is in the cache is taken for fetched. *)
StartedUnlessCached(p) ==
    [child EXCEPT ![p] = IF cache[p] = "absent" THEN "running" ELSE "ok"]

Started(p) == [child EXCEPT ![p] = "running"]

Spawn ==
    /\ phase = "spawn"
    /\ PagesLeft /\ ~err
    /\ thisPage' = thisPage + 1
    /\ child' = Started(thisPage')
    /\ pool' = pool \cup {thisPage'}
    /\ IF PoolFull(pool')
         THEN phase' = "wait" /\ scan' = pool'
         ELSE UNCHANGED <<phase, scan>>
    /\ UNCHANGED <<size, link, lastPage, err, cache, emitted, tmp, others>>

SpawnEnds ==
    /\ phase = "spawn"
    /\ ~PagesLeft \/ err
    /\ phase' = "drain"
    /\ scan' = pool
    /\ UNCHANGED <<size, link, lastPage, thisPage, child, pool, err, cache, emitted, tmp, others>>

(* Mutants of Reap: a failed subprocess stays recorded; only the status of *)
(* the last one counts.                                                    *)
ReapKeepsFailed(p) ==
    /\ pool' = IF child[p] = "failed" THEN pool ELSE pool \ {p}
    /\ err' = (err \/ child[p] = "failed")
ReapForgetsError(p) == pool' = pool \ {p} /\ err' = (child[p] = "failed")

Reap(p) == pool' = pool \ {p} /\ err' = (err \/ child[p] = "failed")

(* kill -n 0, and wait for a subprocess that is gone. *)
Visit(p) ==
    /\ phase \in {"wait", "drain"}
    /\ p \in scan
    /\ scan' = scan \ {p}
    /\ IF child[p] = "running" THEN UNCHANGED <<pool, err>> ELSE Reap(p)
    /\ UNCHANGED <<size, link, lastPage, thisPage, child, cache, emitted, phase, tmp, others>>

WaitRoundEnds ==
    /\ phase = "wait"
    /\ scan = {}
    /\ IF PoolFull(pool)
         THEN scan' = pool /\ UNCHANGED phase
         ELSE phase' = "spawn" /\ UNCHANGED scan
    /\ UNCHANGED <<size, link, lastPage, thisPage, child, pool, err, cache, emitted, tmp, others>>

DrainRoundEnds ==
    /\ phase = "drain"
    /\ scan = {}
    /\ pool # {}
    /\ scan' = pool
    /\ UNCHANGED <<size, link, lastPage, thisPage, child, pool, err, cache, emitted, phase, tmp, others>>

(* Mutant of Drained: a failure that was noticed ends the pass at once. *)
DrainedOrFailed == phase = "drain" /\ scan = {} /\ (pool = {} \/ err)

(* Mutant of Drained: one round of visits is taken for the end of all. *)
DrainedOnceVisited == phase = "drain" /\ scan = {}

Drained == phase = "drain" /\ scan = {} /\ pool = {}

FirstPassFails ==
    /\ Drained
    /\ err
    /\ Exit("failed")
    /\ UNCHANGED <<size, link, lastPage, thisPage, scratch, cache, emitted, others>>

FirstPassSucceeds ==
    /\ Drained
    /\ ~err
    /\ phase' = "emit"
    /\ thisPage' = 0
    /\ UNCHANGED <<size, link, lastPage, scratch, cache, emitted, tmp, others>>

----------------------------------------------------------------------------
(***************************************************************************)
(* Second pass: write the pages from the cache only.                       *)
(***************************************************************************)
Emit ==
    /\ phase = "emit"
    /\ PagesLeft
    /\ thisPage' = thisPage + 1
    /\ IF cache[thisPage'] # "absent"
         THEN /\ emitted' = Append(emitted, [page |-> thisPage', content |-> cache[thisPage']])
              /\ UNCHANGED <<phase, tmp>>
         ELSE Exit("failed") /\ UNCHANGED emitted
    /\ UNCHANGED <<size, link, lastPage, scratch, cache, others>>

Done ==
    /\ phase = "emit"
    /\ ~PagesLeft
    /\ Exit("done")
    /\ UNCHANGED <<size, link, lastPage, thisPage, scratch, cache, emitted, others>>

----------------------------------------------------------------------------
(***************************************************************************)
(* A subprocess ends: f_perform_do_get_one_or_die for one page, whose      *)
(* steps CacheObject has.  "new" is a response that the server gave, or    *)
(* confirmed, while the invocation ran.  A refresh that fails half-way may *)
(* leave the page as it was, replaced or unreadable.                       *)
(***************************************************************************)
ChildSucceeds(p) ==
    /\ child[p] = "running"
    /\ CachedOnly => cache[p] # "absent"
    /\ child' = [child EXCEPT ![p] = "ok"]
    /\ cache' = IF CachedOnly THEN cache ELSE [cache EXCEPT ![p] = "new"]
    /\ UNCHANGED <<size, link, lastPage, thisPage, pool, scan, err, emitted, phase, tmp, others>>

ChildFails(p) ==
    /\ child[p] = "running"
    /\ child' = [child EXCEPT ![p] = "failed"]
    /\ IF CachedOnly
         THEN cache[p] = "absent" /\ UNCHANGED cache
         ELSE \E left \in {cache[p], "absent", "new"} : cache' = [cache EXCEPT ![p] = left]
    /\ UNCHANGED <<size, link, lastPage, thisPage, pool, scan, err, emitted, phase, tmp, others>>

ChildEnds(p) == ChildSucceeds(p) \/ ChildFails(p)

(* Another invocation of the program clears a page. *)
OthersClear(p) ==
    /\ clears < MaxClears
    /\ cache[p] # "absent"
    /\ cache' = [cache EXCEPT ![p] = "absent"]
    /\ clears' = clears + 1
    /\ UNCHANGED <<size, link, lastPage, thisPage, scratch, emitted, phase, tmp, refused>>

(* The traps clean up and exit; they do not stop the subprocesses. *)
Killed ==
    /\ MayBeKilled
    /\ phase \notin Ended
    /\ Exit("killed")
    /\ UNCHANGED <<size, link, lastPage, thisPage, scratch, cache, emitted, others>>

Parent ==
    \/ HeadAnswered \/ HeadFromCache \/ HeadFails \/ ReadLink \/ NoLink
    \/ Spawn \/ SpawnEnds \/ \E p \in Pages : Visit(p)
    \/ WaitRoundEnds \/ DrainRoundEnds \/ FirstPassFails \/ FirstPassSucceeds
    \/ Emit \/ Done

Next ==
    \/ Parent
    \/ \E p \in Pages : ChildEnds(p) \/ OthersClear(p)
    \/ Killed

(* The script runs on, and every curl(1) ends some day. *)
Fairness == WF_vars(Parent) /\ \A p \in Pages : WF_vars(ChildEnds(p))

Spec == Init /\ [][Next]_vars /\ Fairness
----------------------------------------------------------------------------
(***************************************************************************)
(* Properties.                                                             *)
(***************************************************************************)

Written == [page : Pages, content : {"old", "new"}]

(* Every variable has its type. *)
TypeOK ==
    /\ size \in Pages
    /\ link \in 0..MaxPage
    /\ lastPage \in 0..MaxPage
    /\ thisPage \in 0..lastPage
    /\ child \in [Pages -> {"none", "running", "ok", "failed"}]
    /\ pool \subseteq Pages
    /\ scan \subseteq pool
    /\ err \in BOOLEAN
    /\ cache \in [Pages -> {"absent", "old", "new"}]
    /\ emitted \in Seq(Written)
    /\ phase \in {"head", "link", "spawn", "wait", "drain", "emit"} \cup Ended
    /\ tmp \in BOOLEAN
    /\ clears \in 0..MaxClears
    /\ refused \in BOOLEAN

(* No more than -j NUM requests are made of the GitHub server at a time:   *)
(* "we enforce limits to the number of background processes that we will   *)
(* make at any one time" (lines 3238-3239).                                *)
BoundedChildren == Cardinality(Running) <= MaxBg

(* Subprocesses keep their files in the invocation's temporary directory:  *)
(* unless a signal ended it, it is there as long as one of them runs, also *)
(* when the invocation gives up early because another page failed.         *)
TmpOutlivesChildren ==
    (Running # {} /\ phase # "killed") => tmp

(* --get writes only pages that the server gave or confirmed during the    *)
(* invocation, although the second pass takes them from the cache.         *)
FreshPages ==
    ~CachedOnly => \A i \in DOMAIN emitted : emitted[i].content = "new"

(* "During the second pass, we know that all required objects are present  *)
(* in the cache (else our first pass would not have succeeded)" (3216).    *)
SecondPassFinds ==
    phase = "emit" => \A p \in 1..lastPage : cache[p] # "absent"

(* "callers who wish to obtain all of the items in a collection need not   *)
(* futz around with paging at all" (4705): once the program knows of more  *)
(* pages than one it gives up only when a page could not be obtained.  (Of *)
(* a collection with one page it always does, see NoLink.)                 *)
NoTroubleNoFailure ==
    phase = "failed" /\ ~refused /\ link > 1 => \E p \in Pages : child[p] = "failed"

(* The invocation comes to its end, also when subprocesses fail. *)
Terminates == <>(phase \in Ended)

(* All pages in order, or a failure and nothing at all. *)
Stream == INSTANCE CollectionStream WITH
    total <- lastPage,
    obtained <- {p \in Pages : child[p] = "ok"},
    stream <- [i \in DOMAIN emitted |-> emitted[i].page],
    status <- IF phase \in Ended THEN phase ELSE "working"

StreamSpec == Stream!Spec
=============================================================================
