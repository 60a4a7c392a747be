------------------------------ MODULE MergeAll ------------------------------
(***************************************************************************)
(* ads-github-merge-all-upstreams: for each of the user's repositories     *)
(* (page by page from GitHub) a subshell fast-forwards the default branch  *)
(* to upstream's, pushes it to origin if asked to, and checks out again    *)
(* what was checked out before.                                            *)
(*                                                                         *)
(* A branch is the set of its commits: a merge is a fast-forward when the  *)
(* local set is within the upstream one, and has nothing to do when it     *)
(* holds it.  Other programs and clones move upstream and origin at any    *)
(* time; the user works on a repository between the runs.                  *)
(***************************************************************************)
EXTENDS Naturals

CONSTANTS
    Repos,       \* names of repositories, known to GitHub or not
    Kinds,       \* which kinds of repositories there are at the start
    NPages,      \* pages of the list of the user's repositories
    PushLevels,  \* how often -p is given
    KeepGoing,   \* values of -k
    StopOnMods,  \* values of -L
    Faults,      \* which steps may fail
    MaxChanges,  \* bound on the user's changes
    MaxRuns,     \* bound on the invocations
    NoRepo

(* "unknown": not on GitHub.  "own": not a fork.  "noDir": no directory, or no
   .git in it.  "noRemote": without upstream.  "noOrigin": without origin
   only.  "noBranch": the default branch is missing here or under upstream/.
   "likeBranch": it is missing here, but another branch has its name as a word
   of its own (master-2), which is enough for the test.  "work": all is in place. *)
AllKinds == {"unknown", "own", "noDir", "noRemote", "noOrigin", "noBranch", "likeBranch", "work"}
Mergeable == {"noOrigin", "work"}

(* "tool": cd, git status, symbolic-ref or for-each-ref.  "remotes": git remote.
   "tips": git rev-parse. *)
Steps == {"count", "page", "tool", "remotes", "tips", "checkout", "merge", "push", "restore",
          "kill"}

ASSUME PagesAssumption == NPages \in Nat \ {0}
ASSUME KindsAssumption == Kinds \subseteq AllKinds /\ Faults \subseteq Steps
ASSUME OptionsAssumption ==
    PushLevels \subseteq 0..2 /\ KeepGoing \subseteq BOOLEAN /\ StopOnMods \subseteq BOOLEAN
ASSUME BoundsAssumption == MaxChanges \in Nat /\ MaxRuns \in Nat
ASSUME NoRepoAssumption == NoRepo \notin Repos

(* Commits made upstream, by the user, and by another clone of origin. *)
Commits == {"u", "l", "o"}
Heads == {"default", "topic", "detached"}
Unknown == 0

VARIABLES
    kind, pageOf,            \* each repository's kind, and the page it is listed on
    head, mods,              \* what is checked out; are there uncommitted changes?
    local, upstream, origin, \* the default branch here, under upstream/, at origin
    pc,                      \* step of the program
    push, keep, stop,        \* its options
    requested,               \* EXPLICITLY_REQUESTED_REPOS
    total, page,             \* MY_TOTAL_REPO_PAGES, t_cur_page
    lines,                   \* REPO_DATA_LINES
    cur,                     \* the repository at hand
    prev,                    \* where HEAD was before the program moved it
    processed, continued,    \* PROCESSED_REPOS, CONTINUED_THROUGH_ERROR
    status,                  \* exit status
    changes, runs,           \* how many there were
    head0, local0, upstream0 \* history: as they were when the program started

repos == <<kind, pageOf, mods>>
options == <<push, keep, stop, requested>>
listing == <<total, page>>
results == <<lines, cur, processed, continued, status>>
trees == <<head, local, origin>>
history == <<changes, runs, head0, local0, upstream0>>
vars == <<repos, trees, upstream, pc, options, listing, results, prev, history>>

Init ==
    /\ kind \in [Repos -> Kinds]
    /\ pageOf \in [Repos -> 1..NPages]
    /\ head \in [Repos -> {"default", "topic"}]
    /\ mods = [r \in Repos |-> FALSE]
    /\ local = [r \in Repos |-> {}]
    /\ upstream = local
    /\ origin = local
    /\ \A r \in Repos : kind[r] \in {"noBranch", "likeBranch"} => head[r] = "topic"
    /\ pc = "idle"
    /\ push = 0 /\ keep = FALSE /\ stop = FALSE
    /\ requested = {}
    /\ total = Unknown /\ page = 0
    /\ lines = {} /\ cur = NoRepo /\ processed = {}
    /\ continued = FALSE /\ status = 0
    /\ prev = "default"
    /\ changes = 0 /\ runs = 0
    /\ head0 = head /\ local0 = local /\ upstream0 = upstream

----------------------------------------------------------------------------
(***************************************************************************)
(* The rest of the world.                                                  *)
(***************************************************************************)
Change == changes < MaxChanges /\ changes' = changes + 1

(* ads-github-fetch-all-upstreams moves the remote-tracking branch. *)
Fetched(r) ==
    /\ Change
    /\ kind[r] \in Mergeable
    /\ upstream' = [upstream EXCEPT ![r] = @ \cup {"u"}]
    /\ UNCHANGED <<repos, trees, pc, options, listing, results, prev,
                   runs, head0, local0, upstream0>>

OthersPush(r) ==
    /\ Change
    /\ kind[r] = "work"
    /\ origin' = [origin EXCEPT ![r] = @ \cup {"o"}]
    /\ UNCHANGED <<repos, head, local, upstream, pc, options, listing, results, prev,
                   runs, head0, local0, upstream0>>

UserCommits(r) ==
    /\ pc = "idle" /\ Change
    /\ kind[r] \in Mergeable /\ head[r] = "default"
    /\ local' = [local EXCEPT ![r] = @ \cup {"l"}]
    /\ UNCHANGED <<repos, head, origin, upstream, pc, options, listing, results, prev,
                   runs, head0, local0, upstream0>>

UserChecksOut(r, h) ==
    /\ pc = "idle" /\ Change
    /\ kind[r] \in Mergeable
    /\ head' = [head EXCEPT ![r] = h]
    /\ UNCHANGED <<repos, local, origin, upstream, pc, options, listing, results, prev,
                   runs, head0, local0, upstream0>>

UserEdits(r) ==
    /\ pc = "idle" /\ Change
    /\ mods' = [mods EXCEPT ![r] = ~@]
    /\ UNCHANGED <<kind, pageOf, trees, upstream, pc, options, listing, results, prev,
                   runs, head0, local0, upstream0>>

----------------------------------------------------------------------------
(***************************************************************************)
(* The program collects the lines that describe the repositories.          *)
(***************************************************************************)
Start ==
    /\ pc = "idle"
    /\ runs < MaxRuns
    /\ pc' = "count"
    /\ push' \in PushLevels /\ keep' \in KeepGoing /\ stop' \in StopOnMods
    /\ requested' \in SUBSET Repos
    /\ total' = Unknown /\ page' = 0
    /\ lines' = {} /\ cur' = NoRepo /\ processed' = {}
    /\ continued' = FALSE /\ status' = 0
    /\ runs' = runs + 1
    /\ head0' = head /\ local0' = local /\ upstream0' = upstream
    /\ UNCHANGED <<repos, trees, upstream, prev, changes>>

Listed == {r \in Repos : kind[r] # "unknown"}

(* f_get_gh_user_repos_pagination_count_or_die runs in a command substitution:
   its exit leaves MY_TOTAL_REPO_PAGES empty, and nothing tests that.  It exits
   when the request fails, and also when the list fits on one page: then there
   is no Link: header, but the test of grep's status has overwritten PIPESTATUS,
   so that the branch that prints 1 is never taken. *)
Count ==
    /\ pc = "count"
    /\ pc' = "pages"
    /\ \/ NPages > 1 /\ total' = NPages
       \/ (NPages = 1 \/ "count" \in Faults) /\ total' = Unknown
    /\ UNCHANGED <<repos, trees, upstream, options, page, results, prev, history>>

(* "test N -ge" without a second number is an error, thus false. *)
PastLastPage(n) == total # Unknown /\ n >= total

(* Mutant of GetPage: the page number is not incremented. *)
GetPageAgain ==
    /\ pc = "pages"
    /\ lines' = lines \cup {r \in Listed : pageOf[r] = page + 1}
    /\ pc' = IF PastLastPage(page) THEN "first" ELSE "pages"
    /\ UNCHANGED <<repos, trees, upstream, options, listing, cur, processed, continued,
                   status, prev, history>>

(* The status of "curl | jq" is not tested: a page that fails has no lines.
   Pages after the last one are empty; two numbers stand for all of theirs. *)
GetPage ==
    /\ pc = "pages"
    /\ page' = IF page = NPages + 2 THEN NPages + 1 ELSE page + 1
    /\ \E got \in {{r \in Listed : pageOf[r] = page'}}
                  \cup (IF "page" \in Faults THEN {{}} ELSE {}) :
        lines' = lines \cup got
    /\ pc' = IF PastLastPage(page') THEN "first" ELSE "pages"
    /\ UNCHANGED <<repos, trees, upstream, options, total, cur, processed, continued,
                   status, prev, history>>

(* Without any line the loop still reads an empty one, and gives up on it. *)
FirstLine ==
    /\ pc = "first"
    /\ IF lines = {}
         THEN pc' = "exited" /\ status' = 1
         ELSE pc' = "next" /\ UNCHANGED status
    /\ UNCHANGED <<repos, trees, upstream, options, listing, lines, cur, processed,
                   continued, prev, history>>

----------------------------------------------------------------------------
(***************************************************************************)
(* The loop over the lines.                                                *)
(***************************************************************************)
Wanted(r) == requested = {} \/ r \in requested

(* A repository that is not requested, or has no working directory. *)
Skip(r) ==
    /\ ~Wanted(r) \/ kind[r] = "noDir"
    /\ UNCHANGED <<pc, cur, processed>>

NotAFork(r) ==
    /\ Wanted(r) /\ kind[r] = "own"
    /\ processed' = processed \cup {r}
    /\ UNCHANGED <<pc, cur>>

(* Mutant of Enter: the directory is not changed. *)
EnterNowhere(r) ==
    /\ Wanted(r) /\ kind[r] \notin {"own", "noDir"}
    /\ pc' = "inspect"
    /\ UNCHANGED <<cur, processed>>

Enter(r) ==
    /\ Wanted(r) /\ kind[r] \notin {"own", "noDir"}
    /\ cur' = r
    /\ pc' = "inspect"
    /\ UNCHANGED processed

ReadLine(r) ==
    /\ pc = "next"
    /\ r \in lines
    /\ lines' = lines \ {r}
    /\ Skip(r) \/ NotAFork(r) \/ Enter(r)
    /\ UNCHANGED <<repos, trees, upstream, options, listing, continued, status, prev, history>>

(* Mutant of LoopEnds: what -k skipped is forgotten. *)
LoopEndsContinued ==
    /\ pc = "next"
    /\ lines = {}
    /\ pc' = "exited"
    /\ status' = IF requested \subseteq processed THEN 0 ELSE 1
    /\ UNCHANGED <<repos, trees, upstream, options, listing, lines, cur, processed,
                   continued, prev, history>>

(* Mutant of LoopEnds: requested repositories may be left out. *)
LoopEndsUnasked ==
    /\ pc = "next"
    /\ lines = {}
    /\ pc' = "exited"
    /\ status' = IF continued THEN 1 ELSE 0
    /\ UNCHANGED <<repos, trees, upstream, options, listing, lines, cur, processed,
                   continued, prev, history>>

LoopEnds ==
    /\ pc = "next"
    /\ lines = {}
    /\ pc' = "exited"
    /\ status' = IF continued \/ ~(requested \subseteq processed) THEN 1 ELSE 0
    /\ UNCHANGED <<repos, trees, upstream, options, listing, lines, cur, processed,
                   continued, prev, history>>

(* The subshell ends with status 0, 99, 100 or 101, or with 1 on any other error. *)
Success(estat) == estat \in {0, 101} \/ (estat = 100 /\ ~stop)

(* Mutant of SubshellEnds: -k is not remembered. *)
SubshellEndsForgets(estat) ==
    /\ processed' = IF Success(estat) THEN processed \cup {cur} ELSE processed
    /\ IF Success(estat) \/ (estat = 99 /\ keep)
         THEN pc' = "next" /\ UNCHANGED status
         ELSE pc' = "exited" /\ status' = IF estat = 100 THEN 100 ELSE 1
    /\ cur' = NoRepo
    /\ prev' = "default"
    /\ UNCHANGED continued

SubshellEnds(estat) ==
    /\ processed' = IF Success(estat) THEN processed \cup {cur} ELSE processed
    /\ continued' = (continued \/ (estat = 99 /\ keep))
    /\ IF Success(estat) \/ (estat = 99 /\ keep)
         THEN pc' = "next" /\ UNCHANGED status
         ELSE pc' = "exited" /\ status' = IF estat = 100 THEN 100 ELSE 1
    /\ cur' = NoRepo
    /\ prev' = "default"

GoOn(step) == pc' = step /\ UNCHANGED <<cur, processed, continued, status>>

----------------------------------------------------------------------------
(***************************************************************************)
(* The subshell.                                                           *)
(***************************************************************************)
(* The test of the tips runs in a command substitution too: when git rev-parse
   fails, or one of the branches does not exist, its output is empty, which
   counts as "true".  With -p -p it is left out. *)
TestsTips == push < 2
TipsAlike == kind[cur] = "likeBranch" \/ local[cur] = upstream[cur]

(* So does the test of a remote: an error counts as its being there. *)
RemotesSeen == kind[cur] \notin {"noRemote", "noOrigin"} \/ "remotes" \in Faults

(* The branches that the program looks for have been found. *)
BranchesSeen == RemotesSeen /\ kind[cur] \in {"likeBranch"} \cup Mergeable

(* Mutant of Inspect: the uncommitted changes are not looked at. *)
InspectUnlooked ==
    /\ pc = "inspect"
    /\ \/ kind[cur] \in {"noRemote", "noOrigin"} /\ SubshellEnds(0)
       \/ kind[cur] \in {"noRemote", "noBranch"} /\ RemotesSeen /\ SubshellEnds(1)
       \/ "tool" \in Faults /\ SubshellEnds(1)
       \/ /\ BranchesSeen
          /\ TestsTips /\ (TipsAlike \/ "tips" \in Faults)
          /\ SubshellEnds(101)
       \/ /\ BranchesSeen
          /\ TestsTips => ~TipsAlike
          /\ GoOn(IF head[cur] = "default" THEN "merge" ELSE "checkout")
          /\ UNCHANGED prev
    /\ UNCHANGED <<repos, trees, upstream, options, listing, lines, history>>

Inspect ==
    /\ pc = "inspect"
    /\ \/ kind[cur] \in {"noRemote", "noOrigin"} /\ SubshellEnds(0)
       \/ RemotesSeen /\ mods[cur] /\ SubshellEnds(100)
       \/ /\ RemotesSeen /\ ~mods[cur]
          /\ kind[cur] \in {"noRemote", "noBranch"}
          /\ SubshellEnds(1)
       \/ "tool" \in Faults /\ SubshellEnds(1)
       \/ /\ BranchesSeen /\ ~mods[cur]
          /\ TestsTips /\ (TipsAlike \/ "tips" \in Faults)
          /\ SubshellEnds(101)
       \/ /\ BranchesSeen /\ ~mods[cur]
          /\ TestsTips => ~TipsAlike
          /\ GoOn(IF head[cur] = "default" THEN "merge" ELSE "checkout")
          /\ UNCHANGED prev
    /\ UNCHANGED <<repos, trees, upstream, options, listing, lines, history>>

(* Mutant of Checkout: nothing is remembered for the restoration. *)
CheckoutForgets ==
    /\ pc = "checkout"
    /\ head' = [head EXCEPT ![cur] = "default"]
    /\ prev' = "default"
    /\ GoOn("merge")
    /\ UNCHANGED <<repos, local, origin, upstream, options, listing, lines, history>>

(* Without the branch, git(1) finds its name at two remotes and refuses. *)
Checkout ==
    /\ pc = "checkout"
    /\ \/ /\ kind[cur] \in Mergeable
          /\ head' = [head EXCEPT ![cur] = "default"]
          /\ prev' = head[cur]
          /\ GoOn("merge")
       \/ /\ kind[cur] = "likeBranch" \/ "checkout" \in Faults
          /\ SubshellEnds(1)
          /\ UNCHANGED head
    /\ UNCHANGED <<repos, local, origin, upstream, options, listing, lines, history>>

AfterMerge ==
    CASE push > 0 -> "push"
      [] push = 0 /\ prev # "default" -> "restore"
      [] OTHER -> "done"

(* Mutant of Merge: the branch is reset to upstream's. *)
MergeResets ==
    /\ pc = "merge"
    /\ local' = [local EXCEPT ![cur] = upstream[cur]]
    /\ GoOn(AfterMerge)
    /\ UNCHANGED prev
    /\ UNCHANGED <<repos, head, origin, upstream, options, listing, lines, history>>

Merge ==
    /\ pc = "merge"
    /\ \/ /\ local[cur] \subseteq upstream[cur] \/ upstream[cur] \subseteq local[cur]
          /\ local' = [local EXCEPT ![cur] = @ \cup upstream[cur]]
          /\ GoOn(AfterMerge)
          /\ UNCHANGED prev
       \/ /\ \/ ~(local[cur] \subseteq upstream[cur] \/ upstream[cur] \subseteq local[cur])
             \/ "merge" \in Faults
          /\ SubshellEnds(99)
          /\ UNCHANGED local
    /\ UNCHANGED <<repos, head, origin, upstream, options, listing, lines, history>>

(* Origin, if there is one, takes only what it can fast-forward to. *)
Push ==
    /\ pc = "push"
    /\ \/ /\ kind[cur] # "noOrigin" /\ origin[cur] \subseteq local[cur]
          /\ origin' = [origin EXCEPT ![cur] = local[cur]]
          /\ GoOn(IF prev = "default" THEN "done" ELSE "restore")
          /\ UNCHANGED prev
       \/ /\ \/ kind[cur] = "noOrigin" \/ ~(origin[cur] \subseteq local[cur])
             \/ "push" \in Faults
          /\ SubshellEnds(1)
          /\ UNCHANGED origin
    /\ UNCHANGED <<repos, head, local, upstream, options, listing, lines, history>>

(* git checkout @{-1} *)
Restore ==
    /\ pc = "restore"
    /\ \/ /\ head' = [head EXCEPT ![cur] = prev]
          /\ SubshellEnds(0)
       \/ /\ "restore" \in Faults
          /\ SubshellEnds(1)
          /\ UNCHANGED head
    /\ UNCHANGED <<repos, local, origin, upstream, options, listing, lines, history>>

NothingToRestore ==
    /\ pc = "done"
    /\ SubshellEnds(0)
    /\ UNCHANGED <<repos, trees, upstream, options, listing, lines, history>>

Subshell == Inspect \/ Checkout \/ Merge \/ Push \/ Restore \/ NothingToRestore

Kill ==
    /\ "kill" \in Faults
    /\ pc \notin {"idle", "exited"}
    /\ pc' = "exited" /\ status' = 1
    /\ cur' = NoRepo /\ prev' = "default"
    /\ UNCHANGED <<repos, trees, upstream, options, listing, lines, processed, continued,
                   history>>

(* The caller has the exit status. *)
Return ==
    /\ pc = "exited"
    /\ pc' = "idle"
    /\ UNCHANGED <<repos, trees, upstream, options, listing, results, prev, history>>

----------------------------------------------------------------------------
Program ==
    \/ Count \/ GetPage \/ FirstLine
    \/ \E r \in Repos : ReadLine(r)
    \/ LoopEnds \/ Subshell

World ==
    \E r \in Repos :
        \/ Fetched(r) \/ OthersPush(r) \/ UserCommits(r) \/ UserEdits(r)
        \/ \E h \in Heads : UserChecksOut(r, h)

Next == Start \/ Program \/ Kill \/ Return \/ World

Spec == Init /\ [][Next]_vars /\ WF_vars(Program)

----------------------------------------------------------------------------
(* Every variable has its type; a repository is at hand in the steps of the
   subshell and in no other. *)
TypeOK ==
    /\ kind \in [Repos -> Kinds] /\ pageOf \in [Repos -> 1..NPages]
    /\ head \in [Repos -> Heads] /\ mods \in [Repos -> BOOLEAN]
    /\ local \in [Repos -> SUBSET Commits]
    /\ upstream \in [Repos -> SUBSET Commits]
    /\ origin \in [Repos -> SUBSET Commits]
    /\ pc \in {"idle", "count", "pages", "first", "next", "inspect", "checkout", "merge",
               "push", "restore", "done", "exited"}
    /\ push \in 0..2 /\ keep \in BOOLEAN /\ stop \in BOOLEAN
    /\ requested \subseteq Repos
    /\ total \in {Unknown, NPages} /\ page \in 0..(NPages + 2)
    /\ lines \subseteq Repos /\ processed \subseteq Repos
    /\ cur \in Repos \cup {NoRepo}
    /\ cur \in Repos <=> pc \in {"inspect", "checkout", "merge", "push", "restore", "done"}
    /\ prev \in Heads
    /\ continued \in BOOLEAN /\ status \in {0, 1, 100}
    /\ changes \in 0..MaxChanges /\ runs \in 0..MaxRuns
    /\ head0 \in [Repos -> Heads]
    /\ local0 \in [Repos -> SUBSET Commits]
    /\ upstream0 \in [Repos -> SUBSET Commits]

(* When the program exits with 0, every repository it was to work on is at
   upstream's commits and has what it had checked out before, and what was
   merged is at origin if -p was given. *)
InOrder(r) ==
    /\ upstream0[r] \subseteq local[r]
    /\ head[r] = head0[r]
    /\ (push = 2 \/ (push = 1 /\ local[r] # local0[r])) => local[r] \subseteq origin[r]

SuccessMeansMerged ==
    pc = "exited" /\ status = 0 =>
        \A r \in Repos :
            Wanted(r) /\ kind[r] = "work" /\ ~mods[r] => InOrder(r)

(* A repository that was requested and that is not on GitHub, has no directory
   or lacks its default branch makes the program fail, unless the name of
   another branch hides that ("likeBranch"). *)
MissingIsError ==
    pc = "exited" /\ status = 0 =>
        \A r \in requested : ~mods[r] => kind[r] \notin {"unknown", "noDir", "noBranch"}

(* A processed repository has what it had checked out before, also when the
   program fails on a later one or is killed. *)
ProcessedRestored ==
    pc # "idle" => \A r \in processed : head[r] = head0[r]

(* Neither the local branch nor origin ever loses a commit. *)
NoLostCommits ==
    [][\A r \in Repos : local[r] \subseteq local'[r] /\ origin[r] \subseteq origin'[r]]_vars

(* The program leaves alone a repository with uncommitted changes or one that
   was not requested, and writes to origin only if -p was given. *)
MayTouch(r) == Wanted(r) /\ ~mods[r]
LeavesAlone ==
    [][pc # pc' /\ pc # "idle" =>
        \A r \in Repos :
            /\ head'[r] # head[r] \/ local'[r] # local[r] => MayTouch(r)
            /\ origin'[r] # origin[r] => MayTouch(r) /\ push > 0]_vars

(* The program comes to its end. *)
Terminates == pc # "idle" ~> pc \in {"idle", "exited"}

----------------------------------------------------------------------------
(***************************************************************************)
(* The program seen from outside.  Until all pages are there any           *)
(* repository may be on them.  With -k the program goes on after a merge   *)
(* that was not possible.                                                  *)
(***************************************************************************)
RunPhase ==
    CASE pc = "idle" -> "idle"
      [] pc = "exited" -> IF status = 0 THEN "succeeded" ELSE "failed"
      [] OTHER -> "running"
Todo == IF pc \in {"count", "pages", "first"} THEN Repos ELSE lines
Hand == {cur} \ {NoRepo}
Tree == [r \in Repos |-> <<head[r], local[r]>>]

Turn == INSTANCE EachInTurn WITH
    Contents <- Heads \X SUBSET Commits, phase <- RunPhase, asked <- requested,
    todo <- Todo, hand <- Hand, done <- processed, trouble <- continued, tree <- Tree

(* The program keeps the promises of EachInTurn, whatever fails and whoever
   pushes meanwhile. *)
MergesInTurn == Turn!Spec
============================================================================
