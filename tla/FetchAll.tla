------------------------------ MODULE FetchAll ------------------------------
(***************************************************************************)
(* ads-github-fetch-all-upstreams: for each of the user's repositories the *)
(* program clones the working directory if it is missing (-c, -m), adds    *)
(* the remote "upstream" if that is missing (-u), and fetches from it.     *)
(*                                                                         *)
(* The list of the repositories comes from GitHub or, in offline mode,     *)
(* from the cache, where it may be older.                                  *)
(***************************************************************************)
EXTENDS Naturals

CONSTANTS
    Repos,        \* names of repositories, known to GitHub or not
    CloneOpts,    \* values of -c
    MissingOpts,  \* values of -m
    UpstreamOpts, \* values of -u
    Faults,       \* which steps may fail
    MaxChanges,   \* bound on the changes outside the program
    MaxRuns,      \* bound on the invocations
    NoRepo

FaultSteps == {"list", "clone", "remote", "query", "add", "fetch", "kill"}

ASSUME FaultsAssumption == Faults \subseteq FaultSteps
ASSUME OptionsAssumption ==
    CloneOpts \subseteq BOOLEAN /\ MissingOpts \subseteq BOOLEAN /\ UpstreamOpts \subseteq BOOLEAN
ASSUME BoundsAssumption == MaxChanges \in Nat /\ MaxRuns \in Nat
ASSUME NoRepoAssumption == NoRepo \notin Repos

(* No directory, a directory without .git, a git working directory. *)
Dirs == {"none", "noGit", "git"}
(* Where the remote "upstream" points: the parent of the fork or itself. *)
Remotes == {"none", "parent", "self"}

VARIABLES
    fork,            \* the repositories that are forks
    github, cached,  \* the repositories GitHub and the cache list
    dir, remote,     \* the working directory, and its remote "upstream"
    pc,              \* step of the program
    clone, missing, addUpstream, requested,  \* its options
    lines,           \* REPO_DATA_LINES, as far as they are not yet read
    cur,             \* the repository at hand
    processed,       \* PROCESSED_REPOS
    status,          \* exit status
    changes, runs,   \* how many there were
    list0, dir0,     \* history: the list, and the directories at the start
    fetched,         \* history: the repositories fetched in this run
    failed           \* history: a subshell of this run has failed

world == <<fork, github, cached>>
trees == <<dir, remote>>
options == <<clone, missing, addUpstream, requested>>
progress == <<lines, cur, processed, status>>
history == <<changes, runs, list0, dir0, fetched, failed>>
vars == <<world, trees, pc, options, progress, history>>

Init ==
    /\ fork \in SUBSET Repos
    /\ github \in SUBSET Repos
    /\ cached = github
    /\ dir \in [Repos -> {"none", "git"}]
    /\ remote = [r \in Repos |->
                    IF dir[r] = "git" /\ r \in fork THEN "parent" ELSE "none"]
    /\ pc = "idle"
    /\ clone = FALSE /\ missing = FALSE /\ addUpstream = FALSE /\ requested = {}
    /\ lines = {} /\ cur = NoRepo /\ processed = {} /\ status = 0
    /\ changes = 0 /\ runs = 0
    /\ list0 = {} /\ dir0 = dir /\ fetched = {} /\ failed = FALSE

----------------------------------------------------------------------------
Change ==
    /\ changes < MaxChanges
    /\ changes' = changes + 1
    /\ UNCHANGED <<pc, options, progress, runs, list0, dir0, fetched, failed>>

(* The user creates or deletes a repository at GitHub. *)
GitHubChanges(r) ==
    /\ Change
    /\ github' = IF r \in github THEN github \ {r} ELSE github \cup {r}
    /\ UNCHANGED <<fork, cached, trees>>

(* ads-github-cache --update *)
CacheUpdated ==
    /\ Change
    /\ cached' = github
    /\ UNCHANGED <<fork, github, trees>>

(* The user makes a directory, turns it into a repository without remotes, or
   takes the remote away. *)
UserChanges(r) ==
    /\ pc = "idle"
    /\ Change
    /\ \/ dir[r] = "none" /\ dir' = [dir EXCEPT ![r] = "noGit"] /\ UNCHANGED remote
       \/ dir[r] = "noGit" /\ dir' = [dir EXCEPT ![r] = "git"] /\ UNCHANGED remote
       \/ remote[r] # "none" /\ remote' = [remote EXCEPT ![r] = "none"] /\ UNCHANGED dir
    /\ UNCHANGED world

----------------------------------------------------------------------------
Start ==
    /\ pc = "idle"
    /\ runs < MaxRuns
    /\ pc' = "list"
    /\ missing' \in MissingOpts
    /\ clone' \in {c \/ missing' : c \in CloneOpts}  \* --missing-only implies -c
    /\ addUpstream' \in UpstreamOpts
    /\ requested' \in SUBSET Repos
    /\ lines' = {} /\ cur' = NoRepo /\ processed' = {} /\ status' = 0
    /\ runs' = runs + 1
    /\ list0' = {} /\ dir0' = dir /\ fetched' = {} /\ failed' = FALSE
    /\ UNCHANGED <<world, trees, changes>>

Exit(estat) == pc' = "exited" /\ status' = estat /\ cur' = NoRepo

(* f_build_repo_data_lines_or_die, f_build_repo_data_lines_from_cache_or_die *)
List ==
    /\ pc = "list"
    /\ \/ /\ lines' \in {github, cached} \ {{}}
          /\ list0' = lines'
          /\ pc' = "next"
          /\ UNCHANGED <<cur, status>>
       \/ /\ "list" \in Faults \/ {} \in {github, cached}
          /\ Exit(1)
          /\ UNCHANGED <<lines, list0>>
    /\ UNCHANGED <<world, trees, options, processed, changes, runs, dir0, fetched, failed>>

----------------------------------------------------------------------------
(***************************************************************************)
(* The loop over the lines, where r is the repository of the line read.    *)
(***************************************************************************)
Wanted(r) == requested = {} \/ r \in requested

(* Mutant of Present: what is requested is never left out. *)
PresentUnasked(r) == missing /\ dir[r] # "none" /\ requested = {}

(* --missing-only leaves out what has a directory. *)
Present(r) == missing /\ dir[r] # "none"

(* No directory and none to be made, or one that is not a repository. *)
Unusable(r) == (dir[r] = "none" /\ ~clone) \/ dir[r] = "noGit"

Skip(r) ==
    /\ ~Wanted(r) \/ Present(r) \/ Unusable(r)
    /\ UNCHANGED <<pc, cur, processed>>

Usable(r) == Wanted(r) /\ ~Present(r) /\ ~Unusable(r)

NotAFork(r) ==
    /\ Usable(r) /\ dir[r] = "git" /\ r \notin fork
    /\ processed' = processed \cup {r}
    /\ UNCHANGED <<pc, cur>>

Enter(r) ==
    /\ Usable(r) /\ (dir[r] = "none" \/ r \in fork)
    /\ cur' = r
    /\ pc' = IF dir[r] = "none" THEN "clone" ELSE "remote"
    /\ UNCHANGED processed

ReadLine(r) ==
    /\ pc = "next"
    /\ r \in lines
    /\ lines' = lines \ {r}
    /\ Skip(r) \/ NotAFork(r) \/ Enter(r)
    /\ UNCHANGED <<world, trees, options, status, history>>

(* Mutant of LoopEnds: requested repositories may be left out. *)
LoopEndsUnasked ==
    /\ pc = "next"
    /\ lines = {}
    /\ Exit(0)
    /\ UNCHANGED <<world, trees, options, lines, processed, history>>

LoopEnds ==
    /\ pc = "next"
    /\ lines = {}
    /\ Exit(IF requested \subseteq processed THEN 0 ELSE 1)
    /\ UNCHANGED <<world, trees, options, lines, processed, history>>

Processed == processed' = processed \cup {cur} /\ pc' = "next" /\ cur' = NoRepo

(* Mutant of Clone: a new clone is taken for fetched. *)
CloneProcesses ==
    /\ pc = "clone"
    /\ \/ /\ cur \in github
          /\ dir' = [dir EXCEPT ![cur] = "git"]
          /\ remote' = [remote EXCEPT ![cur] = IF cur \in fork THEN "parent" ELSE "none"]
          /\ Processed
          /\ UNCHANGED status
       \/ /\ cur \notin github \/ "clone" \in Faults
          /\ Exit(1)
          /\ UNCHANGED <<trees, processed>>
    /\ UNCHANGED <<world, options, lines, history>>

(* git-hub clone, which names the parent of a fork "upstream".  The clone of a
   repository that is not at GitHub any more fails. *)
Clone ==
    /\ pc = "clone"
    /\ \/ /\ cur \in github
          /\ dir' = [dir EXCEPT ![cur] = "git"]
          /\ IF cur \in fork
               THEN /\ remote' = [remote EXCEPT ![cur] = "parent"]
                    /\ pc' = "remote"
                    /\ UNCHANGED <<cur, processed>>
               ELSE Processed /\ UNCHANGED remote
          /\ UNCHANGED status
       \/ /\ cur \notin github \/ "clone" \in Faults
          /\ Exit(1)
          /\ UNCHANGED <<trees, processed>>
    /\ UNCHANGED <<world, options, lines, history>>

(* Mutant of SubshellFails: the program goes on with the next repository. *)
SubshellFailsUnseen ==
    /\ pc' = "next" /\ cur' = NoRepo /\ failed' = TRUE
    /\ UNCHANGED <<processed, status>>

(* The program "exit"s with the status of the test before the exit, not with
   that of the subshell that failed. *)
SubshellFails == Exit(0) /\ failed' = TRUE /\ UNCHANGED processed

(* Mutant of Remote: without "upstream" the subshell goes on. *)
RemoteUnlooked ==
    /\ pc = "remote"
    /\ pc' = "fetch"
    /\ UNCHANGED <<world, trees, options, progress, history>>

(* Mutant of Remote: with -u the remote is set whether or not there is one. *)
RemoteEver ==
    /\ pc = "remote"
    /\ pc' = IF addUpstream THEN "query" ELSE "fetch"
    /\ UNCHANGED <<world, trees, options, progress, history>>

Remote ==
    /\ pc = "remote"
    /\ \/ /\ remote[cur] # "none"
          /\ pc' = "fetch"
          /\ UNCHANGED <<cur, processed, status, failed>>
       \/ /\ remote[cur] = "none" /\ addUpstream
          /\ pc' = "query"
          /\ UNCHANGED <<cur, processed, status, failed>>
       \/ /\ remote[cur] = "none" /\ ~addUpstream
          /\ Processed
          /\ UNCHANGED <<status, failed>>
       \/ "remote" \in Faults /\ SubshellFails
    /\ UNCHANGED <<world, trees, options, lines, changes, runs, list0, dir0, fetched>>

(* The clone_url that jq takes out of the answer is that of the repository. *)
AddUpstream ==
    /\ pc = "query"
    /\ \/ /\ cur \in github
          /\ remote' = [remote EXCEPT ![cur] = "self"]
          /\ pc' = "fetch"
          /\ UNCHANGED <<cur, processed, status, failed>>
       \/ /\ cur \notin github \/ {"query", "add"} \cap Faults # {}
          /\ SubshellFails
          /\ UNCHANGED remote
    /\ UNCHANGED <<world, dir, options, lines, changes, runs, list0, dir0, fetched>>

(* git fetch upstream *)
Fetch ==
    /\ pc = "fetch"
    /\ \/ /\ remote[cur] = "self" => cur \in github
          /\ fetched' = fetched \cup {cur}
          /\ Processed
          /\ UNCHANGED <<status, failed>>
       \/ /\ (remote[cur] = "self" /\ cur \notin github) \/ "fetch" \in Faults
          /\ SubshellFails
          /\ UNCHANGED fetched
    /\ UNCHANGED <<world, trees, options, lines, changes, runs, list0, dir0>>

(* A clone that is cut off may leave a directory, or a repository that has
   everything but the remote. *)
Kill ==
    /\ "kill" \in Faults
    /\ pc \notin {"idle", "exited"}
    /\ Exit(1)
    /\ \/ UNCHANGED trees
       \/ /\ pc = "clone"
          /\ dir' \in {[dir EXCEPT ![cur] = d] : d \in {"noGit", "git"}}
          /\ UNCHANGED remote
    /\ UNCHANGED <<world, options, lines, processed, history>>

(* The caller has the exit status. *)
Return ==
    /\ pc = "exited"
    /\ pc' = "idle"
    /\ UNCHANGED <<world, trees, options, progress, history>>

----------------------------------------------------------------------------
Program ==
    \/ List \/ (\E r \in Repos : ReadLine(r)) \/ LoopEnds
    \/ Clone \/ Remote \/ AddUpstream \/ Fetch

World == CacheUpdated \/ \E r \in Repos : GitHubChanges(r) \/ UserChanges(r)

Next == Start \/ Program \/ Kill \/ Return \/ World

Spec == Init /\ [][Next]_vars

----------------------------------------------------------------------------
(* Every variable has its type; the subshell works on a repository that has
   what the step needs. *)
TypeOK ==
    /\ fork \subseteq Repos /\ github \subseteq Repos /\ cached \subseteq Repos
    /\ dir \in [Repos -> Dirs] /\ remote \in [Repos -> Remotes]
    /\ pc \in {"idle", "list", "next", "clone", "remote", "query", "fetch", "exited"}
    /\ clone \in BOOLEAN /\ missing \in BOOLEAN /\ addUpstream \in BOOLEAN
    /\ requested \subseteq Repos /\ lines \subseteq Repos /\ processed \subseteq Repos
    /\ cur \in Repos \cup {NoRepo}
    /\ cur # NoRepo <=> pc \in {"clone", "remote", "query", "fetch"}
    /\ pc \in {"remote", "query", "fetch"} => dir[cur] = "git" /\ cur \in fork
    /\ pc = "fetch" => remote[cur] # "none"
    /\ status \in {0, 1}
    /\ changes \in 0..MaxChanges /\ runs \in 0..MaxRuns
    /\ list0 \subseteq Repos /\ dir0 \in [Repos -> Dirs] /\ fetched \subseteq Repos
    /\ failed \in BOOLEAN

(* When the program exits with 0 and no subshell has failed, every fork on the
   list it was to work on and that has the remote "upstream" was fetched. *)
Succeeded == pc = "exited" /\ status = 0 /\ ~failed

SuccessMeansFetched ==
    Succeeded =>
        \A r \in list0 \cap fork :
            Wanted(r) /\ dir[r] = "git" /\ remote[r] # "none"
                /\ ~(missing /\ dir0[r] # "none")
              => r \in fetched

(* Then every repository that was requested by name is in a git working
   directory. *)
RequestedIsThere == Succeeded => \A r \in requested : dir[r] = "git"

(* The program "Exits with zero on success, non-zero on error" (3006). *)
FailureIsReported == pc = "exited" /\ failed => status # 0

(* With --missing-only the program changes and fetches nothing but what was
   missing when it started. *)
MissingOnly ==
    pc # "idle" /\ missing => \A r \in fetched \cup processed : dir0[r] = "none"

(* The program leaves the user's work alone: it makes a working directory only
   where there is none and -c asks for it, and a remote "upstream" only where
   there is none and -u asks for it or the clone is its own. *)
LeavesTreesAlone ==
    [][pc # "idle" =>
        \A r \in Repos :
            /\ dir'[r] # dir[r] => dir[r] = "none" /\ clone /\ Wanted(r)
            /\ remote'[r] # remote[r] =>
                 /\ remote[r] = "none" /\ Wanted(r)
                 /\ addUpstream \/ dir[r] = "none"]_vars

----------------------------------------------------------------------------
(***************************************************************************)
(* The program seen from outside.  Until the list is there any repository  *)
(* may be on it.  The program goes on after no failure; the status of a    *)
(* subshell that failed should have been its own.                          *)
(***************************************************************************)
RunPhase ==
    CASE pc = "idle" -> "idle"
      [] pc = "exited" -> IF Succeeded THEN "succeeded" ELSE "failed"
      [] OTHER -> "running"
Todo == IF pc = "list" THEN Repos ELSE lines
Hand == {cur} \ {NoRepo}
Tree == [r \in Repos |-> <<dir[r], remote[r]>>]

Turn == INSTANCE EachInTurn WITH
    Contents <- Dirs \X Remotes, phase <- RunPhase, asked <- requested, todo <- Todo,
    hand <- Hand, done <- processed, trouble <- FALSE, tree <- Tree

(* The program keeps the promises of EachInTurn, whatever fails and whatever
   changes at GitHub meanwhile. *)
FetchesInTurn == Turn!Spec
============================================================================
