---------------------------- MODULE FetchAllProofs ----------------------------
(***************************************************************************)
(* Proofs about FetchAll, for any set of repositories, any options, any    *)
(* number of runs and of changes outside, and whichever steps fail.        *)
(***************************************************************************)
EXTENDS FetchAll, TLAPS

----------------------------------------------------------------------------
(***************************************************************************)
(* The type invariant                                                      *)
(***************************************************************************)

(* Every variable keeps its type, and the subshell only ever works on a fork
   that has a git working directory. *)
THEOREM TypeCorrect == Spec => []TypeOK
<1>1. Init => TypeOK
  <2> SUFFICES ASSUME Init PROVE TypeOK
    OBVIOUS
  <2> USE NoRepoAssumption, BoundsAssumption DEF Init
  <2>1. dir \in [Repos -> Dirs] /\ dir0 \in [Repos -> Dirs] /\ remote \in [Repos -> Remotes]
    BY DEF Dirs, Remotes
  <2>2. clone \in BOOLEAN /\ missing \in BOOLEAN /\ addUpstream \in BOOLEAN /\ failed \in BOOLEAN
    BY Zenon
  <2>3. QED
    BY <2>1, <2>2 DEF TypeOK
<1>2. TypeOK /\ [Next]_vars => TypeOK'
  <2> SUFFICES ASSUME TypeOK, [Next]_vars PROVE TypeOK'
    OBVIOUS
  <2> USE NoRepoAssumption, OptionsAssumption, BoundsAssumption
  <2> USE DEF TypeOK, world, trees, options, progress, history
  <2>1. ASSUME Start PROVE TypeOK'
    <3>1. missing' \in BOOLEAN
      BY <2>1 DEF Start
    <3>2. clone' \in BOOLEAN
      BY <2>1, Zenon DEF Start
    <3>3. addUpstream' \in BOOLEAN /\ failed' \in BOOLEAN
      BY <2>1, Zenon DEF Start
    <3>4. requested' \subseteq Repos /\ runs' \in 0..MaxRuns /\ changes' \in 0..MaxChanges
          /\ pc' = "list" /\ lines' = {} /\ cur' = NoRepo /\ processed' = {} /\ status' = 0
          /\ list0' = {} /\ dir0' = dir /\ fetched' = {}
          /\ UNCHANGED <<fork, github, cached, dir, remote>>
      BY <2>1 DEF Start
    <3>5. QED
      BY <3>1, <3>2, <3>3, <3>4
  <2>2. ASSUME List PROVE TypeOK'
    BY <2>2 DEF List, Exit
  <2>3. ASSUME NEW r \in Repos, ReadLine(r) PROVE TypeOK'
    <3>1. CASE Skip(r)
      BY <2>3, <3>1 DEF ReadLine, Skip
    <3>2. CASE NotAFork(r)
      BY <2>3, <3>2 DEF ReadLine, NotAFork
    <3>3. CASE Enter(r)
      BY <2>3, <3>3 DEF ReadLine, Enter, Usable, Unusable, Dirs
    <3>4. QED
      BY <2>3, <3>1, <3>2, <3>3 DEF ReadLine
  <2>4. ASSUME LoopEnds PROVE TypeOK'
    BY <2>4 DEF LoopEnds, Exit
  <2>5. ASSUME Clone PROVE TypeOK'
    <3>1. dir' \in [Repos -> Dirs] /\ remote' \in [Repos -> Remotes]
      BY <2>5 DEF Clone, Dirs, Remotes
    <3>2. QED
      BY <2>5, <3>1 DEF Clone, Exit, Processed
  <2>6. ASSUME Remote PROVE TypeOK'
    BY <2>6 DEF Remote, Exit, Processed, SubshellFails
  <2>7. ASSUME AddUpstream PROVE TypeOK'
    <3>1. remote' \in [Repos -> Remotes]
      BY <2>7 DEF AddUpstream, Remotes
    <3>2. QED
      BY <2>7, <3>1 DEF AddUpstream, Exit, SubshellFails
  <2>8. ASSUME Fetch PROVE TypeOK'
    BY <2>8 DEF Fetch, Exit, Processed, SubshellFails
  <2>9. ASSUME Kill PROVE TypeOK'
    <3>1. dir' \in [Repos -> Dirs]
      BY <2>9 DEF Kill, Dirs
    <3>2. QED
      BY <2>9, <3>1 DEF Kill, Exit
  <2>10. ASSUME Return PROVE TypeOK'
    BY <2>10 DEF Return
  <2>11. ASSUME World PROVE TypeOK'
    <3>1. changes' \in 0..MaxChanges
      BY <2>11 DEF World, CacheUpdated, GitHubChanges, UserChanges, Change
    <3>2. CASE CacheUpdated
      BY <3>1, <3>2 DEF CacheUpdated, Change
    <3>3. ASSUME NEW r \in Repos, GitHubChanges(r) PROVE TypeOK'
      BY <3>1, <3>3 DEF GitHubChanges, Change
    <3>4. ASSUME NEW r \in Repos, UserChanges(r) PROVE TypeOK'
      <4>1. dir' \in [Repos -> Dirs] /\ remote' \in [Repos -> Remotes]
        BY <3>4 DEF UserChanges, Dirs, Remotes
      <4>2. pc = "idle" /\ UNCHANGED <<pc, cur>>
        BY <3>4 DEF UserChanges, Change
      <4>3. QED
        BY <3>1, <3>4, <4>1, <4>2 DEF UserChanges, Change
    <3>5. QED
      BY <2>11, <3>2, <3>3, <3>4 DEF World
  <2>12. CASE UNCHANGED vars
    BY <2>12 DEF vars
  <2>13. QED
    BY <2>1, <2>2, <2>3, <2>4, <2>5, <2>6, <2>7, <2>8, <2>9, <2>10, <2>11, <2>12 DEF Next, Program
<1>3. QED
  BY <1>1, <1>2, PTL DEF Spec
----------------------------------------------------------------------------
(***************************************************************************)
(* The inductive invariant of a run.  A repository of the list is          *)
(* unread, at hand, or the loop is through with it.                        *)
(***************************************************************************)
Behind == (list0 \ lines) \ {cur}

(* The program only touches the directories of lines it has read; the user
   leaves all of them alone meanwhile. *)
ListInv ==
    pc # "idle" =>
        /\ lines \subseteq list0
        /\ cur # NoRepo => cur \in list0 \ lines
        /\ processed \cup fetched \subseteq Behind
        /\ \A r \in Repos : r \notin list0 \ lines => dir[r] = dir0[r]
        /\ pc = "list" => list0 = {}

(* --missing-only has the loop leave out what had a directory at the start. *)
MissingInv ==
    pc # "idle" /\ missing =>
        /\ \A r \in fetched \cup processed : dir0[r] = "none"
        /\ cur # NoRepo => dir0[cur] = "none"

(* What is processed is a git working directory; if it is a fork that has the
   remote, then it was fetched. *)
ProcessedInv ==
    pc # "idle" =>
        \A r \in processed :
            /\ dir[r] = "git"
            /\ r \in fork /\ remote[r] # "none" => r \in fetched

(* Why the loop was through with r: it was not asked for, it was there, no use
   could be made of it, or it was processed. *)
LeftOut(r) == ~Wanted(r) \/ (missing /\ dir0[r] # "none") \/ dir[r] # "git"

Unended == pc \in {"next", "clone", "remote", "query", "fetch"}

BehindInv ==
    Unended \/ Succeeded => \A r \in Behind : LeftOut(r) \/ r \in processed

(* Status 0 without a failed subshell comes from the end of the loop. *)
EndInv ==
    Succeeded => lines = {} /\ requested \subseteq processed

IInv == ListInv /\ MissingInv /\ ProcessedInv /\ BehindInv /\ EndInv

(* Every step keeps the book on the lines and the directories. *)
LEMMA ListStep ==
    ASSUME TypeOK, ListInv, [Next]_vars
    PROVE  ListInv'
<1> USE NoRepoAssumption
<1> USE DEF TypeOK, ListInv, Behind, world, trees, options, progress, history
<1>1. ASSUME Start PROVE ListInv'
  BY <1>1 DEF Start
<1>2. ASSUME List PROVE ListInv'
  BY <1>2 DEF List, Exit
<1>3. ASSUME NEW r \in Repos, ReadLine(r) PROVE ListInv'
  BY <1>3 DEF ReadLine, Skip, NotAFork, Enter, Usable, Unusable, Present, Wanted
<1>4. ASSUME LoopEnds PROVE ListInv'
  BY <1>4 DEF LoopEnds, Exit
<1>5. ASSUME Clone PROVE ListInv'
  BY <1>5 DEF Clone, Exit, Processed
<1>6. ASSUME Remote PROVE ListInv'
  BY <1>6 DEF Remote, Exit, Processed, SubshellFails
<1>7. ASSUME AddUpstream PROVE ListInv'
  BY <1>7 DEF AddUpstream, Exit, SubshellFails
<1>8. ASSUME Fetch PROVE ListInv'
  BY <1>8 DEF Fetch, Exit, Processed, SubshellFails
<1>9. ASSUME Kill PROVE ListInv'
  BY <1>9 DEF Kill, Exit
<1>10. ASSUME Return PROVE ListInv'
  BY <1>10 DEF Return
<1>11. ASSUME World PROVE ListInv'
  BY <1>11 DEF World, CacheUpdated, GitHubChanges, UserChanges, Change
<1>12. CASE UNCHANGED vars
  BY <1>12 DEF vars
<1>13. QED
  BY <1>1, <1>2, <1>3, <1>4, <1>5, <1>6, <1>7, <1>8, <1>9, <1>10, <1>11, <1>12 DEF Next, Program

(* Every step leaves alone what was there, with --missing-only. *)
LEMMA MissingStep ==
    ASSUME TypeOK, ListInv, MissingInv, [Next]_vars
    PROVE  MissingInv'
<1> USE NoRepoAssumption
<1> USE DEF TypeOK, ListInv, MissingInv, Behind, world, trees, options, progress, history
<1>1. ASSUME Start PROVE MissingInv'
  BY <1>1 DEF Start
<1>2. ASSUME List PROVE MissingInv'
  BY <1>2 DEF List, Exit
<1>3. ASSUME NEW r \in Repos, ReadLine(r) PROVE MissingInv'
  BY <1>3 DEF ReadLine, Skip, NotAFork, Enter, Usable, Unusable, Present, Wanted
<1>4. ASSUME LoopEnds PROVE MissingInv'
  BY <1>4 DEF LoopEnds, Exit
<1>5. ASSUME Clone PROVE MissingInv'
  BY <1>5 DEF Clone, Exit, Processed
<1>6. ASSUME Remote PROVE MissingInv'
  BY <1>6 DEF Remote, Exit, Processed, SubshellFails
<1>7. ASSUME AddUpstream PROVE MissingInv'
  BY <1>7 DEF AddUpstream, Exit, SubshellFails
<1>8. ASSUME Fetch PROVE MissingInv'
  BY <1>8 DEF Fetch, Exit, Processed, SubshellFails
<1>9. ASSUME Kill PROVE MissingInv'
  BY <1>9 DEF Kill, Exit
<1>10. ASSUME Return PROVE MissingInv'
  BY <1>10 DEF Return
<1>11. ASSUME World PROVE MissingInv'
  BY <1>11 DEF World, CacheUpdated, GitHubChanges, UserChanges, Change
<1>12. CASE UNCHANGED vars
  BY <1>12 DEF vars
<1>13. QED
  BY <1>1, <1>2, <1>3, <1>4, <1>5, <1>6, <1>7, <1>8, <1>9, <1>10, <1>11, <1>12 DEF Next, Program

(* Every step keeps what is processed usable, and fetched if it has the remote. *)
LEMMA ProcessedStep ==
    ASSUME TypeOK, ListInv, ProcessedInv, [Next]_vars
    PROVE  ProcessedInv'
<1> USE NoRepoAssumption
<1> USE DEF TypeOK, ListInv, ProcessedInv, Behind, world, trees, options, progress, history
<1>1. ASSUME Start PROVE ProcessedInv'
  BY <1>1 DEF Start
<1>2. ASSUME List PROVE ProcessedInv'
  BY <1>2 DEF List, Exit
<1>3. ASSUME NEW r \in Repos, ReadLine(r) PROVE ProcessedInv'
  BY <1>3 DEF ReadLine, Skip, NotAFork, Enter, Usable, Unusable, Present, Wanted
<1>4. ASSUME LoopEnds PROVE ProcessedInv'
  BY <1>4 DEF LoopEnds, Exit
<1>5. ASSUME Clone PROVE ProcessedInv'
  BY <1>5 DEF Clone, Exit, Processed
<1>6. ASSUME Remote PROVE ProcessedInv'
  BY <1>6 DEF Remote, Exit, Processed, SubshellFails
<1>7. ASSUME AddUpstream PROVE ProcessedInv'
  BY <1>7 DEF AddUpstream, Exit, SubshellFails
<1>8. ASSUME Fetch PROVE ProcessedInv'
  BY <1>8 DEF Fetch, Exit, Processed, SubshellFails
<1>9. ASSUME Kill PROVE ProcessedInv'
  BY <1>9 DEF Kill, Exit
<1>10. ASSUME Return PROVE ProcessedInv'
  BY <1>10 DEF Return
<1>11. ASSUME World PROVE ProcessedInv'
  BY <1>11 DEF World, CacheUpdated, GitHubChanges, UserChanges, Change
<1>12. CASE UNCHANGED vars
  BY <1>12 DEF vars
<1>13. QED
  BY <1>1, <1>2, <1>3, <1>4, <1>5, <1>6, <1>7, <1>8, <1>9, <1>10, <1>11, <1>12 DEF Next, Program

(* Every step has a reason for what it leaves behind. *)
LEMMA BehindStep ==
    ASSUME TypeOK, ListInv, BehindInv, [Next]_vars
    PROVE  BehindInv'
<1> USE NoRepoAssumption
<1> USE DEF TypeOK, ListInv, BehindInv, Behind, LeftOut, Unended, Succeeded, Wanted, world, trees, options, progress, history
<1>1. ASSUME Start PROVE BehindInv'
  BY <1>1 DEF Start
<1>2. ASSUME List PROVE BehindInv'
  BY <1>2 DEF List, Exit
<1>3. ASSUME NEW r \in Repos, ReadLine(r) PROVE BehindInv'
  BY <1>3 DEF ReadLine, Skip, NotAFork, Enter, Usable, Unusable, Present, Wanted
<1>4. ASSUME LoopEnds PROVE BehindInv'
  BY <1>4 DEF LoopEnds, Exit
<1>5. ASSUME Clone PROVE BehindInv'
  BY <1>5 DEF Clone, Exit, Processed
<1>6. ASSUME Remote PROVE BehindInv'
  BY <1>6 DEF Remote, Exit, Processed, SubshellFails
<1>7. ASSUME AddUpstream PROVE BehindInv'
  BY <1>7 DEF AddUpstream, Exit, SubshellFails
<1>8. ASSUME Fetch PROVE BehindInv'
  BY <1>8 DEF Fetch, Exit, Processed, SubshellFails
<1>9. ASSUME Kill PROVE BehindInv'
  BY <1>9 DEF Kill, Exit
<1>10. ASSUME Return PROVE BehindInv'
  BY <1>10 DEF Return
<1>11. ASSUME World PROVE BehindInv'
  BY <1>11 DEF World, CacheUpdated, GitHubChanges, UserChanges, Change
<1>12. CASE UNCHANGED vars
  BY <1>12 DEF vars
<1>13. QED
  BY <1>1, <1>2, <1>3, <1>4, <1>5, <1>6, <1>7, <1>8, <1>9, <1>10, <1>11, <1>12 DEF Next, Program

(* Only the end of the loop exits with 0 when no subshell has failed. *)
LEMMA EndStep ==
    ASSUME TypeOK, EndInv, [Next]_vars
    PROVE  EndInv'
<1> USE NoRepoAssumption
<1> USE DEF TypeOK, EndInv, Succeeded, world, trees, options, progress, history
<1>1. ASSUME Start PROVE EndInv'
  BY <1>1 DEF Start
<1>2. ASSUME List PROVE EndInv'
  BY <1>2 DEF List, Exit
<1>3. ASSUME NEW r \in Repos, ReadLine(r) PROVE EndInv'
  BY <1>3 DEF ReadLine, Skip, NotAFork, Enter, Usable, Unusable, Present, Wanted
<1>4. ASSUME LoopEnds PROVE EndInv'
  BY <1>4 DEF LoopEnds, Exit
<1>5. ASSUME Clone PROVE EndInv'
  BY <1>5 DEF Clone, Exit, Processed
<1>6. ASSUME Remote PROVE EndInv'
  BY <1>6 DEF Remote, Exit, Processed, SubshellFails
<1>7. ASSUME AddUpstream PROVE EndInv'
  BY <1>7 DEF AddUpstream, Exit, SubshellFails
<1>8. ASSUME Fetch PROVE EndInv'
  BY <1>8 DEF Fetch, Exit, Processed, SubshellFails
<1>9. ASSUME Kill PROVE EndInv'
  BY <1>9 DEF Kill, Exit
<1>10. ASSUME Return PROVE EndInv'
  BY <1>10 DEF Return
<1>11. ASSUME World PROVE EndInv'
  BY <1>11 DEF World, CacheUpdated, GitHubChanges, UserChanges, Change
<1>12. CASE UNCHANGED vars
  BY <1>12 DEF vars
<1>13. QED
  BY <1>1, <1>2, <1>3, <1>4, <1>5, <1>6, <1>7, <1>8, <1>9, <1>10, <1>11, <1>12 DEF Next, Program

LEMMA StepInvariant ==
    ASSUME TypeOK, IInv, [Next]_vars
    PROVE  IInv'
BY ListStep, MissingStep, ProcessedStep, BehindStep, EndStep DEF IInv

(* The book that the program keeps is right in every state of a run. *)
THEOREM Accounting == Spec => []IInv
<1>1. Init => IInv
  BY DEF Init, IInv, ListInv, MissingInv, ProcessedInv, BehindInv, EndInv, Unended, Succeeded
<1>2. TypeOK /\ IInv /\ [Next]_vars => IInv'
  BY StepInvariant
<1>3. QED
  BY <1>1, <1>2, TypeCorrect, PTL DEF Spec

----------------------------------------------------------------------------
(***************************************************************************)
(* What follows for a run                                                  *)
(***************************************************************************)

(* With --missing-only nothing is fetched or processed but what was missing
   at the start, in runs that fail, or are killed, too. *)
THEOREM MissingOnlyHolds == Spec => []MissingOnly
<1>1. IInv => MissingOnly
  BY DEF IInv, MissingInv, MissingOnly
<1>2. QED
  BY <1>1, Accounting, PTL

(* A run that exits with 0 and in which no subshell failed has fetched every
   fork that it was to fetch. *)
THEOREM SuccessHolds == Spec => []SuccessMeansFetched
<1>1. TypeOK /\ IInv => SuccessMeansFetched
  <2> SUFFICES ASSUME TypeOK, IInv, Succeeded,
                      NEW r \in list0 \cap fork,
                      Wanted(r), dir[r] = "git", remote[r] # "none",
                      ~(missing /\ dir0[r] # "none")
               PROVE  r \in fetched
    BY DEF SuccessMeansFetched
  <2>1. pc # "idle" /\ cur = NoRepo /\ lines = {}
    BY DEF Succeeded, IInv, EndInv, TypeOK
  <2>2. r \in Behind
    BY <2>1, NoRepoAssumption DEF Behind, TypeOK
  <2>3. r \in processed
    BY <2>2 DEF IInv, BehindInv, LeftOut
  <2>4. QED
    BY <2>1, <2>3 DEF IInv, ProcessedInv
<1>2. QED
  BY <1>1, TypeCorrect, Accounting, PTL

(* After such a run what was requested by name is in a git working directory. *)
THEOREM RequestedHolds == Spec => []RequestedIsThere
<1>1. IInv => RequestedIsThere
  BY DEF IInv, EndInv, ProcessedInv, Succeeded, RequestedIsThere
<1>2. QED
  BY <1>1, Accounting, PTL

----------------------------------------------------------------------------
(***************************************************************************)
(* What the program leaves alone                                           *)
(***************************************************************************)

(* What is known of a repository when the subshell changes it: where there is
   no directory there is no remote. *)
HandInv ==
    /\ \A r \in Repos : dir[r] = "none" => remote[r] = "none"
    /\ pc \in {"clone", "remote", "query", "fetch"} => Wanted(cur)
    /\ pc = "clone" => dir[cur] = "none" /\ clone
    /\ pc = "query" => remote[cur] = "none" /\ addUpstream

LEMMA HandStep == TypeOK /\ HandInv /\ [Next]_vars => HandInv'
<1> SUFFICES ASSUME TypeOK, HandInv, [Next]_vars PROVE HandInv'
  OBVIOUS
<1> USE DEF TypeOK, HandInv, world, trees, options, progress, history, Wanted
<1>1. ASSUME Start PROVE HandInv'
  BY <1>1 DEF Start
<1>2. ASSUME List \/ LoopEnds PROVE HandInv'
  BY <1>2 DEF List, LoopEnds, Exit
<1>3. ASSUME NEW r \in Repos, ReadLine(r) PROVE HandInv'
  BY <1>3 DEF ReadLine, Skip, NotAFork, Enter, Usable, Unusable
<1>4. ASSUME Clone PROVE HandInv'
  BY <1>4 DEF Clone, Exit, Processed
<1>5. ASSUME Remote PROVE HandInv'
  BY <1>5 DEF Remote, Exit, Processed, SubshellFails
<1>6. ASSUME AddUpstream PROVE HandInv'
  BY <1>6 DEF AddUpstream, Exit, SubshellFails
<1>7. ASSUME Fetch PROVE HandInv'
  BY <1>7 DEF Fetch, Exit, Processed, SubshellFails
<1>8. ASSUME Kill PROVE HandInv'
  BY <1>8 DEF Kill, Exit
<1>9. ASSUME Return PROVE HandInv'
  BY <1>9 DEF Return
<1>10. ASSUME CacheUpdated \/ \E r \in Repos : GitHubChanges(r) PROVE HandInv'
  BY <1>10 DEF CacheUpdated, GitHubChanges, Change
<1>11. ASSUME NEW r \in Repos, UserChanges(r) PROVE HandInv'
  BY <1>11 DEF UserChanges, Change, Dirs
<1>12. CASE UNCHANGED vars
  BY <1>12 DEF vars
<1>13. QED
  BY <1>1, <1>2, <1>3, <1>4, <1>5, <1>6, <1>7, <1>8, <1>9, <1>10, <1>11, <1>12
     DEF Next, Program, World

(* No directory and no remote that the user has is touched, in any run, on any
   repository, whatever fails. *)
THEOREM TreesAreLeftAlone == Spec => LeavesTreesAlone
<1>1. Init => HandInv
  BY DEF Init, HandInv
<1>2. TypeOK /\ HandInv /\ [Next]_vars =>
        [pc # "idle" =>
           \A r \in Repos :
               /\ dir'[r] # dir[r] => dir[r] = "none" /\ clone /\ Wanted(r)
               /\ remote'[r] # remote[r] =>
                    /\ remote[r] = "none" /\ Wanted(r)
                    /\ addUpstream \/ dir[r] = "none"]_vars
  <2> SUFFICES ASSUME TypeOK, HandInv, Next, pc # "idle", NEW r \in Repos
               PROVE  /\ dir'[r] # dir[r] => dir[r] = "none" /\ clone /\ Wanted(r)
                      /\ remote'[r] # remote[r] =>
                           /\ remote[r] = "none" /\ Wanted(r)
                           /\ addUpstream \/ dir[r] = "none"
    OBVIOUS
  <2> USE DEF TypeOK, HandInv, trees
  <2>1. CASE Clone
    BY <2>1 DEF Clone
  <2>2. CASE AddUpstream
    BY <2>2 DEF AddUpstream
  <2>3. CASE Kill
    BY <2>3 DEF Kill
  <2>4. CASE UNCHANGED trees
    BY <2>4
  <2>5. QED
    BY <2>1, <2>2, <2>3, <2>4 DEF Next, Start, Program, Return, World, List, ReadLine, LoopEnds,
       Remote, Fetch, CacheUpdated, GitHubChanges, UserChanges
<1>3. QED
  BY <1>1, <1>2, HandStep, TypeCorrect, PTL DEF Spec, LeavesTreesAlone

----------------------------------------------------------------------------
(***************************************************************************)
(* FetchAll implements EachInTurn.                                         *)
(***************************************************************************)

(* Where these stay as they are there is nothing to see from outside. *)
LEMMA UnseenStep ==
    ASSUME UNCHANGED <<trees, pc, options, progress, failed>>
    PROVE  UNCHANGED Turn!vars
BY DEF Turn!vars, RunPhase, Succeeded, Todo, Hand, Tree, trees, options, progress

(* A step that leaves the directories alone but those of the repository at
   hand. *)
LEMMA HandOnly ==
    ASSUME TypeOK, TypeOK',
           \A r \in Repos : r # cur => dir'[r] = dir[r] /\ remote'[r] = remote[r]
    PROVE  Turn!OthersUntouched
<1>1. Tree' \in [Repos -> Dirs \X Remotes]
  BY TypeOK' DEF TypeOK, Tree
<1>2. ASSUME NEW r \in Repos \ Hand PROVE Tree'[r] = Tree[r]
  BY <1>2, NoRepoAssumption DEF Tree, Hand
<1>3. QED
  BY <1>1, <1>2 DEF Turn!OthersUntouched

(* The repository at hand is worked on, processed, or the end of the run. *)
LEMMA HandStepTurn ==
    ASSUME TypeOK, TypeOK', cur # NoRepo,
           \A r \in Repos : r # cur => dir'[r] = dir[r] /\ remote'[r] = remote[r],
           UNCHANGED <<options, lines>>,
           \/ pc' \in {"clone", "remote", "query", "fetch"} /\ UNCHANGED <<cur, processed>>
           \/ Processed
           \/ Exit(1) /\ UNCHANGED processed
           \/ SubshellFails
    PROVE  Turn!Next
<1> USE DEF options
<1>1. Turn!OthersUntouched
  BY HandOnly
<1>2. RunPhase = "running" /\ Todo = lines /\ Hand = {cur}
  BY DEF RunPhase, Todo, Hand, TypeOK
<1>3. CASE pc' \in {"clone", "remote", "query", "fetch"} /\ UNCHANGED <<cur, processed>>
  <2>1. RunPhase' = "running" /\ Todo' = lines /\ Hand' = Hand
    BY <1>3 DEF RunPhase, Todo, Hand
  <2>2. Turn!Work
    BY <1>1, <1>2, <1>3, <2>1 DEF Turn!Work
  <2>3. QED
    BY <1>2, <2>2 DEF Turn!Next, Turn!Run
<1>4. CASE Processed
  <2>1. RunPhase' = "running" /\ Todo' = lines /\ Hand' = {}
    BY <1>4 DEF Processed, RunPhase, Todo, Hand
  <2>2. Turn!Complete
    BY <1>1, <1>2, <1>4, <2>1 DEF Turn!Complete, Processed
  <2>3. QED
    BY <1>2, <2>2 DEF Turn!Next, Turn!Run
<1>5. CASE \/ Exit(1) /\ UNCHANGED processed
           \/ SubshellFails
  <2>1. RunPhase' = "failed" /\ Todo' = lines /\ Hand' = {} /\ UNCHANGED processed
    BY <1>5 DEF Exit, SubshellFails, Succeeded, RunPhase, Todo, Hand
  <2>2. Turn!Fail
    BY <1>1, <1>2, <2>1 DEF Turn!Fail
  <2>3. QED
    BY <1>2, <2>2 DEF Turn!Next, Turn!Run
<1>6. QED
  BY <1>3, <1>4, <1>5

(* Every step of the program is a step of EachInTurn, or not seen there. *)
LEMMA StepInTurn ==
    ASSUME TypeOK, TypeOK', [Next]_vars
    PROVE  [Turn!Next]_(Turn!vars)
<1> USE DEF options, progress, history, world
<1>1. ASSUME Start PROVE Turn!Next
  <2>1. RunPhase = "idle" /\ RunPhase' = "running" /\ Todo' = Repos /\ Hand' = {}
    BY <1>1 DEF Start, RunPhase, Todo, Hand
  <2>2. Tree' = Tree
    BY <1>1 DEF Start, Tree, trees
  <2>3. Turn!Start
    BY <1>1, <2>1, <2>2 DEF Start, Turn!Start
  <2>4. QED
    BY <2>3 DEF Turn!Next
<1>2. ASSUME List PROVE Turn!Next
  <2>1. RunPhase = "running" /\ Todo = Repos /\ Hand = {}
    BY <1>2 DEF List, RunPhase, Todo, Hand, TypeOK
  <2>2. UNCHANGED <<dir, remote, requested, processed>>
    BY <1>2 DEF List, trees
  <2>3. Hand' = {} /\ Todo' \in SUBSET Repos
    BY <1>2 DEF List, Exit, Todo, Hand, TypeOK
  <2>4. Turn!OthersUntouched
    BY <2>2, HandOnly
  <2>5. CASE pc' = "next"
    <3>1. RunPhase' = "running"
      BY <2>5 DEF RunPhase
    <3>2. Turn!PassOver
      <4>1. Tree' = Tree
        BY <2>2 DEF Tree
      <4>2. QED
        BY <2>1, <2>2, <2>3, <3>1, <4>1 DEF Turn!PassOver
    <3>3. QED
      BY <2>1, <3>2 DEF Turn!Next, Turn!Run
  <2>6. CASE Exit(1)
    <3>1. RunPhase' = "failed"
      BY <2>6 DEF RunPhase, Succeeded, Exit
    <3>2. Turn!Fail
      BY <2>1, <2>2, <2>3, <2>4, <3>1 DEF Turn!Fail
    <3>3. QED
      BY <2>1, <3>2 DEF Turn!Next, Turn!Run
  <2>7. QED
    BY <1>2, <2>5, <2>6 DEF List
<1>3. ASSUME NEW r \in Repos, ReadLine(r) PROVE Turn!Next
  <2>1. RunPhase = "running" /\ Todo = lines /\ Hand = {}
    BY <1>3 DEF ReadLine, RunPhase, Todo, Hand, TypeOK
  <2>2. Tree' = Tree /\ UNCHANGED <<requested>> /\ r \in lines /\ lines' = lines \ {r}
    BY <1>3 DEF ReadLine, Tree, trees
  <2>3. RunPhase' = "running" /\ Todo' = lines \ {r}
    BY <1>3 DEF ReadLine, Skip, NotAFork, Enter, RunPhase, Todo
  <2>4. CASE Skip(r) \/ NotAFork(r)
    <3>1. Hand' = {}
      BY <1>3, <2>1, <2>4 DEF Skip, NotAFork, Hand
    <3>2. CASE Skip(r)
      <4>1. UNCHANGED processed
        BY <3>2 DEF Skip
      <4>2. Turn!PassOver
        BY <2>1, <2>2, <2>3, <3>1, <4>1 DEF Turn!PassOver
      <4>3. QED
        BY <2>1, <4>2 DEF Turn!Next, Turn!Run
    <3>3. CASE NotAFork(r)
      <4>1. processed' = processed \cup {r} /\ Turn!Meant(r)
        BY <3>3 DEF NotAFork, Usable, Wanted, Turn!Meant
      <4>2. Turn!PassOver
        BY <2>1, <2>2, <2>3, <3>1, <4>1 DEF Turn!PassOver
      <4>3. QED
        BY <2>1, <4>2 DEF Turn!Next, Turn!Run
    <3>4. QED
      BY <2>4, <3>2, <3>3
  <2>5. CASE Enter(r)
    <3>1. Hand' = {r} /\ UNCHANGED processed /\ Turn!Meant(r)
      BY <2>5, NoRepoAssumption DEF Enter, Hand, Usable, Wanted, Turn!Meant
    <3>2. Turn!TakeUp(r)
      BY <2>1, <2>2, <2>3, <3>1 DEF Turn!TakeUp
    <3>3. QED
      BY <2>1, <3>2 DEF Turn!Next, Turn!Run
  <2>6. QED
    BY <1>3, <2>4, <2>5 DEF ReadLine
<1>4. ASSUME LoopEnds PROVE Turn!Next
  <2>1. RunPhase = "running" /\ Todo = {} /\ Hand = {}
    BY <1>4 DEF LoopEnds, RunPhase, Todo, Hand, TypeOK
  <2>2. UNCHANGED <<dir, remote, requested, processed>> /\ Tree' = Tree
    BY <1>4 DEF LoopEnds, trees, Tree
  <2>3. Hand' = {} /\ Todo' = {}
    BY <1>4 DEF LoopEnds, Exit, Todo, Hand
  <2>4. CASE RunPhase' = "succeeded"
    <3>1. requested \subseteq processed
      BY <1>4, <2>4 DEF LoopEnds, Exit, RunPhase, Succeeded
    <3>2. Turn!Succeed
      BY <2>1, <2>2, <2>3, <2>4, <3>1 DEF Turn!Succeed
    <3>3. QED
      BY <2>1, <3>2 DEF Turn!Next, Turn!Run
  <2>5. CASE RunPhase' = "failed"
    <3>1. Turn!Fail
      BY <2>1, <2>2, <2>3, <2>5, HandOnly DEF Turn!Fail
    <3>2. QED
      BY <2>1, <3>1 DEF Turn!Next, Turn!Run
  <2>6. QED
    BY <1>4, <2>4, <2>5 DEF LoopEnds, Exit, RunPhase
<1>5. ASSUME Clone PROVE Turn!Next
  <2>1. cur # NoRepo
    BY <1>5 DEF Clone, TypeOK
  <2>2. \A r \in Repos : r # cur => dir'[r] = dir[r] /\ remote'[r] = remote[r]
    BY <1>5 DEF Clone, TypeOK, trees
  <2>3. QED
    BY <1>5, <2>1, <2>2, HandStepTurn DEF Clone
<1>6. ASSUME Remote PROVE Turn!Next
  BY <1>6, HandStepTurn DEF Remote, TypeOK, trees
<1>7. ASSUME AddUpstream PROVE Turn!Next
  <2>1. cur # NoRepo
    BY <1>7 DEF AddUpstream, TypeOK
  <2>2. \A r \in Repos : r # cur => dir'[r] = dir[r] /\ remote'[r] = remote[r]
    BY <1>7 DEF AddUpstream, TypeOK
  <2>3. QED
    BY <1>7, <2>1, <2>2, HandStepTurn DEF AddUpstream
<1>8. ASSUME Fetch PROVE Turn!Next
  BY <1>8, HandStepTurn DEF Fetch, TypeOK, trees
<1>9. ASSUME Kill PROVE Turn!Next
  <2>1. RunPhase = "running" /\ lines \in SUBSET Todo
    BY <1>9 DEF Kill, RunPhase, Todo, TypeOK
  <2>2. \A r \in Repos : r # cur => dir'[r] = dir[r] /\ remote'[r] = remote[r]
    BY <1>9 DEF Kill, TypeOK, trees
  <2>3. RunPhase' = "failed" /\ Todo' = lines /\ Hand' = {}
    BY <1>9 DEF Kill, Exit, RunPhase, Succeeded, Todo, Hand
  <2>4. UNCHANGED <<requested, processed>>
    BY <1>9 DEF Kill
  <2>5. Turn!Fail
    BY <2>1, <2>2, <2>3, <2>4, HandOnly DEF Turn!Fail
  <2>6. QED
    BY <2>1, <2>5 DEF Turn!Next, Turn!Run
<1>10. ASSUME Return PROVE Turn!Next
  <2>1. RunPhase \in {"succeeded", "failed"} /\ RunPhase' = "idle"
    BY <1>10 DEF Return, RunPhase
  <2>2. UNCHANGED <<requested, Todo, Hand, processed, Tree>>
    BY <1>10 DEF Return, Todo, Hand, Tree, trees
  <2>3. Turn!Return
    BY <2>1, <2>2 DEF Turn!Return
  <2>4. QED
    BY <2>3 DEF Turn!Next
<1>11. ASSUME CacheUpdated \/ \E r \in Repos : GitHubChanges(r) PROVE UNCHANGED Turn!vars
  BY <1>11, UnseenStep DEF CacheUpdated, GitHubChanges, Change
<1>12. ASSUME NEW r \in Repos, UserChanges(r) PROVE Turn!Next
  <2>1. pc = "idle" /\ UNCHANGED <<pc, requested, lines, cur, processed>>
    BY <1>12 DEF UserChanges, Change
  <2>2. RunPhase = "idle" /\ UNCHANGED <<RunPhase, requested, Todo, Hand, processed>>
    BY <2>1 DEF RunPhase, Todo, Hand
  <2>3. Tree' \in [Repos -> Dirs \X Remotes]
    BY TypeOK' DEF TypeOK, Tree
  <2>4. Turn!UserWorks
    BY <2>2, <2>3 DEF Turn!UserWorks
  <2>5. QED
    BY <2>4 DEF Turn!Next
<1>13. ASSUME UNCHANGED vars PROVE UNCHANGED Turn!vars
  BY <1>13, UnseenStep DEF vars
<1>14. QED
  BY <1>1, <1>2, <1>3, <1>4, <1>5, <1>6, <1>7, <1>8, <1>9, <1>10, <1>11, <1>12, <1>13
     DEF Next, Program, World

(* The program takes up one repository at a time, touches no other, and
   succeeds only when all that was asked for is done: in every run, whatever
   fails in it and whatever changes at GitHub meanwhile. *)
THEOREM ReposAreFetchedInTurn == Spec => FetchesInTurn
<1>1. Init => Turn!Init
  <2> SUFFICES ASSUME Init PROVE Turn!Init
    OBVIOUS
  <2>1. RunPhase = "idle" /\ Todo = {} /\ Hand = {} /\ requested = {} /\ processed = {}
    BY DEF Init, RunPhase, Todo, Hand
  <2>2. Tree \in [Repos -> Dirs \X Remotes]
    BY DEF Init, Tree, Dirs, Remotes
  <2>3. QED
    BY <2>1, <2>2 DEF Turn!Init
<1>2. TypeOK /\ TypeOK' /\ [Next]_vars => [Turn!Next]_(Turn!vars)
  BY StepInTurn
<1>3. QED
  BY <1>1, <1>2, TypeCorrect, PTL DEF Spec, FetchesInTurn, Turn!Spec
============================================================================
