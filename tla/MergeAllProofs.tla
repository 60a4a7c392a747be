--------------------------- MODULE MergeAllProofs ---------------------------
(***************************************************************************)
(* Proofs about MergeAll, for any set of repositories, any number of pages *)
(* and runs, any options and whichever steps fail.                         *)
(***************************************************************************)
EXTENDS MergeAll, Sequences, FiniteSetTheorems, TLAPS

Working == {"inspect", "checkout", "merge", "push", "restore", "done"}

ProgressOK ==
    /\ pc \in {"idle", "count", "pages", "first", "next", "exited"} \cup Working
    /\ processed \subseteq Repos
    /\ cur \in Repos \cup {NoRepo}
    /\ cur \in Repos <=> pc \in Working
    /\ continued \in BOOLEAN /\ status \in {0, 1, 100}

LEMMA SubshellEndsType ==
    ASSUME TypeOK, cur \in Repos, NEW estat, SubshellEnds(estat)
    PROVE  ProgressOK' /\ prev' \in Heads
<1>1. pc' \in {"next", "exited"} /\ status' \in {0, 1, 100}
  BY DEF TypeOK, SubshellEnds
<1>2. processed' \subseteq Repos /\ cur' = NoRepo /\ prev' \in Heads
  BY DEF TypeOK, SubshellEnds, Heads
<1>3. continued' \in BOOLEAN
  BY Zenon DEF SubshellEnds
<1>4. QED
  BY <1>1, <1>2, <1>3, NoRepoAssumption DEF ProgressOK, Working

LEMMA GoOnType ==
    ASSUME TypeOK, cur \in Repos, NEW step \in Working, GoOn(step)
    PROVE  ProgressOK'
BY DEF TypeOK, GoOn, ProgressOK, Working

(* Every variable keeps its type. *)
THEOREM TypeCorrect == Spec => []TypeOK
<1>1. Init => TypeOK
  <2> SUFFICES ASSUME Init PROVE TypeOK
    OBVIOUS
  <2> USE PagesAssumption, OptionsAssumption, BoundsAssumption, NoRepoAssumption
  <2> USE DEF Init
  <2>1. /\ head \in [Repos -> Heads] /\ head0 \in [Repos -> Heads] /\ prev \in Heads
        /\ kind \in [Repos -> Kinds] /\ pageOf \in [Repos -> 1..NPages]
    BY DEF Heads
  <2>2. /\ local \in [Repos -> SUBSET Commits] /\ upstream \in [Repos -> SUBSET Commits]
        /\ origin \in [Repos -> SUBSET Commits] /\ local0 \in [Repos -> SUBSET Commits]
        /\ upstream0 \in [Repos -> SUBSET Commits]
    BY Zenon
  <2>3. mods \in [Repos -> BOOLEAN] /\ keep \in BOOLEAN /\ stop \in BOOLEAN
        /\ continued \in BOOLEAN
    BY Zenon
  <2>4. /\ requested \subseteq Repos /\ lines \subseteq Repos /\ processed \subseteq Repos
        /\ cur = NoRepo /\ pc = "idle" /\ push \in 0..2 /\ total \in {Unknown, NPages}
        /\ page \in 0..(NPages + 2) /\ status = 0 /\ changes \in 0..MaxChanges
        /\ runs \in 0..MaxRuns
    BY DEF Unknown
  <2>5. QED
    BY <2>1, <2>2, <2>3, <2>4 DEF TypeOK
<1>2. TypeOK /\ [Next]_vars => TypeOK'
  <2> SUFFICES ASSUME TypeOK, [Next]_vars PROVE TypeOK'
    OBVIOUS
  <2> USE PagesAssumption, OptionsAssumption, BoundsAssumption, NoRepoAssumption
  <2> USE DEF TypeOK, repos, trees, options, listing, results, history
  <2>1. ASSUME Start PROVE TypeOK'
    <3>1. keep' \in BOOLEAN /\ stop' \in BOOLEAN /\ continued' \in BOOLEAN
      BY <2>1, Zenon DEF Start
    <3>2. /\ push' \in 0..2 /\ requested' \subseteq Repos /\ runs' \in 0..MaxRuns
          /\ total' \in {Unknown, NPages} /\ page' \in 0..(NPages + 2) /\ changes' = changes
          /\ pc' = "count" /\ cur' = NoRepo /\ status' = 0
          /\ lines' \subseteq Repos /\ processed' \subseteq Repos
      BY <2>1 DEF Start
    <3>3. /\ head0' = head /\ local0' = local /\ upstream0' = upstream
          /\ UNCHANGED <<kind, pageOf, mods, head, local, origin, upstream, prev>>
      BY <2>1 DEF Start
    <3>4. QED
      BY <3>1, <3>2, <3>3
  <2>2. ASSUME Count PROVE TypeOK'
    BY <2>2 DEF Count
  <2>3. ASSUME GetPage PROVE TypeOK'
    BY <2>3 DEF GetPage, Listed
  <2>4. ASSUME FirstLine PROVE TypeOK'
    BY <2>4 DEF FirstLine
  <2>5. ASSUME NEW r \in Repos, ReadLine(r) PROVE TypeOK'
    BY <2>5 DEF ReadLine, Skip, NotAFork, Enter
  <2>6. ASSUME LoopEnds PROVE TypeOK'
    BY <2>6 DEF LoopEnds
  <2>7. ASSUME Inspect PROVE TypeOK'
    <3>1. cur \in Repos
      BY <2>7 DEF Inspect
    <3>2. ProgressOK' /\ prev' \in Heads
      <4>1. CASE \E estat \in {0, 1, 100, 101} : SubshellEnds(estat)
        BY <3>1, <4>1, SubshellEndsType
      <4>2. CASE \E step \in {"merge", "checkout"} : GoOn(step) /\ UNCHANGED prev
        BY <3>1, <4>2, GoOnType DEF Working
      <4>3. QED
        BY <2>7, <4>1, <4>2 DEF Inspect
    <3>3. QED
      BY <2>7, <3>2 DEF Inspect, ProgressOK, Working
  <2>8. ASSUME Checkout PROVE TypeOK'
    BY <2>8 DEF Checkout, SubshellEnds, GoOn, Heads
  <2>9. ASSUME Merge PROVE TypeOK'
    <3>1. cur \in Repos
      BY <2>9 DEF Merge
    <3>2. ProgressOK' /\ prev' \in Heads
      <4>1. CASE SubshellEnds(99)
        BY <3>1, <4>1, SubshellEndsType
      <4>2. CASE GoOn(AfterMerge) /\ UNCHANGED prev
        <5>1. AfterMerge \in Working
          BY DEF AfterMerge, Working
        <5>2. QED
          BY <3>1, <4>2, <5>1, GoOnType
      <4>3. QED
        BY <2>9, <4>1, <4>2 DEF Merge
    <3>3. local' \in [Repos -> SUBSET Commits]
      BY <2>9 DEF Merge
    <3>4. QED
      BY <2>9, <3>2, <3>3 DEF Merge, ProgressOK, Working
  <2>10. ASSUME Push PROVE TypeOK'
    <3>1. cur \in Repos
      BY <2>10 DEF Push
    <3>2. ProgressOK' /\ prev' \in Heads
      <4>1. CASE SubshellEnds(1)
        BY <3>1, <4>1, SubshellEndsType
      <4>2. CASE (\E step \in {"done", "restore"} : GoOn(step)) /\ UNCHANGED prev
        BY <3>1, <4>2, GoOnType DEF Working
      <4>3. QED
        BY <2>10, <4>1, <4>2 DEF Push
    <3>3. origin' \in [Repos -> SUBSET Commits]
      BY <2>10 DEF Push
    <3>4. QED
      BY <2>10, <3>2, <3>3 DEF Push, ProgressOK, Working
  <2>11. ASSUME Restore PROVE TypeOK'
    BY <2>11 DEF Restore, SubshellEnds, Heads
  <2>12. ASSUME NothingToRestore PROVE TypeOK'
    <3>1. cur \in Repos /\ SubshellEnds(0)
      BY <2>12 DEF NothingToRestore
    <3>2. ProgressOK' /\ prev' \in Heads
      BY <3>1, SubshellEndsType
    <3>3. QED
      BY <2>12, <3>2 DEF NothingToRestore, ProgressOK, Working
  <2>13. ASSUME Kill PROVE TypeOK'
    BY <2>13 DEF Kill, Heads
  <2>14. ASSUME Return PROVE TypeOK'
    BY <2>14 DEF Return
  <2>15. ASSUME World PROVE TypeOK'
    <3> USE DEF Change
    <3>1. ASSUME NEW r \in Repos, Fetched(r) PROVE TypeOK'
      BY <3>1 DEF Fetched, Commits
    <3>2. ASSUME NEW r \in Repos, OthersPush(r) PROVE TypeOK'
      BY <3>2 DEF OthersPush, Commits
    <3>3. ASSUME NEW r \in Repos, UserCommits(r) PROVE TypeOK'
      BY <3>3 DEF UserCommits, Commits
    <3>4. ASSUME NEW r \in Repos, UserEdits(r) PROVE TypeOK'
      <4>1. mods' \in [Repos -> BOOLEAN]
        BY <3>4, Zenon DEF UserEdits
      <4>2. changes' \in 0..MaxChanges
        BY <3>4 DEF UserEdits
      <4>3. QED
        BY <3>4, <4>1, <4>2 DEF UserEdits
    <3>5. ASSUME NEW r \in Repos, NEW h \in Heads, UserChecksOut(r, h) PROVE TypeOK'
      BY <3>5 DEF UserChecksOut
    <3>6. QED
      BY <2>15, <3>1, <3>2, <3>3, <3>4, <3>5 DEF World
  <2>16. CASE UNCHANGED vars
    BY <2>16 DEF vars
  <2>17. QED
    BY <2>1, <2>2, <2>3, <2>4, <2>5, <2>6, <2>7, <2>8, <2>9, <2>10, <2>11, <2>12, <2>13,
       <2>14, <2>15, <2>16
       DEF Next, Program, Subshell
<1>3. QED
  BY <1>1, <1>2, PTL DEF Spec

----------------------------------------------------------------------------
(***************************************************************************)
(* What HEAD is in each repository.  A repository whose line is yet to be  *)
(* read is as it was, and one line is never read twice; of the repository  *)
(* at hand the program knows in prev what it was.                          *)
(***************************************************************************)
Reading == {"count", "pages", "first"}

AtHand ==
    /\ cur \notin lines /\ cur \notin processed
    /\ pc = "inspect" => prev = "default" /\ head[cur] = head0[cur]
    /\ pc = "checkout" => head[cur] = head0[cur]
    /\ pc \in {"merge", "push"} => head[cur] = "default" /\ head0[cur] = prev
    /\ pc = "restore" => head0[cur] = prev
    /\ pc = "done" => head[cur] = head0[cur]

HeadInv ==
    /\ pc \in Reading => processed = {} /\ head = head0
    /\ pc \in {"idle", "next", "exited"} \cup Reading => prev = "default"
    /\ pc # "idle" => lines \cap processed = {}
    /\ pc # "idle" => \A r \in lines \cup processed : head[r] = head0[r]
    /\ pc \in Working => AtHand

LEMMA SubshellEndsHead ==
    ASSUME TypeOK, HeadInv, pc \in Working, NEW estat, SubshellEnds(estat),
           UNCHANGED <<lines, head0>>,
           head'[cur] = head0[cur] \/ ~Success(estat),
           \A r \in Repos \ {cur} : head'[r] = head[r]
    PROVE  HeadInv'
<1>1. cur \in Repos /\ cur \notin lines /\ cur \notin processed
  BY DEF TypeOK, HeadInv, AtHand, Working
<1>2. pc' \in {"next", "exited"} /\ prev' = "default"
      /\ processed' \subseteq processed \cup {cur}
      /\ (~Success(estat) => processed' = processed)
  BY DEF SubshellEnds
<1>3. lines \cap processed = {} /\ \A r \in lines \cup processed : head[r] = head0[r]
  BY DEF HeadInv, Working
<1>4. lines \subseteq Repos /\ processed \subseteq Repos
  BY DEF TypeOK
<1>5. \A r \in lines \cup processed : head'[r] = head0'[r]
  BY <1>1, <1>3, <1>4
<1>6. \A r \in lines' \cup processed' : head'[r] = head0'[r]
  BY <1>2, <1>5
<1>7. QED
  BY <1>1, <1>2, <1>3, <1>6 DEF HeadInv, Reading, Working

LEMMA HeadStep == TypeOK /\ HeadInv /\ [Next]_vars => HeadInv'
<1> SUFFICES ASSUME TypeOK, HeadInv, [Next]_vars PROVE HeadInv'
  OBVIOUS
<1> USE DEF repos, options, listing, results, history, Reading, Working
<1>1. ASSUME Start PROVE HeadInv'
  BY <1>1 DEF Start, trees, HeadInv
<1>2. ASSUME Count PROVE HeadInv'
  BY <1>2 DEF Count, trees, HeadInv
<1>3. ASSUME GetPage PROVE HeadInv'
  BY <1>3 DEF GetPage, trees, HeadInv
<1>4. ASSUME FirstLine PROVE HeadInv'
  BY <1>4 DEF FirstLine, trees, HeadInv
<1>5. ASSUME NEW r \in Repos, ReadLine(r) PROVE HeadInv'
  <2>1. /\ pc = "next" /\ r \in lines /\ lines' = lines \ {r} /\ r \notin processed
        /\ UNCHANGED <<head, head0, prev>> /\ prev = "default" /\ head[r] = head0[r]
    BY <1>5 DEF ReadLine, trees, HeadInv
  <2>2. CASE Skip(r)
    BY <2>1, <2>2 DEF Skip, HeadInv
  <2>3. CASE NotAFork(r)
    BY <2>1, <2>3 DEF NotAFork, HeadInv
  <2>4. CASE Enter(r)
    BY <2>1, <2>4 DEF Enter, HeadInv, AtHand
  <2>5. QED
    BY <1>5, <2>2, <2>3, <2>4 DEF ReadLine
<1>6. ASSUME LoopEnds PROVE HeadInv'
  BY <1>6 DEF LoopEnds, trees, HeadInv
<1>7. ASSUME Inspect PROVE HeadInv'
  <2>1. pc = "inspect" /\ cur \in Repos /\ UNCHANGED <<lines, head, head0>>
        /\ head[cur] = head0[cur] /\ prev = "default" /\ AtHand
    BY <1>7 DEF Inspect, trees, HeadInv, AtHand, TypeOK
  <2>2. CASE \E estat \in {0, 1, 100, 101} : SubshellEnds(estat)
    BY <2>1, <2>2, SubshellEndsHead
  <2>3. CASE GoOn(IF head[cur] = "default" THEN "merge" ELSE "checkout") /\ UNCHANGED prev
    BY <2>1, <2>3 DEF GoOn, HeadInv, AtHand
  <2>4. QED
    BY <1>7, <2>2, <2>3 DEF Inspect
<1>8. ASSUME Checkout PROVE HeadInv'
  <2>1. pc = "checkout" /\ cur \in Repos /\ UNCHANGED <<lines, head0>>
        /\ head[cur] = head0[cur] /\ AtHand
    BY <1>8 DEF Checkout, HeadInv, AtHand, TypeOK
  <2>2. CASE SubshellEnds(1) /\ UNCHANGED head
    BY <2>1, <2>2, SubshellEndsHead
  <2>3. CASE head' = [head EXCEPT ![cur] = "default"] /\ prev' = head[cur] /\ GoOn("merge")
    BY <2>1, <2>3 DEF GoOn, HeadInv, AtHand, TypeOK
  <2>4. QED
    BY <1>8, <2>2, <2>3 DEF Checkout
<1>9. ASSUME Merge PROVE HeadInv'
  <2>1. pc = "merge" /\ cur \in Repos /\ UNCHANGED <<lines, head, head0>>
        /\ head[cur] = "default" /\ head0[cur] = prev /\ AtHand
    BY <1>9 DEF Merge, HeadInv, AtHand, TypeOK
  <2>2. CASE SubshellEnds(99)
    BY <2>1, <2>2, SubshellEndsHead DEF Success
  <2>3. CASE GoOn(AfterMerge) /\ UNCHANGED prev
    <3>1. AfterMerge \in {"push", "restore", "done"}
          /\ (AfterMerge = "done" => prev = "default")
      BY DEF AfterMerge, TypeOK
    <3>2. QED
      BY <2>1, <2>3, <3>1 DEF GoOn, HeadInv, AtHand
  <2>4. QED
    BY <1>9, <2>2, <2>3 DEF Merge
<1>10. ASSUME Push PROVE HeadInv'
  <2>1. pc = "push" /\ cur \in Repos /\ UNCHANGED <<lines, head, head0>>
        /\ head[cur] = "default" /\ head0[cur] = prev /\ AtHand
    BY <1>10 DEF Push, HeadInv, AtHand, TypeOK
  <2>2. CASE SubshellEnds(1)
    BY <2>1, <2>2, SubshellEndsHead DEF Success
  <2>3. CASE GoOn(IF prev = "default" THEN "done" ELSE "restore") /\ UNCHANGED prev
    BY <2>1, <2>3 DEF GoOn, HeadInv, AtHand
  <2>4. QED
    BY <1>10, <2>2, <2>3 DEF Push
<1>11. ASSUME Restore PROVE HeadInv'
  <2>1. pc = "restore" /\ cur \in Repos /\ UNCHANGED <<lines, head0>> /\ head0[cur] = prev
    BY <1>11 DEF Restore, HeadInv, AtHand, TypeOK
  <2>2. CASE head' = [head EXCEPT ![cur] = prev] /\ SubshellEnds(0)
    BY <2>1, <2>2, SubshellEndsHead DEF TypeOK
  <2>3. CASE UNCHANGED head /\ SubshellEnds(1)
    BY <2>1, <2>3, SubshellEndsHead DEF Success
  <2>4. QED
    BY <1>11, <2>2, <2>3 DEF Restore
<1>12. ASSUME NothingToRestore PROVE HeadInv'
  <2>1. pc = "done" /\ cur \in Repos /\ UNCHANGED <<lines, head, head0>>
        /\ head[cur] = head0[cur] /\ SubshellEnds(0)
    BY <1>12 DEF NothingToRestore, trees, HeadInv, AtHand, TypeOK
  <2>2. QED
    BY <2>1, SubshellEndsHead
<1>13. ASSUME Kill PROVE HeadInv'
  BY <1>13 DEF Kill, trees, HeadInv
<1>14. ASSUME Return PROVE HeadInv'
  BY <1>14 DEF Return, trees, HeadInv
<1>15. ASSUME World PROVE HeadInv'
  <2>1. UNCHANGED <<pc, lines, cur, processed, prev, head0>> /\ (pc = "idle" \/ head' = head)
    BY <1>15 DEF World, Fetched, OthersPush, UserCommits, UserEdits, UserChecksOut, trees
  <2>2. QED
    BY <2>1 DEF HeadInv, AtHand
<1>16. CASE UNCHANGED vars
  BY <1>16 DEF vars, trees, HeadInv, AtHand
<1>17. QED
  BY <1>1, <1>2, <1>3, <1>4, <1>5, <1>6, <1>7, <1>8, <1>9, <1>10, <1>11, <1>12, <1>13,
     <1>14, <1>15, <1>16
     DEF Next, Program, Subshell

(* A processed repository has what it had checked out before, whatever fails. *)
THEOREM HeadsAreRestored == Spec => []ProcessedRestored
<1>1. Init => HeadInv
  BY DEF Init, HeadInv, Reading, Working
<1>2. HeadInv => ProcessedRestored
  BY DEF HeadInv, ProcessedRestored
<1>3. QED
  BY <1>1, <1>2, HeadStep, TypeCorrect, PTL DEF Spec

(* No commit of a local branch or of origin is ever lost. *)
THEOREM CommitsAreKept == Spec => NoLostCommits
<1> DEFINE Kept == \A r \in Repos : local[r] \subseteq local'[r] /\ origin[r] \subseteq origin'[r]
<1>1. TypeOK /\ [Next]_vars => [Kept]_vars
  <2> SUFFICES ASSUME TypeOK, [Next]_vars PROVE Kept
    OBVIOUS
  <2>1. CASE UNCHANGED <<local, origin>>
    BY <2>1
  <2>2. CASE Merge
    BY <2>2 DEF Merge, TypeOK
  <2>3. CASE Push
    BY <2>3 DEF Push, TypeOK
  <2>4. CASE World
    BY <2>4 DEF World, Fetched, OthersPush, UserCommits, UserEdits, UserChecksOut, trees, TypeOK
  <2>5. QED
    BY <2>1, <2>2, <2>3, <2>4
       DEF Next, Program, Subshell, Start, Count, GetPage, FirstLine, ReadLine, LoopEnds,
           Inspect, Checkout, Restore, NothingToRestore, Kill, Return, trees, vars
<1>2. QED
  BY <1>1, TypeCorrect, PTL DEF Spec, NoLostCommits

----------------------------------------------------------------------------
(* The subshell runs only for what was asked for, and moves HEAD only in a
   repository without uncommitted changes. *)
TouchInv ==
    /\ pc \in Working => Wanted(cur)
    /\ pc \in Working \ {"inspect"} => ~mods[cur]
    /\ pc = "push" => push > 0

LEMMA TouchStep == TypeOK /\ TouchInv /\ [Next]_vars => TouchInv'
<1> SUFFICES ASSUME TypeOK, TouchInv, [Next]_vars PROVE TouchInv'
  OBVIOUS
<1> USE DEF Working
<1>1. CASE pc' \notin Working
  BY <1>1 DEF TouchInv
<1>2. ASSUME NEW r \in Repos, ReadLine(r), pc' \in Working PROVE TouchInv'
  <2>1. pc' = "inspect" /\ cur' = r /\ Wanted(r) /\ requested' = requested
    BY <1>2 DEF ReadLine, Skip, NotAFork, Enter, options
  <2>2. QED
    BY <2>1 DEF TouchInv, Wanted
<1>3. ASSUME Inspect, pc' \in Working PROVE TouchInv'
  <2>1. /\ pc = "inspect" /\ ~mods[cur] /\ pc' \in {"merge", "checkout"} /\ cur' = cur
        /\ mods' = mods /\ requested' = requested
    BY <1>3 DEF Inspect, SubshellEnds, GoOn, repos, options
  <2>2. QED
    BY <2>1 DEF TouchInv, Wanted
<1>4. ASSUME Checkout \/ Merge \/ Push, pc' \in Working PROVE TouchInv'
  <2>1. /\ pc \in Working \ {"inspect"} /\ cur' = cur /\ mods' = mods
        /\ requested' = requested /\ push' = push /\ pc' # "inspect"
    BY <1>4 DEF Checkout, Merge, Push, SubshellEnds, GoOn, AfterMerge, repos, options
  <2>2. pc' = "push" => push > 0
    BY <1>4 DEF Checkout, Merge, Push, SubshellEnds, GoOn, AfterMerge
  <2>3. QED
    BY <2>1, <2>2 DEF TouchInv, Wanted
<1>5. ASSUME World PROVE TouchInv'
  <2>1. UNCHANGED <<pc, cur, requested, push>> /\ (pc = "idle" \/ mods' = mods)
    BY <1>5 DEF World, Fetched, OthersPush, UserCommits, UserEdits, UserChecksOut,
                repos, options, results
  <2>2. QED
    BY <2>1 DEF TouchInv, Wanted
<1>6. CASE UNCHANGED vars
  BY <1>6 DEF vars, repos, options, results, TouchInv, Wanted
<1>7. QED
  BY <1>1, <1>2, <1>3, <1>4, <1>5, <1>6
     DEF Next, Program, Subshell, Start, Count, GetPage, FirstLine, LoopEnds, Restore,
         NothingToRestore, SubshellEnds, Kill, Return

(* A repository with uncommitted changes, or that was not requested, is left
   alone, and without -p nothing is written to origin. *)
THEOREM OthersAreLeftAlone == Spec => LeavesAlone
<1> DEFINE Alone ==
      pc # pc' /\ pc # "idle" =>
        \A r \in Repos :
            /\ head'[r] # head[r] \/ local'[r] # local[r] => MayTouch(r)
            /\ origin'[r] # origin[r] => MayTouch(r) /\ push > 0
<1>1. TypeOK /\ TouchInv /\ [Next]_vars => [Alone]_vars
  <2> SUFFICES ASSUME TypeOK, TouchInv, [Next]_vars, pc # pc', pc # "idle" PROVE Alone
    BY DEF vars
  <2>1. CASE UNCHANGED trees
    BY <2>1 DEF trees
  <2>2. CASE Checkout
    <3>1. UNCHANGED <<local, origin>> /\ MayTouch(cur)
          /\ \A r \in Repos \ {cur} : head'[r] = head[r]
      BY <2>2 DEF Checkout, TouchInv, MayTouch, Working, TypeOK
    <3>2. QED
      BY <3>1
  <2>3. CASE Merge
    <3>1. UNCHANGED <<head, origin>> /\ MayTouch(cur)
          /\ \A r \in Repos \ {cur} : local'[r] = local[r]
      BY <2>3 DEF Merge, TouchInv, MayTouch, Working, TypeOK
    <3>2. QED
      BY <3>1
  <2>4. CASE Push
    <3>1. UNCHANGED <<head, local>> /\ MayTouch(cur) /\ push > 0
          /\ \A r \in Repos \ {cur} : origin'[r] = origin[r]
      BY <2>4 DEF Push, TouchInv, MayTouch, Working, TypeOK
    <3>2. QED
      BY <3>1
  <2>5. CASE Restore
    <3>1. UNCHANGED <<local, origin>> /\ MayTouch(cur)
          /\ \A r \in Repos \ {cur} : head'[r] = head[r]
      BY <2>5 DEF Restore, TouchInv, MayTouch, Working, TypeOK
    <3>2. QED
      BY <3>1
  <2>6. CASE World
    BY <2>6 DEF World, Fetched, OthersPush, UserCommits, UserEdits, UserChecksOut
  <2>7. QED
    BY <2>1, <2>2, <2>3, <2>4, <2>5, <2>6
       DEF Next, Program, Subshell, Start, Count, GetPage, FirstLine, ReadLine, LoopEnds,
           Inspect, NothingToRestore, Kill, Return, vars
<1>2. Init => TouchInv
  BY DEF Init, TouchInv, Working
<1>3. QED
  BY <1>1, <1>2, TouchStep, TypeCorrect, PTL DEF Spec, LeavesAlone

----------------------------------------------------------------------------
(***************************************************************************)
(* Why success means that all is merged, when no page of the list is lost  *)
(* and the tips of the branches can be read.                               *)
(* Every repository on the list is in a line to be read, at hand, already  *)
(* processed, or has a reason not to be.                                   *)
(***************************************************************************)
ListIsWhole == "page" \notin Faults /\ "count" \notin Faults /\ NPages > 1
TipsAreRead == "tips" \notin Faults

Covered(r) ==
    r \in lines \/ r \in processed \/ r = cur \/ continued \/ ~Wanted(r) \/ kind[r] = "noDir"

ListInv ==
    /\ pc = "pages" =>
         /\ total = NPages /\ page < NPages
         /\ lines = {r \in Listed : pageOf[r] <= page}
    /\ pc = "count" => page = 0 /\ lines = {}
    /\ pc = "first" => lines = Listed
    /\ pc \in {"next"} \cup Working => \A r \in Listed : Covered(r)
    /\ pc = "exited" /\ status = 0 =>
         lines = {} /\ ~continued /\ \A r \in Listed : Covered(r)
    /\ pc \notin {"idle", "exited"} => status = 0

LEMMA SubshellEndsList ==
    ASSUME TypeOK, ListInv, pc \in Working, NEW estat, SubshellEnds(estat),
           estat \in {0, 101} \/ (estat = 100) \/ (estat = 99) \/ (estat = 1),
           UNCHANGED <<lines, kind, requested>>
    PROVE  ListInv'
<1>1. \A r \in Listed : Covered(r)
  BY DEF ListInv
<1>2. CASE pc' = "next"
  <2>1. cur \in processed' \/ continued'
    BY <1>2 DEF SubshellEnds, Success
  <2>2. processed \subseteq processed' /\ (continued => continued') /\ status' = status
    BY <1>2 DEF SubshellEnds
  <2>3. \A r \in Listed : Covered(r)'
    BY <1>1, <2>1, <2>2 DEF Covered, Wanted
  <2>4. QED
    BY <1>2, <2>2, <2>3 DEF ListInv, Working, Listed
<1>3. CASE pc' = "exited"
  <2>1. status' # 0
    BY <1>3 DEF SubshellEnds
  <2>2. QED
    BY <1>3, <2>1 DEF ListInv, Working
<1>4. QED
  BY <1>2, <1>3 DEF SubshellEnds

LEMMA ListStep ==
    ASSUME ListIsWhole
    PROVE  TypeOK /\ ListInv /\ [Next]_vars => ListInv'
<1> SUFFICES ASSUME TypeOK, ListInv, [Next]_vars PROVE ListInv'
  OBVIOUS
<1> USE PagesAssumption DEF repos, options, listing, results, history, Working
<1>1. ASSUME Start PROVE ListInv'
  BY <1>1 DEF Start, ListInv
<1>2. ASSUME Count PROVE ListInv'
  <2>1. pc = "count" /\ pc' = "pages" /\ total' = NPages /\ page' = 0 /\ lines' = {}
        /\ status' = 0
    BY <1>2 DEF Count, ListInv, ListIsWhole
  <2>2. {r \in Listed' : pageOf'[r] <= 0} = {}
    BY <1>2 DEF Count, TypeOK, Listed
  <2>3. QED
    BY <2>1, <2>2 DEF ListInv
<1>3. ASSUME GetPage PROVE ListInv'
  <2>1. /\ pc = "pages" /\ total = NPages /\ page < NPages
        /\ lines = {r \in Listed : pageOf[r] <= page} /\ status = 0
    BY <1>3 DEF GetPage, ListInv
  <2>2. /\ page' = page + 1 /\ page \in Nat
        /\ UNCHANGED <<kind, pageOf, total, status>>
        /\ lines' = lines \cup {r \in Listed : pageOf[r] = page'}
        /\ pc' = IF PastLastPage(page') THEN "first" ELSE "pages"
    BY <1>3, <2>1 DEF GetPage, TypeOK, ListIsWhole
  <2>3. \A r \in Listed : pageOf[r] \in 1..NPages
    BY DEF TypeOK, Listed
  <2>4. lines' = {r \in Listed : pageOf[r] <= page'} /\ Listed' = Listed
    BY <2>1, <2>2, <2>3 DEF Listed
  <2>5. PastLastPage(page') <=> page' >= NPages
    BY <2>1 DEF PastLastPage, Unknown
  <2>6. CASE page' >= NPages
    <3>1. lines' = Listed'
      BY <2>1, <2>2, <2>3, <2>4, <2>6
    <3>2. pc' = "first"
      BY <2>2, <2>5, <2>6
    <3>3. QED
      BY <2>1, <2>2, <3>1, <3>2 DEF ListInv
  <2>7. CASE ~(page' >= NPages)
    <3>1. pc' = "pages" /\ page' < NPages
      BY <2>2, <2>5, <2>7
    <3>2. QED
      BY <2>1, <2>2, <2>4, <3>1 DEF ListInv
  <2>8. QED
    BY <2>6, <2>7
<1>4. ASSUME FirstLine PROVE ListInv'
  BY <1>4 DEF FirstLine, ListInv, Listed, Covered
<1>5. ASSUME NEW r \in Repos, ReadLine(r) PROVE ListInv'
  <2>1. /\ pc = "next" /\ r \in lines /\ lines' = lines \ {r} /\ cur = NoRepo
        /\ UNCHANGED <<kind, requested, continued, status>>
        /\ status = 0 /\ \A x \in Listed : Covered(x)
    BY <1>5 DEF ReadLine, ListInv, TypeOK
  <2>2. pc' \in {"next", "inspect"} /\ Covered(r)' /\ processed \subseteq processed'
    BY <1>5, <2>1 DEF ReadLine, Skip, NotAFork, Enter, Covered, Wanted
  <2>3. \A x \in Listed : x \in Repos /\ x # NoRepo
    BY NoRepoAssumption DEF Listed
  <2>4. \A x \in Listed : Covered(x)'
    BY <2>1, <2>2, <2>3 DEF Covered, Wanted
  <2>5. QED
    BY <2>1, <2>2, <2>4 DEF ListInv, Listed
<1>6. ASSUME LoopEnds PROVE ListInv'
  <2>1. /\ pc = "next" /\ lines = {} /\ \A x \in Listed : Covered(x)
        /\ pc' = "exited" /\ UNCHANGED <<kind, requested, lines, cur, processed, continued>>
        /\ (status' = 0 => ~continued)
    BY <1>6 DEF LoopEnds, ListInv
  <2>2. QED
    BY <2>1 DEF ListInv, Covered, Wanted, Listed
<1>7. ASSUME NEW estat \in {0, 1, 99, 100, 101}, pc \in Working, SubshellEnds(estat),
             UNCHANGED <<lines, kind, requested>>
      PROVE  ListInv'
  BY <1>7, SubshellEndsList
<1>8. ASSUME pc \in Working, NEW step \in Working, GoOn(step),
             UNCHANGED <<lines, kind, requested>>
      PROVE  ListInv'
  BY <1>8 DEF GoOn, ListInv, Covered, Wanted, Listed
<1>9. ASSUME Subshell PROVE ListInv'
  <2>1. pc \in Working /\ UNCHANGED <<lines, kind, requested>>
    BY <1>9 DEF Subshell, Inspect, Checkout, Merge, Push, Restore, NothingToRestore
  <2>2. AfterMerge \in Working
    BY DEF AfterMerge
  <2>3. (\E estat \in {0, 1, 99, 100, 101} : SubshellEnds(estat))
        \/ (\E step \in Working : GoOn(step))
    BY <1>9, <2>2 DEF Subshell, Inspect, Checkout, Merge, Push, Restore, NothingToRestore
  <2>4. QED
    BY <1>7, <1>8, <2>1, <2>3
<1>10. ASSUME Kill PROVE ListInv'
  BY <1>10 DEF Kill, ListInv
<1>11. ASSUME Return PROVE ListInv'
  BY <1>11 DEF Return, ListInv
<1>12. ASSUME World PROVE ListInv'
  <2>1. UNCHANGED <<pc, kind, pageOf, total, page, lines, cur, processed, continued, status,
                    requested>>
    BY <1>12 DEF World, Fetched, OthersPush, UserCommits, UserEdits, UserChecksOut
  <2>2. QED
    BY <2>1 DEF ListInv, Listed, Covered, Wanted
<1>13. CASE UNCHANGED vars
  BY <1>13 DEF vars, ListInv, Listed, Covered, Wanted
<1>14. QED
  BY <1>1, <1>2, <1>3, <1>4, <1>5, <1>6, <1>9, <1>10, <1>11, <1>12, <1>13
     DEF Next, Program

----------------------------------------------------------------------------
(***************************************************************************)
(* What is in the branches.  One that the program has not come to is as it *)
(* was; the one at hand is, step by step, merged and pushed.               *)
(***************************************************************************)
Merged(r) ==
    /\ upstream0[r] \subseteq local[r]
    /\ (push = 2 \/ (push = 1 /\ local[r] # local0[r])) => local[r] \subseteq origin[r]

ToMerge(r) == kind[r] = "work" /\ ~mods[r]

BranchAtHand ==
    /\ pc \in {"inspect", "checkout", "merge"} => local[cur] = local0[cur]
    /\ pc \in {"push", "restore", "done"} => upstream0[cur] \subseteq local[cur]
    /\ pc \in {"restore", "done"} /\ push > 0 => local[cur] \subseteq origin[cur]

WorkInv ==
    /\ pc # "idle" => \A r \in Repos : upstream0[r] \subseteq upstream[r]
    /\ pc \in Reading => local = local0
    /\ pc # "idle" => \A r \in lines : local[r] = local0[r]
    /\ pc # "idle" => \A r \in processed : ToMerge(r) => Merged(r)
    /\ pc \in Working => BranchAtHand

LEMMA SubshellEndsWork ==
    ASSUME WorkInv, pc \in Working, NEW estat, SubshellEnds(estat),
           UNCHANGED <<lines, kind, mods, push, local, origin, upstream, local0, upstream0>>,
           Success(estat) /\ ToMerge(cur) => Merged(cur)
    PROVE  WorkInv'
<1>1. pc' \in {"next", "exited"} /\ processed' \subseteq processed \cup {cur}
      /\ (~Success(estat) => processed' = processed)
  BY DEF SubshellEnds
<1>2. \A r \in processed' : ToMerge(r) => Merged(r)
  BY <1>1 DEF WorkInv, Working
<1>3. \A r \in processed' : ToMerge(r)' => Merged(r)'
  BY <1>2 DEF ToMerge, Merged
<1>4. QED
  BY <1>1, <1>3 DEF WorkInv, Working, Reading

LEMMA WorkStep ==
    ASSUME TipsAreRead
    PROVE  TypeOK /\ HeadInv /\ WorkInv /\ [Next]_vars => WorkInv'
<1> SUFFICES ASSUME TypeOK, HeadInv, WorkInv, [Next]_vars PROVE WorkInv'
  OBVIOUS
<1> USE DEF repos, options, history, Working, Reading
<1>1. ASSUME Start PROVE WorkInv'
  BY <1>1 DEF Start, trees, WorkInv
<1>2. ASSUME Count PROVE WorkInv'
  <2>1. pc = "count" /\ pc' = "pages" /\ processed = {} /\ local = local0
        /\ \A r \in Repos : upstream0[r] \subseteq upstream[r]
    BY <1>2 DEF Count, WorkInv, HeadInv
  <2>2. UNCHANGED <<processed, lines, local, local0, upstream, upstream0>>
    BY <1>2 DEF Count, trees, results
  <2>3. QED
    BY <2>1, <2>2 DEF WorkInv
<1>3. ASSUME GetPage \/ FirstLine PROVE WorkInv'
  <2>1. pc \in {"pages", "first"} /\ processed = {} /\ local = local0
        /\ \A r \in Repos : upstream0[r] \subseteq upstream[r]
    BY <1>3 DEF GetPage, FirstLine, WorkInv, HeadInv
  <2>2. UNCHANGED <<processed, local, local0, upstream, upstream0>>
        /\ pc' \in {"pages", "first", "next", "exited"}
    BY <1>3 DEF GetPage, FirstLine, trees
  <2>3. QED
    BY <2>1, <2>2 DEF WorkInv
<1>4. ASSUME NEW r \in Repos, ReadLine(r) PROVE WorkInv'
  <2>1. /\ pc = "next" /\ r \in lines /\ lines' \subseteq lines /\ local[r] = local0[r]
        /\ UNCHANGED <<kind, mods, push, local, origin, upstream, local0, upstream0>>
    BY <1>4 DEF ReadLine, trees, WorkInv
  <2>2. CASE pc' = "next" /\ \A x \in processed' : x \in processed \/ kind[x] = "own"
    BY <2>1, <2>2 DEF WorkInv, ToMerge, Merged
  <2>3. CASE pc' = "inspect" /\ cur' = r /\ processed' = processed
    BY <2>1, <2>3 DEF WorkInv, ToMerge, Merged, BranchAtHand
  <2>4. QED
    BY <1>4, <2>1, <2>2, <2>3 DEF ReadLine, Skip, NotAFork, Enter
<1>5. ASSUME LoopEnds \/ Kill PROVE WorkInv'
  <2>1. /\ pc # "idle" /\ pc' = "exited"
        /\ UNCHANGED <<lines, processed, kind, mods, push, local, origin, upstream, local0,
                       upstream0>>
    BY <1>5 DEF LoopEnds, Kill, trees
  <2>2. QED
    BY <2>1 DEF WorkInv, ToMerge, Merged
<1>6. ASSUME Inspect PROVE WorkInv'
  <2>1. /\ pc = "inspect" /\ local[cur] = local0[cur] /\ upstream0[cur] \subseteq upstream[cur]
        /\ UNCHANGED <<lines, kind, mods, push, local, origin, upstream, local0, upstream0>>
    BY <1>6 DEF Inspect, trees, WorkInv, BranchAtHand, TypeOK
  <2>2. CASE \E estat \in {0, 1, 100} :
               SubshellEnds(estat) /\ (Success(estat) => ~ToMerge(cur))
    BY <2>1, <2>2, SubshellEndsWork
  <2>3. CASE TestsTips /\ TipsAlike /\ SubshellEnds(101)
    <3>1. ToMerge(cur) => Merged(cur)
      BY <2>1, <2>3 DEF TestsTips, TipsAlike, ToMerge, Merged, TypeOK
    <3>2. QED
      BY <2>1, <2>3, <3>1, SubshellEndsWork
  <2>4. CASE \E step \in {"merge", "checkout"} : GoOn(step)
    BY <2>1, <2>4 DEF GoOn, WorkInv, ToMerge, Merged, BranchAtHand
  <2>5. QED
    <3>1. kind[cur] \in {"noRemote", "noOrigin"} => ~ToMerge(cur)
      BY DEF ToMerge
    <3>2. mods[cur] => ~ToMerge(cur)
      BY DEF ToMerge
    <3>3. ~Success(1)
      BY DEF Success
    <3>4. QED
      BY <1>6, <2>2, <2>3, <2>4, <3>1, <3>2, <3>3 DEF Inspect, TipsAreRead
<1>7. ASSUME Checkout PROVE WorkInv'
  <2>1. /\ pc = "checkout" /\ local[cur] = local0[cur]
        /\ UNCHANGED <<lines, kind, mods, push, local, origin, upstream, local0, upstream0>>
    BY <1>7 DEF Checkout, WorkInv, BranchAtHand
  <2>2. CASE SubshellEnds(1)
    BY <2>1, <2>2, SubshellEndsWork DEF Success
  <2>3. CASE GoOn("merge")
    BY <2>1, <2>3 DEF GoOn, WorkInv, ToMerge, Merged, BranchAtHand
  <2>4. QED
    BY <1>7, <2>2, <2>3 DEF Checkout
<1>8. ASSUME Merge PROVE WorkInv'
  <2>1. /\ pc = "merge" /\ cur \in Repos /\ upstream0[cur] \subseteq upstream[cur]
        /\ cur \notin lines /\ cur \notin processed
        /\ UNCHANGED <<lines, kind, mods, push, origin, upstream, local0, upstream0>>
    BY <1>8 DEF Merge, WorkInv, HeadInv, AtHand, TypeOK
  <2>2. CASE SubshellEnds(99) /\ UNCHANGED local
    BY <2>1, <2>2, SubshellEndsWork DEF Success
  <2>3. CASE GoOn(AfterMerge) /\ local' = [local EXCEPT ![cur] = @ \cup upstream[cur]]
    <3>1. /\ AfterMerge \in {"push", "restore", "done"}
          /\ (AfterMerge # "push" => ~(push > 0))
      BY DEF AfterMerge, TypeOK
    <3>2. local'[cur] = local[cur] \cup upstream[cur]
          /\ \A r \in Repos \ {cur} : local'[r] = local[r]
      BY <2>1, <2>3 DEF TypeOK
    <3>3. /\ UNCHANGED <<cur, processed>> /\ pc' \in {"push", "restore", "done"}
          /\ (pc' # "push" => ~(push > 0))
      BY <2>3, <3>1 DEF GoOn
    <3>4. lines \subseteq Repos \ {cur} /\ processed \subseteq Repos \ {cur}
      BY <2>1 DEF TypeOK
    <3>5. BranchAtHand'
      BY <2>1, <3>2, <3>3 DEF BranchAtHand
    <3>6. \A r \in lines : local'[r] = local0'[r]
      BY <2>1, <3>2, <3>4 DEF WorkInv
    <3>7. \A r \in processed : ToMerge(r)' => Merged(r)'
      BY <2>1, <3>2, <3>4 DEF WorkInv, ToMerge, Merged
    <3>8. QED
      BY <2>1, <3>3, <3>5, <3>6, <3>7 DEF WorkInv
  <2>4. QED
    BY <1>8, <2>2, <2>3 DEF Merge
<1>9. ASSUME Push PROVE WorkInv'
  <2>1. /\ pc = "push" /\ cur \in Repos /\ upstream0[cur] \subseteq local[cur]
        /\ cur \notin processed
        /\ UNCHANGED <<lines, kind, mods, push, local, upstream, local0, upstream0>>
    BY <1>9 DEF Push, WorkInv, BranchAtHand, HeadInv, AtHand, TypeOK
  <2>2. CASE SubshellEnds(1) /\ UNCHANGED origin
    BY <2>1, <2>2, SubshellEndsWork DEF Success
  <2>3. CASE /\ origin' = [origin EXCEPT ![cur] = local[cur]]
             /\ \E step \in {"done", "restore"} : GoOn(step)
    <3>1. origin'[cur] = local[cur] /\ \A r \in processed : origin'[r] = origin[r]
      BY <2>1, <2>3 DEF TypeOK
    <3>2. pc' \in {"done", "restore"} /\ UNCHANGED <<cur, processed>>
      BY <2>3 DEF GoOn
    <3>3. BranchAtHand'
      BY <2>1, <3>1, <3>2 DEF BranchAtHand
    <3>4. \A r \in processed : ToMerge(r)' => Merged(r)'
      BY <2>1, <3>1 DEF WorkInv, ToMerge, Merged
    <3>5. QED
      BY <2>1, <3>2, <3>3, <3>4 DEF WorkInv
  <2>4. QED
    BY <1>9, <2>2, <2>3 DEF Push
<1>10. ASSUME Restore \/ NothingToRestore PROVE WorkInv'
  <2>1. /\ pc \in {"restore", "done"}
        /\ upstream0[cur] \subseteq local[cur]
        /\ (push > 0 => local[cur] \subseteq origin[cur])
        /\ UNCHANGED <<lines, kind, mods, push, local, origin, upstream, local0, upstream0>>
    BY <1>10 DEF Restore, NothingToRestore, trees, WorkInv, BranchAtHand
  <2>2. Merged(cur) /\ \E estat \in {0, 1} : SubshellEnds(estat)
    BY <1>10, <2>1 DEF Restore, NothingToRestore, Merged
  <2>3. QED
    BY <2>1, <2>2, SubshellEndsWork
<1>11. ASSUME Return PROVE WorkInv'
  BY <1>11 DEF Return, WorkInv
<1>12. ASSUME World PROVE WorkInv'
  <2>1. UNCHANGED <<pc, kind, push, lines, cur, processed, local0, upstream0>>
        /\ (pc = "idle" \/ (local' = local /\ mods' = mods))
    BY <1>12 DEF World, Fetched, OthersPush, UserCommits, UserEdits, UserChecksOut, trees,
                 results
  <2>2. \A r \in Repos : upstream[r] \subseteq upstream'[r] /\ origin[r] \subseteq origin'[r]
    BY <1>12 DEF World, Fetched, OthersPush, UserCommits, UserEdits, UserChecksOut, trees, TypeOK
  <2>3. CASE pc = "idle"
    BY <2>1, <2>3 DEF WorkInv
  <2>4. CASE pc # "idle"
    <3>1. \A r \in Repos : upstream0[r] \subseteq upstream'[r]
      BY <2>2, <2>4 DEF WorkInv
    <3>2. BranchAtHand => BranchAtHand'
      BY <2>1, <2>2, <2>4 DEF BranchAtHand, TypeOK
    <3>3. \A r \in processed : ToMerge(r)' => Merged(r)'
      <4> SUFFICES ASSUME NEW r \in processed, ToMerge(r)' PROVE Merged(r)'
        OBVIOUS
      <4>1. r \in Repos /\ Merged(r)
        BY <2>1, <2>4 DEF WorkInv, ToMerge, TypeOK
      <4>2. QED
        BY <2>1, <2>2, <2>4, <4>1 DEF Merged
    <3>4. QED
      BY <2>1, <2>4, <3>1, <3>2, <3>3 DEF WorkInv
  <2>5. QED
    BY <2>3, <2>4
<1>13. CASE UNCHANGED vars
  BY <1>13 DEF vars, trees, results, WorkInv, ToMerge, Merged, BranchAtHand
<1>14. QED
  BY <1>1, <1>2, <1>3, <1>4, <1>5, <1>6, <1>7, <1>8, <1>9, <1>10, <1>11, <1>12, <1>13
     DEF Next, Program, Subshell

(* When no page of the list can be lost and the tips of the branches can be
   read, success means that every repository the program was to work on is
   merged, pushed as asked, and has what it had checked out before, whatever
   else fails.  Neither assumption can be dropped. *)
THEOREM SuccessIsMerged ==
    ASSUME ListIsWhole, TipsAreRead
    PROVE  Spec => []SuccessMeansMerged
<1>1. Init => HeadInv /\ ListInv /\ WorkInv
  BY DEF Init, HeadInv, ListInv, WorkInv, Reading, Working
<1>2. TypeOK /\ HeadInv /\ ListInv /\ WorkInv => SuccessMeansMerged
  <2> SUFFICES ASSUME TypeOK, HeadInv, ListInv, WorkInv, pc = "exited", status = 0,
                      NEW r \in Repos, Wanted(r), kind[r] = "work", ~mods[r]
               PROVE  InOrder(r)
    BY DEF SuccessMeansMerged
  <2>1. cur = NoRepo /\ r # NoRepo
    BY NoRepoAssumption DEF TypeOK
  <2>2. r \in processed
    BY <2>1 DEF ListInv, Covered, Listed
  <2>3. head[r] = head0[r] /\ Merged(r)
    BY <2>2 DEF HeadInv, WorkInv, ToMerge
  <2>4. QED
    BY <2>3 DEF InOrder, Merged
<1>3. TypeOK /\ ListInv /\ [Next]_vars => ListInv'
  BY ListStep
<1>4. TypeOK /\ HeadInv /\ WorkInv /\ [Next]_vars => WorkInv'
  BY WorkStep
<1>5. QED
  BY <1>1, <1>2, <1>3, <1>4, HeadStep, TypeCorrect, PTL DEF Spec

----------------------------------------------------------------------------
(***************************************************************************)
(* Why a requested repository that is missing makes the program fail.      *)
(* Whatever is lost or fails, a line is that of a repository on the list,  *)
(* and only one that has its default branch, or changes that hide the lack *)
(* of it, is taken for processed.                                          *)
(***************************************************************************)
Sound(r) == kind[r] \notin {"unknown", "noDir"} /\ (kind[r] = "noBranch" => mods[r])

SoundInv ==
    /\ pc # "idle" => lines \subseteq Listed
    /\ pc # "idle" => \A r \in processed : Sound(r)
    /\ pc = "inspect" => kind[cur] \notin {"unknown", "noDir"}
    /\ pc \in Working \ {"inspect"} => Sound(cur)
    /\ pc = "exited" /\ status = 0 => requested \subseteq processed

LEMMA SubshellEndsSound ==
    ASSUME SoundInv, pc \in Working, NEW estat, SubshellEnds(estat),
           Success(estat) => Sound(cur),
           UNCHANGED <<lines, kind, mods>>
    PROVE  SoundInv'
<1>1. /\ pc' \in {"next", "exited"}
      /\ pc' = "exited" => status' # 0
      /\ processed' \subseteq processed \cup {cur}
      /\ ~Success(estat) => processed' = processed
  BY DEF SubshellEnds
<1>2. \A r \in processed' : Sound(r)
  BY <1>1 DEF SoundInv, Working
<1>3. \A r \in processed' : Sound(r)'
  BY <1>2 DEF Sound
<1>4. lines' \subseteq Listed'
  BY DEF SoundInv, Working, Listed
<1>5. QED
  BY <1>1, <1>3, <1>4 DEF SoundInv, Working

LEMMA SoundStep == TypeOK /\ SoundInv /\ [Next]_vars => SoundInv'
<1> SUFFICES ASSUME TypeOK, SoundInv, [Next]_vars PROVE SoundInv'
  OBVIOUS
<1> USE DEF repos, options, listing, results, history, Working
<1>1. ASSUME Start PROVE SoundInv'
  BY <1>1 DEF Start, SoundInv
<1>2. ASSUME Count \/ GetPage \/ FirstLine PROVE SoundInv'
  <2>1. /\ pc \in {"count", "pages", "first"} /\ pc' \in {"pages", "first", "next", "exited"}
        /\ pc' = "exited" => status' = 1
        /\ lines' \subseteq lines \cup Listed
        /\ UNCHANGED <<kind, mods, processed>>
    BY <1>2 DEF Count, GetPage, FirstLine
  <2>2. QED
    BY <2>1 DEF SoundInv, Listed, Sound
<1>3. ASSUME NEW r \in Repos, ReadLine(r) PROVE SoundInv'
  <2>1. /\ pc = "next" /\ lines' \subseteq lines /\ kind[r] # "unknown"
        /\ UNCHANGED <<kind, mods>>
    BY <1>3 DEF ReadLine, SoundInv, Listed
  <2>2. CASE Skip(r)
    BY <2>1, <2>2 DEF Skip, SoundInv, Listed, Sound
  <2>3. CASE NotAFork(r)
    BY <2>1, <2>3 DEF NotAFork, SoundInv, Listed, Sound
  <2>4. CASE Enter(r)
    BY <2>1, <2>4 DEF Enter, SoundInv, Listed, Sound
  <2>5. QED
    BY <1>3, <2>2, <2>3, <2>4 DEF ReadLine
<1>4. ASSUME LoopEnds \/ Kill PROVE SoundInv'
  <2>1. /\ pc # "idle" /\ pc' = "exited"
        /\ status' = 0 => requested \subseteq processed
        /\ UNCHANGED <<lines, kind, mods, processed, requested>>
    BY <1>4 DEF LoopEnds, Kill
  <2>2. QED
    BY <2>1 DEF SoundInv, Listed, Sound
<1>5. ASSUME Inspect PROVE SoundInv'
  <2>1. /\ pc = "inspect" /\ kind[cur] \notin {"unknown", "noDir"}
        /\ UNCHANGED <<lines, kind, mods>>
    BY <1>5 DEF Inspect, SoundInv
  <2>2. CASE SubshellEnds(1)
    BY <2>1, <2>2, SubshellEndsSound DEF Success
  <2>3. CASE \E estat \in {0, 100, 101} :
               SubshellEnds(estat) /\ (kind[cur] = "noBranch" => mods[cur])
    BY <2>1, <2>3, SubshellEndsSound DEF Sound
  <2>4. CASE /\ kind[cur] \in {"likeBranch"} \cup Mergeable
             /\ \E step \in {"merge", "checkout"} : GoOn(step)
    BY <2>1, <2>4 DEF GoOn, SoundInv, Listed, Sound, Mergeable
  <2>5. QED
    BY <1>5, <2>2, <2>3, <2>4 DEF Inspect, BranchesSeen, Mergeable
<1>6. ASSUME pc \in Working \ {"inspect"}, NEW estat, SubshellEnds(estat),
             UNCHANGED <<lines, kind, mods>>
      PROVE  SoundInv'
  BY <1>6, SubshellEndsSound DEF SoundInv
<1>7. ASSUME Checkout \/ Merge \/ Push \/ Restore \/ NothingToRestore PROVE SoundInv'
  <2>1. pc \in Working \ {"inspect"} /\ UNCHANGED <<lines, kind, mods>>
    BY <1>7 DEF Checkout, Merge, Push, Restore, NothingToRestore
  <2>2. AfterMerge \in Working \ {"inspect"}
    BY DEF AfterMerge
  <2>3. CASE \E estat : SubshellEnds(estat)
    BY <2>1, <2>3, <1>6
  <2>4. CASE \E step \in Working \ {"inspect"} : GoOn(step)
    BY <2>1, <2>4 DEF GoOn, SoundInv, Listed, Sound
  <2>5. QED
    BY <1>7, <2>2, <2>3, <2>4 DEF Checkout, Merge, Push, Restore, NothingToRestore
<1>8. ASSUME Return PROVE SoundInv'
  BY <1>8 DEF Return, SoundInv
<1>9. ASSUME World PROVE SoundInv'
  <2>1. UNCHANGED <<pc, kind, lines, cur, processed, status, requested>>
        /\ (pc = "idle" \/ mods' = mods)
    BY <1>9 DEF World, Fetched, OthersPush, UserCommits, UserEdits, UserChecksOut
  <2>2. QED
    BY <2>1 DEF SoundInv, Listed, Sound
<1>10. CASE UNCHANGED vars
  BY <1>10 DEF vars, SoundInv, Listed, Sound
<1>11. QED
  BY <1>1, <1>2, <1>3, <1>4, <1>5, <1>7, <1>8, <1>9, <1>10 DEF Next, Program, Subshell

(* A requested repository that GitHub does not know, that has no directory or
   that lacks its default branch makes the program fail, even when pages of the
   list are lost. *)
THEOREM MissingMeansError == Spec => []MissingIsError
<1>1. Init => SoundInv
  BY DEF Init, SoundInv, Working
<1>2. SoundInv => MissingIsError
  BY DEF SoundInv, Sound, MissingIsError
<1>3. QED
  BY <1>1, <1>2, SoundStep, TypeCorrect, PTL DEF Spec

----------------------------------------------------------------------------
(***************************************************************************)
(* The end of a run.  Variant is a tuple of natural numbers, the earlier   *)
(* of which count for more; every step of the program makes it smaller,    *)
(* but for a request of a page when the number of pages is not known.      *)
(***************************************************************************)
Phase(step) ==
    CASE step = "count" -> 4 [] step = "pages" -> 3 [] step = "first" -> 2
      [] step \in {"next"} \cup Working -> 1 [] OTHER -> 0

SubshellStep(step) ==
    CASE step = "inspect" -> 6 [] step = "checkout" -> 5 [] step = "merge" -> 4
      [] step = "push" -> 3 [] step = "restore" -> 2 [] step = "done" -> 1 [] OTHER -> 0

Variant == <<Phase(pc), NPages + 2 - page, Cardinality(lines), SubshellStep(pc)>>

Below(m, n) == \E k \in 1..4 : m[k] < n[k] /\ \A j \in 1..(k - 1) : m[j] = n[j]

EndUnknown == pc = "pages" /\ total = Unknown

(* The loop over the pages knows where it ends, unless the count was lost. *)
PagesInv == pc = "count" \/ (pc = "pages" /\ total # Unknown) => page < NPages

LEMMA PagesStep ==
    ASSUME TypeOK, PagesInv, [Next]_vars
    PROVE  PagesInv'
<1> USE PagesAssumption DEF PagesInv, TypeOK, listing, results
<1>1. CASE Start \/ Count
  BY <1>1 DEF Start, Count
<1>2. CASE GetPage
  BY <1>2 DEF GetPage, PastLastPage, Unknown
<1>3. CASE pc' \notin {"count", "pages"}
  BY <1>3
<1>4. CASE UNCHANGED <<pc, page, total>>
  BY <1>4
<1>5. Program \/ Kill \/ Return => Count \/ GetPage \/ pc' \notin {"count", "pages"} \/ UNCHANGED <<pc, page, total>>
  BY DEF Program, Subshell, Kill, Return, FirstLine, ReadLine, Skip, NotAFork, Enter, LoopEnds,
     Inspect, Checkout, Merge, Push, Restore, NothingToRestore, SubshellEnds, GoOn, AfterMerge
<1>6. World \/ UNCHANGED vars => UNCHANGED <<pc, page, total>>
  BY DEF World, Fetched, OthersPush, UserCommits, UserEdits, UserChecksOut, vars
<1> QED
  BY <1>1, <1>2, <1>3, <1>4, <1>5, <1>6 DEF Next

LEMMA LinesFinite ==
    ASSUME IsFiniteSet(Repos), NEW S \in SUBSET Repos
    PROVE  IsFiniteSet(S) /\ Cardinality(S) \in Nat
BY FS_Subset, FS_CardinalityType

LEMMA VariantType ==
    ASSUME IsFiniteSet(Repos), TypeOK
    PROVE  Variant \in Seq(Nat)
<1>1. Phase(pc) \in Nat /\ SubshellStep(pc) \in Nat
  BY DEF Phase, SubshellStep
<1>2. NPages + 2 - page \in Nat
  BY PagesAssumption DEF TypeOK
<1>3. Cardinality(lines) \in Nat
  BY LinesFinite DEF TypeOK
<1> QED
  BY <1>1, <1>2, <1>3 DEF Variant

LEMMA ProgramNearer ==
    ASSUME IsFiniteSet(Repos), TypeOK, PagesInv, Program, ~EndUnknown
    PROVE  Below(Variant', Variant)
<1>1. ASSUME Phase(pc') < Phase(pc) PROVE Below(Variant', Variant)
  BY <1>1 DEF Below, Variant
<1>2. CASE Count \/ FirstLine \/ LoopEnds
  <2>1. \/ pc = "count" /\ pc' = "pages"
        \/ pc = "first" /\ pc' \in {"next", "exited"}
        \/ pc = "next" /\ pc' = "exited"
    BY <1>2 DEF Count, FirstLine, LoopEnds
  <2> QED
    BY <1>1, <2>1 DEF Phase, Working
<1>3. CASE GetPage
  <2>1. pc = "pages" /\ page < NPages /\ page' = page + 1 /\ pc' \in {"first", "pages"}
    BY <1>3, PagesAssumption DEF GetPage, PagesInv, EndUnknown, TypeOK
  <2>2. CASE pc' = "first"
    BY <1>1, <2>1, <2>2 DEF Phase, Working
  <2>3. CASE pc' = "pages"
    <3>1. Phase(pc') = Phase(pc) /\ NPages + 2 - page' < NPages + 2 - page
      BY <2>1, <2>3, PagesAssumption DEF TypeOK
    <3> QED
      BY <3>1 DEF Below, Variant
  <2> QED
    BY <2>1, <2>2, <2>3
<1>4. ASSUME NEW r \in Repos, ReadLine(r) PROVE Below(Variant', Variant)
  <2>1. pc = "next" /\ pc' \in {"next", "inspect"} /\ UNCHANGED page /\ r \in lines /\ lines' = lines \ {r}
    BY <1>4 DEF ReadLine, Skip, NotAFork, Enter, listing
  <2>2. Cardinality(lines') < Cardinality(lines)
    <3>1. IsFiniteSet(lines) /\ Cardinality(lines) \in Nat
      BY LinesFinite DEF TypeOK
    <3>2. Cardinality(lines') = Cardinality(lines) - 1
      BY <2>1, <3>1, FS_RemoveElement
    <3> QED
      BY <3>1, <3>2
  <2>3. Phase(pc') = Phase(pc)
    BY <2>1 DEF Phase, Working
  <2> QED
    BY <2>1, <2>2, <2>3 DEF Below, Variant
<1>5. CASE Subshell
  <2>1. /\ UNCHANGED <<page, lines>>
        /\ \/ pc \in Working /\ pc' = "exited"
           \/ pc \in Working /\ pc' = "next"
           \/ pc = "inspect" /\ pc' \in {"checkout", "merge"}
           \/ pc = "checkout" /\ pc' = "merge"
           \/ pc = "merge" /\ pc' \in {"push", "restore", "done"}
           \/ pc = "push" /\ pc' \in {"restore", "done"}
    BY <1>5 DEF Subshell, Inspect, Checkout, Merge, Push, Restore, NothingToRestore, SubshellEnds,
       GoOn, AfterMerge, Working, listing
  <2>2. CASE pc' = "exited"
    BY <1>1, <2>1, <2>2 DEF Phase, Working
  <2>3. CASE pc' # "exited"
    <3>1. Phase(pc') = Phase(pc) /\ SubshellStep(pc') < SubshellStep(pc)
      BY <2>1, <2>3 DEF Phase, SubshellStep, Working
    <3> QED
      BY <2>1, <3>1 DEF Below, Variant
  <2> QED
    BY <2>2, <2>3
<1> QED
  BY <1>2, <1>3, <1>4, <1>5 DEF Program

(* The program has no endless loop but the one over the pages when their
   number is not known: whatever the number of repositories, pages and changes,
   and whatever fails, every other step makes a tuple of natural numbers
   smaller. *)
THEOREM EveryStepIsProgress ==
    ASSUME IsFiniteSet(Repos)
    PROVE  Spec => /\ [](Variant \in Seq(Nat))
                   /\ [][Program => Below(Variant', Variant) \/ EndUnknown]_vars
<1>1. Init => PagesInv
  BY DEF Init, PagesInv
<1>2. TypeOK /\ PagesInv /\ [Next]_vars => PagesInv'
  BY PagesStep
<1>3. TypeOK => Variant \in Seq(Nat)
  BY VariantType
<1>4. TypeOK /\ PagesInv /\ [Next]_vars
      => [Program => Below(Variant', Variant) \/ EndUnknown]_vars
  BY ProgramNearer
<1>5. QED
  BY <1>1, <1>2, <1>3, <1>4, TypeCorrect, PTL DEF Spec

(* That loop is where a user ends whose repositories fit on one page: the
   number of the pages is never known, and the program leaves the loop only
   when it is killed, without having looked at any repository. *)
ListingOnly ==
    /\ pc \in {"idle", "count", "pages", "exited"}
    /\ pc = "pages" => total = Unknown

THEOREM OnePageIsEndless ==
    ASSUME NPages = 1
    PROVE  Spec => []ListingOnly /\ [][pc = "pages" /\ pc' # "pages" => Kill]_vars
<1>1. Init => ListingOnly
  BY DEF Init, ListingOnly
<1>2. ASSUME ListingOnly, [Next]_vars PROVE ListingOnly' /\ (pc = "pages" /\ pc' # "pages" => Kill)
  <2> USE DEF ListingOnly, listing
  <2>1. CASE Start
    BY <2>1 DEF Start
  <2>2. CASE Program
    BY <2>2, <1>2 DEF Program, Subshell, Count, GetPage, PastLastPage, FirstLine, ReadLine, LoopEnds,
       Inspect, Checkout, Merge, Push, Restore, NothingToRestore
  <2>3. CASE Kill \/ Return
    BY <2>3 DEF Kill, Return
  <2>4. CASE World \/ UNCHANGED vars
    BY <2>4, <1>2 DEF World, Fetched, OthersPush, UserCommits, UserEdits, UserChecksOut, vars
  <2> QED
    BY <1>2, <2>1, <2>2, <2>3, <2>4 DEF Next
<1>3. ListingOnly /\ [Next]_vars => ListingOnly'
  BY <1>2
<1>4. ListingOnly /\ [Next]_vars => [pc = "pages" /\ pc' # "pages" => Kill]_vars
  BY <1>2
<1>5. QED
  BY <1>1, <1>3, <1>4, PTL DEF Spec

----------------------------------------------------------------------------
(***************************************************************************)
(* MergeAll implements EachInTurn.                                         *)
(***************************************************************************)

(* Where these stay as they are there is nothing to see from outside. *)
LEMMA UnseenStep ==
    ASSUME UNCHANGED <<head, local, pc, requested, results>>
    PROVE  UNCHANGED Turn!vars
BY DEF Turn!vars, RunPhase, Todo, Hand, Tree, results

(* A step that leaves the directories alone but that of the repository at
   hand. *)
LEMMA HandOnly ==
    ASSUME TypeOK, TypeOK',
           \A r \in Repos : r # cur => head'[r] = head[r] /\ local'[r] = local[r]
    PROVE  Turn!OthersUntouched
<1>1. Tree' \in [Repos -> Heads \X SUBSET Commits]
  BY TypeOK' DEF TypeOK, Tree
<1>2. ASSUME NEW r \in Repos \ Hand PROVE Tree'[r] = Tree[r]
  BY <1>2, NoRepoAssumption DEF Tree, Hand
<1>3. QED
  BY <1>1, <1>2 DEF Turn!OthersUntouched

(* A step of the subshell is work on the repository at hand, its completion,
   its being given up with -k, or the end of the run. *)
LEMMA SubshellTurn ==
    ASSUME TypeOK, TypeOK', cur \in Repos,
           \A r \in Repos : r # cur => head'[r] = head[r] /\ local'[r] = local[r],
           UNCHANGED <<options, lines>>,
           \/ \E step \in Working : GoOn(step)
           \/ \E estat \in {0, 1, 99, 100, 101} : SubshellEnds(estat)
    PROVE  Turn!Next
<1> USE DEF options
<1>1. Turn!OthersUntouched
  BY HandOnly
<1>2. RunPhase = "running" /\ Todo = lines /\ Hand = {cur}
  BY NoRepoAssumption DEF RunPhase, Todo, Hand, TypeOK
<1>3. ASSUME NEW step \in Working, GoOn(step) PROVE Turn!Next
  <2>1. RunPhase' = "running" /\ Todo' = lines /\ Hand' = Hand
    BY <1>3 DEF GoOn, Working, RunPhase, Todo, Hand
  <2>2. UNCHANGED <<processed, continued>>
    BY <1>3 DEF GoOn
  <2>3. Turn!Work
    BY <1>1, <1>2, <2>1, <2>2 DEF Turn!Work
  <2>4. QED
    BY <1>2, <2>3 DEF Turn!Next, Turn!Run
<1>4. ASSUME NEW estat \in {0, 1, 99, 100, 101}, SubshellEnds(estat) PROVE Turn!Next
  <2>1. Hand' = {} /\ Todo' = lines
    BY <1>4 DEF SubshellEnds, Hand, Todo
  <2>2. CASE Success(estat)
    <3>1. estat # 99 /\ continued \in BOOLEAN
      BY <2>2 DEF Success, TypeOK
    <3>2. continued' = continued
      BY <1>4, <3>1, Zenon DEF SubshellEnds
    <3>3. RunPhase' = "running" /\ processed' = processed \cup {cur}
      BY <1>4, <2>2 DEF SubshellEnds, RunPhase
    <3>4. Turn!Complete
      BY <1>1, <1>2, <2>1, <3>2, <3>3 DEF Turn!Complete
    <3>5. QED
      BY <1>2, <3>4 DEF Turn!Next, Turn!Run
  <2>3. CASE ~Success(estat) /\ estat = 99 /\ keep
    <3>1. continued' = TRUE
      BY <1>4, <2>3, Zenon DEF SubshellEnds
    <3>2. RunPhase' = "running" /\ UNCHANGED processed
      BY <1>4, <2>3 DEF SubshellEnds, RunPhase
    <3>3. Turn!GiveUp
      BY <1>1, <1>2, <2>1, <3>1, <3>2 DEF Turn!GiveUp
    <3>4. QED
      BY <1>2, <3>3 DEF Turn!Next, Turn!Run
  <2>4. CASE ~Success(estat) /\ ~(estat = 99 /\ keep)
    <3>1. continued \in BOOLEAN
      BY DEF TypeOK
    <3>2. continued' = continued
      BY <1>4, <2>4, <3>1, Zenon DEF SubshellEnds
    <3>3. RunPhase' = "failed" /\ UNCHANGED processed
      BY <1>4, <2>4 DEF SubshellEnds, RunPhase
    <3>4. Turn!Fail
      BY <1>1, <1>2, <2>1, <3>2, <3>3 DEF Turn!Fail
    <3>5. QED
      BY <1>2, <3>4 DEF Turn!Next, Turn!Run
  <2>5. QED
    BY <2>2, <2>3, <2>4
<1>5. QED
  BY <1>3, <1>4

(* Every step of the program is a step of EachInTurn, or not seen there. *)
LEMMA StepInTurn ==
    ASSUME TypeOK, TypeOK', [Next]_vars
    PROVE  [Turn!Next]_(Turn!vars)
<1> USE DEF repos, trees, options, listing, results, history
<1>1. ASSUME Start PROVE Turn!Next
  <2>1. RunPhase = "idle" /\ RunPhase' = "running" /\ Todo' = Repos /\ Hand' = {}
    BY <1>1 DEF Start, RunPhase, Todo, Hand
  <2>2. Tree' = Tree
    BY <1>1 DEF Start, Tree
  <2>3. requested' \in SUBSET Repos /\ processed' = {}
    BY <1>1 DEF Start
  <2>4. continued' = FALSE
    BY <1>1, Zenon DEF Start
  <2>5. Turn!Start
    BY <2>1, <2>2, <2>3, <2>4 DEF Turn!Start
  <2>6. QED
    BY <2>5 DEF Turn!Next
<1>2. ASSUME Count \/ GetPage PROVE UNCHANGED Turn!vars
  <2>1. RunPhase' = RunPhase /\ Todo' = Todo
    BY <1>2 DEF Count, GetPage, RunPhase, Todo
  <2>2. UNCHANGED <<requested, Hand, processed, continued, Tree>>
    BY <1>2 DEF Count, GetPage, Hand, Tree
  <2>3. QED
    BY <2>1, <2>2 DEF Turn!vars
<1>3. ASSUME FirstLine PROVE Turn!Next
  <2>1. RunPhase = "running" /\ Todo = Repos /\ Hand = {}
    BY <1>3 DEF FirstLine, RunPhase, Todo, Hand, TypeOK
  <2>2. UNCHANGED <<head, local, requested, processed, continued, Hand, Tree>>
    BY <1>3 DEF FirstLine, Hand, Tree
  <2>3. Todo' \in SUBSET Repos
    BY <1>3 DEF FirstLine, Todo, TypeOK
  <2>4. CASE pc' = "next"
    <3>1. RunPhase' = "running"
      BY <2>4 DEF RunPhase
    <3>2. Turn!PassOver
      BY <2>1, <2>2, <2>3, <3>1 DEF Turn!PassOver
    <3>3. QED
      BY <2>1, <3>2 DEF Turn!Next, Turn!Run
  <2>5. CASE pc' = "exited" /\ status' = 1
    <3>1. RunPhase' = "failed"
      BY <2>5 DEF RunPhase
    <3>2. Turn!Fail
      BY <2>1, <2>2, <2>3, <3>1, HandOnly DEF Turn!Fail
    <3>3. QED
      BY <2>1, <3>2 DEF Turn!Next, Turn!Run
  <2>6. QED
    BY <1>3, <2>4, <2>5 DEF FirstLine
<1>4. ASSUME NEW r \in Repos, ReadLine(r) PROVE Turn!Next
  <2>1. RunPhase = "running" /\ Todo = lines /\ Hand = {}
    BY <1>4 DEF ReadLine, RunPhase, Todo, Hand, TypeOK
  <2>2. Tree' = Tree /\ UNCHANGED <<requested, continued>> /\ r \in lines /\ lines' = lines \ {r}
    BY <1>4 DEF ReadLine, Tree
  <2>3. RunPhase' = "running" /\ Todo' = lines \ {r}
    BY <1>4 DEF ReadLine, Skip, NotAFork, Enter, RunPhase, Todo
  <2>4. CASE Skip(r)
    <3>1. Hand' = {} /\ UNCHANGED processed
      BY <2>1, <2>4 DEF Skip, Hand
    <3>2. Turn!PassOver
      BY <2>1, <2>2, <2>3, <3>1 DEF Turn!PassOver
    <3>3. QED
      BY <2>1, <3>2 DEF Turn!Next, Turn!Run
  <2>5. CASE NotAFork(r)
    <3>1. Hand' = {} /\ processed' = processed \cup {r} /\ Turn!Meant(r)
      BY <2>1, <2>5 DEF NotAFork, Hand, Wanted, Turn!Meant
    <3>2. Turn!PassOver
      BY <2>1, <2>2, <2>3, <3>1 DEF Turn!PassOver
    <3>3. QED
      BY <2>1, <3>2 DEF Turn!Next, Turn!Run
  <2>6. CASE Enter(r)
    <3>1. Hand' = {r} /\ UNCHANGED processed /\ Turn!Meant(r)
      BY <2>6, NoRepoAssumption DEF Enter, Hand, Wanted, Turn!Meant
    <3>2. Turn!TakeUp(r)
      BY <2>1, <2>2, <2>3, <3>1 DEF Turn!TakeUp
    <3>3. QED
      BY <2>1, <3>2 DEF Turn!Next, Turn!Run
  <2>7. QED
    BY <1>4, <2>4, <2>5, <2>6 DEF ReadLine
<1>5. ASSUME LoopEnds PROVE Turn!Next
  <2>1. RunPhase = "running" /\ Todo = {} /\ Hand = {}
    BY <1>5 DEF LoopEnds, RunPhase, Todo, Hand, TypeOK
  <2>2. UNCHANGED <<head, local, requested, processed, continued, Hand, Tree>> /\ Todo' = {}
    BY <1>5 DEF LoopEnds, Todo, Hand, Tree
  <2>3. CASE RunPhase' = "succeeded"
    <3>1. status' = 0
      BY <1>5, <2>3 DEF LoopEnds, RunPhase
    <3>2. requested \subseteq processed /\ ~continued
      BY <1>5, <3>1 DEF LoopEnds
    <3>3. Turn!Succeed
      BY <2>1, <2>2, <2>3, <3>2 DEF Turn!Succeed
    <3>4. QED
      BY <2>1, <3>3 DEF Turn!Next, Turn!Run
  <2>4. CASE RunPhase' = "failed"
    <3>1. Turn!Fail
      BY <2>1, <2>2, <2>4, HandOnly DEF Turn!Fail
    <3>2. QED
      BY <2>1, <3>1 DEF Turn!Next, Turn!Run
  <2>5. QED
    BY <1>5, <2>3, <2>4 DEF LoopEnds, RunPhase
<1>6. ASSUME Inspect PROVE Turn!Next
  <2>1. cur \in Repos
    BY <1>6 DEF Inspect, TypeOK
  <2>2. UNCHANGED <<options, lines, head, local>>
    BY <1>6 DEF Inspect
  <2>3. \/ \E step \in Working : GoOn(step)
        \/ \E estat \in {0, 1, 99, 100, 101} : SubshellEnds(estat)
    BY <1>6 DEF Inspect, Working
  <2>4. QED
    BY <2>1, <2>2, <2>3, SubshellTurn
<1>7. ASSUME Checkout PROVE Turn!Next
  <2>1. cur \in Repos
    BY <1>7 DEF Checkout, TypeOK
  <2>2. /\ UNCHANGED <<options, lines>>
        /\ \A r \in Repos : r # cur => head'[r] = head[r] /\ local'[r] = local[r]
    BY <1>7 DEF Checkout, TypeOK
  <2>3. \/ \E step \in Working : GoOn(step)
        \/ \E estat \in {0, 1, 99, 100, 101} : SubshellEnds(estat)
    BY <1>7 DEF Checkout, Working
  <2>4. QED
    BY <2>1, <2>2, <2>3, SubshellTurn
<1>8. ASSUME Merge PROVE Turn!Next
  <2>1. cur \in Repos
    BY <1>8 DEF Merge, TypeOK
  <2>2. /\ UNCHANGED <<options, lines>>
        /\ \A r \in Repos : r # cur => head'[r] = head[r] /\ local'[r] = local[r]
    BY <1>8 DEF Merge, TypeOK
  <2>3. AfterMerge \in Working
    BY DEF AfterMerge, Working
  <2>4. \/ \E step \in Working : GoOn(step)
        \/ \E estat \in {0, 1, 99, 100, 101} : SubshellEnds(estat)
    BY <1>8, <2>3 DEF Merge
  <2>5. QED
    BY <2>1, <2>2, <2>4, SubshellTurn
<1>9. ASSUME Push PROVE Turn!Next
  <2>1. cur \in Repos
    BY <1>9 DEF Push, TypeOK
  <2>2. UNCHANGED <<options, lines, head, local>>
    BY <1>9 DEF Push
  <2>3. \/ \E step \in Working : GoOn(step)
        \/ \E estat \in {0, 1, 99, 100, 101} : SubshellEnds(estat)
    BY <1>9 DEF Push, Working
  <2>4. QED
    BY <2>1, <2>2, <2>3, SubshellTurn
<1>10. ASSUME Restore PROVE Turn!Next
  <2>1. cur \in Repos
    BY <1>10 DEF Restore, TypeOK
  <2>2. /\ UNCHANGED <<options, lines>>
        /\ \A r \in Repos : r # cur => head'[r] = head[r] /\ local'[r] = local[r]
    BY <1>10 DEF Restore, TypeOK
  <2>3. \E estat \in {0, 1, 99, 100, 101} : SubshellEnds(estat)
    BY <1>10 DEF Restore
  <2>4. QED
    BY <2>1, <2>2, <2>3, SubshellTurn
<1>11. ASSUME NothingToRestore PROVE Turn!Next
  <2>1. cur \in Repos /\ UNCHANGED <<options, lines, head, local>>
    BY <1>11 DEF NothingToRestore, TypeOK
  <2>2. \E estat \in {0, 1, 99, 100, 101} : SubshellEnds(estat)
    BY <1>11 DEF NothingToRestore
  <2>3. QED
    BY <2>1, <2>2, SubshellTurn
<1>12. ASSUME Kill PROVE Turn!Next
  <2>1. RunPhase = "running" /\ lines \in SUBSET Todo
    BY <1>12 DEF Kill, RunPhase, Todo, TypeOK
  <2>2. RunPhase' = "failed" /\ Todo' = lines /\ Hand' = {}
    BY <1>12 DEF Kill, RunPhase, Todo, Hand
  <2>3. UNCHANGED <<head, local, requested, processed, continued>>
    BY <1>12 DEF Kill
  <2>4. Turn!Fail
    BY <2>1, <2>2, <2>3, HandOnly DEF Turn!Fail
  <2>5. QED
    BY <2>1, <2>4 DEF Turn!Next, Turn!Run
<1>13. ASSUME Return PROVE Turn!Next
  <2>1. RunPhase \in {"succeeded", "failed"} /\ RunPhase' = "idle"
    BY <1>13 DEF Return, RunPhase
  <2>2. UNCHANGED <<requested, Todo, Hand, processed, continued, Tree>>
    BY <1>13 DEF Return, Todo, Hand, Tree
  <2>3. Turn!Return
    BY <2>1, <2>2 DEF Turn!Return
  <2>4. QED
    BY <2>3 DEF Turn!Next
<1>14. ASSUME NEW r \in Repos, Fetched(r) \/ OthersPush(r) \/ UserEdits(r)
       PROVE  UNCHANGED Turn!vars
  BY <1>14, UnseenStep DEF Fetched, OthersPush, UserEdits
<1>15. ASSUME NEW r \in Repos, UserCommits(r) \/ \E h \in Heads : UserChecksOut(r, h)
       PROVE  Turn!Next
  <2>1. pc = "idle" /\ UNCHANGED <<pc, requested, lines, cur, processed, continued>>
    BY <1>15 DEF UserCommits, UserChecksOut
  <2>2. RunPhase = "idle" /\ UNCHANGED <<RunPhase, requested, Todo, Hand, processed, continued>>
    BY <2>1 DEF RunPhase, Todo, Hand
  <2>3. Tree' \in [Repos -> Heads \X SUBSET Commits]
    BY TypeOK' DEF TypeOK, Tree
  <2>4. Turn!UserWorks
    BY <2>2, <2>3 DEF Turn!UserWorks
  <2>5. QED
    BY <2>4 DEF Turn!Next
<1>16. ASSUME UNCHANGED vars PROVE UNCHANGED Turn!vars
  BY <1>16, UnseenStep DEF vars
<1>17. QED
  BY <1>1, <1>2, <1>3, <1>4, <1>5, <1>6, <1>7, <1>8, <1>9, <1>10, <1>11, <1>12, <1>13, <1>14,
     <1>15, <1>16 DEF Next, Program, Subshell, World

(* The program takes up one repository at a time, touches no other, and
   succeeds only when all that was asked for is done and nothing was given up:
   in every run, whatever fails in it and whoever pushes meanwhile. *)
THEOREM ReposAreMergedInTurn == Spec => MergesInTurn
<1>1. Init => Turn!Init
  <2> SUFFICES ASSUME Init PROVE Turn!Init
    OBVIOUS
  <2>1. RunPhase = "idle" /\ Todo = {} /\ Hand = {} /\ requested = {} /\ processed = {}
    BY DEF Init, RunPhase, Todo, Hand
  <2>2. continued = FALSE
    BY Zenon DEF Init
  <2>3. Tree \in [Repos -> Heads \X SUBSET Commits]
    BY DEF Init, Tree, Heads
  <2>4. QED
    BY <2>1, <2>2, <2>3 DEF Turn!Init
<1>2. TypeOK /\ TypeOK' /\ [Next]_vars => [Turn!Next]_(Turn!vars)
  BY StepInTurn
<1>3. QED
  BY <1>1, <1>2, TypeCorrect, PTL DEF Spec, MergesInTurn, Turn!Spec
============================================================================
