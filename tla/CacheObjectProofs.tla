------------------------- MODULE CacheObjectProofs -------------------------
(***************************************************************************)
(* Theorems about CacheObject and ClearedObject, for every value of their  *)
(* constants.                                                              *)
(*                                                                         *)
(* TypeCorrect holds of the specification as it stands, and                *)
(* ClearIsTheRemedy of any number of writers, readers and clearers that    *)
(* die and overlap at will, of what a clear that was alone leaves. The     *)
(* others are about one object that one --get or --update at a time        *)
(* refreshes, with any number of --get-cached readers beside it and no     *)
(* --clear: as long as no invocation has died, or, if the server never     *)
(* goes back to an earlier version, with one death. The run                *)
(* object_two_gets shows what a second refresh can do.                     *)
(***************************************************************************)
EXTENDS ClearedObject, TLAPS

(* What makes the type invariant inductive: a response is only staged once *)
(* there is one.                                                           *)
AnswerKnown == \A p \in Procs : pc[p] = "stage" => got[p] \in Versions

TypeInv == TypeOK /\ AnswerKnown

(* Every variable always has its type. *)
THEOREM TypeCorrect == Spec => []TypeOK
<1> USE VersionsAssumption, SlotsAssumption, SentinelAssumption, BoundsAssumption
        DEF Procs, Getters, Parts, Kinds, Contents, Broken,
            Steps, Ended, RefreshSteps, EmitSteps, ClearSteps
<1>1. Init => TypeInv
  <2> SUFFICES ASSUME Init PROVE TypeInv
    OBVIOUS
  <2>1. AnswerKnown
    BY DEF Init, AnswerKnown
  <2>2. /\ pc \in [Procs -> Steps]
        /\ todo \in [Procs -> SUBSET (Kinds \X Parts)]
        /\ seen \in [Procs -> SUBSET Versions]
        /\ own \in [Parts -> Procs \cup {NoProc}]
    BY DEF Init
  <2>3. /\ plain \in [Parts -> Contents]
        /\ zst \in [Parts -> Contents]
        /\ staged \in [Parts -> Contents]
        /\ cur \in [Procs -> Parts]
    BY DEF Init
  <2>4. /\ tag \in [Procs -> Versions \cup {NoTag}]
        /\ got \in [Procs -> Versions \cup {NoTag}]
        /\ src \in [Procs -> Contents]
        /\ out \in [Procs -> Versions \cup {Absent}]
    BY DEF Init
  <2>5. server \in Versions /\ deaths \in 0..MaxDeaths
    BY DEF Init
  <2>6. dir \in BOOLEAN /\ alone \subseteq Procs
    BY Zenon DEF Init
  <2>7. QED
    BY <2>1, <2>2, <2>3, <2>4, <2>5, <2>6 DEF TypeOK, TypeInv
<1>2. TypeInv /\ [Next]_vars => TypeInv'
  <2> SUFFICES ASSUME TypeInv, [Next]_vars PROVE TypeInv'
    OBVIOUS
  <2> USE DEF TypeInv, AnswerKnown, TypeOK, history
  <2>1. ASSUME NEW v \in Versions, ServerChange(v) PROVE TypeInv'
    BY <2>1 DEF ServerChange, files, locals
  <2>2. ASSUME NEW p \in Procs, NEW step \in {"test", "testZst", "scan"},
               Begin(p, step), dir' \in BOOLEAN
        PROVE TypeInv'
    <3>1. alone' \subseteq Procs
      BY <2>2 DEF Begin
    <3>2. /\ pc' = [pc EXCEPT ![p] = step]
          /\ cur' = [cur EXCEPT ![p] = "body"]
          /\ tag' = [tag EXCEPT ![p] = NoTag]
          /\ got' = [got EXCEPT ![p] = NoTag]
          /\ src' = [src EXCEPT ![p] = Absent]
          /\ out' = [out EXCEPT ![p] = Absent]
          /\ seen' = [seen EXCEPT ![p] = {server}]
          /\ UNCHANGED <<server, plain, zst, staged, own, todo, deaths>>
      BY <2>2 DEF Begin, Goto
    <3>3. QED
      BY <2>2, <3>1, <3>2
  <2>3. ASSUME NEW w \in Writers, Refresh(w) PROVE TypeInv'
    <3> USE <2>3 DEF Refresh, files, NextPart, Goto, Bail
    <3>1. CASE TestFinal(w)
      BY <3>1 DEF TestFinal
    <3>2. CASE TouchFinal(w)
      BY <3>2 DEF TouchFinal
    <3>3. CASE ReadTag(w)
      BY <3>3 DEF ReadTag
    <3>4. CASE NotModified(w)
      BY <3>4 DEF NotModified
    <3>5. CASE Fetched(w)
      BY <3>5 DEF Fetched
    <3>6. CASE CurlFails(w)
      BY <3>6 DEF CurlFails
    <3>7. CASE Stage(w)
      BY <3>7 DEF Stage
    <3>8. CASE Move(w)
      BY <3>8 DEF Move
    <3>9. CASE ZstdOpen(w)
      BY <3>9 DEF ZstdOpen
    <3>10. CASE ZstdWrite(w)
      BY <3>10 DEF ZstdWrite
    <3>11. CASE ZstdClose(w)
      BY <3>11 DEF ZstdClose
    <3>12. CASE ZstdRm(w)
      BY <3>12 DEF ZstdRm
    <3>13. QED
      BY <3>1, <3>2, <3>3, <3>4, <3>5, <3>6, <3>7, <3>8, <3>9, <3>10, <3>11, <3>12
  <2>4. ASSUME NEW p \in Getters, Emit(p) PROVE TypeInv'
    BY <2>4 DEF Emit, files, locals, Goto, TestZst, TestPlain, EmitZst, EmitPlain, Write
  <2>5. ASSUME NEW c \in Clearers, Clear(c) PROVE TypeInv'
    <3> USE <2>5 DEF Clear, files, Goto
    <3>1. CASE ClearScan(c)
      <4>1. Present \in SUBSET (Kinds \X Parts)
        BY Zenon DEF Present
      <4>2. QED
        BY <3>1, <4>1 DEF ClearScan
    <3>2. CASE ClearUnlink(c)
      BY <3>2 DEF ClearUnlink, Without
    <3>3. CASE ClearRmdir(c)
      <4>1. /\ dir' \in BOOLEAN
            /\ UNCHANGED <<server, plain, zst, staged, own, cur, tag, got,
                           src, todo, out, deaths, seen, alone>>
        BY <3>3 DEF ClearRmdir, locals, history
      <4>2. pc' \in [Procs -> Steps] /\ pc'[c] \in {"ok", "exit1"}
            /\ \A p \in Procs \ {c} : pc'[p] = pc[p]
        BY <3>3 DEF ClearRmdir
      <4>3. QED
        BY <4>1, <4>2
    <3>4. QED
      BY <3>1, <3>2, <3>3
  <2>6. ASSUME NEW p \in Procs, Die(p) PROVE TypeInv'
    BY <2>6 DEF Die, files, locals, Goto
  <2>7. CASE UNCHANGED vars
    BY <2>7 DEF vars, files, locals
  <2>8. QED
    BY <2>1, <2>2, <2>3, <2>4, <2>5, <2>6, <2>7
       DEF Next, StartGet, StartGetCached, StartClear
<1>3. TypeInv => TypeOK
  BY DEF TypeInv
<1>4. QED
  BY <1>1, <1>2, <1>3, PTL DEF Spec

----------------------------------------------------------------------------
(***************************************************************************)
(* The files of an object that one invocation w at a time refreshes.       *)
(***************************************************************************)
PlainAre(body, hdrs) == plain["body"] = body /\ plain["hdrs"] = hdrs
StagedAre(body, hdrs) == staged["body"] = body /\ staged["hdrs"] = hdrs
ZstAre(body, hdrs) == zst["body"] = body /\ zst["hdrs"] = hdrs

(* Nothing but a matching compressed pair, or no pair at all. *)
Settled ==
    /\ PlainAre(Absent, Absent)
    /\ StagedAre(Absent, Absent)
    /\ \/ \E v \in Versions : ZstAre(v, v)
       \/ zst["body"] \in {Absent, Empty} /\ zst["hdrs"] \in {Absent, Empty}

At(p, step, part) == pc[p] = step /\ cur[p] = part

(* What the directory holds at each step of w, where g is the answer.      *)
Between(w, g) ==
    /\ pc[w] \in Ended \cup {"test", "touch", "readTag", "curl"} => Settled
    /\ At(w, "stage", "body") =>
         PlainAre(Absent, Absent) /\ StagedAre(Absent, Absent)
    /\ At(w, "stage", "hdrs") =>
         PlainAre(Absent, Absent) /\ StagedAre(g, Absent)
    /\ At(w, "move", "body") =>
         PlainAre(Absent, Absent) /\ StagedAre(g, g)
    /\ At(w, "move", "hdrs") =>
         PlainAre(g, Absent) /\ StagedAre(Absent, g)
    /\ pc[w] \in {"zopen", "zwrite", "zclose", "zrm"} =>
         StagedAre(Absent, Absent) /\ plain["hdrs"] = g
    /\ pc[w] \in {"zopen", "zwrite", "zclose", "zrm"} /\ cur[w] = "body" =>
         plain["body"] = g
    /\ pc[w] \in {"zopen", "zwrite", "zclose", "zrm"} /\ cur[w] = "hdrs" =>
         plain["body"] = Absent /\ zst["body"] = g
    /\ pc[w] \in {"zwrite", "zclose"} => own[cur[w]] = w /\ src[w] = g
    /\ pc[w] = "zclose" => zst[cur[w]] = Partial
    /\ pc[w] = "zrm" => zst[cur[w]] = g
    /\ pc[w] \in EmitSteps => Settled /\ ZstAre(g, g)

(* The inductive invariant: what the directory holds, and that the answer  *)
(* w got, the tag it sent and what it emitted are about the same version.  *)
SerialInv(w) ==
    /\ pc[w] \notin {"dead", "missing", "testPlain", "emitPlain"}
    /\ Active(w) => dir /\ server \in seen[w]
    /\ pc[w] \in {"readTag", "curl"} \cup EmitSteps => cur[w] = "body"
    /\ pc[w] = "touch" => zst[cur[w]] = Absent
    /\ pc[w] = "curl" /\ tag[w] \in Versions => ZstAre(tag[w], tag[w])
    /\ pc[w] \in (RefreshSteps \ {"test", "touch", "readTag", "curl"}) \cup EmitSteps
         => got[w] \in Versions /\ got[w] \in seen[w]
    /\ pc[w] = "ok" => out[w] \in seen[w]
    /\ Between(w, got[w])

(* Nobody but w changes the files. *)
Serial(w) == Writers = {w} /\ Clearers = {}

LEMMA SerialInit ==
    ASSUME NEW w, Serial(w)
    PROVE  Init => SerialInv(w)
BY SlotsAssumption, SentinelAssumption
   DEF Init, Serial, SerialInv, Between, Settled, PlainAre, StagedAre, ZstAre, At,
       Procs, Parts, Active, Ended, RefreshSteps, EmitSteps

LEMMA WriterFacts ==
    ASSUME NEW w \in Writers
    PROVE  /\ w \in Procs /\ w \notin Readers /\ w \notin Clearers
           /\ \A v \in Versions : v # Absent /\ v # Empty /\ v # Partial
           /\ NoTag \notin Versions
BY SlotsAssumption, SentinelAssumption DEF Procs, Broken

(* The steps of a writer keep the invariant, whoever else there is.        *)
LEMMA SerialStart ==
    ASSUME NEW w \in Writers, TypeOK, Settled, StartGet(w)
    PROVE  SerialInv(w)'
BY WriterFacts
   DEF StartGet, Begin, Goto, TypeOK, SerialInv, Between, Settled, PlainAre, StagedAre,
       ZstAre, At, Active, Ended, RefreshSteps, EmitSteps

LEMMA SerialRefresh ==
    ASSUME NEW w \in Writers, TypeOK, SerialInv(w), Refresh(w)
    PROVE  SerialInv(w)'
<1> USE DEF Between, Settled, PlainAre, StagedAre, ZstAre, At,
            Active, Ended, RefreshSteps, EmitSteps
<1>a. /\ w \in Procs
      /\ \A v \in Versions : v # Absent /\ v # Empty /\ v # Partial
      /\ NoTag \notin Versions
  BY WriterFacts
<1>b. UNCHANGED <<server, out, seen>>
  BY DEF Refresh, history
<1> USE <1>a, <1>b DEF files, NextPart, Goto, Bail, Parts
<1>1. CASE TestFinal(w)
  BY <1>1 DEF TestFinal, SerialInv, TypeOK
<1>2. CASE TouchFinal(w)
  BY <1>2 DEF TouchFinal, SerialInv, TypeOK
<1>3. CASE ReadTag(w)
  BY <1>3 DEF ReadTag, TagHeaders, NonEmpty, SerialInv, TypeOK
<1>4. CASE NotModified(w)
  BY <1>4 DEF NotModified, SerialInv, TypeOK
<1>5. CASE Fetched(w)
  BY <1>5 DEF Fetched, SerialInv, TypeOK
<1>6. CASE CurlFails(w)
  BY <1>6 DEF CurlFails, SerialInv, TypeOK
<1>7. CASE Stage(w)
  BY <1>7 DEF Stage, SerialInv, TypeOK
<1>8. CASE Move(w)
  <2>1. /\ got[w] \in Versions /\ got[w] \in seen[w] /\ server \in seen[w] /\ dir
        /\ pc[w] = "move" /\ PlainAre(IF cur[w] = "body" THEN Absent ELSE got[w], Absent)
        /\ StagedAre(IF cur[w] = "body" THEN got[w] ELSE Absent, got[w])
        /\ cur[w] \in Parts
    BY <1>8 DEF Move, SerialInv, TypeOK
  <2>2. /\ UNCHANGED <<dir, zst, own, tag, got, src>>
        /\ plain' = [plain EXCEPT ![cur[w]] = got[w]]
        /\ staged' = [staged EXCEPT ![cur[w]] = Absent]
        /\ pc' = [pc EXCEPT ![w] = IF cur[w] = "body" THEN "move" ELSE "zopen"]
        /\ cur' = [cur EXCEPT ![w] = IF cur[w] = "body" THEN "hdrs" ELSE "body"]
    BY <1>8, <2>1 DEF Move
  <2>3. CASE cur[w] = "body"
    <3>1. /\ pc'[w] = "move" /\ cur'[w] = "hdrs"
          /\ PlainAre(got[w], Absent)' /\ StagedAre(Absent, got[w])'
      BY <2>1, <2>2, <2>3 DEF TypeOK
    <3>2. QED
      BY <2>1, <2>2, <3>1 DEF SerialInv
  <2>4. CASE cur[w] = "hdrs"
    <3>1. /\ pc'[w] = "zopen" /\ cur'[w] = "body"
          /\ PlainAre(got[w], got[w])' /\ StagedAre(Absent, Absent)'
      BY <2>1, <2>2, <2>4 DEF TypeOK
    <3>2. QED
      BY <2>1, <2>2, <3>1 DEF SerialInv
  <2>5. QED
    BY <2>1, <2>3, <2>4
<1>9. CASE ZstdOpen(w)
  <2>1. /\ got[w] \in Versions /\ got[w] \in seen[w] /\ server \in seen[w] /\ dir
        /\ pc[w] = "zopen" /\ cur[w] \in Parts /\ plain[cur[w]] = got[w]
        /\ plain["hdrs"] = got[w] /\ StagedAre(Absent, Absent)
        /\ cur[w] = "hdrs" => plain["body"] = Absent /\ zst["body"] = got[w]
    BY <1>9 DEF ZstdOpen, SerialInv, TypeOK
  <2>2. /\ UNCHANGED <<dir, plain, staged, cur, tag, got>>
        /\ pc'[w] = "zwrite" /\ src'[w] = got[w] /\ own'[cur[w]] = w
        /\ cur[w] = "hdrs" => zst'["body"] = zst["body"]
    BY <1>9, <2>1 DEF ZstdOpen, TypeOK
  <2>3. QED
    BY <2>1, <2>2 DEF SerialInv
<1>10. CASE ZstdWrite(w)
  BY <1>10 DEF ZstdWrite, SerialInv, TypeOK
<1>11. CASE ZstdClose(w)
  BY <1>11 DEF ZstdClose, SerialInv, TypeOK
<1>12. CASE ZstdRm(w)
  <2>1. /\ got[w] \in Versions /\ got[w] \in seen[w] /\ server \in seen[w] /\ dir
        /\ pc[w] = "zrm" /\ cur[w] \in Parts /\ plain[cur[w]] = got[w]
        /\ plain["hdrs"] = got[w] /\ StagedAre(Absent, Absent) /\ zst[cur[w]] = got[w]
        /\ cur[w] = "hdrs" => plain["body"] = Absent /\ zst["body"] = got[w]
    BY <1>12 DEF ZstdRm, SerialInv, TypeOK
  <2>2. UNCHANGED <<dir, zst, staged, own, tag, got, src>>
    BY <1>12, <2>1 DEF ZstdRm
  <2>3. CASE cur[w] = "body"
    <3>1. pc'[w] = "zopen" /\ cur'[w] = "hdrs" /\ PlainAre(Absent, got[w])'
      BY <1>12, <2>1, <2>3 DEF ZstdRm, TypeOK
    <3>2. QED
      BY <2>1, <2>2, <2>3, <3>1 DEF SerialInv
  <2>4. CASE cur[w] = "hdrs"
    <3>1. pc'[w] = "testZst" /\ cur'[w] = "body" /\ PlainAre(Absent, Absent)'
      BY <1>12, <2>1, <2>4 DEF ZstdRm, TypeOK
    <3>2. QED
      BY <2>1, <2>2, <2>4, <3>1 DEF SerialInv
  <2>5. QED
    BY <2>1, <2>3, <2>4
<1>13. QED
  BY <1>1, <1>2, <1>3, <1>4, <1>5, <1>6, <1>7, <1>8, <1>9, <1>10, <1>11, <1>12
     DEF Refresh

LEMMA SerialEmit ==
    ASSUME NEW w \in Writers, TypeOK, SerialInv(w), Emit(w)
    PROVE  SerialInv(w)'
BY WriterFacts
   DEF Emit, files, locals, history, Goto, TestZst, TestPlain, EmitZst, EmitPlain, Write,
       SerialInv, TypeOK, NonEmpty, Between, Settled, PlainAre, StagedAre, ZstAre, At,
       Active, Ended, RefreshSteps, EmitSteps

LEMMA SerialStep ==
    ASSUME NEW w, Serial(w)
    PROVE  TypeOK /\ SerialInv(w) /\ [Next]_vars /\ deaths' = 0 => SerialInv(w)'
<1> USE DEF Between, Settled, PlainAre, StagedAre, ZstAre, At,
            Active, Ended, RefreshSteps, EmitSteps
<1>a. SUFFICES ASSUME TypeOK, SerialInv(w), [Next]_vars, deaths' = 0 PROVE SerialInv(w)'
  OBVIOUS
<1>0. /\ w \in Procs /\ w \in Writers /\ w \notin Readers
      /\ \A v \in Versions : v # Absent /\ v # Empty /\ v # Partial
      /\ NoTag \notin Versions
  BY SlotsAssumption, SentinelAssumption DEF Serial, Procs, Broken
<1>1. ASSUME NEW v \in Versions, ServerChange(v) PROVE SerialInv(w)'
  BY <1>a, <1>0, <1>1 DEF SerialInv, ServerChange, TypeOK, files, locals
<1>2. ASSUME StartGet(w) PROVE SerialInv(w)'
  <2>1. Settled
    BY <1>a, <1>0, <1>2 DEF StartGet, Begin, SerialInv
  <2>2. QED
    BY <1>a, <1>0, <1>2, <2>1, SerialStart
<1>3. ASSUME Refresh(w) PROVE SerialInv(w)'
  BY <1>a, <1>0, <1>3, SerialRefresh
<1>4. ASSUME NEW r \in Readers, StartGetCached(r) PROVE SerialInv(w)'
  BY <1>a, <1>0, <1>4 DEF StartGetCached, Begin, Goto, SerialInv, TypeOK, Procs
<1>5. ASSUME Emit(w) PROVE SerialInv(w)'
  BY <1>a, <1>0, <1>5, SerialEmit
<1>6. ASSUME NEW r \in Readers, Emit(r) PROVE SerialInv(w)'
  BY <1>a, <1>0, <1>6 DEF Emit, files, locals, history, Goto, TestZst, TestPlain, EmitZst,
                    EmitPlain, Write, SerialInv, TypeOK, Procs
<1>7. ASSUME NEW p \in Procs, Die(p) PROVE SerialInv(w)'
  BY <1>a, <1>7, BoundsAssumption DEF Die, TypeOK
<1>8. CASE UNCHANGED vars
  BY <1>a, <1>8 DEF vars, files, locals, history, SerialInv
<1>9. QED
  BY <1>a, <1>0, <1>1, <1>2, <1>3, <1>4, <1>5, <1>6, <1>7, <1>8
     DEF Next, Getters, Serial

LEMMA DeathsStep == TypeOK /\ [Next]_vars => deaths <= deaths'
<1> SUFFICES ASSUME TypeOK, [Next]_vars PROVE deaths <= deaths'
  OBVIOUS
<1>1. deaths \in Nat
  BY BoundsAssumption DEF TypeOK
<1>2. deaths' = deaths \/ deaths' = deaths + 1
  BY DEF Next, ServerChange, StartGet, StartGetCached, StartClear, Begin, Refresh, Emit,
         Clear, Die, vars
<1>3. QED
  BY <1>1, <1>2

(* The inductive invariant holds of every behaviour with one refresher as  *)
(* long as nobody has died.                                                *)
THEOREM SerialCorrect ==
    ASSUME NEW w, Serial(w)
    PROVE  Spec => [](TypeOK /\ (deaths = 0 => SerialInv(w)))
<1>1. Init => SerialInv(w)
  BY SerialInit
<1>2. TypeOK /\ (deaths = 0 => SerialInv(w)) /\ [Next]_vars => (deaths = 0 => SerialInv(w))'
  <2> SUFFICES ASSUME TypeOK, deaths = 0 => SerialInv(w), [Next]_vars, deaths' = 0
               PROVE  SerialInv(w)'
    OBVIOUS
  <2>1. deaths = 0
    BY DeathsStep, BoundsAssumption DEF TypeOK
  <2>2. QED
    BY <2>1, SerialStep
<1>3. QED
  BY <1>1, <1>2, TypeCorrect, PTL DEF Spec

(* When nobody dies, a --get only emits a version the server had while it  *)
(* ran, even if the server goes back to an earlier version.                *)
THEOREM GetsAreFresh ==
    ASSUME NEW w, Serial(w), MaxDeaths = 0
    PROVE  Spec => []FreshGet
<1>1. TypeOK /\ (deaths = 0 => SerialInv(w)) => FreshGet
  BY DEF Serial, SerialInv, FreshGet, TypeOK
<1>2. QED
  BY <1>1, SerialCorrect, PTL

(* After the server's answer the object is in the cache and can be emitted, *)
(* unless some invocation has died.                                        *)
THEOREM AnswerIsInCache ==
    ASSUME NEW w, Serial(w)
    PROVE  Spec => []FallThroughInCache
<1>1. TypeOK /\ (deaths = 0 => SerialInv(w)) => FallThroughInCache
  BY SentinelAssumption
     DEF Serial, SerialInv, Between, ZstAre, EmitSteps, RefreshSteps,
         FallThroughInCache, BodyToEmit, NonEmpty, Broken
<1>2. QED
  BY <1>1, SerialCorrect, PTL

(* Between invocations the stored headers and body are one response, unless *)
(* some invocation has died.                                               *)
THEOREM PairsMatch ==
    ASSUME NEW w, Serial(w)
    PROVE  Spec => []StoredPairMatches
<1>1. TypeOK /\ (deaths = 0 => SerialInv(w)) => StoredPairMatches
  BY SlotsAssumption, SentinelAssumption
     DEF Serial, SerialInv, Between, Settled, PlainAre, ZstAre, Procs, Active,
         StoredPairMatches, Quiescent, TagHeaders, BodyToEmit, NonEmpty, Broken
<1>2. QED
  BY <1>1, SerialCorrect, PTL
----------------------------------------------------------------------------
(***************************************************************************)
(* One death, and a server that never goes back to an earlier version.     *)
(*                                                                         *)
(* The death may leave the headers behind the body, but never before it:   *)
(* the ETag that is sent then names an older version than the server has,  *)
(* unless the body is the server's, and the server answers with the whole  *)
(* object, which replaces all that was left over.                          *)
(***************************************************************************)
NotBehind(old, new) == old \in Versions /\ new \in Versions => old <= new

(* The body that would be emitted is as recent as the headers that would be
   asked about. *)
TagIsOld == NotBehind(TagHeaders, BodyToEmit)

(* The server has had all that is stored. *)
StoredIsPast(w) ==
    /\ \A f \in Parts :
         /\ NotBehind(plain[f], server) /\ NotBehind(zst[f], server)
         /\ NotBehind(staged[f], server)
    /\ NotBehind(got[w], server)

AskSteps == {"test", "touch", "readTag", "curl"}
StageSteps == {"stage", "move"}
ZstdSteps == {"zopen", "zwrite", "zclose", "zrm"}

(* What the refresh has put in place so far, whatever was there before. *)
PutInPlace(w, g) ==
    /\ At(w, "stage", "hdrs") => staged["body"] = g
    /\ At(w, "move", "body") => StagedAre(g, g)
    /\ At(w, "move", "hdrs") => StagedAre(Absent, g) /\ plain["body"] = g
    /\ pc[w] \in ZstdSteps => StagedAre(Absent, Absent) /\ plain["hdrs"] = g
    /\ pc[w] \in ZstdSteps /\ cur[w] = "body" => plain["body"] = g
    /\ pc[w] \in ZstdSteps /\ cur[w] = "hdrs" => plain["body"] = Absent /\ zst["body"] = g
    /\ pc[w] \in {"zwrite", "zclose"} => own[cur[w]] = w /\ src[w] = g
    /\ pc[w] = "zwrite" => zst[cur[w]] = Empty
    /\ pc[w] = "zclose" => zst[cur[w]] = Partial
    /\ pc[w] = "zrm" => zst[cur[w]] = g

ZstSettled ==
    \/ \E v \in Versions : ZstAre(v, v)
    \/ zst["body"] \in {Absent, Empty} /\ zst["hdrs"] \in {Absent, Empty}

(* As long as nobody has died, w replaces a settled object. *)
NothingLeftOver(w) ==
    /\ pc[w] \in Ended \cup AskSteps \cup EmitSteps => Settled
    /\ pc[w] \in StageSteps \/ At(w, "zopen", "body") => ZstSettled
    /\ pc[w] = "stage" \/ At(w, "move", "body") => PlainAre(Absent, Absent)
    /\ At(w, "move", "hdrs") => plain["hdrs"] = Absent

CrashInv(w) ==
    /\ Active(w) => dir /\ server \in seen[w]
    /\ pc[w] \in {"readTag", "curl"} \cup EmitSteps => cur[w] = "body"
    /\ pc[w] = "touch" => zst[cur[w]] = Absent
    /\ pc[w] = "curl" /\ tag[w] \in Versions => tag[w] = TagHeaders
    /\ pc[w] \in StageSteps \cup ZstdSteps \cup EmitSteps
         => got[w] \in Versions /\ got[w] \in seen[w]
    /\ pc[w] \in EmitSteps /\ BodyToEmit \in Versions => BodyToEmit = got[w]
    /\ pc[w] = "emitZst" => NonEmpty(zst["body"])
    /\ pc[w] \in {"testPlain", "emitPlain"} => ~NonEmpty(zst["body"])
    /\ pc[w] = "ok" => out[w] \in seen[w]
    /\ pc[w] \in StageSteps \cup ZstdSteps => NotBehind(zst["hdrs"], got[w])
    /\ PutInPlace(w, got[w])
    /\ StoredIsPast(w)
    /\ pc[w] \in Ended \cup AskSteps \cup EmitSteps => TagIsOld
    /\ deaths = 0 => TagIsOld /\ NothingLeftOver(w)

(* At most one death, and a server that never goes back. *)
Forward(w) == Serial(w) /\ MaxDeaths <= 1 /\ ~MayRevert

LEMMA CrashInit ==
    ASSUME NEW w, Forward(w)
    PROVE  Init => CrashInv(w)
BY SlotsAssumption, SentinelAssumption
   DEF Init, Forward, Serial, CrashInv, PutInPlace, StoredIsPast, TagIsOld, NothingLeftOver,
       NotBehind, Settled, ZstSettled, PlainAre, StagedAre, ZstAre, At, TagHeaders, BodyToEmit,
       NonEmpty, Broken, Procs, Parts, Active, Ended, RefreshSteps, EmitSteps, AskSteps,
       StageSteps, ZstdSteps

LEMMA VersionOrder ==
    ASSUME NEW x \in Versions, NEW y \in Versions, NEW z \in Versions
    PROVE  /\ x <= x
           /\ x <= y /\ y <= x => x = y
           /\ x < y => x <= y
           /\ x <= y /\ y <= z => x <= z
BY VersionsAssumption

LEMMA CrashStep ==
    ASSUME NEW w, Forward(w)
    PROVE  TypeOK /\ CrashInv(w) /\ [Next]_vars => CrashInv(w)'
<1> USE DEF PutInPlace, StoredIsPast, TagIsOld, NothingLeftOver, NotBehind,
            Settled, ZstSettled, PlainAre, StagedAre, ZstAre, At, TagHeaders, BodyToEmit, NonEmpty,
            Active, Ended, EmitSteps, AskSteps, StageSteps, ZstdSteps
<1>a. SUFFICES ASSUME TypeOK, CrashInv(w), [Next]_vars PROVE CrashInv(w)'
  OBVIOUS
<1>0. /\ w \in Procs /\ w \in Writers /\ w \notin Readers
      /\ \A v \in Versions : v # Absent /\ v # Empty /\ v # Partial
      /\ Absent # Empty /\ Absent # Partial /\ Empty # Partial
      /\ NoTag \notin Versions /\ Versions \subseteq Nat
  BY SlotsAssumption, SentinelAssumption, VersionsAssumption DEF Forward, Serial, Procs, Broken
<1>1. ASSUME NEW v \in Versions, ServerChange(v) PROVE CrashInv(w)'
  <2>1. /\ server' = v /\ server \in Versions /\ v > server
        /\ UNCHANGED <<dir, plain, zst, staged, own, pc, cur, tag, got, src, out, deaths>>
        /\ seen[w] \subseteq seen'[w] /\ (Active(w) => v \in seen'[w])
    BY <1>a, <1>0, <1>1, BoundsAssumption DEF ServerChange, TypeOK, files, locals, Forward
  <2>2. \A x \in Versions : x <= server => x <= v
    BY <2>1, VersionOrder
  <2>3. StoredIsPast(w)'
    BY <1>a, <2>1, <2>2 DEF CrashInv
  <2>4. QED
    BY <1>a, <2>1, <2>3 DEF CrashInv
<1>2. ASSUME StartGet(w) PROVE CrashInv(w)'
  BY <1>a, <1>0, <1>2 DEF CrashInv, StartGet, Begin, Goto, TypeOK
<1>3. ASSUME Refresh(w) PROVE CrashInv(w)'
  <2>0. UNCHANGED <<server, out, seen, deaths>>
    BY <1>3 DEF Refresh, history
  <2> USE <1>0, <2>0 DEF files, NextPart, Goto, Bail, Parts
  <2>1. CASE TestFinal(w)
    BY <1>a, <2>1 DEF TestFinal, CrashInv, TypeOK
  <2>2. CASE TouchFinal(w)
    <3>1. /\ pc[w] = "touch" /\ dir /\ zst[cur[w]] = Absent /\ cur[w] \in Parts
          /\ server \in seen[w] /\ TagIsOld /\ StoredIsPast(w)
          /\ deaths = 0 => Settled
      BY <1>a, <2>2 DEF TouchFinal, CrashInv, TypeOK
    <3>2. /\ UNCHANGED <<dir, plain, staged, own, tag, got, src>>
          /\ zst' = [zst EXCEPT ![cur[w]] = Empty]
          /\ pc'[w] \in {"test", "readTag"} /\ (pc'[w] = "readTag" => cur'[w] = "body")
      BY <1>a, <2>2, <3>1 DEF TouchFinal, TypeOK
    <3>3. TagHeaders' = TagHeaders /\ BodyToEmit' = BodyToEmit
      BY <1>a, <3>1, <3>2 DEF TypeOK
    <3>4. StoredIsPast(w)' /\ (deaths = 0 => Settled')
      BY <1>a, <3>1, <3>2 DEF TypeOK
    <3>5. TagIsOld'
      BY <3>1, <3>3
    <3>6. QED
      BY <3>1, <3>2, <3>4, <3>5 DEF CrashInv
  <2>3. CASE ReadTag(w)
    BY <1>a, <2>3 DEF ReadTag, CrashInv, TypeOK
  <2>4. CASE NotModified(w)
    <3>1. /\ pc[w] = "curl" /\ tag[w] = server /\ cur[w] = "body" /\ dir
          /\ server \in Versions /\ server = TagHeaders /\ server \in seen[w]
          /\ TagIsOld /\ StoredIsPast(w) /\ (deaths = 0 => Settled)
      BY <1>a, <2>4 DEF NotModified, CrashInv, TypeOK
    <3>2. /\ UNCHANGED <<dir, plain, zst, staged, own, cur>>
          /\ pc'[w] = "testZst" /\ got'[w] = server
      BY <1>a, <2>4 DEF NotModified, TypeOK
    <3>3. BodyToEmit \in Versions => server <= BodyToEmit /\ BodyToEmit <= server
      BY <3>1
    <3>4. BodyToEmit \in Versions => BodyToEmit = server
      BY <3>1, <3>3, VersionOrder
    <3>5. StoredIsPast(w)' /\ TagIsOld' /\ (deaths = 0 => Settled')
      BY <3>1, <3>2
    <3>6. BodyToEmit' \in Versions => BodyToEmit' = got'[w]
      BY <3>2, <3>4
    <3>7. QED
      BY <3>1, <3>2, <3>5, <3>6 DEF CrashInv
  <2>5. CASE Fetched(w)
    BY <1>a, <2>5 DEF Fetched, CrashInv, TypeOK
  <2>6. CASE CurlFails(w)
    BY <1>a, <2>6 DEF CurlFails, CrashInv, TypeOK
  <2>7. CASE Stage(w)
    BY <1>a, <2>7 DEF Stage, CrashInv, TypeOK
  <2>8. CASE Move(w)
    <3>1. /\ pc[w] = "move" /\ cur[w] \in Parts /\ dir /\ server \in seen[w]
          /\ got[w] \in Versions /\ got[w] \in seen[w] /\ StoredIsPast(w)
          /\ NotBehind(zst["hdrs"], got[w])
          /\ StagedAre(IF cur[w] = "body" THEN got[w] ELSE Absent, got[w])
          /\ (cur[w] = "hdrs" => plain["body"] = got[w])
      BY <1>a, <2>8 DEF Move, CrashInv, TypeOK
    <3>2. /\ UNCHANGED <<dir, zst, own, tag, got, src>>
          /\ plain' = [plain EXCEPT ![cur[w]] = got[w]]
          /\ staged' = [staged EXCEPT ![cur[w]] = Absent]
          /\ pc' = [pc EXCEPT ![w] = IF cur[w] = "body" THEN "move" ELSE "zopen"]
          /\ cur' = [cur EXCEPT ![w] = IF cur[w] = "body" THEN "hdrs" ELSE "body"]
      BY <2>8, <3>1 DEF Move
    <3>3. StoredIsPast(w)'
      BY <1>a, <3>1, <3>2 DEF TypeOK
    <3>4. deaths = 0 => /\ ZstSettled
                        /\ cur[w] = "body" => PlainAre(Absent, Absent)
                        /\ cur[w] = "hdrs" => plain["hdrs"] = Absent
      BY <1>a, <3>1 DEF CrashInv
    <3>5. CASE cur[w] = "body"
      <4>1. /\ pc'[w] = "move" /\ cur'[w] = "hdrs" /\ plain'["body"] = got[w]
            /\ plain'["hdrs"] = plain["hdrs"] /\ StagedAre(Absent, got[w])'
        BY <1>a, <3>1, <3>2, <3>5 DEF TypeOK
      <4>2. deaths = 0 => TagIsOld'
        BY <3>2, <3>4, <3>5, <4>1, VersionOrder
      <4>3. QED
        BY <3>1, <3>2, <3>3, <3>4, <3>5, <4>1, <4>2 DEF CrashInv
    <3>6. CASE cur[w] = "hdrs"
      <4>1. /\ pc'[w] = "zopen" /\ cur'[w] = "body" /\ PlainAre(got[w], got[w])'
            /\ StagedAre(Absent, Absent)'
        BY <1>a, <3>1, <3>2, <3>6 DEF TypeOK
      <4>2. ASSUME deaths = 0 PROVE TagIsOld'
        <5>1. CASE ~NonEmpty(zst["body"])
          <6>1. TagHeaders' = got[w] /\ BodyToEmit' = got[w]
            BY <3>1, <3>2, <4>1, <5>1
          <6>2. QED
            BY <3>1, <6>1, VersionOrder
        <5>2. ASSUME NEW v \in Versions, ZstAre(v, v) PROVE TagIsOld'
          <6>1. TagHeaders' = v /\ BodyToEmit' = v
            BY <3>2, <5>2
          <6>2. QED
            BY <6>1, VersionOrder
        <5>3. QED
          BY <3>4, <4>2, <5>1, <5>2
      <4>3. QED
        BY <3>1, <3>2, <3>3, <3>4, <4>1, <4>2 DEF CrashInv
    <3>7. QED
      BY <3>1, <3>5, <3>6
  <2>9. CASE ZstdOpen(w)
    <3>1. /\ pc[w] = "zopen" /\ cur[w] \in Parts /\ dir /\ server \in seen[w]
          /\ got[w] \in Versions /\ got[w] \in seen[w] /\ StoredIsPast(w)
          /\ NotBehind(zst["hdrs"], got[w])
          /\ StagedAre(Absent, Absent) /\ plain["hdrs"] = got[w] /\ plain[cur[w]] = got[w]
          /\ (cur[w] = "hdrs" => plain["body"] = Absent /\ zst["body"] = got[w])
      BY <1>a, <2>9 DEF ZstdOpen, CrashInv, TypeOK
    <3>2. /\ UNCHANGED <<dir, plain, staged, cur, tag, got>>
          /\ zst' = [zst EXCEPT ![cur[w]] = Empty]
          /\ pc'[w] = "zwrite" /\ src'[w] = got[w] /\ own'[cur[w]] = w
      BY <1>a, <2>9, <3>1 DEF ZstdOpen, TypeOK
    <3>3. StoredIsPast(w)' /\ NotBehind(zst["hdrs"], got[w])' /\ zst'[cur[w]] = Empty
          /\ (cur[w] = "hdrs" => zst'["body"] = got[w])
      BY <1>a, <3>1, <3>2 DEF TypeOK
    <3>4. TagIsOld'
      BY <3>1, <3>2, <3>3, VersionOrder
    <3>5. QED
      BY <3>1, <3>2, <3>3, <3>4 DEF CrashInv
  <2>10. CASE ZstdWrite(w)
    BY <1>a, <2>10 DEF ZstdWrite, CrashInv, TypeOK
  <2>11. CASE ZstdClose(w)
    <3>1. /\ pc[w] = "zclose" /\ cur[w] \in Parts /\ dir /\ server \in seen[w]
          /\ got[w] \in Versions /\ got[w] \in seen[w] /\ StoredIsPast(w)
          /\ NotBehind(zst["hdrs"], got[w])
          /\ own[cur[w]] = w /\ src[w] = got[w] /\ zst[cur[w]] = Partial
          /\ StagedAre(Absent, Absent) /\ plain["hdrs"] = got[w] /\ plain[cur[w]] = got[w]
          /\ (cur[w] = "hdrs" => plain["body"] = Absent /\ zst["body"] = got[w])
      BY <1>a, <2>11 DEF ZstdClose, CrashInv, TypeOK
    <3>2. /\ UNCHANGED <<dir, plain, staged, cur, tag, got, src>>
          /\ zst' = [zst EXCEPT ![cur[w]] = got[w]]
          /\ pc'[w] = "zrm"
      BY <1>a, <2>11, <3>1 DEF ZstdClose, TypeOK
    <3>3. NotBehind(got[w], server)
      BY <3>1
    <3>4. StoredIsPast(w)' /\ NotBehind(zst["hdrs"], got[w])' /\ zst'[cur[w]] = got[w]
          /\ (cur[w] = "hdrs" => zst'["body"] = got[w])
      BY <1>a, <3>1, <3>2, <3>3, VersionOrder DEF TypeOK
    <3>5. TagIsOld'
      <4>1. BodyToEmit' = got[w]
        BY <3>1, <3>4
      <4>2. TagHeaders' \in {zst'["hdrs"], got[w], Absent}
        BY <3>1, <3>2
      <4>3. zst'["hdrs"] \in Versions => zst'["hdrs"] <= got[w]
        BY <3>1, <3>2, <3>4
      <4>4. got[w] <= got[w] /\ Absent \notin Versions
        BY <3>1, VersionOrder
      <4>5. TagHeaders' \in Versions => TagHeaders' <= got[w]
        <5> HIDE DEF TagHeaders
        <5> QED
          BY <4>2, <4>3, <4>4
      <4>6. QED
        <5> HIDE DEF TagHeaders, BodyToEmit
        <5> QED
          BY <4>1, <4>5
    <3>6. QED
      BY <3>1, <3>2, <3>4, <3>5 DEF CrashInv
  <2>12. CASE ZstdRm(w)
    <3>1. /\ pc[w] = "zrm" /\ cur[w] \in Parts /\ dir /\ server \in seen[w]
          /\ got[w] \in Versions /\ got[w] \in seen[w] /\ StoredIsPast(w)
          /\ NotBehind(zst["hdrs"], got[w]) /\ zst[cur[w]] = got[w]
          /\ StagedAre(Absent, Absent) /\ plain["hdrs"] = got[w] /\ plain[cur[w]] = got[w]
          /\ (cur[w] = "hdrs" => plain["body"] = Absent /\ zst["body"] = got[w])
      BY <1>a, <2>12 DEF ZstdRm, CrashInv, TypeOK
    <3>2. /\ UNCHANGED <<dir, zst, staged, own, tag, got, src>>
          /\ plain' = [plain EXCEPT ![cur[w]] = Absent]
          /\ pc' = [pc EXCEPT ![w] = IF cur[w] = "body" THEN "zopen" ELSE "testZst"]
          /\ cur' = [cur EXCEPT ![w] = IF cur[w] = "body" THEN "hdrs" ELSE "body"]
      BY <2>12, <3>1 DEF ZstdRm
    <3>3. StoredIsPast(w)' /\ plain'["body"] = Absent
      BY <1>a, <3>1, <3>2 DEF TypeOK
    <3>4. zst'["body"] = got[w]
      BY <3>1, <3>2
    <3>5. TagIsOld' /\ BodyToEmit' = got[w]
      BY <3>1, <3>2, <3>3, <3>4, VersionOrder
    <3>6. CASE cur[w] = "body"
      <4>1. pc'[w] = "zopen" /\ cur'[w] = "hdrs" /\ plain'["hdrs"] = got[w]
        BY <1>a, <3>1, <3>2, <3>6 DEF TypeOK
      <4>2. QED
        BY <3>1, <3>2, <3>3, <3>4, <3>5, <4>1 DEF CrashInv
    <3>7. CASE cur[w] = "hdrs"
      <4>1. pc'[w] = "testZst" /\ cur'[w] = "body" /\ plain'["hdrs"] = Absent
        BY <1>a, <3>1, <3>2, <3>7 DEF TypeOK
      <4>2. QED
        BY <3>1, <3>2, <3>3, <3>4, <3>5, <3>7, <4>1 DEF CrashInv
    <3>8. QED
      BY <3>1, <3>6, <3>7
  <2>13. QED
    BY <1>3, <2>1, <2>2, <2>3, <2>4, <2>5, <2>6, <2>7, <2>8, <2>9, <2>10, <2>11, <2>12
       DEF Refresh
<1>4. ASSUME NEW r \in Readers, StartGetCached(r) PROVE CrashInv(w)'
  BY <1>a, <1>0, <1>4 DEF StartGetCached, Begin, Goto, CrashInv, TypeOK, Procs
<1>5. ASSUME Emit(w) PROVE CrashInv(w)'
  BY <1>a, <1>0, <1>5 DEF Emit, files, locals, history, Goto, TestZst, TestPlain, EmitZst,
                    EmitPlain, Write, CrashInv, TypeOK
<1>6. ASSUME NEW r \in Readers, Emit(r) PROVE CrashInv(w)'
  BY <1>a, <1>0, <1>6 DEF Emit, files, locals, history, Goto, TestZst, TestPlain, EmitZst,
                    EmitPlain, Write, CrashInv, TypeOK, Procs
<1>7. ASSUME NEW p \in Procs, Die(p) PROVE CrashInv(w)'
  BY <1>a, <1>0, <1>7, BoundsAssumption DEF Die, Forward, CrashInv, files, locals, history, Goto, TypeOK
<1>8. CASE UNCHANGED vars
  BY <1>a, <1>8 DEF vars, files, locals, history, CrashInv
<1>9. QED
  BY <1>a, <1>0, <1>1, <1>2, <1>3, <1>4, <1>5, <1>6, <1>7, <1>8
     DEF Next, Getters, Forward, Serial

(* One death does not make a --get emit an old version, if the server never
   goes back to one: the object that it left is replaced, or is current. *)
THEOREM GetsAreFreshAfterADeath ==
    ASSUME NEW w, Forward(w)
    PROVE  Spec => []FreshGet
<1>1. Init => CrashInv(w)
  BY CrashInit
<1>2. TypeOK /\ CrashInv(w) /\ [Next]_vars => CrashInv(w)'
  BY CrashStep
<1>3. TypeOK /\ CrashInv(w) => FreshGet
  BY DEF Forward, Serial, CrashInv, FreshGet
<1>4. QED
  BY <1>1, <1>2, <1>3, TypeCorrect, PTL DEF Spec
----------------------------------------------------------------------------
(***************************************************************************)
(* What a --clear is the remedy for: any number of writers, readers and    *)
(* clearers, that die and overlap as they like before it.                  *)
(***************************************************************************)

(* There is no file without the directory, and who writes a compressed file
   does it by its name or not at all. *)
FilesInv ==
    /\ ~dir => \A f \in Parts : plain[f] = Absent /\ zst[f] = Absent /\ staged[f] = Absent
    /\ \A f \in Parts : own[f] # NoProc => zst[f] # Absent

LEMMA NothingPresent ==
    Present = {} =>
        \A f \in Parts : plain[f] = Absent /\ zst[f] = Absent /\ staged[f] = Absent
<1> SUFFICES ASSUME Present = {}, NEW f \in Parts
             PROVE  plain[f] = Absent /\ zst[f] = Absent /\ staged[f] = Absent
  OBVIOUS
<1>1. ASSUME NEW kind \in Kinds PROVE Content(kind)[f] = Absent
  <2>1. <<kind, f>> \in Kinds \X Parts /\ <<kind, f>>[1] = kind /\ <<kind, f>>[2] = f
    BY <1>1
  <2>2. <<kind, f>> \notin Present
    OBVIOUS
  <2>3. QED
    BY <2>1, <2>2 DEF Present
<1>2. Content("plain")[f] = Absent /\ Content("zst")[f] = Absent
      /\ Content("staged")[f] = Absent
  BY <1>1 DEF Kinds
<1>3. QED
  BY <1>2 DEF Content

LEMMA FilesStep == TypeOK /\ FilesInv /\ [Next]_vars => FilesInv'
<1> SUFFICES ASSUME TypeOK, FilesInv, [Next]_vars PROVE FilesInv'
  OBVIOUS
<1> USE DEF files, locals
<1>0. Absent # Empty /\ Absent # Partial /\ \A p \in Procs : p # NoProc
  BY SlotsAssumption, SentinelAssumption
<1>1. ASSUME NEW p \in Procs, Refresh(p) PROVE FilesInv'
  <2> USE <1>0, <1>1 DEF NextPart, Bail
  <2>1. CASE UNCHANGED files
    BY <2>1 DEF FilesInv
  <2>2. CASE TouchFinal(p)
    BY <2>2 DEF TouchFinal, FilesInv, TypeOK
  <2>3. CASE Stage(p)
    BY <2>3 DEF Stage, FilesInv, TypeOK
  <2>4. CASE Move(p)
    BY <2>4 DEF Move, FilesInv, TypeOK
  <2>5. CASE ZstdOpen(p)
    BY <2>5 DEF ZstdOpen, FilesInv, TypeOK
  <2>6. CASE ZstdWrite(p)
    BY <2>6 DEF ZstdWrite, FilesInv, TypeOK
  <2>7. CASE ZstdClose(p)
    BY <2>7 DEF ZstdClose, FilesInv, TypeOK
  <2>8. CASE ZstdRm(p)
    BY <2>8 DEF ZstdRm, FilesInv, TypeOK
  <2>9. QED
    BY <2>1, <2>2, <2>3, <2>4, <2>5, <2>6, <2>7, <2>8
       DEF Refresh, TestFinal, ReadTag, NotModified, Fetched, CurlFails
<1>2. ASSUME NEW c \in Procs, Clear(c) PROVE FilesInv'
  <2>1. CASE ClearScan(c)
    BY <2>1 DEF ClearScan, FilesInv
  <2>2. CASE ClearUnlink(c)
    <3>1. PICK e \in Kinds \X Parts :
            /\ plain' = Without(plain, "plain", e)
            /\ zst' = Without(zst, "zst", e)
            /\ staged' = Without(staged, "staged", e)
            /\ own' = IF e[1] = "zst" THEN [own EXCEPT ![e[2]] = NoProc] ELSE own
      BY <1>2, <2>2 DEF ClearUnlink, TypeOK
    <3>2. dir' = dir
      BY <2>2 DEF ClearUnlink
    <3>3. QED
      BY <3>1, <3>2 DEF FilesInv, TypeOK, Without
  <2>3. CASE ClearRmdir(c)
    BY <2>3, NothingPresent DEF ClearRmdir, FilesInv
  <2>4. QED
    BY <1>2, <2>1, <2>2, <2>3 DEF Clear
<1>3. ASSUME NEW p \in Procs, Die(p) PROVE FilesInv'
  BY <1>3 DEF Die, FilesInv
<1>4. CASE /\ UNCHANGED <<plain, zst, staged, own>>
           /\ dir => dir'
  BY <1>4 DEF FilesInv
<1>5. QED
  BY <1>1, <1>2, <1>3, <1>4
     DEF Next, ServerChange, StartGet, StartGetCached, StartClear, Begin, Emit, vars, Procs

(* An invocation that is alone with the object is the only active one.     *)
AloneInv == \A p \in alone : Active(p) => \A q \in Procs : Active(q) => q = p

LEMMA AloneStep == TypeOK /\ AloneInv /\ [Next]_vars => AloneInv'
<1> SUFFICES ASSUME TypeOK, AloneInv, [Next]_vars PROVE AloneInv'
  OBVIOUS
<1>1. CASE /\ alone' = alone
           /\ \A p \in Procs : Active(p)' => Active(p)
  BY <1>1 DEF AloneInv, TypeOK
<1>2. ASSUME NEW p \in Procs, NEW step \in Steps, Begin(p, step) PROVE AloneInv'
  <2>1. /\ ~Active(p)
        /\ alone' = IF Quiescent THEN alone \cup {p}
                    ELSE {q \in alone : ~Active(q)} \ {p}
        /\ \A q \in Procs \ {p} : Active(q)' <=> Active(q)
    BY <1>2 DEF Begin, Goto, TypeOK, Active
  <2>2. QED
    BY <2>1 DEF AloneInv, Quiescent, TypeOK
<1>3. ASSUME NEW p \in Procs, Refresh(p) PROVE AloneInv'
  <2>1. alone' = alone /\ Active(p) /\ \A q \in Procs \ {p} : pc'[q] = pc[q]
    BY <1>3 DEF Refresh, history, NextPart, Goto, Bail, TypeOK, Active, Ended, TestFinal,
                TouchFinal, ReadTag, NotModified, Fetched, CurlFails, Stage, Move,
                ZstdOpen, ZstdWrite, ZstdClose, ZstdRm
  <2>2. QED
    BY <1>1, <2>1 DEF Active
<1>4. ASSUME NEW p \in Procs, Emit(p) PROVE AloneInv'
  <2>1. alone' = alone /\ Active(p) /\ \A q \in Procs \ {p} : pc'[q] = pc[q]
    BY <1>4 DEF Emit, history, Goto, TypeOK, Active, Ended, TestZst, EmitZst, TestPlain,
                EmitPlain, Write
  <2>2. QED
    BY <1>1, <2>1 DEF Active
<1>5. ASSUME NEW p \in Procs, Clear(p) PROVE AloneInv'
  <2>1. alone' = alone /\ Active(p) /\ \A q \in Procs \ {p} : pc'[q] = pc[q]
    BY <1>5 DEF Clear, history, Goto, TypeOK, Active, Ended, ClearScan, ClearUnlink,
                ClearRmdir
  <2>2. QED
    BY <1>1, <2>1 DEF Active
<1>6. ASSUME NEW p \in Procs, Die(p) PROVE AloneInv'
  <2>1. alone' = alone /\ Active(p) /\ \A q \in Procs \ {p} : pc'[q] = pc[q]
    BY <1>6 DEF Die, history, Goto, TypeOK
  <2>2. QED
    BY <1>1, <2>1 DEF Active
<1>7. ASSUME NEW v \in Versions, ServerChange(v) PROVE AloneInv'
  BY <1>1, <1>7 DEF ServerChange, Active
<1>8. CASE UNCHANGED vars
  BY <1>1, <1>8 DEF vars, history, Active
<1>9. QED
  BY <1>2, <1>3, <1>4, <1>5, <1>6, <1>7, <1>8
     DEF Next, StartGet, StartGetCached, StartClear, Procs, Getters, Steps, RefreshSteps,
         EmitSteps, ClearSteps

(* What an object is like while nothing has gone wrong with it since it was *)
(* cleared: at most one invocation is changing it, a writer finds and       *)
(* leaves it settled, and a clear unlinks every file there is.              *)
Unspoiled ==
    /\ ~Overlapping
    /\ \A w \in Writers : Active(w) => SerialInv(w)
    /\ \A c \in Clearers : pc[c] = "unlink" => Present \subseteq todo[c]
    /\ (\A p \in Changers : ~Active(p)) => Settled

ClearInv == FilesInv /\ AloneInv /\ (~spoiled => Unspoiled)

(* The steps of the others leave what is known of a writer.                *)
LEMMA UnlinkPresent ==
    ASSUME TypeOK, NEW e \in Kinds \X Parts,
           plain' = Without(plain, "plain", e),
           zst' = Without(zst, "zst", e),
           staged' = Without(staged, "staged", e)
    PROVE  Present' \subseteq Present \ {e}
<1> SUFFICES ASSUME NEW f \in Present' PROVE f \in Present /\ f # e
  OBVIOUS
<1>1. f \in Kinds \X Parts /\ Content(f[1])'[f[2]] # Absent
  BY DEF Present
<1>2. f[1] \in Kinds /\ f[2] \in Parts /\ e[1] \in Kinds /\ e[2] \in Parts
  BY <1>1
<1>3. Content(f[1])[f[2]] # Absent /\ ~(f[1] = e[1] /\ f[2] = e[2])
  BY <1>1, <1>2 DEF Content, Without, TypeOK, Kinds
<1>4. QED
  BY <1>1, <1>3 DEF Present

LEMMA SerialFrame ==
    ASSUME NEW w \in Writers, SerialInv(w), dir => dir',
           UNCHANGED <<server, plain, zst, staged, own>>,
           pc'[w] = pc[w], cur'[w] = cur[w], tag'[w] = tag[w], got'[w] = got[w],
           src'[w] = src[w], out'[w] = out[w], seen'[w] = seen[w]
    PROVE  SerialInv(w)'
BY DEF SerialInv, Between, Settled, PlainAre, StagedAre, ZstAre, At, Active

(* A clear that succeeds with nobody else about does so in its own step.   *)
LEMMA ClearEnds ==
    ASSUME NEW c \in Clearers, TypeOK, Next, Active(c), pc'[c] = "ok",
           \A q \in Procs : Active(q) => q = c
    PROVE  Clear(c)
<1>0. c \in Procs /\ c \notin Writers /\ c \notin Readers /\ pc[c] # "ok"
  BY SlotsAssumption DEF Procs, Active, Ended
<1>1. ASSUME NEW q \in Procs, NEW step, Begin(q, step) PROVE FALSE
  <2>1. q # c /\ pc'[c] = pc[c]
    BY <1>1 DEF Begin, Goto, TypeOK
  <2>2. QED
    BY <1>0, <2>1
<1>2. ASSUME NEW q \in Procs \ {c} PROVE ~Refresh(q) /\ ~Emit(q) /\ ~Clear(q)
  <2>1. ~Active(q)
    BY <1>2
  <2>2. ~Refresh(q)
    BY <2>1 DEF Refresh, Active, Ended, TestFinal, TouchFinal, ReadTag, NotModified,
                Fetched, CurlFails, Stage, Move, ZstdOpen, ZstdWrite, ZstdClose, ZstdRm
  <2>3. ~Emit(q) /\ ~Clear(q)
    BY <2>1 DEF Emit, Active, Ended, TestZst, EmitZst, TestPlain, EmitPlain, Clear,
                ClearScan, ClearUnlink, ClearRmdir
  <2>4. QED
    BY <2>2, <2>3
<1>3. ASSUME NEW q \in Procs, Die(q) PROVE FALSE
  <2>1. q = c
    BY <1>3 DEF Die
  <2>2. QED
    BY <1>0, <1>3, <2>1 DEF Die, Goto, TypeOK
<1>4. ASSUME NEW v \in Versions, ServerChange(v) PROVE FALSE
  BY <1>0, <1>4 DEF ServerChange
<1>5. QED
  BY <1>0, <1>1, <1>2, <1>3, <1>4
     DEF Next, StartGet, StartGetCached, StartClear, Procs, Getters

LEMMA UnspoiledStep ==
    TypeOK /\ ClearInv /\ [ClearedNext]_<<vars, spoiled>> => (~spoiled => Unspoiled)'
<1> SUFFICES ASSUME TypeOK, ClearInv, [ClearedNext]_<<vars, spoiled>>, ~spoiled'
             PROVE  Unspoiled'
  OBVIOUS
<1>0. FilesInv'
  BY FilesStep DEF ClearInv, ClearedNext, vars
<1>1. ASSUME UNCHANGED <<plain, zst, staged>> PROVE Present' = Present /\ (Settled' <=> Settled)
  BY <1>1 DEF Present, Content, Settled, PlainAre, StagedAre, ZstAre
<1>2. CASE UNCHANGED <<vars, spoiled>>
  <2>1. Unspoiled
    BY <1>2 DEF ClearInv
  <2>2. UNCHANGED <<server, files, pc, locals, out, deaths, history>>
    BY <1>2 DEF vars
  <2>3. ASSUME NEW w \in Writers, Active(w)' PROVE SerialInv(w)'
    BY <2>1, <2>2, <2>3, SerialFrame DEF Unspoiled, Active, files, locals, history
  <2>4. QED
    BY <1>1, <2>1, <2>2, <2>3 DEF Unspoiled, Overlapping, Active, files, locals
<1>3. CASE Next /\ ClearedAlone
  <2>1. PICK c \in Clearers \cap alone : Active(c) /\ pc'[c] = "ok"
    BY <1>3 DEF ClearedAlone
  <2>2. \A p \in Procs : Active(p) => p = c
    BY <2>1 DEF ClearInv, AloneInv
  <2>3. Clear(c)
    BY <1>3, <2>1, <2>2, ClearEnds
  <2>4. c \in Procs /\ pc[c] \in ClearSteps
    BY <2>3 DEF Clear, ClearScan, ClearUnlink, ClearRmdir, ClearSteps, Procs
  <2>5. /\ ~dir'
        /\ \A p \in Procs \ {c} : pc'[p] = pc[p]
    BY <2>1, <2>3, <2>4 DEF Clear, ClearScan, ClearUnlink, ClearRmdir, Goto, TypeOK,
                            ClearSteps, files
  <2>6. \A p \in Procs : ~Active(p)'
    BY <2>1, <2>2, <2>5 DEF Active, Ended
  <2>7. Settled'
    BY <1>0, <2>5 DEF FilesInv, Settled, PlainAre, StagedAre, ZstAre, Parts
  <2>8. QED
    BY <2>6, <2>7 DEF Unspoiled, Overlapping, Changers, Procs, Active, Ended
<1>4. CASE Next /\ Record /\ ~ClearedAlone
  <2>1. ~spoiled /\ deaths' = deaths /\ ~Overlapping'
    BY <1>4, Zenon DEF Record
  <2>2. Unspoiled
    BY <2>1 DEF ClearInv
  <2>3. ASSUME NEW p \in Changers, Active(p)', NEW q \in Changers, Active(q)' PROVE p = q
    BY <2>1, <2>3 DEF Overlapping, Active
  <2>4. ASSUME NEW v \in Versions, ServerChange(v) PROVE Unspoiled'
    <3>1. ASSUME NEW w \in Writers, Active(w)' PROVE SerialInv(w)'
      BY <2>2, <2>4, <3>1 DEF Unspoiled, ServerChange, Active, SerialInv, Between,
         Settled, PlainAre, StagedAre, ZstAre, At, files, locals, TypeOK, Procs
    <3>2. QED
      BY <1>1, <2>1, <2>2, <2>4, <3>1 DEF Unspoiled, ServerChange, Active, files, locals
  <2>5. ASSUME NEW w \in Writers, StartGet(w) PROVE Unspoiled'
    <3>1. /\ ~Active(w) /\ Active(w)' /\ w \in Changers
          /\ \A p \in Procs \ {w} : pc'[p] = pc[p]
      BY <2>5 DEF StartGet, Begin, Goto, TypeOK, Active, Ended, Procs, Changers
    <3>2. \A p \in Changers : p # w => ~Active(p)' /\ ~Active(p)
      BY <2>3, <3>1 DEF Active, Procs, Changers
    <3>3. Settled
      BY <2>2, <3>1, <3>2 DEF Unspoiled
    <3>4. SerialInv(w)'
      BY <2>5, <3>3, SerialStart
    <3>5. QED
      BY <2>1, <3>1, <3>2, <3>4, SlotsAssumption DEF Unspoiled, Changers, Active, Ended
  <2>6. ASSUME NEW w \in Writers, Refresh(w) \/ Emit(w) PROVE Unspoiled'
    <3>1. /\ Active(w) /\ w \in Changers
          /\ \A p \in Procs \ {w} : pc'[p] = pc[p]
      BY <2>6 DEF Refresh, NextPart, Goto, Bail, TypeOK, Active, Ended, TestFinal,
                TouchFinal, ReadTag, NotModified, Fetched, CurlFails, Stage, Move,
                ZstdOpen, ZstdWrite, ZstdClose, ZstdRm, Emit, TestZst, EmitZst, TestPlain,
                EmitPlain, Write, Changers
    <3>2. \A p \in Changers : p # w => ~Active(p)' /\ ~Active(p)
      BY <2>2, <3>1 DEF Unspoiled, Overlapping, Active, Procs, Changers
    <3>3. SerialInv(w)'
      BY <2>2, <2>6, <3>1, SerialRefresh, SerialEmit DEF Unspoiled
    <3>4. ~Active(w)' => Settled'
      BY <3>3 DEF SerialInv, Between, Active
    <3>5. QED
      BY <2>1, <3>1, <3>2, <3>3, <3>4, SlotsAssumption
         DEF Unspoiled, Changers, Active, Ended
  <2>7. ASSUME NEW r \in Readers, StartGetCached(r) \/ Emit(r) PROVE Unspoiled'
    <3>1. /\ UNCHANGED <<server, plain, zst, staged, own, todo>>
          /\ dir => dir'
          /\ \A p \in Procs \ {r} :
               /\ pc'[p] = pc[p] /\ cur'[p] = cur[p] /\ tag'[p] = tag[p]
               /\ got'[p] = got[p] /\ src'[p] = src[p] /\ out'[p] = out[p]
               /\ seen'[p] = seen[p]
      BY <2>7 DEF StartGetCached, Begin, Goto, TypeOK, Emit, TestZst, EmitZst, TestPlain,
                EmitPlain, Write, files, locals, history
    <3>2. r \notin Changers /\ Changers \subseteq Procs
      BY SlotsAssumption DEF Changers, Procs
    <3>3. ASSUME NEW w \in Writers, Active(w)' PROVE SerialInv(w)'
      BY <2>2, <3>1, <3>2, <3>3, SerialFrame DEF Unspoiled, Active, Changers, Procs
    <3>4. QED
      BY <1>1, <2>1, <2>2, <3>1, <3>2, <3>3 DEF Unspoiled, Active, Changers
  <2>8. ASSUME NEW c \in Clearers, StartClear(c) PROVE Unspoiled'
    <3>1. /\ pc'[c] = "scan" /\ c \in Changers
          /\ \A p \in Procs \ {c} : pc'[p] = pc[p]
      BY <2>8 DEF StartClear, Begin, Goto, TypeOK, Procs, Changers
    <3>2. \A p \in Changers : p # c => ~Active(p)'
      BY <2>3, <3>1 DEF Active, Ended
    <3>3. QED
      BY <2>1, <3>1, <3>2, SlotsAssumption DEF Unspoiled, Changers, Active, Ended
  <2>9. ASSUME NEW c \in Clearers, Clear(c) PROVE Unspoiled'
    <3>1. /\ Active(c) /\ c \in Changers
          /\ \A p \in Procs \ {c} : pc'[p] = pc[p]
      BY <2>9 DEF Clear, ClearScan, ClearUnlink, ClearRmdir, Goto, TypeOK, Active, Ended,
                  Changers
    <3>2. \A p \in Changers : p # c => ~Active(p)'
      BY <2>2, <3>1 DEF Unspoiled, Overlapping, Active, Procs, Changers
    <3>3. CASE ClearScan(c)
      <4>1. UNCHANGED <<plain, zst, staged, dir>>
        BY <3>3 DEF ClearScan, files
      <4>2. CASE dir
        <5>1. pc'[c] = "unlink" /\ todo'[c] = Present /\ Active(c)'
          BY <2>9, <3>3, <4>2 DEF ClearScan, Goto, TypeOK, Active, Ended, Procs
        <5>2. QED
          BY <1>1, <2>1, <3>1, <3>2, <4>1, <5>1, SlotsAssumption
             DEF Unspoiled, Changers, Active, Ended
      <4>3. CASE ~dir
        <5>1. pc'[c] = "ok"
          BY <2>9, <3>3, <4>3 DEF ClearScan, Goto, TypeOK, Procs
        <5>2. Settled'
          BY <1>0, <4>1, <4>3 DEF FilesInv, Settled, PlainAre, StagedAre, ZstAre, Parts
        <5>3. QED
          BY <2>1, <3>1, <3>2, <5>1, <5>2, SlotsAssumption
             DEF Unspoiled, Changers, Active, Ended
      <4>4. QED
        BY <4>2, <4>3
    <3>4. CASE ClearUnlink(c)
      <4>1. PICK e \in Kinds \X Parts :
              /\ todo' = [todo EXCEPT ![c] = @ \ {e}]
              /\ plain' = Without(plain, "plain", e)
              /\ zst' = Without(zst, "zst", e)
              /\ staged' = Without(staged, "staged", e)
        BY <3>4 DEF ClearUnlink, TypeOK, Procs
      <4>2. Present' \subseteq Present \ {e}
        BY <4>1, UnlinkPresent
      <4>3. pc' = pc /\ pc[c] = "unlink" /\ todo'[c] = todo[c] \ {e}
        BY <3>4, <4>1 DEF ClearUnlink, TypeOK, Procs
      <4>4. QED
        BY <2>1, <2>2, <3>1, <3>2, <4>2, <4>3, SlotsAssumption
           DEF Unspoiled, Changers, Active, Ended
    <3>5. CASE ClearRmdir(c)
      <4>1. pc[c] = "unlink" /\ todo[c] = {}
        BY <3>5 DEF ClearRmdir
      <4>2. Present = {}
        BY <2>2, <4>1 DEF Unspoiled
      <4>3. pc'[c] = "ok" /\ dir' = FALSE
        BY <2>9, <3>5, <4>2 DEF ClearRmdir, Goto, TypeOK, Procs
      <4>4. Settled'
        BY <1>0, <4>3 DEF FilesInv, Settled, PlainAre, StagedAre, ZstAre, Parts
      <4>5. QED
        BY <2>1, <3>1, <3>2, <4>3, <4>4, SlotsAssumption
           DEF Unspoiled, Changers, Active, Ended
    <3>6. QED
      BY <2>9, <3>3, <3>4, <3>5 DEF Clear
  <2>10. ASSUME NEW p \in Procs, Die(p) PROVE Unspoiled'
    BY <2>1, <2>10, BoundsAssumption DEF Die, TypeOK
  <2>11. QED
    BY <1>4, <2>4, <2>5, <2>6, <2>7, <2>8, <2>9, <2>10 DEF Next, Getters
<1>5. QED
  BY <1>2, <1>3, <1>4 DEF ClearedNext

(* After a --clear that was alone, every --get is fresh until an invocation *)
(* dies or two that change the object overlap, whatever had happened to the *)
(* object before the clear.                                                 *)
THEOREM ClearIsTheRemedy == ClearedSpec => FreshSinceClear
<1>1. ClearedInit => Init /\ ClearInv
  <2> SUFFICES ASSUME ClearedInit PROVE Init /\ ClearInv
    OBVIOUS
  <2>1. Init /\ FilesInv /\ AloneInv /\ \A p \in Procs : ~Active(p)
    BY DEF ClearedInit, Init, FilesInv, AloneInv, Active, Ended
  <2>2. Settled /\ \A p \in Procs : pc[p] = "idle"
    BY <2>1 DEF Init, Settled, PlainAre, StagedAre, ZstAre, Parts
  <2>3. QED
    BY <2>1, <2>2 DEF ClearInv, Unspoiled, Overlapping, Changers, Procs, Active
<1>2. [ClearedNext]_<<vars, spoiled>> => [Next]_vars
  BY DEF ClearedNext
<1>3. TypeOK /\ ClearInv /\ [ClearedNext]_<<vars, spoiled>> => ClearInv'
  BY <1>2, FilesStep, AloneStep, UnspoiledStep DEF ClearInv
<1>4. TypeOK /\ ClearInv /\ [ClearedNext]_<<vars, spoiled>> =>
        [\A w \in Writers : Active(w) /\ pc'[w] = "ok" /\ ~spoiled
                            => out'[w] \in seen'[w]]_<<vars, spoiled>>
  <2> SUFFICES ASSUME TypeOK, ClearInv, ClearedNext, NEW w \in Writers,
                      Active(w), pc'[w] = "ok", ~spoiled
               PROVE  out'[w] \in seen'[w]
    OBVIOUS
  <2>0. w \in Procs /\ w \notin Readers /\ w \notin Clearers /\ pc[w] # "ok"
    BY WriterFacts DEF Active, Ended
  <2>1. SerialInv(w)
    BY DEF ClearInv, Unspoiled
  <2>2. ASSUME NEW p \in Procs, NEW step, Begin(p, step) PROVE FALSE
    <3>1. p # w /\ pc'[w] = pc[w]
      BY <2>2 DEF Begin, Goto, TypeOK
    <3>2. QED
      BY <2>0, <3>1
  <2>3. ASSUME NEW p \in Writers, Refresh(p) PROVE FALSE
    <3>1. pc'[w] = pc[w] \/ pc'[w] # "ok"
      BY <2>0, <2>3 DEF Refresh, NextPart, Goto, Bail, TypeOK, TestFinal, TouchFinal, ReadTag,
         NotModified, Fetched, CurlFails, Stage, Move, ZstdOpen, ZstdWrite, ZstdClose, ZstdRm
    <3>2. QED
      BY <2>0, <3>1
  <2>4. ASSUME NEW p \in Procs, p # w, Emit(p) \/ Clear(p) PROVE FALSE
    <3>1. pc'[w] = pc[w]
      BY <2>0, <2>4 DEF Emit, Clear, Goto, TypeOK, TestZst, EmitZst, TestPlain, EmitPlain,
         Write, ClearScan, ClearUnlink, ClearRmdir
    <3>2. QED
      BY <2>0, <3>1
  <2>5. ASSUME NEW p \in Procs, Die(p) PROVE FALSE
    BY <2>0, <2>5 DEF Die, Goto, TypeOK
  <2>6. ASSUME NEW v \in Versions, ServerChange(v) PROVE FALSE
    BY <2>0, <2>6 DEF ServerChange
  <2>7. Emit(w)
    BY <2>0, <2>2, <2>3, <2>4, <2>5, <2>6
       DEF ClearedNext, Next, StartGet, StartGetCached, StartClear, Procs, Getters
  <2>8. QED
    BY <2>0, <2>1, <2>7 DEF SerialInv, Between, ZstAre, EmitSteps, Emit, history, TestZst,
       EmitZst, TestPlain, EmitPlain, Write, Goto, TypeOK
<1>5. QED
  BY <1>1, <1>2, <1>3, <1>4, TypeCorrect, PTL DEF Spec, ClearedSpec, FreshSinceClear
====
