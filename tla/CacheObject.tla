---------------------------- MODULE CacheObject ----------------------------
(***************************************************************************)
(* One cached object of ads-github-cache: the files body, headers, their   *)
(* .zst and .staged forms in the object's directory, and the invocations   *)
(* of the program that read, refresh and clear them.  Nothing in the       *)
(* program locks the directory, so every system call that touches it is an *)
(* action of its own.                                                      *)
(*                                                                         *)
(* A version stands for one HTTP response of the GitHub server: its body   *)
(* and its headers, among them the ETag.  Different versions have          *)
(* different ETags.                                                        *)
(*                                                                         *)
(* An invocation is a slot: a member of Writers runs --get or --update, a  *)
(* member of Readers runs --get-cached, a member of Clearers runs --clear. *)
(* A slot whose invocation ended may start another one, so N slots bound   *)
(* the number of simultaneous invocations and not their number.            *)
(***************************************************************************)
EXTENDS Naturals

CONSTANTS
    Writers, Readers, Clearers,  \* invocation slots, by command mode
    Versions,                    \* responses the server may give, a set of numbers
    MayRevert,                   \* may the server go back to an earlier version?
    MaxDeaths,                   \* bound: invocations that die half-way
    Absent, Empty, Partial,      \* file contents that are not a whole response
    NoTag,                       \* no If-None-Match header is sent
    NoProc                       \* nobody

Procs == Writers \cup Readers \cup Clearers
Getters == Writers \cup Readers

(* A file that exists but is not one whole response. *)
Broken == {Absent, Empty, Partial}

ASSUME VersionsAssumption == Versions \subseteq Nat /\ Versions # {}
ASSUME SlotsAssumption ==
    /\ Writers \cap Readers = {}
    /\ (Writers \cup Readers) \cap Clearers = {}
    /\ NoProc \notin Procs
ASSUME SentinelAssumption ==
    /\ Broken \cap Versions = {}
    /\ NoTag \notin Versions
    /\ Absent # Empty /\ Absent # Partial /\ Empty # Partial
ASSUME BoundsAssumption == MayRevert \in BOOLEAN /\ MaxDeaths \in Nat

(* The two files an object is made of; the code always handles body first. *)
Parts == {"body", "hdrs"}
Kinds == {"plain", "zst", "staged"}
Contents == Versions \cup Broken

VARIABLES
    server,   \* the version GitHub would answer with now
    dir,      \* does the object's directory exist?
    plain,    \* rsp-body.json, rsp-headers
    zst,      \* the same, compressed
    staged,   \* the same, copied but not yet moved in place
    own,      \* who is writing the .zst file that has the name now
    pc, cur,  \* step of each invocation, and the part it is working on
    tag,      \* the ETag sent in If-None-Match
    got,      \* the version the server answered with (a 304 names the tag's)
    src,      \* what zstd(1) read from its source file
    todo,     \* the files a --clear has yet to unlink
    out,      \* what the invocation wrote on stdout
    deaths,   \* how many invocations have died so far
    seen,     \* history: versions the server had while the invocation ran
    alone     \* history: those during which no other invocation was active

files == <<dir, plain, zst, staged, own>>
locals == <<cur, tag, got, src, todo>>
history == <<seen, alone>>
vars == <<server, files, pc, locals, out, deaths, history>>

(***************************************************************************)
(* Program counters.                                                       *)
(***************************************************************************)
Ended == {"idle", "ok", "exit1", "missing", "dead"}
RefreshSteps == {"test", "touch", "readTag", "curl", "stage", "move",
                 "zopen", "zwrite", "zclose", "zrm"}
EmitSteps == {"testZst", "emitZst", "testPlain", "emitPlain"}
ClearSteps == {"scan", "unlink"}
Steps == Ended \cup RefreshSteps \cup EmitSteps \cup ClearSteps

Active(p) == pc[p] \notin Ended
Quiescent == \A p \in Procs : ~Active(p)

Goto(p, step) == pc' = [pc EXCEPT ![p] = step]

(* The refresh does each step for the body and then for the headers. *)
NextPart(p, same, next) ==
    /\ Goto(p, IF cur[p] = "body" THEN same ELSE next)
    /\ cur' = [cur EXCEPT ![p] = IF @ = "body" THEN "hdrs" ELSE "body"]

(* test -s *)
NonEmpty(content) == content \notin {Absent, Empty}

(* The file an invocation that emits the object now would read. *)
BodyToEmit == IF NonEmpty(zst["body"]) THEN zst["body"] ELSE plain["body"]

----------------------------------------------------------------------------
Init ==
    /\ server \in Versions
    /\ dir = FALSE
    /\ plain = [f \in Parts |-> Absent]
    /\ zst = [f \in Parts |-> Absent]
    /\ staged = [f \in Parts |-> Absent]
    /\ own = [f \in Parts |-> NoProc]
    /\ pc = [p \in Procs |-> "idle"]
    /\ cur = [p \in Procs |-> "body"]
    /\ tag = [p \in Procs |-> NoTag]
    /\ got = [p \in Procs |-> NoTag]
    /\ src = [p \in Procs |-> Absent]
    /\ todo = [p \in Procs |-> {}]
    /\ out = [p \in Procs |-> Absent]
    /\ deaths = 0
    /\ seen = [p \in Procs |-> {}]
    /\ alone = {}

(***************************************************************************)
(* The GitHub server answers with a new version from now on.               *)
(***************************************************************************)
ServerChange(v) ==
    /\ v # server
    /\ MayRevert \/ v > server
    /\ server' = v
    /\ seen' = [p \in Procs |-> IF Active(p) THEN seen[p] \cup {v} ELSE seen[p]]
    /\ UNCHANGED <<files, pc, locals, out, deaths, alone>>

(***************************************************************************)
(* An invocation starts: the URL is parsed and, except for --clear, the    *)
(* object's directory is made if it is missing.                            *)
(***************************************************************************)
Begin(p, step) ==
    /\ ~Active(p)
    /\ Goto(p, step)
    /\ cur' = [cur EXCEPT ![p] = "body"]
    /\ tag' = [tag EXCEPT ![p] = NoTag]
    /\ got' = [got EXCEPT ![p] = NoTag]
    /\ src' = [src EXCEPT ![p] = Absent]
    /\ out' = [out EXCEPT ![p] = Absent]
    /\ seen' = [seen EXCEPT ![p] = {server}]
    /\ alone' = IF Quiescent THEN alone \cup {p}
                ELSE {q \in alone : ~Active(q)} \ {p}
    /\ UNCHANGED <<server, plain, zst, staged, own, todo, deaths>>

StartGet(w) == Begin(w, "test") /\ dir' = TRUE
StartGetCached(r) == Begin(r, "testZst") /\ dir' = TRUE
StartClear(c) == Begin(c, "scan") /\ dir' = dir

(***************************************************************************)
(* The invocation gives up: a tool it ran failed and the script exits 1,   *)
(* leaving every file as it is.                                            *)
(***************************************************************************)
Bail(p) == Goto(p, "exit1") /\ UNCHANGED <<files, cur>>

----------------------------------------------------------------------------
(***************************************************************************)
(* --get, --update: make sure the .zst files exist.  The test and the      *)
(* truncating redirection are two steps.                                   *)
(***************************************************************************)
TestFinal(p) ==
    /\ pc[p] = "test"
    /\ IF zst[cur[p]] = Absent
         THEN Goto(p, "touch") /\ UNCHANGED cur
         ELSE NextPart(p, "test", "readTag")
    /\ UNCHANGED <<files, tag, got, src>>

TouchFinal(p) ==
    /\ pc[p] = "touch"
    /\ IF dir
         THEN /\ zst' = [zst EXCEPT ![cur[p]] = Empty]
              /\ NextPart(p, "test", "readTag")
              /\ UNCHANGED <<dir, plain, staged, own>>
         ELSE Bail(p)
    /\ UNCHANGED <<tag, got, src>>

(* Mutant of TagHeaders: the plain headers are preferred to the others. *)
TagPrefersPlain ==
    IF NonEmpty(plain["body"]) /\ NonEmpty(plain["hdrs"]) THEN plain["hdrs"]
    ELSE IF NonEmpty(zst["body"]) /\ NonEmpty(zst["hdrs"]) THEN zst["hdrs"]
    ELSE Absent

(***************************************************************************)
(* The ETag comes from the compressed headers if both compressed files     *)
(* have something in them, else from the plain headers if both plain files *)
(* have.  A cut-short zstd frame of the headers yields no ETag line.       *)
(***************************************************************************)
TagHeaders ==
    IF NonEmpty(zst["body"]) /\ NonEmpty(zst["hdrs"]) THEN zst["hdrs"]
    ELSE IF NonEmpty(plain["body"]) /\ NonEmpty(plain["hdrs"]) THEN plain["hdrs"]
    ELSE Absent

(* Mutant of ReadTag: whatever the file holds is sent. *)
ReadTagUnchecked(p) ==
    /\ pc[p] = "readTag"
    /\ tag' = [tag EXCEPT ![p] = TagHeaders]
    /\ Goto(p, "curl")
    /\ UNCHANGED <<files, cur, got, src>>

ReadTag(p) ==
    /\ pc[p] = "readTag"
    /\ tag' = [tag EXCEPT ![p] = IF TagHeaders \in Versions THEN TagHeaders ELSE NoTag]
    /\ Goto(p, "curl")
    /\ UNCHANGED <<files, cur, got, src>>

(* 304: the server's version is the one whose ETag was sent. *)
NotModified(p) ==
    /\ pc[p] = "curl"
    /\ tag[p] = server
    /\ got' = [got EXCEPT ![p] = server]
    /\ Goto(p, "testZst")
    /\ UNCHANGED <<files, cur, tag, src>>

(* 200: the response is now in the invocation's own temporary files. *)
Fetched(p) ==
    /\ pc[p] = "curl"
    /\ tag[p] # server
    /\ got' = [got EXCEPT ![p] = server]
    /\ Goto(p, "stage")
    /\ UNCHANGED <<files, cur, tag, src>>

(* Mutant of CurlFails: the status of curl(1) is not looked at. *)
CurlFailsUnnoticed(p) ==
    /\ pc[p] = "curl"
    /\ Goto(p, "testZst")
    /\ UNCHANGED <<files, cur, tag, got, src>>

(* curl(1) fails, or any other status code. *)
CurlFails(p) ==
    /\ pc[p] = "curl"
    /\ Bail(p)
    /\ UNCHANGED <<tag, got, src>>

Stage(p) ==
    /\ pc[p] = "stage"
    /\ IF dir
         THEN /\ staged' = [staged EXCEPT ![cur[p]] = got[p]]
              /\ NextPart(p, "stage", "move")
              /\ UNCHANGED <<dir, plain, zst, own>>
         ELSE Bail(p)
    /\ UNCHANGED <<tag, got, src>>

Move(p) ==
    /\ pc[p] = "move"
    /\ IF staged[cur[p]] # Absent
         THEN /\ plain' = [plain EXCEPT ![cur[p]] = staged[cur[p]]]
              /\ staged' = [staged EXCEPT ![cur[p]] = Absent]
              /\ NextPart(p, "move", "zopen")
              /\ UNCHANGED <<dir, zst, own>>
         ELSE Bail(p)
    /\ UNCHANGED <<tag, got, src>>

(***************************************************************************)
(* zstd --force --rm: open the source, replace the destination by a new    *)
(* empty file, write it in pieces, and remove the source.  Bytes written   *)
(* to a file that lost its name meanwhile go nowhere.                      *)
(***************************************************************************)
(* Mutant of ZstdOpen: an old compressed body is kept. *)
ZstdOpenKeepsBody(p) ==
    /\ pc[p] = "zopen"
    /\ IF cur[p] = "body" /\ NonEmpty(zst["body"])
         THEN Goto(p, "zrm") /\ UNCHANGED <<files, cur, src>>
         ELSE /\ src' = [src EXCEPT ![p] = plain[cur[p]]]
              /\ zst' = [zst EXCEPT ![cur[p]] = Empty]
              /\ own' = [own EXCEPT ![cur[p]] = p]
              /\ Goto(p, "zwrite")
              /\ UNCHANGED <<dir, plain, staged, cur>>
    /\ UNCHANGED <<tag, got>>

ZstdOpen(p) ==
    /\ pc[p] = "zopen"
    /\ IF plain[cur[p]] # Absent
         THEN /\ src' = [src EXCEPT ![p] = plain[cur[p]]]
              /\ zst' = [zst EXCEPT ![cur[p]] = Empty]
              /\ own' = [own EXCEPT ![cur[p]] = p]
              /\ Goto(p, "zwrite")
              /\ UNCHANGED <<dir, plain, staged, cur>>
         ELSE Bail(p) /\ UNCHANGED src
    /\ UNCHANGED <<tag, got>>

ZstdWrite(p) ==
    /\ pc[p] = "zwrite"
    /\ zst' = IF own[cur[p]] = p THEN [zst EXCEPT ![cur[p]] = Partial] ELSE zst
    /\ Goto(p, "zclose")
    /\ UNCHANGED <<dir, plain, staged, own, cur, tag, got, src>>

ZstdClose(p) ==
    /\ pc[p] = "zclose"
    /\ IF own[cur[p]] = p
         THEN /\ zst' = [zst EXCEPT ![cur[p]] = IF @ = Partial THEN src[p] ELSE Partial]
              /\ own' = [own EXCEPT ![cur[p]] = NoProc]
         ELSE UNCHANGED <<zst, own>>
    /\ Goto(p, "zrm")
    /\ UNCHANGED <<dir, plain, staged, cur, tag, got, src>>

ZstdRm(p) ==
    /\ pc[p] = "zrm"
    /\ IF plain[cur[p]] # Absent
         THEN /\ plain' = [plain EXCEPT ![cur[p]] = Absent]
              /\ NextPart(p, "zopen", "testZst")
              /\ UNCHANGED <<dir, zst, staged, own>>
         ELSE Bail(p)
    /\ UNCHANGED <<tag, got, src>>

Refresh(p) ==
    /\ \/ TestFinal(p) \/ TouchFinal(p) \/ ReadTag(p)
       \/ NotModified(p) \/ Fetched(p) \/ CurlFails(p)
       \/ Stage(p) \/ Move(p)
       \/ ZstdOpen(p) \/ ZstdWrite(p) \/ ZstdClose(p) \/ ZstdRm(p)
    /\ UNCHANGED <<server, todo, out, deaths, history>>

----------------------------------------------------------------------------
(***************************************************************************)
(* Emit the object: the last part of --get and the whole of --get-cached.  *)
(* The compressed body is preferred; each test and each read is a step.    *)
(***************************************************************************)
TestZst(p) ==
    /\ pc[p] = "testZst"
    /\ Goto(p, IF NonEmpty(zst["body"]) THEN "emitZst" ELSE "testPlain")
    /\ UNCHANGED out

TestPlain(p) ==
    /\ pc[p] = "testPlain"
    /\ Goto(p, IF NonEmpty(plain["body"]) THEN "emitPlain" ELSE "missing")
    /\ UNCHANGED out

Write(p, content) ==
    IF content \in Versions
      THEN Goto(p, "ok") /\ out' = [out EXCEPT ![p] = content]
      ELSE Goto(p, "exit1") /\ UNCHANGED out

EmitZst(p) == pc[p] = "emitZst" /\ Write(p, zst["body"])

EmitPlain(p) == pc[p] = "emitPlain" /\ Write(p, plain["body"])

Emit(p) ==
    /\ TestZst(p) \/ EmitZst(p) \/ TestPlain(p) \/ EmitPlain(p)
    /\ UNCHANGED <<server, files, locals, deaths, history>>

----------------------------------------------------------------------------
(***************************************************************************)
(* --clear: rm -fr of the object's directory.  The names are read once,    *)
(* the files unlinked one by one, and the directory must be empty then.    *)
(***************************************************************************)
Content(kind) ==
    CASE kind = "plain" -> plain [] kind = "zst" -> zst [] kind = "staged" -> staged

Present == {e \in Kinds \X Parts : Content(e[1])[e[2]] # Absent}

(* Mutant of ClearScan: an object with nothing compressed counts as absent. *)
ClearScanUnlessStored(p) ==
    /\ pc[p] = "scan"
    /\ IF NonEmpty(zst["body"])
         THEN Goto(p, "unlink") /\ todo' = [todo EXCEPT ![p] = Present]
         ELSE Goto(p, "ok") /\ UNCHANGED todo
    /\ UNCHANGED files

ClearScan(p) ==
    /\ pc[p] = "scan"
    /\ IF dir
         THEN Goto(p, "unlink") /\ todo' = [todo EXCEPT ![p] = Present]
         ELSE Goto(p, "ok") /\ UNCHANGED todo
    /\ UNCHANGED files

Without(content, kind, e) ==
    IF e[1] = kind THEN [content EXCEPT ![e[2]] = Absent] ELSE content

ClearUnlink(p) ==
    /\ pc[p] = "unlink"
    /\ \E e \in todo[p] :
        /\ todo' = [todo EXCEPT ![p] = @ \ {e}]
        /\ plain' = Without(plain, "plain", e)
        /\ zst' = Without(zst, "zst", e)
        /\ staged' = Without(staged, "staged", e)
        /\ own' = IF e[1] = "zst" THEN [own EXCEPT ![e[2]] = NoProc] ELSE own
    /\ UNCHANGED <<pc, dir>>

ClearRmdir(p) ==
    /\ pc[p] = "unlink"
    /\ todo[p] = {}
    /\ IF Present = {}
         THEN Goto(p, "ok") /\ dir' = FALSE
         ELSE Goto(p, "exit1") /\ UNCHANGED dir
    /\ UNCHANGED <<plain, zst, staged, own, todo>>

Clear(p) ==
    /\ ClearScan(p) \/ ClearUnlink(p) \/ ClearRmdir(p)
    /\ UNCHANGED <<server, cur, tag, got, src, out, deaths, history>>

----------------------------------------------------------------------------
(***************************************************************************)
(* An invocation dies: it is killed, the machine stops, or a tool it runs  *)
(* fails half-way (a full disk) and the script exits.                      *)
(***************************************************************************)
Die(p) ==
    /\ Active(p)
    /\ deaths < MaxDeaths
    /\ deaths' = deaths + 1
    /\ Goto(p, "dead")
    /\ own' = [f \in Parts |-> IF own[f] = p THEN NoProc ELSE own[f]]
    /\ UNCHANGED <<server, dir, plain, zst, staged, locals, out, history>>

Next ==
    \/ \E v \in Versions : ServerChange(v)
    \/ \E w \in Writers : StartGet(w) \/ Refresh(w)
    \/ \E r \in Readers : StartGetCached(r)
    \/ \E p \in Getters : Emit(p)
    \/ \E c \in Clearers : StartClear(c) \/ Clear(c)
    \/ \E p \in Procs : Die(p)

Spec == Init /\ [][Next]_vars
----------------------------------------------------------------------------
(***************************************************************************)
(* Properties.                                                             *)
(***************************************************************************)

(* Every variable has its type. *)
TypeOK ==
    /\ server \in Versions
    /\ dir \in BOOLEAN
    /\ plain \in [Parts -> Contents]
    /\ zst \in [Parts -> Contents]
    /\ staged \in [Parts -> Contents]
    /\ own \in [Parts -> Procs \cup {NoProc}]
    /\ pc \in [Procs -> Steps]
    /\ cur \in [Procs -> Parts]
    /\ tag \in [Procs -> Versions \cup {NoTag}]
    /\ got \in [Procs -> Versions \cup {NoTag}]
    /\ src \in [Procs -> Contents]
    /\ todo \in [Procs -> SUBSET (Kinds \X Parts)]
    /\ out \in [Procs -> Versions \cup {Absent}]
    /\ deaths \in 0..MaxDeaths
    /\ seen \in [Procs -> SUBSET Versions]
    /\ alone \subseteq Procs

(* What --get emits is a version the server had while --get was running:   *)
(* "the program checks with the GitHub service to make sure the locally    *)
(* cached copy (if any) is up-to-data" (lines 4552-4554).                  *)
FreshGet ==
    \A w \in Writers : pc[w] = "ok" => out[w] \in seen[w]

(* Once the server has answered, the object is in the cache: "If we are    *)
(* falling through here, then our object is in the cache (was either just  *)
(* placed there (perhaps "refreshed"), or was already there)" (2554-2555). *)
(* A death inside zstd(1) may leave a file that belies it.                 *)
FallThroughInCache ==
    deaths = 0 => \A w \in Writers : pc[w] = "testZst" => BodyToEmit \in Versions

(* Between invocations the stored headers and the stored body come from    *)
(* one response, so that an ETag match means the body is the current one.  *)
(* A death between the replacements of the two leaves them apart.          *)
StoredPairMatches ==
    (deaths = 0 /\ Quiescent /\ TagHeaders \in Versions) => BodyToEmit = TagHeaders

(* The same for a --get that had the object for itself: stale data in it   *)
(* was left there by invocations that had ended.                           *)
FreshGetAlone ==
    \A w \in Writers : (pc[w] = "ok" /\ w \in alone) => out[w] \in seen[w]
============================================================================
