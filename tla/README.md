# TLA+ models of ads-github-tools

ads-github-tools is a set of command line programs, mostly Bash, that work with
the GitHub v3 API: a shared on-disk cache of API responses (`ads-github-cache`)
and programs that fetch, merge, list and create repositories with its help.
The models here are of its parts with state and concurrency, and of its one
Rust program, `parse-netrc`; TLC checks them on small instances and TLAPS proves
the main results for every instance.

Line numbers below are of `src/main/bash/bin/ads-github-cache.in` unless
another file is named.

## The system

| Part | State | Operations | Hard behaviour |
|---|---|---|---|
| Cache object | directory per URL: `rsp-body.json`, `rsp-headers`, their `.zst` and `.staged` forms | `--get`, `--update`, `--get-cached`, `--clear` | no locks; replacement in many steps; kills between them; ETag of one file, body of another |
| Paged collection | the `HEAD-meta` object, an object per page, background subprocesses, `MY_TMP_DIR` | first pass (fetch), second pass (emit) | pool at its limit, failing subprocesses, polling, signals, clears between the passes |
| Whole cache | tree of objects per user | `--update` of all, `--clear-all` | partial failures, races with refreshes |
| Cache command line | mode flags, list of URLs | options, dispatch | one mode only, URLs that are collections |
| `ads-github-merge-all-upstreams` | working trees, branches, remotes | merge, push, restore the branch, per repository | a step fails half-way; a later run sees what it left |
| `ads-github-fetch-all-upstreams` | clones, remotes | clone, add the upstream remote, fetch, per repository | lost exit statuses, partial clones |
| `ads-github-repo-create` | remote and local repository | test, create, verify, initialise, rename branch | failure after the creation |
| `parse-netrc` (Rust) | position in the command line; the lexer's position in `~/.netrc`, the records read so far | print the login of the first record of a host (and user) | options and values by position, the file replaced while it is read, macros, panics |
| user name of the cache | `GITHUB_USERNAME`, which names the cache directory | ask `parse-netrc` once, request with `curl -n` | curl reads `~/.netrc` again each time |
| whoami, rate limits, nproc, hash-url, normalize-url | none | print one value | none |
| contrib scripts, build system, vendored crates | none | | |

How they interact: every other program obtains API data by running
`ads-github-cache --get` (or `--get-cached`), so the cache is shared by several
processes at a time, for instance a cron job that runs `--update` and a person
who runs `ads-github-fetch-all-upstreams`. Within one `ads-github-cache`, a
collection is obtained by subprocesses that each run the single-object code on
one page, and communicate with the parent through the cache and their exit
status only. When it starts, `ads-github-cache` runs `parse-netrc` (600) to learn
which GitHub user its requests will be made for.

What makes each part correct:

* object: `--get` emits a response that was current while it ran; body and ETag
  stay a pair; `--get-cached` finds what is there; after a clear the object is as good as new;
* collection: all pages in order or a failure without output; at most `-j`
  requests at a time; no failure lost; no subprocess outlives the temporary
  directory; the program ends;
* merge: a repository is left on the branch it was on, and what was merged is
  pushed when asked for; fetch: failures are reported and the upstream remote
  is the parent's; create: a repository that was created is left usable;
* `parse-netrc`: every argument is understood once and as what it is; the answer
  is that of the first matching record of one state of the file, the exit status
  is grep(1)'s; the cache directory is the one of the user curl authenticates as.

## Modules

| Module | What it is |
|---|---|
| `CacheObject` | one object of the cache and any number of invocations |
| `ClearedObject` | the same, with the history of what went wrong since the last clear |
| `MCClearedObject` | the same with a bound, for TLC |
| `CacheObjectProofs` | theorems about the object and its clears |
| `CollectionStream` | abstract: what a caller is promised about a collection |
| `PagedCollection` | one invocation that obtains a collection |
| `PagedCollectionProofs` | theorems about it, among them that it implements `CollectionStream` |
| `EachInTurn` | abstract: what the two programs promise that go through all repositories |
| `MergeAll` | `ads-github-merge-all-upstreams` over several repositories and runs |
| `MergeAllProofs` | theorems about it, among them that it implements `EachInTurn` |
| `MCMergeAll` | two instances of it in one, for TLC |
| `FetchAll` | `ads-github-fetch-all-upstreams` over several repositories and runs |
| `FetchAllProofs` | theorems about it, among them that it implements `EachInTurn` |
| `CommandLine` | the command line of `parse-netrc` |
| `NetrcFile` | what a netrc file is, and what it declares |
| `NetrcParser` | the netrc library it is linked with |
| `NetrcLookup` | abstract: what a caller of `parse-netrc` is promised |
| `ParseNetrc` | a run of `parse-netrc`; composes `CommandLine` and `NetrcParser`, implements `NetrcLookup` |
| `InEffectUser` | `ads-github-cache` asking `ParseNetrc` for the user's name, and curl |
| `MCNetrc` | the instance of `InEffectUser` for TLC |
| `CommandLineProofs`, `NetrcParserProofs` | lemmas: the invariants of the two parts; what comes of a file |
| `ParseNetrcProofs` | theorems about `InEffectUser` |
| `NetrcLookupProofs` | theorems about what its caller sees: that `ParseNetrc` implements `NetrcLookup`, and what `ads-github-cache` stores |

A definition whose comment begins with "Mutant of" is a plausible mistake in
the definition that follows it. Nothing uses it; it documents which property
would notice that mistake.

### CacheObject

`plain`, `zst` and `staged` are the three forms of the two files `Parts`
(body, headers); their contents are a version (one HTTP response), nothing at
all, an empty file or a cut-short file. `server` is the version GitHub answers
with now. `pc`, `cur`, `tag`, `got`, `src` are an invocation's position and
variables, `out` is its standard output. `seen` and `alone` are history
that only properties read.

One action is one file operation or one request of `f_get_one_validated_or_die`
(2219-2584) in its order: make missing `.zst` files, read the ETag, ask the
server, copy both files to `.staged`, move both in place, compress both, emit.
`--get-cached` is the emission alone, `--clear` is `rm -fr` of the directory as
readdir, unlinks and rmdir. `Die` ends an invocation at any step; it also
stands for a tool that fails half-way.

Granularity: a `cp` is one step (the source is a private temporary file); the
tests of both files and the reading of the ETag are one step; `zstd --force`
removes its destination and writes a new file, so a second writer's bytes go to
whoever holds the name; a cut-short headers frame yields no ETag, as the exit
status of the process substitution is lost (2391-2392). Removal of the
temporary files (2533-2544) is part of the last zstd step. Responses other than
200 and 304 are `CurlFails`. The removal of the two-character parent directory
(3578-3590) is left out: it removes only an empty directory.

`ClearedObject` adds one history variable: `spoiled` says that since the last
`--clear` that was alone with the object an invocation has died, or two that
change the object have overlapped. Both can leave an object whose ETag is not that
of its body, and a clear is all that a user has against it; `FreshSinceClear` says
that it helps, until the next such event.

### PagedCollection and CollectionStream

`link` is the number of the last page in the cached HEAD metadata, `child` the
state of each page's subprocess, `pool` the array `t_bg_pid_to_pagenum`, `scan`
what a running `for one_pid` loop has yet to visit, `err` `t_was_bg_err`. The
actions are the steps of `f_get_one_collection_or_die` (3030-3389): HEAD
metadata (one step, with the outcomes of `f_get_one_validated_colmeta_or_die`),
the Link header, a start of a subprocess, a visit of a recorded one
(`kill -n 0`, then `wait`), the ends of the rounds, the emission of a page.
Exits remove the temporary directory as the EXIT trap does. Beside it run the
subprocesses (`ChildSucceeds`, `ChildFails`, an abstraction of `CacheObject` to
the outcome), other invocations that clear pages (`OthersClear`), and signals
(`Killed`), after which the subprocesses go on.

A 304 to the HEAD request keeps whatever number is cached: the ETag is that of
page 1, and the code does not tell whether it covers the number of pages.
The model keys the pool by page; the code keys it by process id, so a process
id reused before the parent visited its first owner is not modelled.

`CollectionStream` knows the number of pages, the pages obtained and the pages
written, and allows to write only after all were obtained, to fail only with
nothing written, and a signal at any time.

### MergeAll

Line numbers are of `src/main/bash/bin/ads-github-merge-all-upstreams.in`. A
repository has a kind (all is in place, or what is missing), what its HEAD is
at, whether it has uncommitted changes, and three branches: the local default
branch, `upstream/` and origin's. A branch is the set of its commits: a
fast-forward is possible when the local set is within the other. `prev` is
`@{-1}` of the reflog, `head0`, `local0` and `upstream0` are history.

The program counts the pages (598-813, 1508), obtains them (1511-1575), and
reads a line per repository (1578-1722), in any order, as the order of the list
is GitHub's. The subshell (1722-2050) is one action per git command that
changes something: `Inspect` (everything up to the first change), `Checkout`,
`Merge`, `Push`, `Restore`; `SubshellEnds` is what the parent shell makes of its
exit status (2052-2129). Two details are modelled because they decide about
control: `exit` in a command substitution ends only the substitution, and a
branch name is looked for as a word within the names (`likeBranch`; the same tests
on the names under `upstream/` and on those of the remotes are taken to be exact).
The functions whose `_or_die` is lost in this way are `Count` (no number),
`RemotesSeen` (an error of `git remote` counts as "it is there", 1721-1722 with
878-880) and `TipsAlike` (an error of `git rev-parse` counts as "they are alike",
1862-1868 with 940-954); an empty string as the command of an `if` is true.
`Count` has no number either when the list fits on one page: without a Link:
header the branch that prints 1 is never taken, as the `test` before it has
overwritten `PIPESTATUS` (751-765). `Kill` is a signal between any two steps; `Faults` names the
steps that may fail for reasons of their own; "tool" is any that leaves the
subshell with status 1, "remotes" and "tips" are the two whose status is lost. Beside the program the remote
branches move (`Fetched`, `OthersPush`) at any time; the user commits, edits
and checks out only between runs, for the program works in the user's
directories and claims nothing about simultaneous use. `push --tags` is a push
of the branch; the tags are left out.

### FetchAll

Line numbers are of `src/main/bash/bin/ads-github-fetch-all-upstreams.in`. A
repository has a directory (none, one that is no repository, a working
directory) and a remote `upstream` that points to its parent or to itself.
`List` gives what GitHub has or what the cache has (an older list); the loop
(2238-2655) is `ReadLine`, `Clone`, `Remote`, `AddUpstream`, `Fetch`;
`SubshellFails` is the `exit $?` at 2650. `git-hub clone` is external: it makes a
working directory and, for a fork, the remote to the parent; a user whose
git-hub is configured to name that remote otherwise is not modelled.
`LeavesTreesAlone` says of every step what it may do to the directory and the
remote of every repository, also of those the program is not at.

### EachInTurn

The two programs have the same shape, a loop over the lines of a list, a subshell
per repository, and a list of the processed ones that decides about the exit
status; `EachInTurn` is what that shape is for. It knows the repositories that may
still be taken up, the one in hand, the done ones, and the directories, of whose
contents it knows nothing. A run takes each repository up at most once and only
if it was asked for it; the directories of the others keep still meanwhile; a
repository put down is done, or given up with the run going on in trouble, or
the run has failed; and the run succeeds only with nothing left to take up,
everything done that was asked for by name, and no trouble. Between the runs
the directories are the user's. The lists are sets: no line is read twice, but the
programs do not look for duplicates (1549-1564 of `MergeAll`'s source), and a
repository that the pages name twice is one line in the models.

Both programs map to it the same way (the `INSTANCE` at the end of `MergeAll` and of
`FetchAll`): what is to do is every repository until the list is there, and then
the unread lines; a remote-tracking branch, GitHub and origin are not seen.
Trouble is `CONTINUED_THROUGH_ERROR` in `MergeAll`, which `-k` causes; `FetchAll` has
none, as it goes on after no failure. A run of `FetchAll` in which a subshell
failed is mapped to a failed one, although its exit status is 0: that
disagreement has its own run, `fetch_failed`, and the rest of the promise holds.

### parse-netrc: CommandLine, NetrcParser, ParseNetrc, InEffectUser

Line numbers are of `src/main/rust/bin/parse-netrc/src/bin/main.rs`;
"lib.rs" is `src/third-party/cargo-vendored/netrc-0.4.1/src/lib.rs`.

`CommandLine` is `parse_cli_args` (320-496). The variables are the function's
own (`index`, `have_username`, `input_username`, `skip_next_val`,
`input_hostname`) and the loop's position `idx`; positions count from 0 as in the
code. `cli` is where the function is or what it returned. `verbosity` counts how
many of the three flags of `GLOBAL` are set, in the order in which they are.
`consumed` is history: the positions that the loop took, also the value of `-u`.
One action is one turn of the loop, by arm of the `match`; what ends in
`BadArgs` is an action of its own. `I32_MAX` is a constant, so that
`TooManyArguments` can happen. Every write to standard output succeeds or every
one fails (`outOk`): `write!` then returns an error, `println!` panics.

`NetrcParser` is `Netrc::parse`. A line is its words and whether it is a bare
newline; `unread` are the lines not read yet, `line` the words left of the
current one, `item` the entry whose argument is awaited, `current` the
`MachineRef`. An action is one entry, one argument, or one line read
(`Refill`, `MacroLine`). Two details decide about the result and are modelled:
the cursor indexes bytes but advances by one per character (lib.rs:152-169), so
that part of a word that is not ASCII is read again (`Leftover`), or slicing
panics when it falls inside a character (`Broken`); and a macro ends only at a
line of at most one byte (lib.rs:224), which the blank line of a CR LF file is
not. A macro's text is dropped, as the program never uses it; so are `lnum` and
white space that is not ASCII.

`ParseNetrc` is `run_app` and `main`. One action is one system call or one
record: `FindHome`, `CheckExists`, `CheckIsFile`, `Open`, the parser's steps,
`TryNext`, `PrintLogin`, `Exit`. Between any two of them the file that
`~/.netrc` names may be replaced (`Replace`, a rename or a removal); a file that is rewritten
in place while it is read is not modelled. A panic is exit status 101. What goes
to standard error is a kind of message; trace output (`fmt_netrc_machine`), and
a standard error that cannot be written, are left out. A closed standard output
is no error to the Rust library, and is left out too.

`NetrcLookup` knows the records that the file declares. The program looks at the
file at one moment and replies once: the first match, no match, a screen, or
nothing at all with another status. `ParseNetrc` implements it by the
mapping in the `INSTANCE`: `seen` is what was opened, `reply` what was printed
together with the exit status. What a file declares (`RecordsOf`) is defined in
`NetrcFile`, without the parser's state: `Reading` goes from the end of the file
to its start and says of every place what the entries from there on declare, and
what login they give to the machine before it; it has no value where the rest
is not made of entries or has a word that the lexer does not get whole.
`ParsedAsDeclared` compares the two: what the library makes of a file from its
start, with an index of the current machine that it writes fields to, is what the
file declares. It is the part of `GrepLike` that is about the library. `MCNetrc`
defines what its files declare a third time, by the entries that they were put
together of, and compares that with `Reading` (`ReadingAssumption`).

`InEffectUser` adds the caller. The user name is taken once; every request reads
`~/.netrc` anew and curl takes the first record of the host (external, 592-594
of `ads-github-cache.in`). A record is `stored` as data of the user curl was, in
the directory of the name that `parse-netrc` gave. The name is taken in
`export GITHUB_USERNAME=$(...)` (600), whose status is that of `export`: what
follows for the statuses 1 and 2 (625-633) is never reached, and it is the test for
an empty name, which "should never happen", that ends the program when
`parse-netrc` finds no record or fails.

## Runs

| Run | Question | Result |
|---|---|---|
| `object_refresh` | a refresher and a reader, four versions, a kill at any step | nothing stale; a consistent pair as long as nobody died |
| `object_clear` | a refresher and a clear that overlap, a kill before, a server that goes back | after a clear that was alone gets are fresh until the next kill or overlap |
| `object_two_gets` | two refreshers at a time | **violated**: old body under a new ETag |
| `collection_get` | `--get`, four pages, two subprocesses, failures, a signal | implements `CollectionStream`; fails only for a page that cannot be obtained |
| `collection_get_cached` | `--get-cached`, three subprocesses, a page cleared meanwhile | ends |
| `merge_all` | every option, failures (but those of the list and of the tips, see below) and signals: two repositories, one invocation; one repository of any kind, a second invocation after one that failed or was killed | merged, pushed, restored, nothing lost or touched without need; what was requested and is not there is an error; implements `EachInTurn`; ends |
| `merge_lost_page` | the request for a page of the list fails | **violated**: exit status 0, repositories left out |
| `merge_one_page` | the list fits on one page | **violated**: pages are requested without end |
| `fetch_all` | every option and failure, an old list, signals, two runs | success means fetched and there; `--missing-only` works on what was missing only; no directory or remote that was there is changed; implements `EachInTurn` |
| `fetch_failed` | a fetch fails | **violated**: exit status 0 |
| `netrc` | `parse-netrc` for every command line of up to four arguments, every file of two entries and some of three, the file replaced at any moment; then the cache's use of it | reads what the file declares, implements `NetrcLookup`, ends; the cache is named for the first record of the opened file, and each user's data is in that user's as long as the file is not replaced |
| `netrc_replaced` | `~/.netrc` is replaced between `parse-netrc` and a request | **violated**: the new user's data in the old one's cache |

The violations are disagreements of the code with what its comments or its
manual say; the findings in `PROJECT.json` quote both. They need ordinary
commands only, some of them with a failing request, and their traces are short. The least obvious one is
`object_two_gets`: both refreshers copy to the same `rsp-body.json.staged` and
`rsp-headers.staged`. One of them copied the older response before and moves
files after the other did; the object ends with the older body and the newer
headers, both complete. From then on every `--get` sends the newer ETag, gets a
304 and emits the older body.

More of the code's behaviour comes out of the models when a constant is changed.
These cases have no run of their own, and the properties are worded so as to
leave them out:

* `CacheObject`, `MaxDeaths = 2`: `FreshGet` fails. A kill between the two zstd
  runs of a first refresh leaves a compressed body beside empty compressed
  headers, so that later the ETag comes from the plain headers (2399); a kill
  after a later refresh has moved its files in place leaves plain files newer
  than the compressed body, which is what is emitted (2557). The same comes
  of one kill and `MayRevert = TRUE`.
* One kill inside zstd leaves whole plain files and a cut-short `.zst`; a 304 is
  then answered by emitting the latter, which fails, although "our object is in
  the cache" (2554-2555): why `FallThroughInCache` has `deaths = 0`. It heals
  when the server's version changes.
* A refresher and a `--clear` at the same time, `Writers = {w1}, Clearers = {c1}` and
  no deaths: `FreshGetAlone` fails as in `object_two_gets`, in a longer trace.
  Two `--get`s follow each other while one `rm -fr` (3565) is at work and they lose some of
  their files to it; the newer headers end beside the older body. A clear that is alone helps
  (`FreshSinceClear`).
* A `--get-cached` beside a refresh can fail for an object that is there, as
  zstd replaces the file in place.
* `PagedCollection`, `MaxClears = 1`: `SecondPassFinds` fails for a page that
  another invocation clears between the passes.
* A collection that fits on one page cannot be obtained: GitHub sends no Link: header
  for it, and the program gives up on it (`NoLink`, 3154), although "callers who wish
  to obtain all of the items in a collection need not futz around with paging
  at all" (4705-4706): why `NoTroubleNoFailure` has `link > 1`.
* `MergeAll`, `"tips" \in Faults`: `SuccessMeansMerged` fails. A `git rev-parse` that
  fails in the comparison of the tips makes the program take the repository for
  up to date and exit with 0 without having merged it (1862-1868).
* `MergeAll`, `"count" \in Faults`: `Terminates` fails as in `merge_one_page`, for
  a list of any number of pages.
* A merge or push that fails leaves the default branch checked out (conceded by
  the FIXME at 1921): why `ProcessedRestored` speaks of processed repositories.
* A single `-p` also pushes when nothing was merged and the user's branch is
  ahead of upstream, as only the tips are compared (1862-1875), where the manual
  says "only if we have merged changes" (2333): `SuccessMeansMerged` requires a
  push only of what was merged, and does not forbid the other.
* `likeBranch`: a repository without `master` but with `master-2` passes the test
  at 1810, and the failure of `git rev-parse` then counts as identical tips, as with
  that fault, but at every run: why `MissingIsError` leaves that kind out.
* `parse-netrc --user=alice HOST` is refused as an unrecognized option (422-425),
  where its usage message documents `--user=USER` (224, 232) and its own error
  message uses that form (372): the `match` knows `--user` as a word of its own
  only (370). `MCNetrc` has such an argument among `OtherOpts`.
* A record without a login makes `parse-netrc` print an empty line and exit with
  0; `ads-github-cache` does not tell that from no record at all (600-612 of
  `ads-github-cache.in`).
* A `default` entry is read and never consulted (588), although curl falls back
  on it: `ads-github-cache` then refuses to start where curl would authenticate.
* An argument that is not UTF-8 ends `parse-netrc` with a panic and status 101
  (648, with a FIXME), and so does an answer that cannot be written; the caller
  treats any status but 0 and 1 alike.
* After a word that is not all ASCII the library reads its last bytes again, as
  many as the word has bytes more than characters (lib.rs:152-169). If they spell
  a keyword, an entry begins there: a password of seven two-byte letters and
  `default` makes the fields that follow it those of the default entry, without
  an error. No `Leftover` of `MCNetrc` is a keyword, and `NoKeywordLeft` is the
  hypothesis of two theorems: `ParsedAsDeclared` and `GrepLike` are about files in
  which this does not happen.
* An open macro swallows the records behind it, and a word with a character that is
  not ASCII may have its end read as the next word. `PlainFileIsAnswered` is about
  files without such words and without what is no valid entry (comments, a field
  without a machine, a bad port, a cut-short entry); `GrepLike` is about all.
* `FetchAll`: the remote that `-u` adds points to the fork itself (`AddUpstream`), as jq
  takes `.clone_url` and not `.parent.clone_url` (2590), where a comment (2495-2496) says
  that it "points to the parent".
* `FetchAll`: a plain directory of a repository's name keeps it from being
  cloned, with exit status 0 if it was not requested by name (2325, 2411), where
  the repository's own `README.md` (134-136) says that it will be cloned.

Bounds. Two parts, three forms and three versions are enough for an old, a
current and an intermediate response; the fourth version in `object_refresh`
lets two refreshes follow the kill. Slots bound the simultaneous invocations
and not their number: an ended slot starts again, so histories are as long as
the state space allows. Four pages with two subprocesses make the pool fill,
empty and fill again and leave a remainder for the draining loop. Clears and
deaths are bounded by `MaxClears` and `MaxDeaths`. Two repositories let the
failure of one precede or follow the success of the other, and let requested
and unrequested ones differ; repositories do not influence each other in any
other way. `MaxChanges` bounds what happens outside the programs: two
changes make a branch diverge from upstream, and a third one, in the part of
`merge_all` with one repository that has everything in place, moves origin in between. That part
has a second run, as `fetch_all` has, which finds what the first has left; the part
with two repositories has one run, without `-L`. The list in `merge_all` has two
pages, for with one it is never obtained (`merge_one_page`). The one death in
`object_clear` comes at any step, but only while nothing has gone wrong since the last
clear (`MCClearedObject`); overlaps may follow it, and the server may go back to an
earlier response at any time. `ClearIsTheRemedy` has no such bound. In `netrc`, four
arguments over eight words hold every pair of options before, between and after the
host name; `I32_MAX = 4` stands in for 2^31-1, and longer lines pass it. The
values of `-v` need four of them to reach the flag that stays. Files are any two of
fifteen kinds of entries, or three of six, so that every kind precedes and follows
every other, and a third record can be before or behind a match or inside a macro.
One replacement is enough to separate any two steps. All command lines meet one
file and two command lines meet all files: the two parts share nothing but the
host and user name. `CHECK_DEADLOCK FALSE` appears where the invocations are
bounded, so that the system ends.

Fairness. `CacheObject` has safety properties only and no fairness.
`PagedCollection` assumes that the parent process keeps running and that every
subprocess ends some day. The first is the operating system's. The second is an
assumption on curl(1), which the code calls without a time limit: an unanswered
request that never times out would block the program for good. A signal is
never obliged to come. `MergeAll` assumes that the program keeps running, that
is that every git and curl command returns; its liveness property holds only
when the number of pages was obtained, so the list of `merge_all` has more than one page
and no failure of that request (`merge_one_page` and the list above have what
happens otherwise). `FetchAll` has safety
properties only. `parse-netrc` is one thread that waits for nobody but the file
system: `Spec` assumes that a program that can take a step does, and
`NetrcLookup` promises a reply in return.

## Proofs

`CacheObjectProofs`:

* `TypeCorrect`: the type invariant, with no assumption beyond those of the
  constants. It needs the strengthening that a response is known when it is
  staged.
* `AnswerIsInCache`, `PairsMatch`, and `GetsAreFresh` for `MaxDeaths = 0`: the
  properties of `object_refresh` under `Serial(w)`: one writer `w` and no clear;
  any set of readers and versions, and any server, also one that goes back to an
  earlier response. `object_two_gets` and the list above show why each
  hypothesis is there. The inductive invariant `SerialInv`, which holds as long as
  nobody has died, says for each step of the refresh what each of the six files
  holds: before the answer the pair on disk is one version, whole or absent;
  while it is replaced the files handled so far are the new version and the rest
  the old one.
* `GetsAreFreshAfterADeath`: `FreshGet` under `Forward(w)`, which allows one death
  at any step and asks for a server that never goes back. What a dead refresh
  leaves is no pair any more, and `SerialInv` says nothing of it; `CrashInv` is
  an invariant of both cases. It keeps what freshness needs: whatever is stored
  is something the server had in the past (`StoredIsPast`), the file whose ETag
  is asked about is not ahead of the body that would be emitted (`TagIsOld`), so
  that a 304 confirms what is there, and files are put in place in one order
  (`PutInPlace`). With two deaths, or a server that goes back, the middle one
  fails, as the list above says.
* `ClearIsTheRemedy`: `FreshSinceClear` for any refreshers, readers, clears, deaths
  and server, with no further assumption. `AloneInv`: who is alone with the object is the only
  one at work. `FilesInv`: without the directory there is no file, and who holds
  a compressed file open has its name there or writes to nothing; so a clear
  that was alone leaves an object that no dead or overlapping refresh has a hand
  in. `Unspoiled` is what then stays until the next death or overlap: one
  invocation at most changes the object; a refresher has its `SerialInv`; a
  clear has every file that is there still before it; and between them the
  object is a whole pair, or nothing (`Settled`).

`PagedCollectionProofs`, for any number of pages and any `-j`:

* `CollectionTypeCorrect`, `ChildrenAreBounded`, `TmpIsSafe`, `PagesAreFresh`
  hold without further assumption, also while others clear pages.
* `PagesAreThere`, `OnlyPagesFail` and `ImplementsStream` assume that nobody clears a page;
  they fail otherwise.
* `RoundsAreProgress` is the argument for `Terminates` without its fairness. A
  polling round need not bring anything, so that no measure gets smaller with
  every step. `Variant` is a tuple of numbers: the phase, the pages left, the
  subprocesses that run, then how far a round is from noticing one that ended.
  No step of anybody makes its first four numbers larger; the end of a
  subprocess makes it smaller, and so does every step of the parent while no
  subprocess runs.
* The invariant is `CollectionInv`: every running subprocess is recorded
  (`PoolInv`; without it the bound on the pool says nothing of the processes),
  every started page is recorded, fetched or reported (`PageInv`; this is why
  no failure is lost), what a successful subprocess left in the cache
  (`CacheInv`), and the output is empty until the second pass and then counts
  up (`OutInv`).

`MergeAllProofs`, for any repositories, pages, options, failures and number of
runs:

* `TypeCorrect`, `HeadsAreRestored`, `CommitsAreKept`, `OthersAreLeftAlone` hold
  without further assumption. `HeadInv` says what HEAD is at each step of the
  subshell and that a line is never read twice; `TouchInv` that the subshell
  works only on what was asked for and has no changes.
* `SuccessIsMerged` assumes that the list of repositories is obtained whole
  (`ListIsWhole`: no request for it fails and it has more than one page;
  `merge_lost_page` and `merge_one_page` show why) and that no `git rev-parse` of the tips
  fails (`TipsAreRead`; the list above has what happens otherwise). `ListInv` accounts for every
  repository on the list: its line is yet to be read, it is at hand, processed,
  or has a reason not to be. `WorkInv` says what the branches of each of these
  hold.
* `MissingMeansError` has no such assumption: `SoundInv` holds of the processed
  repositories whatever pages are lost.
* `EveryStepIsProgress`: each step of the program makes a tuple of natural
  numbers smaller (the phase, the pages and lines left, the step of the subshell),
  for finitely many repositories, but for the requests of pages whose number is
  not known (`EndUnknown`); `PagesInv` says that the loop over the pages otherwise
  stops at that number.
* `OnePageIsEndless`: of a list of one page the number is never known, no line of
  it is ever read, and only a signal ends the loop over the pages. With
  `EveryStepIsProgress` this is when the program ends, but for fairness.
* `ReposAreMergedInTurn`: `MergeAll` implements `EachInTurn`, with no assumption.
  The type invariant is enough: it says that a repository is in hand in the
  steps of the subshell and in no other. Every step of the subshell is work on
  that repository, or puts it down with one of the five statuses (`SubshellTurn`).

`FetchAllProofs`, for any repositories, lists, options, failures and number of
runs, with no further assumption:

* `TypeCorrect`, `MissingOnlyHolds`, `SuccessHolds`, `RequestedHolds`. `IInv`
  accounts for the list: a repository whose line was not read is as it was at
  the start (`ListInv`); one whose line was read is processed or has a reason not
  to be (`BehindInv`), unless a subshell failed; what is processed is there, and
  fetched if it has the remote (`ProcessedInv`).
* `TreesAreLeftAlone`: the action property `LeavesTreesAlone`. `HandInv` is what
  the program knows of the repository at hand between its test and its change of
  the directory or the remote, which the user's other work does not touch
  meanwhile.
* `ReposAreFetchedInTurn`: `FetchAll` implements `EachInTurn`, from the type
  invariant alone, as above.

`ParseNetrcProofs`, with the lemmas of `CommandLineProofs` and
`NetrcParserProofs`, for every command line, file, replacement and `I32_MAX`:

* `TypeCorrect`, `NoArgumentLost`, `UserNameIsTheOptarg`, `MachineIsThere`,
  `AnswersLikeGrep`, `QuietWithoutMatch`: the properties of the run `netrc` that
  speak of the program's own state. They assume no more than that words are
  words and arguments are arguments.
* The invariant is `IInv`. Its part `CliInv` says that the consumed positions are
  an interval up to `index` (`NoGap`; without it the host name could be any
  argument) and what each of them was understood as (`Understood`; the flag
  `skip_next_val` stands for exactly one position, the one after the first `-u`).
  `ParserInv` says that the `MachineRef` is the latest machine and that an
  entry with a field is only begun when there is one. `RunInv` says that no record before the one at hand
  matches, and what `run_app` must have printed for the result it returned.
* `RecordsAreTheDeclared`: `ParsedAsDeclared`, for every file whose words leave no
  keyword (`NoKeywordLeft`; the list above has what happens otherwise, and a file
  whose words are all read whole needs no hypothesis). The invariant is
  `FileInv`: `Outcome`, the records read so far followed by those that `Reading`
  finds in what has still to be read, does not change while the library works. It
  is what the file declares when it is opened (`OutcomeOpens`), it is what was read
  when the file ends, and it is nothing if and only if the library ends with
  an error or a panic. One lemma per action shows that it stays
  (`OutcomeStays`); the loop over a macro's lines, which knows no words, is why
  `Left` tells where the parser is.
* `EveryStepIsProgress`: each step of the program makes a tuple of nine natural
  numbers smaller, for every command line and every file, so that none of its
  loops is endless. It assumes of words no more than that they have a size which
  `Leftover` makes smaller (`LeavesLess`), that is that what the cursor leaves of a
  word is shorter than the word; it is, by the characters it went past.

`NetrcLookupProofs` is about the whole program and its caller, with the invariants
`OpenInv` (which file was opened and by which steps), `ScreenInv`, `PlainInv` and
`CallerInv`:

* `AtomicLookup`: the safety part of `GrepLike`. Every step of `parse-netrc` maps to
  the look at the file, the reply, a replacement of the file, or a stutter, for
  every command line and whatever becomes of the file and of standard output.
  It assumes `NoKeywordLeft`.
* `UserIsInEffect`: `UserInEffect`. The name that `ads-github-cache` works under is
  the login of the first record that one of the files declares which were at
  `~/.netrc`, whenever they were replaced; and unless the file was replaced
  each user's data is stored under that user's name (`netrc_replaced` shows why
  the condition). It assumes `NoKeywordLeft`.
* `PlainFilesAreAnswered`: the library parses every plain file, and then neither the
  command line nor the path nor the records make `parse-netrc` exit with a
  status other than 0 and 1.

`Reading` is a recursive function, and the provers cannot use the library's
induction theorems. What is proved by induction elsewhere is proved here of a
least element: `Closer` orders the places of a file by the lines and words left,
and of a set of places one is the closest to the end (`ClosestPlace`, from
`WFMin`). So `Reading` exists (`ReadingExists`: each place has a function that is
right from there to the end, and two of these agree), has the value that its
definition gives (`ReadingDef`), and finds records (`ReadingType`).

Only model-checked, therefore, is what depends on fairness: `Terminates` of the
three programs and the liveness part of `GrepLike` and of `StreamSpec`. The
theorems `EveryStepIsProgress` and `RoundsAreProgress` give all of termination but
the fairness. Every safety property of a passing run is the subject of a theorem,
under the hypotheses named above.

## Not modelled, and the plan

Done: `CacheObject`, `PagedCollection` with `CollectionStream`, `MergeAll` and
`FetchAll` with `EachInTurn`, and `ParseNetrc` with its parts, `NetrcLookup` and its
caller, each with proofs. Of the plan nothing is left but what is listed here.

Not modelled, though it has state:

* Whole cache: `--clear` of a collection, `--clear-all` (3592-3867) and `--update`
  of all objects (2633-2652) are loops over the operations of one object, which
  `CacheObject` has; objects do not influence each other. Their partial failures
  are their own.
* The `HEAD-meta` object at file granularity: its steps are those of
  `CacheObject` with one file less.
* Cache command line and URL validation: sequential; one mode flag and a list.
* The requests for the list of `ads-github-fetch-all-upstreams` (918-1459): one
  step, `List`.
* `ads-github-repo-create`: one process, one step after the other, with no undoing.
  The server decides who gets a name; what remains depends on what GitHub
  shows of a repository shortly after its creation (the code waits some seconds
  for "eventually consistent" data) and on the user's git configuration,
  neither of which the code determines.

Left out for good: whoami, rate limits, nproc, hash-url and normalize-url (they
keep no state and print one value), `lib.rs` of `parse-netrc` (two macros with the
version and the date of the build), the contrib scripts (wrappers of curl and
git), the build system and the vendored crates but for the netrc library. HTTP
redirects, authentication and rate limiting are part of "the request fails".
