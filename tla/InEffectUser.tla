---------------------------- MODULE InEffectUser ----------------------------
(***************************************************************************)
(* ads-github-cache asks parse-netrc for the user's GitHub name when it    *)
(* starts, and keeps a cache directory per name.  Its requests are made by *)
(* curl(1) with -n, which reads ~/.netrc again for every one of them and   *)
(* takes the first record of the host.                                     *)
(***************************************************************************)
EXTENDS ParseNetrc

CONSTANTS
    PROG,     \* the name of the program, the first argument
    ApiHost   \* gl_const_github_api_hostname

(* It is no option. *)
ASSUME ApiHostAssumption == ApiHost \in Arguments \ (KnownOpts \cup OtherOpts)

VARIABLES
    caller,           \* the invocation of ads-github-cache
    GITHUB_USERNAME,  \* names its cache directory
    stored            \* [dir, owner]: whose data is in which user's directory

callerVars == <<caller, GITHUB_USERNAME, stored>>
userVars == <<vars, callerVars>>

UserInit ==
    /\ Init
    /\ caller = "starting"
    /\ GITHUB_USERNAME = NoName
    /\ stored = {}

Starting == caller = "starting" /\ args = <<PROG, ApiHost>> /\ status # -1

(* "export NAME=$(...)" has the status of export, not that of parse-netrc: *)
(* what was written is all that counts, and the branches for its statuses  *)
(* 1 and 2 are never taken.  An empty name "should never happen", but      *)
(* nothing is written when there is no record, and the login of a record   *)
(* that has none is empty.                                                 *)
NothingWritten == out \in {<<>>, <<NoWord>>}

TakeUsername ==
    /\ Starting
    /\ ~NothingWritten
    /\ GITHUB_USERNAME' = out[1]
    /\ caller' = "running"
    /\ UNCHANGED <<vars, stored>>

GiveUp ==
    /\ Starting
    /\ NothingWritten
    /\ caller' = "failed"
    /\ UNCHANGED <<vars, GITHUB_USERNAME, stored>>

(* The record that curl takes. *)
IsFirstOf(records, i) ==
    /\ i \in DOMAIN records
    /\ records[i].host = ApiHost
    /\ \A j \in 1..(i - 1) : records[j].host # ApiHost

Request ==
    /\ caller = "running"
    /\ \E i \in DOMAIN RecordsOf(path) :
         /\ IsFirstOf(RecordsOf(path), i)
         /\ stored' = stored \cup
              {[dir |-> GITHUB_USERNAME, owner |-> RecordsOf(path)[i].login]}
    /\ UNCHANGED <<vars, caller, GITHUB_USERNAME>>

UserNext ==
    \/ Next /\ UNCHANGED callerVars
    \/ TakeUsername \/ GiveUp \/ Request

UserSpec == UserInit /\ [][UserNext]_userVars /\ WF_userVars(Program /\ UNCHANGED callerVars)

----------------------------------------------------------------------------
(* "A single Unix user may therefore use different GitHub user accounts at *)
(* different times without any accidental cross-account pollution"         *)
(* (ads-github-cache.in:4664-4666): the data in a user's directory is that *)
(* user's own.                                                             *)
OwnCache == \A s \in stored : s.dir = s.owner

(* "determined by the first entry matching the host machine"               *)
(* (ads-github-cache.in:4662): the name is the login of the first record   *)
(* that the one file declares that parse-netrc has opened, whatever        *)
(* becomes of ~/.netrc before and after; and the caches are kept apart     *)
(* until it is replaced, since curl takes the same record as parse-netrc.  *)
UserInEffect ==
    caller = "running" =>
        /\ \E i \in DOMAIN RecordsOf(opened[1]) :
              /\ IsFirstOf(RecordsOf(opened[1]), i)
              /\ GITHUB_USERNAME = RecordsOf(opened[1])[i].login
        /\ replaced = 0 => OwnCache

(* parse-netrc comes to its end, whatever the command line and the file. *)
Terminates == <>(status # -1)
=============================================================================
