---------------------------- MODULE EntryLifecycle ----------------------------
(***************************************************************************)
(* One embedded config entry: its set-up and unload (__init__.py), the     *)
(* coordinator's polling (coordinator.py), the config, reauthentication    *)
(* and reconfiguration flows (config_flow.py) and the repair issues        *)
(* (repairs.py), over the clients of CloudClient.                          *)
(*                                                                         *)
(* External: Home Assistant runs one set-up or unload of an entry at a     *)
(* time, retries a set-up that is not ready, starts one reauthentication   *)
(* when asked, stops polling after an authentication failure, and keeps    *)
(* persistent issues over a restart.                                       *)
(***************************************************************************)
EXTENDS CloudClient

VARIABLES
  state,      \* what the entry is doing
  data,       \* the password entry.data holds
  goal,       \* what the unload under way is for: "reload", "remove", "off" or None
  polled,     \* how the coordinator's last refresh ended: "ok", "bad" or "auth"
  reload,     \* a scheduled reload has not begun
  reauth,     \* a reauthentication waits for the user
  flow,       \* the form being worked on: None or [kind, step, pw]
  code,       \* snapshot.last_error_code of the entry's manager
  listening,  \* the issue listener is registered
  issue       \* the repair issue that is shown

entryVars == <<state, data, goal, polled, reload, reauth, flow, code, listening, issue>>
vars == <<cloudVars, entryVars>>

Codes == {"none", "reauth", "other"}
SettingUp == {"refresh", "files", "platforms"}
Unloading == {"unloading", "shutdown"}
Resting == {"retry", "failed", "error", "off"}

TypeOK ==
  /\ CloudTypeOK
  /\ state \in SettingUp \cup Unloading \cup Resting
                \cup {"none", "queued", "loaded", "stuck", "removed"}
  /\ data \in Passwords \cup {None} /\ goal \in {"reload", "remove", "off", None}
  /\ polled \in {"ok", "bad", "auth"} /\ reload \in BOOLEAN /\ reauth \in BOOLEAN
  /\ flow = None \/ flow \in [kind : {"user", "reauth", "reconfigure"},
                              step : {"form", "validating", "runtime"}, pw : Passwords]
  /\ code \in Codes /\ listening \in BOOLEAN /\ issue \in Codes

Init ==
  /\ CloudInit
  /\ state = "none" /\ data = None /\ goal = None /\ polled = "bad"
  /\ reload = FALSE /\ reauth = FALSE /\ flow = None
  /\ code = "none" /\ listening = FALSE /\ issue = "none"

------------------------------------------------------------------------------
(* async_setup_entry. *)

KeptClient == IF client["entry"] = None THEN NewClient(data) ELSE client["entry"]
FreshClient == NewClient(data)

\* A new client, without the tokens of the last one; then the first refresh.
SetUp ==
  /\ state = "queued"
  /\ LET new == FreshClient IN
     /\ client' = [client EXCEPT !["entry"] = new]
     /\ req' = [req EXCEPT !["poll"] = FirstStep(new)]
  /\ state' = "refresh" /\ code' = "none" /\ listening' = FALSE
  /\ UNCHANGED <<password, faults, data, goal, polled, reload, reauth, flow, issue>>

\* _async_update_data: what a refresh that ended says.
Temporary(r) == FALSE
Blames(r) == r = "auth"

FirstRefresh ==
  /\ state = "refresh" /\ req["poll"] \in {"ok", "auth", "bad"}
  /\ Moves("poll", "idle") /\ polled' = req["poll"]
  /\ state' = CASE req["poll"] = "ok" -> "files"
                [] Blames(req["poll"]) -> "failed"
                [] OTHER -> "retry"
  /\ reauth' = (reauth \/ Blames(req["poll"]))
  /\ UNCHANGED <<password, client, faults, data, goal, reload, flow, code, listening,
                 issue>>

\* The manager, its look at the user's files, then the listener and the issues.
Prepares ==
  /\ state = "files" /\ state' = "platforms"
  /\ code' \in {"none", "other"} /\ issue' = code' /\ listening' = TRUE
  /\ UNCHANGED <<cloudVars, data, goal, polled, reload, reauth, flow>>

SetUpFails ==
  /\ state \in {"files", "platforms"} /\ Disturb /\ state' = "error"
  /\ UNCHANGED <<password, client, req, data, goal, polled, reload, reauth, flow, code,
                 listening, issue>>

Loaded ==
  /\ state = "platforms" /\ state' = "loaded"
  /\ UNCHANGED <<cloudVars, data, goal, polled, reload, reauth, flow, code, listening,
                 issue>>

RetryTimer ==
  /\ state = "retry" /\ state' = "queued"
  /\ UNCHANGED <<cloudVars, data, goal, polled, reload, reauth, flow, code, listening,
                 issue>>

------------------------------------------------------------------------------
(* A loaded entry. *)

Running == state \in {"loaded", "unloading"}

PollBegins ==
  /\ state = "loaded" /\ polled # "auth" /\ req["poll"] = "idle" /\ Begin("poll")
  /\ UNCHANGED <<password, client, faults, entryVars>>

Polled ==
  /\ Running /\ req["poll"] \in {"ok", "auth", "bad"}
  /\ Moves("poll", "idle")
  /\ polled' = IF Blames(req["poll"]) THEN "auth"
               ELSE IF req["poll"] = "ok" THEN "ok" ELSE "bad"
  /\ reauth' = (reauth \/ Blames(req["poll"]))
  /\ UNCHANGED <<password, client, faults, state, data, goal, reload, flow, code,
                 listening, issue>>

\* last_error_code changes and the listeners are called: async_sync_runtime_issues.
Reports(c) == code' = c /\ issue' = IF listening THEN c ELSE issue

\* The manager fetches camera credentials: the authentication test, a stream, a
\* probe or a snapshot.
SessionBegins ==
  /\ state = "loaded" /\ req["session"] = "idle" /\ Begin("session")
  /\ UNCHANGED <<password, client, faults, entryVars>>

SessionEnds ==
  /\ Running \/ state = "shutdown"
  /\ req["session"] \in {"ok", "auth", "bad"} /\ Moves("session", "idle")
  /\ Reports(CASE req["session"] = "ok" -> "none"
               [] req["session"] = "auth" -> "reauth"
               [] OTHER -> "other")
  /\ UNCHANGED <<password, client, faults, state, data, goal, polled, reload, reauth,
                 flow, listening>>

\* Any other operation of the manager records an error or clears it, also one
\* that ends while the entry is unloaded.
OperationEnds ==
  /\ Running \/ state = "shutdown"
  /\ \E c \in {"none", "other"} : Reports(c)
  /\ UNCHANGED <<cloudVars, state, data, goal, polled, reload, reauth, flow, listening>>

------------------------------------------------------------------------------
(* async_unload_entry, and what asks for it. *)

\* The reload that a flow scheduled, or that the options flow or the user asks for.
ReloadBegins ==
  /\ reload /\ state \in Resting \cup {"loaded"}
  /\ reload' = FALSE
  /\ IF state = "loaded" THEN state' = "unloading" /\ goal' = "reload"
                         ELSE state' = "queued" /\ UNCHANGED goal
  /\ UNCHANGED <<cloudVars, data, polled, reauth, flow, code, listening, issue>>

UserReloads ==
  /\ state \in Resting \cup SettingUp \cup {"loaded"} /\ Disturb /\ reload' = TRUE
  /\ UNCHANGED <<password, client, req, state, data, goal, polled, reauth, flow, code,
                 listening, issue>>

\* The entry is disabled or removed; Home Assistant unloads only a loaded one, and
\* the integration has no hook for the removal itself.
UserStops(why) ==
  /\ Disturb
  /\ \/ state = "loaded" /\ state' = "unloading" /\ goal' = why
     \/ state \in Resting /\ state' = (IF why = "remove" THEN "removed" ELSE "off")
        /\ UNCHANGED goal
  /\ reload' = FALSE /\ reauth' = FALSE /\ flow' = None
  /\ client' = [client EXCEPT !["flow"] = None]
  /\ req' = [req EXCEPT !["flow"] = "idle"]
  /\ UNCHANGED <<password, data, polled, code, listening, issue>>

PlatformsStay ==
  /\ state = "unloading" /\ Disturb /\ state' = "stuck" /\ reload' = FALSE
  /\ UNCHANGED <<password, client, req, data, goal, polled, reauth, flow, code, listening,
                 issue>>

StillListening == UNCHANGED listening
ListenerRemoved == listening' = FALSE

\* The platforms are gone: the listener, then the issues, then the manager.
PlatformsGo ==
  /\ state = "unloading" /\ state' = "shutdown"
  /\ ListenerRemoved /\ issue' = "none"
  /\ UNCHANGED <<cloudVars, data, goal, polled, reload, reauth, flow, code>>

\* async_shutdown is over; the client and its requests are dropped.
ShutDown ==
  /\ state = "shutdown" /\ goal' = None
  /\ state' = CASE goal = "reload" -> "queued" [] goal = "remove" -> "removed"
                [] goal = "off" -> "off"
  /\ req' = [req EXCEPT !["poll"] = "idle", !["session"] = "idle"]
  /\ UNCHANGED <<password, client, faults, data, polled, reload, reauth, flow, code,
                 listening, issue>>

\* Home Assistant restarts; only the entry and the issues are persistent.
Restart ==
  /\ state \notin {"none", "removed", "off"} /\ Disturb /\ state' = "queued"
  /\ client' = [c \in Clients |-> None] /\ req' = [r \in Requests |-> "idle"]
  /\ goal' = None /\ reload' = FALSE /\ reauth' = FALSE /\ flow' = None
  /\ polled' = "bad" /\ code' = "none" /\ listening' = FALSE
  /\ UNCHANGED <<password, data, issue>>

------------------------------------------------------------------------------
(* The flows. *)

Kinds == {k \in {"user", "reauth", "reconfigure"} :
            CASE k = "user"        -> state = "none"
              [] k = "reauth"      -> reauth
              [] k = "reconfigure" -> state \notin {"none", "removed"}}

\* The user opens a form; reconfiguring is the user's own idea.
Opens(kind) ==
  /\ flow = None /\ kind \in Kinds
  /\ kind = "reconfigure" => faults < MaxFaults
  /\ faults' = IF kind = "reconfigure" THEN faults + 1 ELSE faults
  /\ flow' = [kind |-> kind, step |-> "form", pw |-> CHOOSE p \in Passwords : TRUE]
  /\ UNCHANGED <<password, client, req, state, data, goal, polled, reload, reauth, code,
                 listening, issue>>

\* _async_validate_embedded, with a client of its own.
Submits(pw) ==
  /\ flow # None /\ flow.step = "form"
  /\ flow' = [flow EXCEPT !.step = "validating", !.pw = pw]
  /\ client' = [client EXCEPT !["flow"] = NewClient(pw)]
  /\ req' = [req EXCEPT !["flow"] = FirstStep(NewClient(pw))]
  /\ UNCHANGED <<password, faults, state, data, goal, polled, reload, reauth, code,
                 listening, issue>>

NoReload == reload' = (reload \/ state = "loaded")
ReloadScheduled == reload' = TRUE

\* async_update_reload_and_abort.
Updates ==
  /\ data' = flow.pw /\ ReloadScheduled /\ flow' = None
  /\ reauth' = (reauth /\ flow.kind # "reauth")
  /\ UNCHANGED <<state, goal, polled, code, listening, issue>>

\* A refused form is shown again, a reauthentication is finished, the others go on
\* to the runtime package.
Validated ==
  /\ flow # None /\ flow.step = "validating" /\ req["flow"] \in {"ok", "auth", "bad"}
  /\ Moves("flow", "idle") /\ client' = [client EXCEPT !["flow"] = None]
  /\ IF req["flow"] = "ok" /\ flow.kind = "reauth"
     THEN Updates
     ELSE /\ flow' = [flow EXCEPT !.step = IF req["flow"] = "ok" THEN "runtime" ELSE "form"]
          /\ UNCHANGED <<state, data, goal, polled, reload, reauth, code, listening, issue>>
  /\ UNCHANGED <<password, faults>>

\* The package is stored, left as it is or, on a second form, deleted with the rest;
\* a failure shows the form again.
PackageDone ==
  /\ flow # None /\ flow.step = "runtime"
  /\ IF flow.kind = "user"
     THEN /\ state = "none" /\ state' = "queued" /\ data' = flow.pw /\ flow' = None
          /\ UNCHANGED <<goal, polled, reload, reauth, code, listening, issue>>
     ELSE Updates
  /\ UNCHANGED cloudVars

\* The window is closed, or the camera is another than the entry's.
Abandons ==
  /\ flow # None /\ flow.step # "validating" /\ Disturb /\ flow' = None
  /\ UNCHANGED <<password, client, req, state, data, goal, polled, reload, reauth, code,
                 listening, issue>>

Flow ==
  \/ \E kind \in {"user", "reauth", "reconfigure"} : Opens(kind)
  \/ \E pw \in Passwords : Submits(pw)
  \/ Validated \/ PackageDone \/ Abandons

Entry ==
  \/ SetUp \/ FirstRefresh \/ Prepares \/ SetUpFails \/ Loaded \/ RetryTimer
  \/ PollBegins \/ Polled \/ SessionBegins \/ SessionEnds \/ OperationEnds
  \/ ReloadBegins \/ UserReloads \/ (\E why \in {"remove", "off"} : UserStops(why))
  \/ PlatformsStay \/ PlatformsGo \/ ShutDown \/ Restart

Next == (CloudStep /\ UNCHANGED entryVars) \/ Entry \/ Flow

Spec == Init /\ [][Next]_vars

\* Requests are answered, Home Assistant goes on with what it has begun, polls and
\* retries; a user who was asked to sign in again opens the form and, some day,
\* types the password the account has.
Fairness ==
  /\ \A r \in Requests : WF_vars(Answer(r) /\ UNCHANGED entryVars)
  /\ WF_vars(SetUp) /\ WF_vars(FirstRefresh) /\ WF_vars(Prepares) /\ WF_vars(Loaded)
  /\ WF_vars(RetryTimer) /\ WF_vars(PollBegins) /\ WF_vars(Polled)
  /\ WF_vars(ReloadBegins) /\ WF_vars(PlatformsGo) /\ WF_vars(ShutDown)
  /\ WF_vars(Validated) /\ WF_vars(PackageDone)
  /\ SF_vars(Opens("user")) /\ SF_vars(Opens("reauth"))
  /\ SF_vars(\E pw \in Passwords : pw = password /\ Submits(pw))

FairSpec == Spec /\ Fairness

------------------------------------------------------------------------------
(* Properties *)

\* The client of a running entry signs in with the password the entry holds, or
\* the entry is about to be reloaded: neither an update during set-up nor one
\* that meets another reload is lost.
UpToDate ==
  /\ TypeOK
  /\ state \in SettingUp \cup {"loaded"} => reload \/ client["entry"].pw = data

\* The repair issue is the manager's last error for as long as that is listened
\* to, and an operation that ends while the manager shuts down brings none back.
IssuesOwned == IF listening THEN issue = code ELSE state = "shutdown" => issue = "none"

\* Once the disturbances are over the entry works again, unless it was stopped or
\* cannot be unloaded or set up, or its client keeps a refresh token that is refused
\* as a connection error, which only a reload gets rid of: sessions that were
\* revoked, a password that was changed and every overlap of polls, sessions,
\* reloads, restarts and forms end in a reload with the right password.
Works == state = "loaded" /\ polled = "ok"
Stranded == state = "loaded" /\ client["entry"].grant = "dead"
Recovers == <>[](Works \/ Stranded \/ state \in {"off", "removed", "stuck", "error"})
==============================================================================
