------------------------- MODULE EntryLifecycleProofs -------------------------
(***************************************************************************)
(* Proofs about EntryLifecycle and the CloudClient it extends, for any     *)
(* passwords and any number of disturbances.                               *)
(***************************************************************************)
EXTENDS EntryLifecycle, TLAPS

\* A request that was begun has a client, which only goes with its requests.
Held == \A r \in Requests : req[r] # "idle" => client[Of(r)] # None

\* An entry that was created has a password, one that is set up has a client,
\* and an unload knows what comes after it.
Grounded ==
  /\ state # "none" => data \in Passwords
  /\ state \in SettingUp \cup Unloading \cup {"loaded"} => client["entry"] # None
  /\ state \in Unloading => goal \in {"reload", "remove", "off"}

Inductive == TypeOK /\ Held /\ Grounded /\ UpToDate /\ IssuesOwned

------------------------------------------------------------------------------
(* The clients. *)

\* A request begins at one of the three steps of _async_ensure_token.
LEMMA FirstStepTypes == \A c : FirstStep(c) \in {"login", "refresh", "lookup"}
  BY DEF FirstStep

\* A new client has the password it was made with, and no tokens.
LEMMA NewClientTypes ==
  \A pw \in Passwords : NewClient(pw) \in Records /\ NewClient(pw).pw = pw
  BY DEF NewClient, Records

\* A token that ages, is revoked or renewed leaves the password of its client.
Renewed(c, d) == d \in Records /\ d.pw = c.pw
\* A renewed client still is the client of its password.
LEMMA RenewedClient ==
  ASSUME NEW c \in Records
  PROVE  /\ Renewed(c, [c EXCEPT !.id = "fresh", !.grant = "good"])
         /\ Renewed(c, [c EXCEPT !.id = "stale"])
         /\ \A refusal \in {"bad", "dead"} : Renewed(c, Revoked(c, refusal))
  BY DEF Records, Renewed, Revoked

\* What a step of the account or of a request keeps: the types, and every client
\* and the password it signs in with.
Same ==
  \A c \in Clients :
    client[c] # None => client'[c] # None /\ client'[c].pw = client[c].pw
Kept == CloudTypeOK' /\ Held' /\ Same

\* One client renews its tokens, and one request may go on.
LEMMA RenewKeeps ==
  ASSUME CloudTypeOK, Held, NEW c \in Clients, client[c] # None, NEW d,
         Renewed(client[c], d), client' = [client EXCEPT ![c] = d],
         UNCHANGED <<password, faults>>,
         req' = req \/ \E r \in Requests : Of(r) = c /\ req' = [req EXCEPT ![r] = "lookup"]
  PROVE  Kept
  <1>1. client[c] \in Records
    BY DEF CloudTypeOK, Records
  <1>2. CloudTypeOK'
    BY <1>1 DEF CloudTypeOK, Renewed, Records
  <1>3. Same
    BY CloudAssumption DEF Same, CloudTypeOK, Renewed
  <1>4. Held'
    BY CloudAssumption DEF Held, CloudTypeOK, Renewed
  <1> QED BY <1>2, <1>3, <1>4 DEF Kept

\* A request moves on or ends, with or without a disturbance.
LEMMA MoveKeeps ==
  ASSUME CloudTypeOK, Held, NEW r \in Requests, req[r] # "idle" \/ client[Of(r)] # None,
         NEW to \in {"idle", "login", "refresh", "lookup", "discover", "second", "ok",
                     "auth", "bad"},
         Moves(r, to), UNCHANGED <<password, client>>, faults' \in 0..MaxFaults
  PROVE  Kept
  BY DEF Moves, CloudTypeOK, Held, Same, Kept

\* No step of a client changes its password, or makes or drops a client.
LEMMA CloudKeeps == CloudTypeOK /\ Held /\ CloudStep => Kept
  <1> SUFFICES ASSUME CloudTypeOK, Held, CloudStep PROVE Kept
    OBVIOUS
  <1>0. /\ \A c \in Clients : client[c] # None => client[c] \in Records
        /\ \A r \in Requests : Of(r) \in Clients
        /\ faults \in 0..MaxFaults
    BY DEF CloudTypeOK, Records, Requests, Clients, Of
  <1>1. Disturb => faults' \in 0..MaxFaults
    BY <1>0, CloudAssumption DEF Disturb
  <1>2. ASSUME NEW r \in Requests, SignedIn(r), req[r] # "idle", UNCHANGED <<password, faults>>
        PROVE  Kept
    <2> DEFINE c == Of(r)
               d == [client[c] EXCEPT !.id = "fresh", !.grant = "good"]
    <2>1. client[c] \in Records /\ client[c] # None /\ c \in Clients
      BY <1>0, <1>2 DEF Held
    <2>2. client' = [client EXCEPT ![c] = d]
      BY <1>2 DEF SignedIn
    <2>3. Renewed(client[c], d)
      BY <2>1, RenewedClient
    <2> HIDE DEF d
    <2> QED BY <1>2, <2>1, <2>2, <2>3, RenewKeeps DEF SignedIn, Moves
  <1>3. ASSUME NEW r \in Requests, Answer(r) \/ Outage(r) \/ TokenRefused(r) PROVE Kept
    <2>1. CASE Login(r) \/ Refresh(r)
      <3>1. /\ req[r] # "idle" /\ UNCHANGED <<password, faults>>
            /\ \/ SignedIn(r)
               \/ (Moves(r, "auth") \/ Moves(r, "bad")) /\ UNCHANGED client
        <4>1. CASE Login(r)
          BY <4>1 DEF Login, Refused
        <4>2. CASE Refresh(r)
          BY <4>2 DEF Refresh, Refused
        <4> QED BY <2>1, <4>1, <4>2
      <3> QED BY <1>0, <1>2, <3>1, MoveKeeps
    <2>2. CASE Lookup(r)
      BY <1>0, <2>2, MoveKeeps DEF Lookup
    <2>3. CASE Outage(r)
      BY <1>0, <1>1, <2>3, MoveKeeps DEF Outage, InFlight
    <2>4. CASE TokenRefused(r)
      BY <1>0, <1>1, <2>4, MoveKeeps DEF TokenRefused, Refused
    <2> QED BY <1>3, <2>1, <2>2, <2>3, <2>4 DEF Answer
  <1>4. ASSUME NEW c \in Clients, Age(c) PROVE Kept
    <2> DEFINE d == [client[c] EXCEPT !.id = "stale"]
    <2>1. client[c] \in Records /\ client' = [client EXCEPT ![c] = d]
      BY <1>0, <1>4 DEF Age
    <2>2. Renewed(client[c], d)
      BY <2>1, RenewedClient
    <2> HIDE DEF d
    <2> QED BY <1>4, <2>1, <2>2, RenewKeeps DEF Age
  <1>5. CASE Revoke
    <2>1. \A c \in Clients : /\ client[c] = None => client'[c] = None
                             /\ client[c] # None => Renewed(client[c], client'[c])
      BY <1>0, <1>5, RenewedClient DEF Revoke, Revoked
    <2>2. \A c \in Clients : /\ client'[c] = None <=> client[c] = None
                             /\ client'[c] \in {None} \cup Records
                             /\ client[c] # None => client'[c].pw = client[c].pw
      BY <2>1, CloudAssumption DEF Renewed
    <2>3. /\ client' \in [Clients -> {None} \cup Records] /\ password' \in Passwords
          /\ req' = req /\ faults' \in 0..MaxFaults
      BY <1>1, <1>5, <2>2 DEF Revoke
    <2> QED BY <1>0, <2>2, <2>3 DEF CloudTypeOK, Held, Same, Kept
  <1> QED BY <1>3, <1>4, <1>5 DEF CloudStep

\* Only a disturbance is counted.
LEMMA QuietKeeps ==
  ASSUME CloudTypeOK, Held, UNCHANGED <<password, client, req>>, faults' = faults \/ Disturb
  PROVE  Kept
  <1>1. faults' \in 0..MaxFaults
    BY CloudAssumption DEF CloudTypeOK, Disturb
  <1> QED BY <1>1 DEF CloudTypeOK, Held, Same, Kept

------------------------------------------------------------------------------
(* The entry and its flows. *)

USE DEF SettingUp, Unloading, Resting, Codes

\* At first there is no entry, client or issue.
LEMMA InitInductive == Init => Inductive
  <1> SUFFICES ASSUME Init PROVE Inductive
    OBVIOUS
  <1>1. TypeOK /\ Held
    <2>1. CloudTypeOK /\ Held
      BY CloudAssumption DEF Init, CloudInit, CloudTypeOK, Held
    <2>2. reload \in BOOLEAN /\ reauth \in BOOLEAN /\ listening \in BOOLEAN
      BY DEF Init
    <2> QED BY <2>1, <2>2 DEF Init, TypeOK
  <1>2. Grounded /\ UpToDate /\ IssuesOwned
    BY <1>1 DEF Init, Grounded, UpToDate, IssuesOwned
  <1> QED BY <1>1, <1>2 DEF Inductive

\* What is left to show of a step that only moves the entry on.
LEMMA EntryInductive ==
  ASSUME Inductive, Kept, TypeOK', Grounded', IssuesOwned',
         state' \in SettingUp \cup {"loaded"} => state \in SettingUp \cup {"loaded"},
         data' = data,
         reload \/ state' \notin SettingUp \cup {"loaded"}
           => reload' \/ state' \notin SettingUp \cup {"loaded"}
  PROVE  Inductive'
  <1>1. UpToDate'
    BY DEF Inductive, Kept, Same, UpToDate, Grounded, Clients
  <1> QED BY <1>1 DEF Inductive, Kept

\* Set-up.
LEMMA SetUpInductive ==
  ASSUME Inductive,
         SetUp \/ FirstRefresh \/ Prepares \/ SetUpFails \/ Loaded \/ RetryTimer
  PROVE  Inductive'
  <1>0. CloudTypeOK /\ Held
    BY DEF Inductive, TypeOK
  <1>1. CASE SetUp
    <2>1. /\ data \in Passwords /\ state' = "refresh" /\ data' = data
          /\ client' = [client EXCEPT !["entry"] = NewClient(data)]
          /\ req' = [req EXCEPT !["poll"] = FirstStep(NewClient(data))]
          /\ UNCHANGED <<password, faults, goal, polled, reload, reauth, flow, issue>>
          /\ code' = "none" /\ listening' = FALSE
      BY <1>1 DEF SetUp, FreshClient, Inductive, Grounded
    <2>2. /\ NewClient(data) \in Records /\ NewClient(data).pw = data /\ NewClient(data) # None
          /\ FirstStep(NewClient(data)) \in {"login", "refresh", "lookup"}
      BY <2>1, NewClientTypes, FirstStepTypes, CloudAssumption
    <2>3. CloudTypeOK'
      BY <1>0, <2>1, <2>2 DEF CloudTypeOK
    <2>4. Held'
      BY <1>0, <2>1, <2>2 DEF Held, CloudTypeOK, Of, Clients, Requests
    <2>5. client'["entry"] = NewClient(data)
      BY <1>0, <2>1 DEF CloudTypeOK, Clients
    <2>6. TypeOK'
      BY <2>1, <2>3 DEF Inductive, TypeOK
    <2>7. Grounded' /\ UpToDate' /\ IssuesOwned'
      BY <2>1, <2>2, <2>5, <2>6 DEF Grounded, UpToDate, IssuesOwned
    <2> QED BY <2>4, <2>6, <2>7 DEF Inductive
  <1>2. CASE FirstRefresh
    <2>1. Kept
      BY <1>0, <1>2, MoveKeeps DEF FirstRefresh, CloudTypeOK, Requests
    <2>2. /\ state' \in {"files", "failed", "retry"} /\ reauth' \in BOOLEAN
          /\ polled' \in {"ok", "bad", "auth"} /\ state = "refresh"
      BY <1>2 DEF FirstRefresh
    <2>3. UNCHANGED <<data, goal, reload, flow, code, listening, issue>>
      BY <1>2 DEF FirstRefresh
    <2>4. TypeOK'
      BY <2>1, <2>2, <2>3 DEF Inductive, TypeOK, Kept
    <2>5. Grounded' /\ IssuesOwned'
      BY <2>1, <2>2, <2>3 DEF Inductive, Grounded, IssuesOwned, Kept, Same, Clients
    <2> QED BY <2>1, <2>2, <2>3, <2>4, <2>5, EntryInductive
  <1>3. CASE Prepares
    <2>1. Kept
      BY <1>0, <1>3, QuietKeeps DEF Prepares, cloudVars
    <2>2. TypeOK' /\ Grounded' /\ IssuesOwned'
      BY <1>3, <2>1
      DEF Prepares, Inductive, TypeOK, Grounded, IssuesOwned, Kept, Same, Clients
    <2> QED BY <1>3, <2>1, <2>2, EntryInductive DEF Prepares
  <1>4. CASE SetUpFails
    <2>1. Kept
      BY <1>0, <1>4, QuietKeeps DEF SetUpFails
    <2>2. TypeOK' /\ Grounded' /\ IssuesOwned'
      BY <1>4, <2>1
      DEF SetUpFails, Inductive, TypeOK, Grounded, IssuesOwned, Kept, Same, Clients
    <2> QED BY <1>4, <2>1, <2>2, EntryInductive DEF SetUpFails
  <1>5. CASE Loaded \/ RetryTimer
    <2>1. Kept
      BY <1>0, <1>5, QuietKeeps DEF Loaded, RetryTimer, cloudVars
    <2>2. TypeOK' /\ Grounded' /\ IssuesOwned'
      BY <1>5, <2>1
      DEF Loaded, RetryTimer, Inductive, TypeOK, Grounded, IssuesOwned, Kept, Same, Clients
    <2> QED BY <1>5, <2>1, <2>2, EntryInductive DEF Loaded, RetryTimer
  <1> QED BY <1>1, <1>2, <1>3, <1>4, <1>5

\* The loaded entry: polls, sessions and the manager's other operations.
LEMMA RunningInductive ==
  ASSUME Inductive,
         PollBegins \/ Polled \/ SessionBegins \/ SessionEnds \/ OperationEnds
  PROVE  Inductive'
  <1>0. CloudTypeOK /\ Held
    BY DEF Inductive, TypeOK
  <1>1. CASE PollBegins \/ SessionBegins
    <2>1. PICK r \in {"poll", "session"} :
            Moves(r, FirstStep(client[Of(r)])) /\ UNCHANGED <<password, client, faults, entryVars>>
      BY <1>1 DEF PollBegins, SessionBegins, Begin
    <2>2. client[Of(r)] # None
      BY <1>1, <2>1 DEF PollBegins, SessionBegins, Inductive, Grounded, Of
    <2>3. /\ FirstStep(client[Of(r)]) \in {"login", "refresh", "lookup"}
          /\ r \in Requests /\ faults \in 0..MaxFaults
      BY <1>0, FirstStepTypes DEF Requests, CloudTypeOK
    <2> HIDE DEF Moves, FirstStep
    <2>4. Kept
      BY <1>0, <2>1, <2>2, <2>3, MoveKeeps
    <2>5. TypeOK' /\ Grounded' /\ IssuesOwned'
      BY <2>1, <2>4 DEF entryVars, Inductive, TypeOK, Grounded, IssuesOwned, Kept, Same,
          Clients
    <2> QED BY <2>1, <2>4, <2>5, EntryInductive DEF entryVars
  <1>2. CASE Polled
    <2>1. Kept
      BY <1>0, <1>2, MoveKeeps DEF Polled, CloudTypeOK, Requests
    <2>2. polled' \in {"ok", "bad", "auth"} /\ reauth' \in BOOLEAN
      BY <1>2 DEF Polled
    <2>3. UNCHANGED <<state, data, goal, reload, flow, code, listening, issue>>
      BY <1>2 DEF Polled
    <2>4. TypeOK' /\ Grounded' /\ IssuesOwned'
      BY <2>1, <2>2, <2>3 DEF Inductive, TypeOK, Grounded, IssuesOwned, Kept, Same, Clients
    <2> QED BY <2>1, <2>3, <2>4, EntryInductive
  <1>3. CASE SessionEnds \/ OperationEnds
    <2>1. Kept
      <3>1. CASE SessionEnds
        BY <1>0, <3>1, MoveKeeps DEF SessionEnds, CloudTypeOK, Requests
      <3>2. CASE OperationEnds
        BY <1>0, <3>2, QuietKeeps DEF OperationEnds, cloudVars
      <3> QED BY <1>3, <3>1, <3>2
    <2>2. PICK c \in Codes : Reports(c)
      BY <1>3 DEF SessionEnds, OperationEnds
    <2>3. UNCHANGED <<state, data, goal, polled, reload, reauth, flow, listening>>
      BY <1>3 DEF SessionEnds, OperationEnds
    <2>4. TypeOK' /\ Grounded' /\ IssuesOwned'
      BY <2>1, <2>2, <2>3
      DEF Reports, Inductive, TypeOK, Grounded, IssuesOwned, Kept, Same, Clients
    <2> QED BY <2>1, <2>3, <2>4, EntryInductive
  <1> QED BY <1>1, <1>2, <1>3

\* Reloads, unloads and restarts.
LEMMA UnloadInductive ==
  ASSUME Inductive,
         \/ ReloadBegins \/ UserReloads \/ (\E why \in {"remove", "off"} : UserStops(why))
         \/ PlatformsStay \/ PlatformsGo \/ ShutDown \/ Restart
  PROVE  Inductive'
  <1>0. CloudTypeOK /\ Held
    BY DEF Inductive, TypeOK
  <1> USE DEF Clients
  <1>1. CASE ReloadBegins
    <2>1. Kept
      BY <1>0, <1>1, QuietKeeps DEF ReloadBegins, cloudVars
    <2>2. /\ \/ state = "loaded" /\ state' = "unloading" /\ goal' = "reload"
             \/ state \in Resting \cup {"loaded"} /\ state' = "queued" /\ goal' = goal
          /\ reload' = FALSE
          /\ UNCHANGED <<data, polled, reauth, flow, code, listening, issue>>
      BY <1>1 DEF ReloadBegins
    <2>3. reload' \in BOOLEAN
      BY <2>2
    <2>4. TypeOK' /\ Grounded' /\ IssuesOwned'
      BY <2>1, <2>2, <2>3 DEF Inductive, TypeOK, Grounded, IssuesOwned, Kept, Same
    <2> QED BY <2>1, <2>2, <2>4, EntryInductive
  <1>2. CASE UserReloads
    <2>1. Kept
      BY <1>0, <1>2, QuietKeeps DEF UserReloads
    <2>2. reload' = TRUE /\ UNCHANGED <<state, data, goal, polled, reauth, flow, code, listening, issue>>
      BY <1>2 DEF UserReloads
    <2>3. reload' \in BOOLEAN
      BY <2>2
    <2>4. TypeOK' /\ Grounded' /\ IssuesOwned'
      BY <2>1, <2>2, <2>3 DEF Inductive, TypeOK, Grounded, IssuesOwned, Kept, Same
    <2> QED BY <2>1, <2>2, <2>4, EntryInductive
  <1>3. ASSUME NEW why \in {"remove", "off"}, UserStops(why) PROVE Inductive'
    <2>1. /\ \/ state = "loaded" /\ state' = "unloading" /\ goal' = why
             \/ state \in Resting /\ state' \in {"removed", "off"} /\ goal' = goal
          /\ reload' = FALSE /\ reauth' = FALSE /\ flow' = None
          /\ client' = [client EXCEPT !["flow"] = None]
          /\ req' = [req EXCEPT !["flow"] = "idle"]
          /\ UNCHANGED <<password, data, polled, code, listening, issue>>
      BY <1>3 DEF UserStops
    <2>2. reload' \in BOOLEAN /\ reauth' \in BOOLEAN
      BY <2>1
    <2>3. faults' \in 0..MaxFaults
      BY <1>0, <1>3, CloudAssumption DEF UserStops, Disturb, CloudTypeOK
    <2>4. CloudTypeOK' /\ Held' /\ client'["entry"] = client["entry"]
      BY <1>0, <2>1, <2>3 DEF CloudTypeOK, Held, Requests, Of
    <2>5. TypeOK' /\ Grounded'
      BY <2>1, <2>2, <2>4 DEF Inductive, TypeOK, Grounded
    <2>6. UpToDate' /\ IssuesOwned'
      BY <2>1, <2>5 DEF Inductive, UpToDate, IssuesOwned
    <2> QED BY <2>4, <2>5, <2>6 DEF Inductive
  <1>4. CASE PlatformsStay
    <2>1. Kept
      BY <1>0, <1>4, QuietKeeps DEF PlatformsStay
    <2>2. /\ state = "unloading" /\ state' = "stuck" /\ reload' = FALSE
          /\ UNCHANGED <<data, goal, polled, reauth, flow, code, listening, issue>>
      BY <1>4 DEF PlatformsStay
    <2>3. reload' \in BOOLEAN /\ IssuesOwned'
      BY <2>2 DEF Inductive, IssuesOwned
    <2>4. TypeOK'
      BY <2>1, <2>2, <2>3 DEF Inductive, TypeOK, Kept
    <2>5. Grounded'
      BY <2>1, <2>2 DEF Inductive, Grounded, Kept, Same
    <2> QED BY <2>1, <2>2, <2>3, <2>4, <2>5, EntryInductive
  <1>5. CASE PlatformsGo
    <2>1. Kept
      BY <1>0, <1>5, QuietKeeps DEF PlatformsGo, cloudVars
    <2>2. /\ state = "unloading" /\ state' = "shutdown" /\ listening' = FALSE /\ issue' = "none"
          /\ UNCHANGED <<data, goal, polled, reload, reauth, flow, code>>
      BY <1>5 DEF PlatformsGo, ListenerRemoved
    <2>3. listening' \in BOOLEAN /\ IssuesOwned'
      BY <2>2 DEF IssuesOwned
    <2>4. TypeOK'
      BY <2>1, <2>2, <2>3 DEF Inductive, TypeOK, Kept
    <2>5. Grounded'
      BY <2>1, <2>2 DEF Inductive, Grounded, Kept, Same
    <2> QED BY <2>1, <2>2, <2>3, <2>4, <2>5, EntryInductive
  <1>6. CASE ShutDown
    <2>1. /\ state = "shutdown" /\ goal' = None
          /\ req' = [req EXCEPT !["poll"] = "idle", !["session"] = "idle"]
          /\ UNCHANGED <<password, client, faults, data, polled, reload, reauth, flow, code,
                         listening, issue>>
      BY <1>6 DEF ShutDown
    <2>2. state' \in {"queued", "removed", "off"}
      BY <1>6 DEF ShutDown, Inductive, Grounded
    <2>3. CloudTypeOK' /\ Held'
      BY <1>0, <2>1 DEF CloudTypeOK, Held, Requests, Of
    <2>4. TypeOK' /\ Grounded'
      BY <2>1, <2>2, <2>3 DEF Inductive, TypeOK, Grounded
    <2>5. UpToDate' /\ IssuesOwned'
      BY <2>1, <2>2, <2>4 DEF Inductive, UpToDate, IssuesOwned
    <2> QED BY <2>3, <2>4, <2>5 DEF Inductive
  <1>7. CASE Restart
    <2>1. /\ state \notin {"none", "removed", "off"} /\ state' = "queued"
          /\ client' = [c \in Clients |-> None] /\ req' = [r \in Requests |-> "idle"]
          /\ goal' = None /\ reload' = FALSE /\ reauth' = FALSE /\ flow' = None
          /\ polled' = "bad" /\ code' = "none" /\ listening' = FALSE
          /\ UNCHANGED <<password, data, issue>>
      BY <1>7 DEF Restart
    <2>2. reload' \in BOOLEAN /\ reauth' \in BOOLEAN /\ listening' \in BOOLEAN
      BY <2>1
    <2>3. faults' \in 0..MaxFaults
      BY <1>0, <1>7, CloudAssumption DEF Restart, Disturb, CloudTypeOK
    <2>4. CloudTypeOK' /\ Held'
      BY <1>0, <2>1, <2>3 DEF CloudTypeOK, Held
    <2>5. TypeOK' /\ Grounded'
      BY <2>1, <2>2, <2>4 DEF Inductive, TypeOK, Grounded
    <2>6. UpToDate' /\ IssuesOwned'
      BY <2>1, <2>5 DEF UpToDate, IssuesOwned
    <2> QED BY <2>4, <2>5, <2>6 DEF Inductive
  <1> QED BY <1>1, <1>2, <1>3, <1>4, <1>5, <1>6, <1>7

\* A flow that ends by updating the entry schedules a reload, so the client that
\* runs may differ from the data.
LEMMA UpdatesInductive ==
  ASSUME Inductive, CloudTypeOK', Held', Updates, flow # None,
         client'["entry"] = client["entry"]
  PROVE  Inductive'
  <1>1. /\ data' = flow.pw /\ reload' = TRUE /\ flow' = None /\ flow.pw \in Passwords
        /\ UNCHANGED <<state, goal, polled, code, listening, issue>>
    BY DEF Updates, ReloadScheduled, Inductive, TypeOK
  <1>2. reload' \in BOOLEAN /\ reauth' \in BOOLEAN
    BY DEF Updates, ReloadScheduled
  <1>3. TypeOK' /\ Grounded'
    BY <1>1, <1>2 DEF Inductive, TypeOK, Grounded
  <1>4. UpToDate' /\ IssuesOwned'
    BY <1>1, <1>3 DEF Inductive, UpToDate, IssuesOwned
  <1> QED BY <1>3, <1>4 DEF Inductive

\* The forms.
LEMMA FlowInductive == ASSUME Inductive, Flow PROVE Inductive'
  <1>0. CloudTypeOK /\ Held
    BY DEF Inductive, TypeOK
  <1> DEFINE Steps == {"form", "validating", "runtime"}
             Flows == [kind : {"user", "reauth", "reconfigure"}, step : Steps, pw : Passwords]
  <1>f. flow # None => flow \in Flows
    BY DEF Inductive, TypeOK
  <1>1. ASSUME NEW kind \in {"user", "reauth", "reconfigure"}, Opens(kind) PROVE Inductive'
    <2>1. Kept
      <3>1. faults' \in 0..MaxFaults
        BY <1>0, <1>1, CloudAssumption DEF Opens, CloudTypeOK
      <3> QED BY <1>0, <1>1, <3>1 DEF Opens, CloudTypeOK, Held, Kept, Same
    <2>2. /\ flow' \in Flows
          /\ UNCHANGED <<state, data, goal, polled, reload, reauth, code, listening, issue>>
      BY <1>0, <1>1 DEF Opens, CloudTypeOK
    <2>3. TypeOK' /\ Grounded' /\ IssuesOwned'
      BY <2>1, <2>2 DEF Inductive, TypeOK, Grounded, IssuesOwned, Kept, Same, Clients
    <2> QED BY <2>1, <2>2, <2>3, EntryInductive
  <1>2. ASSUME NEW pw \in Passwords, Submits(pw) PROVE Inductive'
    <2>1. /\ client' = [client EXCEPT !["flow"] = NewClient(pw)]
          /\ req' = [req EXCEPT !["flow"] = FirstStep(NewClient(pw))]
          /\ UNCHANGED <<password, faults, state, data, goal, polled, reload, reauth, code,
                         listening, issue>>
      BY <1>2 DEF Submits
    <2>2. /\ NewClient(pw) \in Records /\ NewClient(pw) # None
          /\ FirstStep(NewClient(pw)) \in {"login", "refresh", "lookup"}
      BY NewClientTypes, FirstStepTypes, CloudAssumption
    <2>3. CloudTypeOK' /\ Held' /\ client'["entry"] = client["entry"]
      BY <1>0, <2>1, <2>2 DEF CloudTypeOK, Held, Requests, Of, Clients
    <2>4. flow' \in Flows
      BY <1>2, <1>f DEF Submits
    <2>5. TypeOK' /\ Grounded'
      BY <2>1, <2>3, <2>4 DEF Inductive, TypeOK, Grounded
    <2>6. UpToDate' /\ IssuesOwned'
      BY <2>1, <2>3, <2>5 DEF Inductive, UpToDate, IssuesOwned
    <2> QED BY <2>3, <2>5, <2>6 DEF Inductive
  <1>3. CASE Validated
    <2>1. /\ flow # None /\ req' = [req EXCEPT !["flow"] = "idle"]
          /\ client' = [client EXCEPT !["flow"] = None] /\ UNCHANGED <<password, faults>>
      BY <1>3 DEF Validated, Moves
    <2>2. CloudTypeOK' /\ Held' /\ client'["entry"] = client["entry"]
      BY <1>0, <2>1 DEF CloudTypeOK, Held, Requests, Of, Clients
    <2>3. CASE Updates
      BY <2>1, <2>2, <2>3, UpdatesInductive
    <2>4. CASE ~Updates
      <3>1. /\ flow' \in Flows
            /\ UNCHANGED <<state, data, goal, polled, reload, reauth, code, listening, issue>>
        BY <1>3, <1>f, <2>1, <2>4 DEF Validated
      <3>2. TypeOK' /\ Grounded'
        BY <2>2, <3>1 DEF Inductive, TypeOK, Grounded
      <3>3. UpToDate' /\ IssuesOwned'
        BY <2>2, <3>1, <3>2 DEF Inductive, UpToDate, IssuesOwned
      <3> QED BY <2>2, <3>2, <3>3 DEF Inductive
    <2> QED BY <2>3, <2>4
  <1>4. CASE PackageDone
    <2>1. Kept /\ UNCHANGED cloudVars /\ flow # None
      BY <1>0, <1>4, QuietKeeps DEF PackageDone, cloudVars
    <2>2. CASE flow.kind = "user"
      <3>1. /\ state' = "queued" /\ data' = flow.pw /\ flow' = None /\ flow.pw \in Passwords
            /\ UNCHANGED <<goal, polled, reload, reauth, code, listening, issue>>
        BY <1>4, <1>f, <2>1, <2>2 DEF PackageDone
      <3>2. TypeOK' /\ Grounded'
        BY <2>1, <3>1 DEF Inductive, TypeOK, Grounded, Kept
      <3>3. UpToDate' /\ IssuesOwned'
        BY <3>1, <3>2 DEF Inductive, UpToDate, IssuesOwned
      <3> QED BY <2>1, <3>2, <3>3 DEF Inductive, Kept
    <2>3. CASE flow.kind # "user"
      BY <1>4, <2>1, <2>3, UpdatesInductive DEF PackageDone, Kept, cloudVars
    <2> QED BY <2>2, <2>3
  <1>5. CASE Abandons
    <2>1. Kept
      BY <1>0, <1>5, QuietKeeps DEF Abandons
    <2>2. TypeOK' /\ Grounded' /\ IssuesOwned'
      BY <1>5, <2>1
      DEF Abandons, Inductive, TypeOK, Grounded, IssuesOwned, Kept, Same, Clients
    <2> QED BY <1>5, <2>1, <2>2, EntryInductive DEF Abandons
  <1> QED BY <1>1, <1>2, <1>3, <1>4, <1>5 DEF Flow

\* Every step of the entry, its flows, its clients and the world.
LEMMA StepInductive == Inductive /\ [Next]_vars => Inductive'
  <1> SUFFICES ASSUME Inductive, [Next]_vars PROVE Inductive'
    OBVIOUS
  <1>0. CloudTypeOK /\ Held
    BY DEF Inductive, TypeOK
  <1>1. ASSUME Kept, UNCHANGED entryVars PROVE Inductive'
    <2>1. TypeOK' /\ Grounded' /\ IssuesOwned'
      BY <1>1 DEF entryVars, Inductive, TypeOK, Grounded, IssuesOwned, Kept, Same, Clients
    <2> QED BY <1>1, <2>1, EntryInductive DEF entryVars
  <1>2. CASE CloudStep /\ UNCHANGED entryVars
    BY <1>0, <1>1, <1>2, CloudKeeps
  <1>3. CASE Entry
    BY <1>3, SetUpInductive, RunningInductive, UnloadInductive DEF Entry
  <1>4. CASE Flow
    BY <1>4, FlowInductive
  <1>5. CASE UNCHANGED vars
    BY <1>0, <1>1, <1>5, QuietKeeps DEF vars, cloudVars
  <1> QED BY <1>2, <1>3, <1>4, <1>5 DEF Next

\* The inductive invariant holds in every state of an entry.
THEOREM AlwaysInductive == Spec => []Inductive
  <1> QED BY InitInductive, StepInductive, PTL DEF Spec

\* A running entry signs in with the password it holds, or a reload is still to
\* come, however set-ups, reloads, flows and restarts overlap.
THEOREM AlwaysUpToDate == Spec => []UpToDate
  <1>1. Inductive => UpToDate
    BY DEF Inductive
  <1> QED BY <1>1, AlwaysInductive, PTL

\* The repair issue is the error the listened-to manager last recorded, and an
\* operation that ends during the shutdown does not bring one back.
THEOREM AlwaysIssuesOwned == Spec => []IssuesOwned
  <1>1. Inductive => IssuesOwned
    BY DEF Inductive
  <1> QED BY <1>1, AlwaysInductive, PTL
==============================================================================
