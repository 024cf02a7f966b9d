------------------------------ MODULE CloudClient ------------------------------
(***************************************************************************)
(* OwletCloudClient (api/cloud.py): signing in with a password or with a   *)
(* refresh token, then looking a camera up, for requests that overlap on   *)
(* one client.  The account and its services are external.                 *)
(*                                                                         *)
(* Two clients exist at most: the one of the loaded entry, used by the     *)
(* coordinator's poll and by the runtime manager's sessions, and the one a *)
(* config flow makes to validate what was typed.                           *)
(***************************************************************************)
EXTENDS Naturals

CONSTANTS
  Passwords,  \* passwords the account may have
  MaxFaults,  \* bound: outages, revocations and other disturbances
  None

\* What a client remembers: the password, the ID token and the refresh token.
\* One that was revoked is refused with a code of the list of _raise_for_status
\* or with 401 or 403 ("bad"), or with another 400 ("dead").
Records ==
  [pw : Passwords, id : {"none", "fresh", "stale"},
   grant : {"none", "good", "bad", "dead"}]

ASSUME CloudAssumption ==
  MaxFaults \in Nat /\ None \notin Passwords /\ None \notin Records

VARIABLES
  password,  \* the account's password
  client,    \* each client, or None
  req,       \* where each request is, or what it ended with
  faults     \* disturbances so far

cloudVars == <<password, client, req, faults>>

Requests == {"poll", "session", "flow"}
Clients == {"entry", "flow"}
Of(r) == IF r = "flow" THEN "flow" ELSE "entry"

NewClient(pw) == [pw |-> pw, id |-> "none", grant |-> "none"]

CloudTypeOK ==
  /\ password \in Passwords /\ faults \in 0..MaxFaults
  /\ client \in [Clients -> {None} \cup Records]
  /\ req \in [Requests -> {"idle", "login", "refresh", "lookup", "discover", "second",
                           "ok", "auth", "bad"}]

CloudInit ==
  /\ password \in Passwords /\ faults = 0
  /\ client = [c \in Clients |-> None]
  /\ req = [r \in Requests |-> "idle"]

Disturb == faults < MaxFaults /\ faults' = faults + 1

Moves(r, to) == req' = [req EXCEPT ![r] = to]

\* _async_ensure_token: a token that is not about to expire, else the refresh
\* token, else the password; never the password after a refresh token.
FirstStep(c) == CASE c.id = "fresh"     -> "lookup"
                  [] c.grant # "none"   -> "refresh"
                  [] OTHER              -> "login"

Begin(r) == Moves(r, FirstStep(client[Of(r)]))

\* _set_authentication.
SignedIn(r) ==
  /\ client' = [client EXCEPT ![Of(r)].id = "fresh", ![Of(r)].grant = "good"]
  /\ Moves(r, "lookup")

Refused(r) == Moves(r, "auth") /\ UNCHANGED client

Login(r) ==
  /\ req[r] = "login"
  /\ IF client[Of(r)].pw = password THEN SignedIn(r) ELSE Refused(r)
  /\ UNCHANGED <<password, faults>>

\* A refusal with another code counts as a connection error: the token is kept,
\* and presented again at the next request.
Refresh(r) ==
  /\ req[r] = "refresh"
  /\ CASE client[Of(r)].grant = "good" -> SignedIn(r)
       [] client[Of(r)].grant = "bad"  -> Refused(r)
       [] OTHER                        -> Moves(r, "bad") /\ UNCHANGED client
  /\ UNCHANGED <<password, faults>>

\* async_validate_configured_camera: the record of the identifier itself, or,
\* when there is none, that of the one camera the account's documents name.
Lookup(r) ==
  /\ \/ req[r] \in {"lookup", "second"} /\ Moves(r, "ok")
     \/ req[r] = "lookup" /\ Moves(r, "discover")
     \/ req[r] = "discover" /\ Moves(r, "second")
  /\ UNCHANGED <<password, client, faults>>

InFlight == {"login", "refresh", "lookup", "discover", "second"}

\* Every request can time out, meet a rate limit or a malformed answer, or find
\* no camera.
Outage(r) ==
  /\ req[r] \in InFlight /\ Disturb /\ Moves(r, "bad")
  /\ UNCHANGED <<password, client>>

\* A 401 for a token that was fresh.
TokenRefused(r) ==
  /\ req[r] \in {"lookup", "discover", "second"} /\ Disturb /\ Refused(r)
  /\ UNCHANGED password

\* The token comes within the refresh margin.
Age(c) ==
  /\ client[c] # None /\ client[c].id = "fresh"
  /\ client' = [client EXCEPT ![c].id = "stale"]
  /\ UNCHANGED <<password, req, faults>>

Revoked(c, refusal) ==
  IF c # None /\ c.grant = "good" THEN [c EXCEPT !.grant = refusal] ELSE c

\* The account's password is changed, or its sessions end.
Revoke ==
  /\ Disturb /\ password' \in Passwords
  /\ \E refusal \in {"bad", "dead"} :
       client' = [c \in Clients |-> Revoked(client[c], refusal)]
  /\ UNCHANGED req

Answer(r) == Login(r) \/ Refresh(r) \/ Lookup(r)

CloudStep ==
  \/ \E r \in Requests : Answer(r) \/ Outage(r) \/ TokenRefused(r)
  \/ \E c \in Clients : Age(c)
  \/ Revoke
==============================================================================
