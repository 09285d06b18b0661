------------------------- MODULE SubscriptionAuth -------------------------
(***************************************************************************)
(* The subscription sign-in of the desktop app (subscription-auth.cjs), its *)
(* file in the credential store (credential-store.cjs) and the chat request *)
(* of the provider broker that spends its tokens (provider-broker.cjs).     *)
(*                                                                         *)
(* Providers share nothing but code, so an instance is one provider.  Every *)
(* IPC request is a call made once; what it does between two awaits is one  *)
(* step.  The n-th answer of the issuer that carries tokens is grant n: its *)
(* access token and its refresh token are both named n.                     *)
(***************************************************************************)
EXTENDS Naturals, FiniteSets

CONSTANTS
    Calls,      \* the IPC requests; a begin-login call names the login it opens
    NoCall,
    Flows,      \* how the provider signs in: of "codex-device", "device", "pkce-paste"
    Rotating,   \* the issuer replaces the refresh token at each refresh
    Requests,   \* bound: the kinds of call an instance makes
    Faults,     \* bound: of "disk", "lost", "crash"
    MaxGrants   \* bound: grants of the issuer

ASSUME CallsAreDistinct == NoCall \notin Calls
ASSUME FlowsAreKnown == Flows \subseteq {"codex-device", "device", "pkce-paste"}
ASSUME RotatingIsBoolean == Rotating \in BOOLEAN
ASSUME GrantsAreNatural == MaxGrants \in Nat

VARIABLES
    call,       \* each call: its kind, where it stands, the record it holds
    flight,     \* the refresh each call started, if any
    refreshing, \* SubscriptionAuth.refreshing: the flight callers join
    logins,     \* SubscriptionAuth.logins
    expired,    \* logins older than LOGIN_TTL_MS
    file,       \* <provider>.json, NoRecord when there is none
    lapsed,     \* access tokens within refreshSkewMs of their end
    issued,     \* grants made by the issuer
    valid,      \* refresh tokens the issuer still redeems
    granted,    \* logins whose code the issuer has exchanged
    flow,       \* that of the provider of this behaviour; never changes
    ended,      \* history: logins whose credential a logout deleted
    wasted      \* history: tokens spent on a successor that a fault lost

vars == <<call, flight, refreshing, logins, expired, file, lapsed,
          issued, valid, granted, flow, ended, wasted>>
memory == <<call, flight, refreshing, logins>>
issuer == <<issued, valid, granted>>
rest == <<flow, ended, wasted>>

Grants == 1..MaxGrants
\* refresh = 0: the record has no refresh token.
Record == [access : Grants, refresh : 0..MaxGrants, login : Calls]
NoRecord == [access |-> 0, refresh |-> 0, login |-> NoCall]
Unmade == [kind |-> "none", at |-> "idle", with |-> NoCall,
           force |-> FALSE, held |-> NoRecord]
NoFlight == [at |-> "none", held |-> NoRecord, used |-> 0]

Init ==
    /\ call = [c \in Calls |-> Unmade]
    /\ flight = [c \in Calls |-> NoFlight]
    /\ refreshing = NoCall
    /\ logins = {} /\ expired = {}
    /\ file = NoRecord /\ lapsed = {}
    /\ issued = 0 /\ valid = {} /\ granted = {}
    /\ flow \in Flows
    /\ ended = {} /\ wasted = {}

At(c, phase) == call[c].at = phase
\* Calls get their names as they are made: which one is next makes no difference.
NextCall == CHOOSE c \in Calls : call[c] = Unmade
Go(c, phase) == call' = [call EXCEPT ![c].at = phase]
Made(c, kind) ==
    /\ call[c] = Unmade /\ c = NextCall /\ kind \in Requests
Start(c, kind, phase, with) ==
    call' = [call EXCEPT ![c] = [Unmade EXCEPT !.kind = kind, !.at = phase, !.with = with]]

(***************************************************************************)
(* beginLogin.                                                             *)
(***************************************************************************)
\* The earlier logins go before the request for a device code, and the new one
\* comes after its answer; a PKCE login has no such request.
Begin(c) ==
    /\ Made(c, "begin")
    /\ IF flow = "pkce-paste"
         THEN logins' = {c} /\ Start(c, "begin", "done", NoCall)
         ELSE logins' = {} /\ Start(c, "begin", "asking", NoCall)
    /\ UNCHANGED <<flight, refreshing, expired, file, lapsed, issuer, rest>>

CodeAnswered(c) ==
    /\ At(c, "asking")
    /\ \/ logins' = logins \cup {c} /\ Go(c, "done")
       \/ UNCHANGED logins /\ Go(c, "failed")
    /\ UNCHANGED <<flight, refreshing, expired, file, lapsed, issuer, rest>>

Begun(l) == call[l].kind = "begin" /\ At(l, "done")

(***************************************************************************)
(* pollLogin and completeLogin.                                            *)
(***************************************************************************)
\* takeLogin: an unknown login is refused, one past its time is removed as well.
TakeLogin(c, l, kind, phase) ==
    /\ Made(c, kind) /\ Begun(l)
    /\ IF l \in logins \ expired
         THEN UNCHANGED logins /\ Start(c, kind, phase, l)
         ELSE logins' = logins \ {l} /\ Start(c, kind, "failed", l)
    /\ UNCHANGED <<flight, refreshing, expired, file, lapsed, issuer, rest>>

Poll(c, l) == flow # "pkce-paste" /\ TakeLogin(c, l, "poll", "polling")
Complete(c, l) == flow = "pkce-paste" /\ TakeLogin(c, l, "complete", "exchanging")

\* Not authorised yet (the login stays), refused, timed out, or for Codex the
\* authorisation code that a second request exchanges.
PollAnswered(c) ==
    /\ At(c, "polling")
    /\ \/ Go(c, "done")
       \/ Go(c, "failed")
       \/ flow = "codex-device" /\ Go(c, "exchanging")
    /\ UNCHANGED <<flight, refreshing, logins, expired, file, lapsed, issuer, rest>>

\* The issuer grants a login's code once, at either URL of claudeToken; the answer
\* removes the login, and the tokens go on to the store whether or not it was still there.
TokensGranted(c) ==
    /\ At(c, IF flow = "device" THEN "polling" ELSE "exchanging")
    /\ call[c].with \notin granted
    /\ issued < MaxGrants
    /\ issued' = issued + 1 /\ valid' = valid \cup {issued'}
    /\ granted' = granted \cup {call[c].with}
    /\ logins' = logins \ {call[c].with}
    /\ call' = [call EXCEPT ![c].at = "storing",
                    ![c].held = [access |-> issued', refresh |-> issued', login |-> call[c].with]]
    /\ UNCHANGED <<flight, refreshing, expired, file, lapsed, rest>>

ExchangeFails(c) ==
    /\ At(c, "exchanging") /\ Go(c, "failed")
    /\ UNCHANGED <<flight, refreshing, logins, expired, file, lapsed, issuer, rest>>

(***************************************************************************)
(* save and CredentialStore.set: a temporary file of its own is renamed     *)
(* over the record, then its mode is set and the temporary removed.         *)
(***************************************************************************)
Store(c) ==
    /\ At(c, "storing")
    /\ file' = call[c].held /\ Go(c, "settling")
    /\ UNCHANGED <<flight, refreshing, logins, expired, lapsed, issuer, rest>>

Stored(c) ==
    /\ At(c, "settling") /\ Go(c, "done")
    /\ UNCHANGED <<flight, refreshing, logins, expired, file, lapsed, issuer, rest>>

\* mkdir, writeFile or rename fails and nothing is stored; chmod fails after it was.
StoreFails(c) ==
    /\ "disk" \in Faults
    /\ call[c].at \in {"storing", "settling"} /\ Go(c, "failed")
    /\ UNCHANGED <<flight, refreshing, logins, expired, file, lapsed, issuer, rest>>

CancelLogin(l) ==
    /\ Begun(l) /\ "cancel" \in Requests
    /\ l \in logins
    /\ logins' = logins \ {l}
    /\ UNCHANGED <<call, flight, refreshing, expired, file, lapsed, issuer, rest>>

(***************************************************************************)
(* logout.                                                                 *)
(***************************************************************************)
Logout(c) ==
    /\ Made(c, "logout") /\ Start(c, "logout", "clearing", NoCall)
    /\ UNCHANGED <<flight, refreshing, logins, expired, file, lapsed, issuer, rest>>

Clear(c) ==
    /\ At(c, "clearing") /\ Go(c, "done")
    /\ file' = NoRecord
    /\ ended' = IF file = NoRecord THEN ended ELSE ended \cup {file.login}
    /\ UNCHANGED <<flight, refreshing, logins, expired, lapsed, issuer, flow, wasted>>

(***************************************************************************)
(* A chat request: accessToken, the request itself, and on a 401 the same   *)
(* once more with a forced refresh (authedRequest).                         *)
(***************************************************************************)
Request(c) ==
    /\ Made(c, "request") /\ Start(c, "request", "opening", NoCall)
    /\ UNCHANGED <<flight, refreshing, logins, expired, file, lapsed, issuer, rest>>

\* readFile opens the record there is now; a rename during the read is not seen.
Open(c) ==
    /\ At(c, "opening")
    /\ IF file = NoRecord
         THEN Go(c, "failed")
         ELSE call' = [call EXCEPT ![c].at = "reading", ![c].held = file]
    /\ UNCHANGED <<flight, refreshing, logins, expired, file, lapsed, issuer, rest>>

Current(c) == ~ call[c].force /\ call[c].held.access \notin lapsed

\* A slip: nobody looks whether a refresh is under way.
LeadFlightAnyway(c) ==
    /\ refreshing' = c
    /\ flight' = [flight EXCEPT ![c] = [at |-> "exchanging", held |-> call[c].held, used |-> 0]]
    /\ call' = [call EXCEPT ![c].at = "joined", ![c].with = c]

LeadFlight(c) ==
    /\ refreshing = NoCall
    /\ refreshing' = c
    /\ flight' = [flight EXCEPT ![c] = [at |-> "exchanging", held |-> call[c].held, used |-> 0]]
    /\ call' = [call EXCEPT ![c].at = "joined", ![c].with = c]

JoinFlight(c) ==
    /\ refreshing # NoCall
    /\ call' = [call EXCEPT ![c].at = "joined", ![c].with = refreshing]
    /\ UNCHANGED <<flight, refreshing>>

Loaded(c) ==
    /\ At(c, "reading")
    /\ \/ Current(c) /\ Go(c, "using") /\ UNCHANGED <<flight, refreshing>>
       \/ /\ ~ Current(c) /\ call[c].held.refresh = 0
          /\ Go(c, "failed") /\ UNCHANGED <<flight, refreshing>>
       \/ /\ ~ Current(c) /\ call[c].held.refresh # 0
          /\ LeadFlight(c) \/ JoinFlight(c)
    /\ UNCHANGED <<logins, expired, file, lapsed, issuer, rest>>

ReadFails(c) ==
    /\ "disk" \in Faults
    /\ At(c, "reading") /\ Go(c, "failed")
    /\ UNCHANGED <<flight, refreshing, logins, expired, file, lapsed, issuer, rest>>

Answered(c) ==
    /\ At(c, "using")
    /\ \/ Go(c, "done")
       \/ Go(c, "failed")
       \/ /\ ~ call[c].force
          /\ call' = [call EXCEPT ![c].at = "opening", ![c].force = TRUE]
    /\ UNCHANGED <<flight, refreshing, logins, expired, file, lapsed, issuer, rest>>

(***************************************************************************)
(* refresh: the flight a caller started.                                   *)
(***************************************************************************)
Flying(f, phase) == flight[f].at = phase

\* The tokens spent by those flights of S that have yet to store the successor.
Spending(S) == {flight[f].used : f \in {g \in S : Flying(g, "storing")}}

\* A slip: the previous refresh token is preferred to the new one.
RenewedKeeping(f, n) ==
    [access |-> n, refresh |-> flight[f].held.refresh, login |-> flight[f].held.login]

\* save: the new refresh token, or the old one when the answer has none.
Renewed(f, n) ==
    [access |-> n, refresh |-> IF Rotating THEN n ELSE flight[f].held.refresh,
     login |-> flight[f].held.login]

Redeem(token) ==
    /\ issued < MaxGrants
    /\ issued' = issued + 1
    /\ valid' = IF Rotating THEN (valid \ {token}) \cup {issued'} ELSE valid
    /\ UNCHANGED granted

\* A request with the token is under way: the first, or claudeToken's second.
Presenting(f) == Flying(f, "exchanging") \/ Flying(f, "retrying")

\* claudeToken: the first URL answers without tokens, and the second is asked with the
\* same refresh token, though the first may have redeemed it.
Retry(f) ==
    /\ flow = "pkce-paste" /\ Flying(f, "exchanging")
    /\ flight' = [flight EXCEPT ![f].at = "retrying"]
    /\ \/ UNCHANGED <<issuer, wasted>>
       \/ /\ "lost" \in Faults /\ flight[f].held.refresh \in valid
          /\ Redeem(flight[f].held.refresh)
          /\ wasted' = wasted \cup {flight[f].held.refresh}
    /\ UNCHANGED <<call, refreshing, logins, expired, file, lapsed, flow, ended>>

Renew(f) ==
    /\ Presenting(f) /\ flight[f].held.refresh \in valid
    /\ Redeem(flight[f].held.refresh)
    /\ flight' = [flight EXCEPT ![f] =
                    [at |-> "storing", held |-> Renewed(f, issued'),
                     used |-> flight[f].held.refresh]]
    /\ UNCHANGED <<call, refreshing, logins, expired, file, lapsed, rest>>

StoreRenewed(f) ==
    /\ Flying(f, "storing")
    /\ file' = flight[f].held
    /\ flight' = [flight EXCEPT ![f].at = "settling"]
    /\ UNCHANGED <<call, refreshing, logins, expired, lapsed, issuer, rest>>

\* A slip: only a successful refresh clears its entry.
LandedUncleared(f, phase) ==
    /\ refreshing' = IF phase = "using" THEN NoCall ELSE refreshing
    /\ flight' = [flight EXCEPT ![f] = NoFlight]
    /\ call' = [c \in Calls |->
                  IF At(c, "joined") /\ call[c].with = f
                    THEN [call[c] EXCEPT !.at = phase, !.held = flight[f].held,
                                         !.with = NoCall]
                    ELSE call[c]]

\* The promise settles: its finally clause first, then everyone who awaits it.
Landed(f, phase) ==
    /\ refreshing' = NoCall
    /\ flight' = [flight EXCEPT ![f] = NoFlight]
    /\ call' = [c \in Calls |->
                  IF At(c, "joined") /\ call[c].with = f
                    THEN [call[c] EXCEPT !.at = phase, !.held = flight[f].held,
                                         !.with = NoCall]
                    ELSE call[c]]

FlightLands(f) ==
    /\ Flying(f, "settling") /\ Landed(f, "using")
    /\ UNCHANGED <<logins, expired, file, lapsed, issuer, rest>>

\* The issuer refuses a token it has replaced, or the request itself fails: a request
\* that throws is not tried at the second URL.
RenewFails(f) ==
    /\ Presenting(f) /\ Landed(f, "failed")
    /\ UNCHANGED <<logins, expired, file, lapsed, issuer, rest>>

\* The issuer redeemed the token, and the answer is lost or comes after 15 s.
RenewLost(f) ==
    /\ "lost" \in Faults
    /\ Presenting(f) /\ flight[f].held.refresh \in valid
    /\ Redeem(flight[f].held.refresh) /\ Landed(f, "failed")
    /\ wasted' = wasted \cup {flight[f].held.refresh}
    /\ UNCHANGED <<logins, expired, file, lapsed, flow, ended>>

StoreRenewedFails(f) ==
    /\ "disk" \in Faults
    /\ flight[f].at \in {"storing", "settling"} /\ Landed(f, "failed")
    /\ wasted' = wasted \cup Spending({f})
    /\ UNCHANGED <<logins, expired, file, lapsed, issuer, flow, ended>>

(***************************************************************************)
(* Time, and the end of the process.                                       *)
(***************************************************************************)
Lapse(n) ==
    /\ n \in 1..issued \ lapsed /\ lapsed' = lapsed \cup {n}
    /\ UNCHANGED <<memory, expired, file, issuer, rest>>

Expire(l) ==
    /\ l \in logins \ expired /\ expired' = expired \cup {l}
    /\ UNCHANGED <<memory, file, lapsed, issuer, rest>>

\* A call of the process that ended is answered by nobody.
Crash ==
    /\ "crash" \in Faults
    /\ call' = [c \in Calls |-> IF call[c].at \in {"idle", "done"}
                                  THEN call[c] ELSE [call[c] EXCEPT !.at = "failed"]]
    /\ call' # call
    /\ flight' = [c \in Calls |-> NoFlight]
    /\ refreshing' = NoCall /\ logins' = {}
    /\ wasted' = wasted \cup Spending(Calls)
    /\ UNCHANGED <<expired, file, lapsed, issuer, flow, ended>>

Continue(c) ==
    \/ CodeAnswered(c) \/ PollAnswered(c) \/ TokensGranted(c) \/ ExchangeFails(c)
    \/ Store(c) \/ Stored(c) \/ StoreFails(c) \/ Clear(c)
    \/ Open(c) \/ Loaded(c) \/ ReadFails(c) \/ Answered(c)

Fly(f) ==
    \/ Retry(f) \/ Renew(f) \/ StoreRenewed(f) \/ FlightLands(f)
    \/ RenewFails(f) \/ RenewLost(f) \/ StoreRenewedFails(f)

Next ==
    \/ \E c \in Calls : Begin(c) \/ Logout(c) \/ Request(c)
    \/ \E c, l \in Calls : Poll(c, l) \/ Complete(c, l)
    \/ \E l \in Calls : CancelLogin(l) \/ Expire(l)
    \/ \E c \in Calls : Continue(c) \/ Fly(c)
    \/ \E n \in Grants : Lapse(n)
    \/ Crash

Spec == Init /\ [][Next]_vars

\* Every request of http() ends within 15 s, and every file operation ends.
GoesOn == \E c \in Calls : Continue(c) \/ Fly(c)
FairSpec == Spec /\ WF_vars(GoesOn)

-----------------------------------------------------------------------------
Flights == {f \in Calls : ~ Flying(f, "none")}

\* The state keeps its type, and a call waits only for a flight that is under way.
TypeOK ==
    /\ call \in [Calls -> [kind : {"none", "begin", "poll", "complete", "logout", "request"},
                           at : {"idle", "asking", "polling", "exchanging", "storing",
                                 "settling", "clearing", "opening", "reading", "joined",
                                 "using", "done", "failed"},
                           with : Calls \cup {NoCall}, force : BOOLEAN,
                           held : Record \cup {NoRecord}]]
    /\ flight \in [Calls -> [at : {"none", "exchanging", "retrying", "storing", "settling"},
                             held : Record \cup {NoRecord}, used : 0..MaxGrants]]
    /\ refreshing \in Calls \cup {NoCall}
    /\ logins \subseteq Calls /\ expired \subseteq Calls
    /\ file \in Record \cup {NoRecord}
    /\ lapsed \subseteq Grants /\ valid \subseteq Grants
    /\ issued \in 0..MaxGrants
    /\ granted \subseteq Calls /\ ended \subseteq Calls
    /\ flow \in Flows /\ wasted \subseteq 0..MaxGrants
    /\ \A c \in Calls : At(c, "joined") => call[c].with \in Flights

\* "Single-flight" (accessToken): requests that find the token stale together
\* start one refresh; a refresh that failed does not stand in the way of the next.
OneFlight == Cardinality(Flights) <= 1 /\ (Flights = {} <=> refreshing = NoCall)

\* The stored refresh token is one the issuer still takes, unless the refresh that
\* spent it is about to store its successor, or a fault lost that successor.  Logins,
\* logouts and refreshes that overlap never leave a dead token behind, whoever stores
\* last, and no fault does but in the one window the code leaves open (refresh, save).
StoredIsUsable ==
    \/ file.refresh = 0
    \/ file.refresh \in valid \cup wasted
    \/ \E f \in Calls : Flying(f, "storing") /\ flight[f].used = file.refresh

\* Every request of the page is answered, the ones that await a refresh of somebody
\* else included, whatever becomes of that refresh: again and again nobody waits.
EveryCallSettles == []<>(\A c \in Calls : call[c].at \in {"idle", "done", "failed"})

\* "prevents any stale refresh or response from restoring credentials": the record of
\* a login whose credential a logout deleted does not come back.
LogoutHolds == file.login \notin ended

\* "Claude refresh tokens rotate and are single-use": no refresh presents a token
\* that an earlier refresh has spent.
SingleUse == \A f \in Calls : Flying(f, "exchanging") => flight[f].held.refresh \in valid
=============================================================================
