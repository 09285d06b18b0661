---------------------- MODULE SubscriptionAuthProofs ----------------------
(***************************************************************************)
(* Proofs about SubscriptionAuth, for any number of calls and grants and    *)
(* each of the three flows.  Shape ties refreshing to the one refresh that  *)
(* is under way; Unspent says that a token on its way to the store is known *)
(* to nobody yet, which is why the last store, whoever makes it, leaves a   *)
(* token the issuer still takes.                                            *)
(***************************************************************************)
EXTENDS SubscriptionAuth, FiniteSetTheorems, TLAPS

CallRecord ==
    [kind : {"none", "begin", "poll", "complete", "logout", "request"},
     at : {"idle", "asking", "polling", "exchanging", "storing", "settling", "clearing",
           "opening", "reading", "joined", "using", "done", "failed"},
     with : Calls \cup {NoCall}, force : BOOLEAN, held : Record \cup {NoRecord}]
FlightRecord ==
    [at : {"none", "exchanging", "retrying", "storing", "settling"},
     held : Record \cup {NoRecord}, used : 0..MaxGrants]

\* The part of the state that is neither calls nor flights.
Rest ==
    /\ logins \subseteq Calls /\ expired \subseteq Calls
    /\ file \in Record \cup {NoRecord}
    /\ lapsed \subseteq Grants /\ valid \subseteq Grants
    /\ issued \in 0..MaxGrants
    /\ granted \subseteq Calls /\ ended \subseteq Calls
    /\ flow \in Flows /\ wasted \subseteq 0..MaxGrants

\* A call that waits for tokens has its login, one that joined has its flight.
Placed(k, r) ==
    /\ k.at = "joined" => k.with \in Calls /\ k.with = r
    /\ k.at \in {"polling", "exchanging"} => k.with \in Calls

\* The type invariant as an inductive one: refreshing is the flight under way.
Shape ==
    /\ call \in [Calls -> CallRecord] /\ flight \in [Calls -> FlightRecord]
    /\ refreshing \in Calls \cup {NoCall} /\ Rest
    /\ \A c \in Calls : Placed(call[c], refreshing)
    /\ \A f \in Calls : f = refreshing <=> flight[f].at # "none"

LEMMA ShapeTypes == Shape => TypeOK
<1> SUFFICES ASSUME Shape PROVE TypeOK
  OBVIOUS
<1>1. \A c \in Calls : At(c, "joined") => call[c].with \in Flights
  BY DEF Shape, Placed, Flights, At, Flying
<1>2. QED BY <1>1 DEF Shape, TypeOK, CallRecord, FlightRecord, Rest

\* A step of one call c to a record that is placed, with no flight touched.
LEMMA OneCallMoves ==
    ASSUME Shape, NEW c \in Calls, NEW k \in CallRecord,
           call' = [call EXCEPT ![c] = k], UNCHANGED <<flight, refreshing>>,
           Placed(k, refreshing), Rest'
    PROVE  Shape'
<1>1. call' \in [Calls -> CallRecord] /\ \A d \in Calls : Placed(call'[d], refreshing)
  BY DEF Shape
<1>2. QED BY <1>1 DEF Shape

\* A step that touches neither calls nor flights.
LEMMA NoCallMoves ==
    ASSUME Shape, UNCHANGED <<call, flight, refreshing>>, Rest'
    PROVE  Shape'
BY DEF Shape

LEMMA NoFlightTyped == NoFlight \in FlightRecord
<1>1. 0 \in 0..MaxGrants
  BY GrantsAreNatural
<1>2. QED BY <1>1 DEF NoFlight, FlightRecord

LEMMA SpendingTyped ==
    ASSUME Shape, NEW S \in SUBSET Calls
    PROVE  Spending(S) \subseteq 0..MaxGrants
BY DEF Shape, FlightRecord, Spending

LEMMA UnmadeTyped == Unmade \in CallRecord
BY DEF Unmade, CallRecord

\* The end of a refresh: everyone who joined it goes on.
LEMMA LandedKeepsShape ==
    ASSUME Shape, NEW f \in Calls, flight[f].at # "none",
           NEW phase \in {"using", "failed"}, Landed(f, phase), Rest'
    PROVE  Shape'
<1>1. \A g \in Calls : flight'[g].at = "none"
  BY DEF Shape, Landed, NoFlight, FlightRecord
<1>2. flight' \in [Calls -> FlightRecord]
  BY NoFlightTyped DEF Shape, Landed
<1>3. refreshing' = NoCall
  BY DEF Landed
<1>4. ASSUME NEW c \in Calls
      PROVE  call'[c] \in CallRecord /\ Placed(call'[c], NoCall)
  <2>1. CASE At(c, "joined") /\ call[c].with = f
    <3>1. call'[c] = [call[c] EXCEPT !.at = phase, !.held = flight[f].held, !.with = NoCall]
      BY <2>1 DEF Landed
    <3>2. flight[f].held \in Record \cup {NoRecord} /\ call[c] \in CallRecord
      BY DEF Shape, FlightRecord
    <3>3. QED BY <3>1, <3>2 DEF CallRecord, Placed
  <2>2. CASE ~ (At(c, "joined") /\ call[c].with = f)
    <3>1. call'[c] = call[c]
      BY <2>2 DEF Landed
    <3>2. call[c].at # "joined"
      BY <2>2 DEF Shape, Placed, At
    <3>3. QED BY <3>1, <3>2 DEF Shape, Placed
  <2>3. QED BY <2>1, <2>2
<1>5. call' \in [Calls -> CallRecord]
  BY <1>4 DEF Landed
<1>6. QED BY <1>1, <1>2, <1>3, <1>4, <1>5, CallsAreDistinct DEF Shape

\* A call goes on to a phase that asks nothing of it.
LEMMA GoKeepsShape ==
    ASSUME Shape, NEW c \in Calls, NEW phase \in
             {"storing", "settling", "clearing", "opening", "reading", "using", "done", "failed"},
           Go(c, phase), UNCHANGED <<flight, refreshing>>, Rest'
    PROVE  Shape'
<1> DEFINE k == [call[c] EXCEPT !.at = phase]
<1>1. call[c] \in CallRecord
  BY DEF Shape
<1>2. k \in CallRecord /\ k.at = phase
  BY <1>1 DEF CallRecord
<1>3. Placed(k, refreshing)
  BY <1>2 DEF Placed
<1>4. call' = [call EXCEPT ![c] = k]
  BY <1>1 DEF Go, CallRecord
<1> HIDE DEF k
<1>5. QED BY <1>2, <1>3, <1>4, OneCallMoves

\* A call is made, and waits for tokens only with a login.
LEMMA StartKeepsShape ==
    ASSUME Shape, NEW c \in Calls, NEW with \in Calls \cup {NoCall},
           NEW kind \in {"begin", "poll", "complete", "logout", "request"},
           NEW phase \in {"asking", "polling", "exchanging", "clearing", "opening", "done", "failed"},
           phase \in {"polling", "exchanging"} => with \in Calls,
           Start(c, kind, phase, with), UNCHANGED <<flight, refreshing>>, Rest'
    PROVE  Shape'
<1> DEFINE k == [Unmade EXCEPT !.kind = kind, !.at = phase, !.with = with]
<1>1. k \in CallRecord /\ k.at = phase /\ k.with = with
  BY UnmadeTyped DEF CallRecord
<1>2. Placed(k, refreshing)
  BY <1>1 DEF Placed
<1>3. call' = [call EXCEPT ![c] = k]
  BY DEF Start
<1> HIDE DEF k
<1>4. QED BY <1>1, <1>2, <1>3, OneCallMoves

\* A grant in the hands of a call or a flight is a record that can be stored.
LEMMA GrantTyped ==
    ASSUME Rest, issued < MaxGrants
    PROVE  issued + 1 \in Grants /\ issued + 1 \in 0..MaxGrants
BY GrantsAreNatural DEF Rest, Grants

LEMMA ShapeInit == Init => Shape
<1> SUFFICES ASSUME Init PROVE Shape
  OBVIOUS
<1>1. call \in [Calls -> CallRecord] /\ \A c \in Calls : Placed(call[c], refreshing)
  BY UnmadeTyped DEF Init, Placed, Unmade
<1>2. flight \in [Calls -> FlightRecord] /\ \A f \in Calls : flight[f].at = "none"
  BY NoFlightTyped DEF Init, NoFlight
<1>3. Rest
  BY GrantsAreNatural DEF Init, Rest
<1>4. QED BY <1>1, <1>2, <1>3, CallsAreDistinct DEF Init, Shape

\* The steps of a login, a logout, a failing read and an answered request.
LEMMA ShapeOfCalls ==
    ASSUME Shape, NEW c \in Calls,
           \/ CodeAnswered(c) \/ PollAnswered(c) \/ TokensGranted(c) \/ ExchangeFails(c)
           \/ Store(c) \/ Stored(c) \/ StoreFails(c) \/ Clear(c)
           \/ Open(c) \/ ReadFails(c) \/ Answered(c)
    PROVE  Shape'
<1>0. Rest /\ call[c] \in CallRecord /\ Placed(call[c], refreshing)
  BY DEF Shape
<1>1. CASE CodeAnswered(c)
  <2>1. Rest'
    BY <1>0, <1>1 DEF CodeAnswered, Rest, issuer, rest
  <2>2. QED BY <2>1, <1>1, GoKeepsShape DEF CodeAnswered
<1>2. CASE PollAnswered(c)
  <2>1. Rest' /\ UNCHANGED <<flight, refreshing>>
    BY <1>0, <1>2 DEF PollAnswered, Rest, issuer, rest
  <2>2. CASE Go(c, "done") \/ Go(c, "failed")
    BY <2>1, <2>2, GoKeepsShape
  <2>3. CASE Go(c, "exchanging")
    <3> DEFINE k == [call[c] EXCEPT !.at = "exchanging"]
    <3>1. k \in CallRecord /\ Placed(k, refreshing)
      BY <1>0, <1>2 DEF CallRecord, Placed, PollAnswered, At
    <3>2. call' = [call EXCEPT ![c] = k]
      BY <2>3, <1>0 DEF Go, CallRecord
    <3> HIDE DEF k
    <3>3. QED BY <3>1, <3>2, <2>1, OneCallMoves
  <2>4. QED BY <1>2, <2>2, <2>3 DEF PollAnswered
<1>3. CASE TokensGranted(c)
  <2>1. issued' = issued + 1 /\ issued' \in Grants /\ issued' \in 0..MaxGrants
    BY <1>0, <1>3, GrantTyped DEF TokensGranted
  <2>2. call[c].with \in Calls
    BY <1>0, <1>3 DEF TokensGranted, At, Placed
  <2>3. Rest'
    BY <1>0, <1>3, <2>1, <2>2 DEF TokensGranted, Rest, rest
  <2> DEFINE g == [access |-> issued', refresh |-> issued', login |-> call[c].with]
  <2> DEFINE k == [call[c] EXCEPT !.at = "storing", !.held = g]
  <2>4. g \in Record
    BY <2>1, <2>2 DEF Record
  <2>5. call' = [call EXCEPT ![c] = k]
    BY <1>3, <1>0 DEF TokensGranted, CallRecord
  <2> HIDE DEF g
  <2>6. k \in CallRecord /\ k.at = "storing"
    BY <2>4, <1>0 DEF CallRecord
  <2>7. Placed(k, refreshing)
    BY <2>6 DEF Placed
  <2> HIDE DEF k
  <2>8. QED BY <2>3, <2>5, <2>6, <2>7, <1>3, OneCallMoves DEF TokensGranted
<1>4. CASE ExchangeFails(c)
  <2>1. Rest'
    BY <1>0, <1>4 DEF ExchangeFails, Rest, issuer, rest
  <2>2. QED BY <2>1, <1>4, GoKeepsShape DEF ExchangeFails
<1>5. CASE Store(c)
  <2>1. Rest'
    BY <1>0, <1>5 DEF Store, Rest, issuer, rest, CallRecord
  <2>2. QED BY <2>1, <1>5, GoKeepsShape DEF Store
<1>6. CASE Stored(c)
  <2>1. Rest'
    BY <1>0, <1>6 DEF Stored, Rest, issuer, rest
  <2>2. QED BY <2>1, <1>6, GoKeepsShape DEF Stored
<1>7. CASE StoreFails(c)
  <2>1. Rest'
    BY <1>0, <1>7 DEF StoreFails, Rest, issuer, rest
  <2>2. QED BY <2>1, <1>7, GoKeepsShape DEF StoreFails
<1>8. CASE Clear(c)
  <2>1. file # NoRecord => file.login \in Calls
    BY <1>0 DEF Rest, Record
  <2>2. Rest'
    BY <2>1, <1>0, <1>8 DEF Clear, Rest, issuer, rest
  <2>3. QED BY <2>2, <1>8, GoKeepsShape DEF Clear
<1>9. CASE Open(c)
  <2>1. Rest'
    BY <1>0, <1>9 DEF Open, Rest, issuer, rest
  <2>2. CASE file = NoRecord
    BY <2>1, <2>2, <1>9, GoKeepsShape DEF Open
  <2>3. CASE file # NoRecord
    <3> DEFINE k == [call[c] EXCEPT !.at = "reading", !.held = file]
    <3>1. k \in CallRecord /\ k.at = "reading"
      BY <1>0 DEF CallRecord, Rest
    <3>2. Placed(k, refreshing)
      BY <3>1 DEF Placed
    <3>3. call' = [call EXCEPT ![c] = k]
      BY <2>3, <1>0, <1>9 DEF Open, CallRecord
    <3> HIDE DEF k
    <3>4. QED BY <3>1, <3>2, <3>3, <2>1, <1>9, OneCallMoves DEF Open
  <2>4. QED BY <2>2, <2>3
<1>10. CASE ReadFails(c)
  <2>1. Rest'
    BY <1>0, <1>10 DEF ReadFails, Rest, issuer, rest
  <2>2. QED BY <2>1, <1>10, GoKeepsShape DEF ReadFails
<1>11. CASE Answered(c)
  <2>1. Rest' /\ UNCHANGED <<flight, refreshing>>
    BY <1>0, <1>11 DEF Answered, Rest, issuer, rest
  <2>2. CASE Go(c, "done") \/ Go(c, "failed")
    BY <2>1, <2>2, GoKeepsShape
  <2>3. CASE call' = [call EXCEPT ![c].at = "opening", ![c].force = TRUE]
    <3> DEFINE k == [call[c] EXCEPT !.at = "opening", !.force = TRUE]
    <3>1. k \in CallRecord /\ k.at = "opening"
      BY <1>0 DEF CallRecord
    <3>2. Placed(k, refreshing)
      BY <3>1 DEF Placed
    <3>3. call' = [call EXCEPT ![c] = k]
      BY <2>3, <1>0 DEF CallRecord
    <3> HIDE DEF k
    <3>4. QED BY <3>1, <3>2, <3>3, <2>1, OneCallMoves
  <2>4. QED BY <1>11, <2>2, <2>3 DEF Answered
<1>12. QED BY <1>1, <1>2, <1>3, <1>4, <1>5, <1>6, <1>7, <1>8, <1>9, <1>10, <1>11

\* The record read from the file decides: used as it is, or refreshed.
LEMMA ShapeOfLoaded ==
    ASSUME Shape, NEW c \in Calls, Loaded(c)
    PROVE  Shape'
<1>0. Rest' /\ call[c] \in CallRecord
  BY DEF Loaded, Shape, Rest, issuer, rest
<1>1. CASE (Go(c, "using") \/ Go(c, "failed")) /\ UNCHANGED <<flight, refreshing>>
  BY <1>0, <1>1, GoKeepsShape
<1>2. CASE LeadFlight(c)
  <2> DEFINE k == [call[c] EXCEPT !.at = "joined", !.with = c]
  <2> DEFINE g == [at |-> "exchanging", held |-> call[c].held, used |-> 0]
  <2>1. k \in CallRecord /\ k.at = "joined" /\ k.with = c
    BY <1>0 DEF CallRecord
  <2>2. g \in FlightRecord /\ g.at = "exchanging"
    BY <1>0, GrantsAreNatural DEF CallRecord, FlightRecord
  <2>3. call' = [call EXCEPT ![c] = k] /\ flight' = [flight EXCEPT ![c] = g]
        /\ refreshing' = c /\ refreshing = NoCall
    BY <1>0, <1>2 DEF LeadFlight, CallRecord
  <2> HIDE DEF k, g
  <2>4. \A d \in Calls : d # c => Placed(call'[d], c)
    BY <2>3, CallsAreDistinct DEF Shape, Placed
  <2>5. Placed(k, c)
    BY <2>1 DEF Placed
  <2>6. call' \in [Calls -> CallRecord] /\ flight' \in [Calls -> FlightRecord]
        /\ \A d \in Calls : Placed(call'[d], c)
    BY <2>1, <2>2, <2>3, <2>4, <2>5 DEF Shape
  <2>7. \A f \in Calls : f = c <=> flight'[f].at # "none"
    BY <2>2, <2>3, CallsAreDistinct DEF Shape
  <2>8. QED BY <1>0, <2>3, <2>6, <2>7 DEF Shape
<1>3. CASE JoinFlight(c)
  <2> DEFINE k == [call[c] EXCEPT !.at = "joined", !.with = refreshing]
  <2>1. refreshing \in Calls
    BY <1>3 DEF JoinFlight, Shape
  <2>2. k \in CallRecord /\ Placed(k, refreshing)
    BY <1>0, <2>1 DEF CallRecord, Placed
  <2>3. call' = [call EXCEPT ![c] = k]
    BY <1>0, <1>3 DEF JoinFlight, CallRecord
  <2> HIDE DEF k
  <2>4. QED BY <1>0, <1>3, <2>2, <2>3, OneCallMoves DEF JoinFlight
<1>4. QED BY <1>1, <1>2, <1>3 DEF Loaded

\* The steps of the refresh under way.
LEMMA ShapeOfFlights ==
    ASSUME Shape, NEW f \in Calls, Fly(f)
    PROVE  Shape'
<1>0. Rest /\ flight[f] \in FlightRecord
  BY DEF Shape
<1>1. CASE Renew(f)
  <2>1. issued' = issued + 1 /\ issued' \in Grants /\ issued' \in 0..MaxGrants
    BY <1>0, <1>1, GrantTyped DEF Renew, Redeem
  <2>2. flight[f].held.refresh \in Grants
    BY <1>0, <1>1 DEF Renew, Rest
  <2>3. flight[f].held \in Record
    BY <1>0, <2>2 DEF FlightRecord, NoRecord, Grants
  <2> DEFINE g == [at |-> "storing", held |-> Renewed(f, issued'),
                   used |-> flight[f].held.refresh]
  <2>4. Renewed(f, issued') \in Record
    BY <2>1, <2>3 DEF Renewed, Record
  <2>5. g \in FlightRecord /\ g.at = "storing"
    BY <2>2, <2>4 DEF FlightRecord, Grants
  <2>6. flight' = [flight EXCEPT ![f] = g] /\ UNCHANGED <<call, refreshing>>
    BY <1>1 DEF Renew
  <2> HIDE DEF g
  <2>7. flight[f].at # "none"
    BY <1>1 DEF Renew, Presenting, Flying
  <2>8. Rest'
    BY <1>0, <1>1, <2>1 DEF Renew, Redeem, Rest, rest
  <2>9. QED BY <2>5, <2>6, <2>7, <2>8 DEF Shape
<1>2. CASE StoreRenewed(f)
  <2> DEFINE g == [flight[f] EXCEPT !.at = "settling"]
  <2>1. g \in FlightRecord /\ g.at = "settling"
    BY <1>0 DEF FlightRecord
  <2>2. flight' = [flight EXCEPT ![f] = g] /\ UNCHANGED <<call, refreshing>>
    BY <1>0, <1>2 DEF StoreRenewed, FlightRecord
  <2> HIDE DEF g
  <2>3. flight[f].at # "none"
    BY <1>2 DEF StoreRenewed, Flying
  <2>4. Rest'
    BY <1>0, <1>2 DEF StoreRenewed, Rest, FlightRecord, issuer, rest
  <2>5. QED BY <2>1, <2>2, <2>3, <2>4 DEF Shape
<1>3. CASE FlightLands(f) \/ RenewFails(f)
  <2>1. Rest' /\ flight[f].at # "none" /\ (Landed(f, "using") \/ Landed(f, "failed"))
    BY <1>0, <1>3 DEF FlightLands, RenewFails, Presenting, Flying, Rest, issuer, rest
  <2>2. QED BY <2>1, LandedKeepsShape
<1>4. CASE RenewLost(f)
  <2>1. issued' = issued + 1 /\ issued' \in Grants /\ issued' \in 0..MaxGrants
    BY <1>0, <1>4, GrantTyped DEF RenewLost, Redeem
  <2>2. flight[f].held.refresh \in 0..MaxGrants
    <3>1. \A r \in Record \cup {NoRecord} : r.refresh \in 0..MaxGrants
      BY GrantsAreNatural DEF Record, NoRecord
    <3>2. QED BY <3>1, <1>0 DEF FlightRecord
  <2>3. wasted' \subseteq 0..MaxGrants
    BY <1>0, <1>4, <2>2 DEF RenewLost, Rest
  <2>4. Rest'
    BY <1>0, <1>4, <2>1, <2>3 DEF RenewLost, Redeem, Rest
  <2>5. QED BY <1>4, <2>4, LandedKeepsShape DEF RenewLost, Presenting, Flying
<1>5. CASE StoreRenewedFails(f)
  <2>1. wasted' \subseteq 0..MaxGrants
    BY <1>0, <1>5, SpendingTyped DEF StoreRenewedFails, Rest
  <2>2. Rest' /\ flight[f].at # "none"
    BY <1>0, <1>5, <2>1 DEF StoreRenewedFails, Rest, issuer
  <2>3. QED BY <1>5, <2>2, LandedKeepsShape DEF StoreRenewedFails
<1>6. CASE Retry(f)
  <2> DEFINE g == [flight[f] EXCEPT !.at = "retrying"]
  <2>1. g \in FlightRecord /\ g.at = "retrying"
    BY <1>0 DEF FlightRecord
  <2>2. flight' = [flight EXCEPT ![f] = g] /\ UNCHANGED <<call, refreshing>>
    BY <1>0, <1>6 DEF Retry, FlightRecord
  <2> HIDE DEF g
  <2>3. flight[f].at # "none"
    BY <1>6 DEF Retry, Flying
  <2>4. Rest'
    <3>1. UNCHANGED <<logins, expired, file, lapsed, flow, ended>>
      BY <1>6 DEF Retry
    <3>2. CASE UNCHANGED <<issuer, wasted>>
      BY <1>0, <3>1, <3>2 DEF Rest, issuer
    <3>3. CASE /\ flight[f].held.refresh \in valid /\ Redeem(flight[f].held.refresh)
               /\ wasted' = wasted \cup {flight[f].held.refresh}
      <4>1. issued' = issued + 1 /\ issued' \in Grants /\ issued' \in 0..MaxGrants
        BY <1>0, <3>3, GrantTyped DEF Redeem
      <4>2. wasted' \subseteq 0..MaxGrants
        <5>1. flight[f].held.refresh \in Grants
          BY <1>0, <3>3 DEF Rest
        <5>2. flight[f].held.refresh \in 0..MaxGrants
          BY <5>1 DEF Grants
        <5>3. QED BY <1>0, <3>3, <5>2 DEF Rest
      <4>3. QED BY <1>0, <3>1, <3>3, <4>1, <4>2 DEF Redeem, Rest
    <3>4. QED BY <1>6, <3>2, <3>3 DEF Retry
  <2>5. QED BY <2>1, <2>2, <2>3, <2>4 DEF Shape
<1>7. QED BY <1>1, <1>2, <1>3, <1>4, <1>5, <1>6 DEF Fly

LEMMA ShapeOfCrash ==
    ASSUME Shape, Crash
    PROVE  Shape'
<1>0. wasted' \subseteq 0..MaxGrants
  BY SpendingTyped DEF Crash, Shape, Rest
<1>1. Rest'
  BY <1>0 DEF Crash, Shape, Rest, issuer
<1>2. ASSUME NEW c \in Calls
      PROVE  call'[c] \in CallRecord /\ Placed(call'[c], NoCall)
  <2>1. call[c] \in CallRecord
    BY DEF Shape
  <2>2. CASE call[c].at \in {"idle", "done"}
    BY <2>1, <2>2 DEF Crash, Placed
  <2>3. CASE call[c].at \notin {"idle", "done"}
    <3>1. call'[c] = [call[c] EXCEPT !.at = "failed"]
      BY <2>3 DEF Crash
    <3>2. QED BY <2>1, <3>1 DEF CallRecord, Placed
  <2>4. QED BY <2>2, <2>3
<1>3. call' \in [Calls -> CallRecord]
  BY <1>2 DEF Crash
<1>4. flight' \in [Calls -> FlightRecord] /\ \A f \in Calls : flight'[f].at = "none"
  BY NoFlightTyped DEF Crash, NoFlight
<1>5. QED BY <1>1, <1>2, <1>3, <1>4, CallsAreDistinct DEF Crash, Shape

LEMMA ShapeStep == Shape /\ [Next]_vars => Shape'
<1> SUFFICES ASSUME Shape, [Next]_vars PROVE Shape'
  OBVIOUS
<1>0. Rest
  BY DEF Shape
<1>1. ASSUME NEW c \in Calls, Begin(c) \/ Logout(c) \/ Request(c)
      PROVE  Shape'
  <2>1. Rest'
    BY <1>0, <1>1 DEF Begin, Logout, Request, Rest, issuer, rest
  <2>2. QED BY <2>1, <1>1, StartKeepsShape DEF Begin, Logout, Request
<1>2. ASSUME NEW c \in Calls, NEW l \in Calls, Poll(c, l) \/ Complete(c, l)
      PROVE  Shape'
  <2>1. Rest' /\ UNCHANGED <<flight, refreshing>>
    BY <1>0, <1>2 DEF Poll, Complete, TakeLogin, Rest, issuer, rest
  <2>2. \/ Start(c, "poll", "polling", l) \/ Start(c, "poll", "failed", l)
        \/ Start(c, "complete", "exchanging", l) \/ Start(c, "complete", "failed", l)
    BY <1>2 DEF Poll, Complete, TakeLogin
  <2>3. QED BY <2>1, <2>2, StartKeepsShape
<1>3. ASSUME NEW l \in Calls, CancelLogin(l) \/ Expire(l)
      PROVE  Shape'
  BY <1>0, <1>3, NoCallMoves DEF CancelLogin, Expire, Rest, memory, issuer, rest
<1>4. ASSUME NEW c \in Calls, Continue(c)
      PROVE  Shape'
  BY <1>4, ShapeOfCalls, ShapeOfLoaded DEF Continue
<1>5. ASSUME NEW n \in Grants, Lapse(n)
      PROVE  Shape'
  BY <1>0, <1>5, NoCallMoves DEF Lapse, Rest, memory, issuer, rest
<1>6. CASE UNCHANGED vars
  BY <1>0, <1>6, NoCallMoves DEF vars, Rest
<1>7. QED BY <1>1, <1>2, <1>3, <1>4, <1>5, <1>6, ShapeOfFlights, ShapeOfCrash DEF Next

\* The state keeps its type, and a call waits only for a refresh under way.
THEOREM SignInTyped == Spec => []TypeOK
<1>1. Init => Shape
  BY ShapeInit
<1>2. Shape /\ [Next]_vars => Shape'
  BY ShapeStep
<1>3. Shape => TypeOK
  BY ShapeTypes
<1>4. QED BY <1>1, <1>2, <1>3, PTL DEF Spec

\* At most one refresh of the provider is under way, and it is the one that
\* accessToken offers to later callers (refreshing).
THEOREM SingleFlight == Spec => []OneFlight
<1>1. Shape => OneFlight
  <2> SUFFICES ASSUME Shape PROVE OneFlight
    OBVIOUS
  <2>1. CASE refreshing = NoCall
    <3>1. Flights = {}
      BY <2>1, CallsAreDistinct DEF Shape, Flights, Flying
    <3>2. QED BY <3>1, <2>1, FS_EmptySet DEF OneFlight
  <2>2. CASE refreshing \in Calls
    <3>1. Flights = {refreshing}
      BY <2>2 DEF Shape, Flights, Flying
    <3>2. QED BY <3>1, <2>2, FS_Singleton, CallsAreDistinct DEF OneFlight
  <2>3. QED BY <2>1, <2>2 DEF Shape
<1>2. QED BY <1>1, ShapeInit, ShapeStep, PTL DEF Spec

-----------------------------------------------------------------------------
\* No token is numbered beyond the grants made.
Numbered ==
    /\ valid \subseteq 1..issued
    /\ file.refresh <= issued
    /\ \A c \in Calls : call[c].held.refresh <= issued
    /\ \A f \in Calls : flight[f].held.refresh <= issued

\* What the flights hold that have a token to spend or to store.
Laden(f) == flight[f].at \in {"exchanging", "retrying", "storing"}

\* The tokens a login is about to store are valid, and nobody else has them: not
\* the file, not a request that has read it, not a refresh, not another login.
Unspent ==
    \A c \in Calls : call[c].at = "storing" =>
        /\ call[c].held.refresh \in valid
        /\ call[c].held.refresh # file.refresh
        /\ \A d \in Calls \ {c} : call[d].at \in {"reading", "storing"}
                => call[d].held.refresh # call[c].held.refresh
        /\ \A f \in Calls : Laden(f)
                => flight[f].held.refresh # call[c].held.refresh

Usable ==
    /\ Numbered /\ Unspent /\ StoredIsUsable
    /\ \A f \in Calls : flight[f].at = "storing" => flight[f].held.refresh \in valid

\* The numbers Shape gives to what Usable compares.
LEMMA Numbers ==
    ASSUME Shape
    PROVE  /\ issued \in Nat /\ file.refresh \in Nat /\ valid \subseteq Nat
           /\ \A c \in Calls : call[c].held.refresh \in Nat
           /\ \A f \in Calls : flight[f].held.refresh \in Nat
<1>1. \A r \in Record \cup {NoRecord} : r.refresh \in Nat
  BY DEF Record, NoRecord
<1>2. QED BY <1>1, GrantsAreNatural DEF Shape, Rest, CallRecord, FlightRecord, Grants

LEMMA UsableInit == Init => Usable
BY DEF Init, Usable, Numbered, Unspent, StoredIsUsable, NoRecord, NoFlight, Unmade

\* A step that changes neither file, issuer, rest nor flights, and after which a call
\* stores or reads only what it held so before, or what the file holds.
LEMMA UsableBeside ==
    ASSUME Usable, UNCHANGED <<file, issued, valid, flight, wasted>>,
           \A c \in Calls :
             /\ call'[c].held.refresh <= issued
             /\ call'[c].at = "storing" => call[c].at = "storing" /\ call'[c].held = call[c].held
             /\ call'[c].at = "reading" => \/ call[c].at = "reading" /\ call'[c].held = call[c].held
                                           \/ call'[c].held = file
    PROVE  Usable'
<1>1. Numbered'
  BY DEF Usable, Numbered
<1>2. Unspent'
  BY DEF Usable, Unspent, Laden
<1>3. StoredIsUsable'
  BY DEF Usable, StoredIsUsable, Flying
<1>4. QED BY <1>1, <1>2, <1>3 DEF Usable

\* The new phase of one call, as values.
LEMMA GoValues ==
    ASSUME Shape, NEW c \in Calls, NEW phase, Go(c, phase)
    PROVE  /\ call'[c].at = phase /\ call'[c].held = call[c].held
           /\ \A d \in Calls \ {c} : call'[d] = call[d]
BY DEF Shape, Go, CallRecord

LEMMA StartValues ==
    ASSUME Shape, NEW c \in Calls, NEW kind, NEW phase, NEW with, Start(c, kind, phase, with)
    PROVE  /\ call'[c].at = phase /\ call'[c].held = NoRecord
           /\ \A d \in Calls \ {c} : call'[d] = call[d]
BY DEF Shape, Start, Unmade, CallRecord

LEMMA UsableGo ==
    ASSUME Shape, Usable, NEW c \in Calls, NEW phase, Go(c, phase),
           phase \notin {"storing", "reading"}, UNCHANGED <<file, issued, valid, flight, wasted>>
    PROVE  Usable'
BY GoValues, UsableBeside DEF Usable, Numbered

LEMMA UsableStart ==
    ASSUME Shape, Usable, NEW c \in Calls, NEW kind, NEW phase, NEW with,
           Start(c, kind, phase, with), phase \notin {"storing", "reading"},
           UNCHANGED <<file, issued, valid, flight, wasted>>
    PROVE  Usable'
<1>1. NoRecord.refresh <= issued
  BY Numbers DEF NoRecord
<1>2. QED BY <1>1, StartValues, UsableBeside DEF Usable, Numbered

\* A step that makes one grant, in which the others keep what they hold.
LEMMA ValidGrows ==
    ASSUME Shape, Numbered, issued' = issued + 1, valid' \subseteq valid \cup {issued + 1}
    PROVE  valid' \subseteq 1..issued'
BY Numbers DEF Numbered

LEMMA NumberedGrows ==
    ASSUME Shape, Numbered, issued' = issued + 1, valid' \subseteq valid \cup {issued + 1},
           UNCHANGED file,
           \A c \in Calls : \/ call'[c].held.refresh = call[c].held.refresh
                           \/ call'[c].held.refresh = issued + 1,
           \A f \in Calls : \/ flight'[f].held.refresh = flight[f].held.refresh
                           \/ flight'[f].held.refresh = issued + 1
    PROVE  Numbered'
<1>1. valid' \subseteq 1..issued'
  BY Numbers DEF Numbered
<1>2. file'.refresh <= issued'
  BY Numbers DEF Numbered
<1>3. \A c \in Calls : call'[c].held.refresh <= issued'
  BY Numbers DEF Numbered
<1>4. \A f \in Calls : flight'[f].held.refresh <= issued'
  BY Numbers DEF Numbered
<1>5. QED BY <1>1, <1>2, <1>3, <1>4 DEF Numbered

LEMMA UsableTokensGranted ==
    ASSUME Shape, Usable, NEW c \in Calls, TokensGranted(c)
    PROVE  Usable'
<1>1. /\ call'[c].at = "storing" /\ call'[c].held.refresh = issued + 1
      /\ \A d \in Calls \ {c} : call'[d] = call[d]
  BY DEF Shape, TokensGranted, CallRecord
<1>2. issued' = issued + 1 /\ valid' = valid \cup {issued + 1}
      /\ UNCHANGED <<file, flight, wasted>>
  BY DEF TokensGranted, rest
<1>3. Numbered'
  BY <1>1, <1>2, NumberedGrows DEF Usable
<1>4. ASSUME NEW d \in Calls, call'[d].at = "storing"
      PROVE  /\ call'[d].held.refresh \in valid'
             /\ call'[d].held.refresh # file'.refresh
             /\ \A e \in Calls \ {d} : call'[e].at \in {"reading", "storing"}
                    => call'[e].held.refresh # call'[d].held.refresh
             /\ \A f \in Calls : Laden(f)' => flight'[f].held.refresh # call'[d].held.refresh
  <2>1. CASE d = c
    BY <1>1, <1>2, <2>1, Numbers DEF Usable, Numbered
  <2>2. CASE d # c
    BY <1>1, <1>2, <1>4, <2>2, Numbers DEF Usable, Numbered, Unspent, Laden
  <2>3. QED BY <2>1, <2>2
<1>5. Unspent'
  BY <1>4 DEF Unspent
<1>6. StoredIsUsable'
  BY <1>2 DEF Usable, StoredIsUsable, Flying
<1>7. QED BY <1>2, <1>3, <1>5, <1>6 DEF Usable

LEMMA UsableStore ==
    ASSUME Shape, Usable, NEW c \in Calls, Store(c)
    PROVE  Usable'
<1>1. call'[c].at = "settling" /\ (\A d \in Calls : call'[d].held = call[d].held)
      /\ \A d \in Calls \ {c} : call'[d] = call[d]
  BY GoValues DEF Store
<1>2. file' = call[c].held /\ call[c].at = "storing" /\ UNCHANGED <<issued, valid, flight, wasted>>
  BY DEF Store, At, issuer, rest
<1>3. Numbered'
  BY <1>1, <1>2 DEF Usable, Numbered
<1>4. Unspent'
  BY <1>1, <1>2 DEF Usable, Unspent, Laden
<1>5. StoredIsUsable'
  BY <1>2 DEF Usable, StoredIsUsable, Unspent
<1>6. QED BY <1>2, <1>3, <1>4, <1>5 DEF Usable

LEMMA UsableClear ==
    ASSUME Shape, Usable, NEW c \in Calls, Clear(c)
    PROVE  Usable'
<1>1. call'[c].at = "done" /\ (\A d \in Calls : call'[d].held = call[d].held)
      /\ \A d \in Calls \ {c} : call'[d] = call[d]
  BY GoValues DEF Clear
<1>2. file'.refresh = 0 /\ UNCHANGED <<issued, valid, flight, wasted>>
  BY DEF Clear, NoRecord, issuer, rest
<1>3. \A d \in Calls : call[d].at = "storing" => call[d].held.refresh # 0
  BY DEF Usable, Unspent, Numbered
<1>4. Numbered'
  BY <1>1, <1>2, Numbers DEF Usable, Numbered
<1>5. Unspent'
  BY <1>1, <1>2, <1>3 DEF Usable, Unspent, Laden
<1>6. QED BY <1>2, <1>4, <1>5 DEF Usable, StoredIsUsable

LEMMA UsableOpen ==
    ASSUME Shape, Usable, NEW c \in Calls, Open(c)
    PROVE  Usable'
<1>1. CASE file = NoRecord
  BY <1>1, UsableGo DEF Open, issuer, rest
<1>2. CASE file # NoRecord
  <2>1. call'[c].at = "reading" /\ call'[c].held = file
        /\ \A d \in Calls \ {c} : call'[d] = call[d]
    BY <1>2 DEF Open, Shape, CallRecord
  <2>2. UNCHANGED <<file, issued, valid, flight, wasted>>
    BY DEF Open, issuer, rest
  <2>3. QED BY <2>1, <2>2, UsableBeside DEF Usable, Numbered
<1>3. QED BY <1>1, <1>2

LEMMA UsableLoaded ==
    ASSUME Shape, Usable, NEW c \in Calls, Loaded(c)
    PROVE  Usable'
<1>0. UNCHANGED <<file, issued, valid, wasted>> /\ call[c].at = "reading" /\ call[c] \in CallRecord
  BY DEF Loaded, At, issuer, rest, Shape
<1>1. CASE (Go(c, "using") \/ Go(c, "failed")) /\ UNCHANGED <<flight, refreshing>>
  BY <1>0, <1>1, UsableGo
<1>2. CASE JoinFlight(c)
  <2>1. call'[c].at = "joined" /\ call'[c].held = call[c].held
        /\ \A d \in Calls \ {c} : call'[d] = call[d]
    BY <1>2 DEF JoinFlight, Shape, CallRecord
  <2>2. QED BY <1>0, <1>2, <2>1, UsableBeside DEF JoinFlight, Usable, Numbered
<1>3. CASE LeadFlight(c)
  <2>1. call'[c].at = "joined" /\ call'[c].held = call[c].held
        /\ \A d \in Calls \ {c} : call'[d] = call[d]
    BY <1>3 DEF LeadFlight, Shape, CallRecord
  <2>2. flight'[c].at = "exchanging" /\ flight'[c].held = call[c].held
        /\ \A f \in Calls \ {c} : flight'[f] = flight[f]
    BY <1>3 DEF LeadFlight, Shape
  <2>3. \A f \in Calls : flight[f].at = "none"
    BY <1>3, CallsAreDistinct DEF LeadFlight, Shape
  <2>4. Numbered'
    BY <1>0, <2>1, <2>2 DEF Usable, Numbered
  <2>5. Unspent'
    BY <1>0, <2>1, <2>2 DEF Usable, Unspent, Laden
  <2>6. StoredIsUsable'
    BY <1>0, <2>3 DEF Usable, StoredIsUsable, Flying
  <2>7. QED BY <1>0, <2>2, <2>3, <2>4, <2>5, <2>6 DEF Usable
<1>4. QED BY <1>1, <1>2, <1>3 DEF Loaded

\* The second URL is asked with the same token, which is wasted if the first redeemed it.
LEMMA UsableRetry ==
    ASSUME Shape, Usable, NEW f \in Calls, Retry(f)
    PROVE  Usable'
<1> DEFINE t == flight[f].held.refresh
<1>1. flight[f].at = "exchanging" /\ UNCHANGED <<file, call>>
  BY DEF Retry, Flying
<1>2. flight'[f].at = "retrying" /\ (\A g \in Calls : flight'[g].held = flight[g].held)
      /\ \A g \in Calls \ {f} : flight'[g] = flight[g]
  BY DEF Retry, Shape, FlightRecord
<1>3. \A g \in Calls : flight[g].at # "storing" /\ flight'[g].at # "storing"
  BY <1>1, <1>2 DEF Shape
<1>4. \A g \in Calls : Laden(g)' => Laden(g)
  BY <1>1, <1>2 DEF Laden
<1> HIDE DEF t
<1>5. CASE UNCHANGED <<issued, valid, wasted>>
  <2>1. Numbered'
    BY <1>1, <1>2, <1>5 DEF Usable, Numbered
  <2>2. Unspent'
    BY <1>1, <1>2, <1>4, <1>5 DEF Usable, Unspent
  <2>3. StoredIsUsable'
    BY <1>1, <1>3, <1>5 DEF Usable, StoredIsUsable, Flying
  <2>4. QED BY <1>3, <2>1, <2>2, <2>3 DEF Usable
<1>6. CASE /\ t \in valid /\ issued' = issued + 1 /\ wasted' = wasted \cup {t}
           /\ valid' = (IF Rotating THEN (valid \ {t}) \cup {issued + 1} ELSE valid)
  <2>1. Numbered'
    BY <1>1, <1>2, <1>6, NumberedGrows DEF Usable
  <2>2. \A c \in Calls : call[c].at = "storing" => call[c].held.refresh \in valid'
    BY <1>1, <1>6 DEF Usable, Unspent, Laden, t
  <2>3. Unspent'
    BY <1>1, <1>2, <1>4, <2>2 DEF Usable, Unspent
  <2>4. StoredIsUsable'
    BY <1>1, <1>3, <1>6 DEF Usable, StoredIsUsable, Flying
  <2>5. QED BY <1>3, <2>1, <2>3, <2>4 DEF Usable
<1>7. QED BY <1>5, <1>6 DEF Retry, Redeem, issuer, t

\* The refresh that spends the stored token is the one that will replace it.
LEMMA UsableRenew ==
    ASSUME Shape, Usable, NEW f \in Calls, Renew(f)
    PROVE  Usable'
<1> DEFINE t == flight[f].held.refresh
<1>1. /\ flight[f].at \in {"exchanging", "retrying"} /\ t \in valid /\ issued' = issued + 1
      /\ valid' = (IF Rotating THEN (valid \ {t}) \cup {issued + 1} ELSE valid)
      /\ UNCHANGED <<file, call, wasted>>
  BY DEF Renew, Presenting, Flying, Redeem, rest
<1>2. flight'[f].at = "storing" /\ flight'[f].used = t
      /\ flight'[f].held.refresh = (IF Rotating THEN issued + 1 ELSE t)
      /\ \A g \in Calls \ {f} : flight'[g] = flight[g]
  BY <1>1 DEF Renew, Renewed, Shape
<1>3. \A g \in Calls \ {f} : flight[g].at = "none"
  BY <1>1 DEF Shape
<1> HIDE DEF t
<1>4. t \in Nat /\ t <= issued
  BY <1>1, Numbers DEF Usable, Numbered, t
<1>5. Numbered'
  BY <1>1, <1>2, NumberedGrows DEF Usable, t
<1>6. ASSUME NEW c \in Calls, call[c].at = "storing"
      PROVE  call[c].held.refresh # t /\ call[c].held.refresh < issued + 1
  BY <1>1, <1>6, Numbers DEF Usable, Unspent, Laden, Numbered, t
<1>7. \A c \in Calls : call[c].at = "storing" =>
          call[c].held.refresh \in valid' /\ call[c].held.refresh # flight'[f].held.refresh
  BY <1>1, <1>2, <1>6, Numbers DEF Usable, Unspent
<1>8. Unspent'
  BY <1>1, <1>2, <1>3, <1>7 DEF Usable, Unspent, Laden
<1>9. StoredIsUsable'
  BY <1>1, <1>2, <1>3 DEF Usable, StoredIsUsable, Flying
<1>10. \A g \in Calls : flight'[g].at = "storing" => flight'[g].held.refresh \in valid'
  BY <1>1, <1>2, <1>3
<1>11. QED BY <1>5, <1>8, <1>9, <1>10 DEF Usable

LEMMA UsableStoreRenewed ==
    ASSUME Shape, Usable, NEW f \in Calls, StoreRenewed(f)
    PROVE  Usable'
<1>1. flight[f].at = "storing" /\ file' = flight[f].held /\ UNCHANGED <<issued, valid, call, wasted>>
  BY DEF StoreRenewed, Flying, issuer, rest
<1>2. flight'[f].at = "settling" /\ flight'[f].held = flight[f].held
      /\ \A g \in Calls \ {f} : flight'[g] = flight[g]
  BY DEF StoreRenewed, Shape, FlightRecord
<1>3. Numbered'
  BY <1>1, <1>2 DEF Usable, Numbered
<1>4. Unspent'
  BY <1>1, <1>2 DEF Usable, Unspent, Laden
<1>5. StoredIsUsable'
  BY <1>1 DEF Usable, StoredIsUsable
<1>6. QED BY <1>1, <1>2, <1>3, <1>4, <1>5 DEF Usable

\* A refresh that has stored its token, or has spent none, may end.
LEMMA UsableLanded ==
    ASSUME Shape, Usable, NEW f \in Calls, flight[f].at \in {"exchanging", "retrying", "settling"},
           NEW phase \in {"using", "failed"}, Landed(f, phase),
           UNCHANGED <<file, issued, valid, wasted>>
    PROVE  Usable'
<1>1. \A g \in Calls : flight[g].at # "storing"
  BY DEF Shape
<1>2. \A g \in Calls : flight'[g].at = "none" /\ flight'[g].held.refresh <= issued
  <2>1. flight'[f].at = "none" /\ flight'[f].held.refresh = 0
    BY DEF Landed, Shape, NoFlight, NoRecord
  <2>2. \A g \in Calls \ {f} : flight'[g] = flight[g] /\ flight[g].at = "none"
    BY DEF Landed, Shape
  <2>3. QED BY <2>1, <2>2, Numbers DEF Usable, Numbered
<1>3. ASSUME NEW c \in Calls
      PROVE  \/ call'[c] = call[c]
             \/ call'[c].at = phase /\ call'[c].held = flight[f].held
  <2>1. CASE At(c, "joined") /\ call[c].with = f
    <3>1. call'[c] = [call[c] EXCEPT !.at = phase, !.held = flight[f].held, !.with = NoCall]
      BY <2>1 DEF Landed
    <3>2. call[c] \in CallRecord
      BY DEF Shape
    <3>3. QED BY <3>1, <3>2 DEF CallRecord
  <2>2. CASE ~ (At(c, "joined") /\ call[c].with = f)
    BY <2>2 DEF Landed
  <2>3. QED BY <2>1, <2>2
<1>4. Numbered'
  BY <1>2, <1>3 DEF Usable, Numbered
<1>5. Unspent'
  BY <1>2, <1>3 DEF Usable, Unspent, Laden
<1>6. StoredIsUsable'
  BY <1>1 DEF Usable, StoredIsUsable, Flying
<1>7. QED BY <1>2, <1>4, <1>5, <1>6 DEF Usable

\* What joins a flight that lands holds what the flight held; the others stay.
LEMMA LandedValues ==
    ASSUME Shape, NEW f \in Calls, flight[f].at # "none",
           NEW phase \in {"using", "failed"}, Landed(f, phase)
    PROVE  /\ \A g \in Calls :
                flight'[g].at = "none" /\ flight'[g].held.refresh \in {0, flight[g].held.refresh}
           /\ \A c \in Calls :
                \/ call'[c] = call[c]
                \/ call'[c].at = phase /\ call'[c].held = flight[f].held
<1>1. ASSUME NEW g \in Calls
      PROVE  flight'[g].at = "none" /\ flight'[g].held.refresh \in {0, flight[g].held.refresh}
  <2>1. CASE g = f
    BY <2>1 DEF Landed, Shape, NoFlight, NoRecord
  <2>2. CASE g # f
    BY <2>2 DEF Landed, Shape
  <2>3. QED BY <2>1, <2>2
<1>2. ASSUME NEW c \in Calls
      PROVE  \/ call'[c] = call[c]
             \/ call'[c].at = phase /\ call'[c].held = flight[f].held
  <2>1. CASE At(c, "joined") /\ call[c].with = f
    <3>1. call'[c] = [call[c] EXCEPT !.at = phase, !.held = flight[f].held, !.with = NoCall]
      BY <2>1 DEF Landed
    <3>2. call[c] \in CallRecord
      BY DEF Shape
    <3>3. QED BY <3>1, <3>2 DEF CallRecord
  <2>2. CASE ~ (At(c, "joined") /\ call[c].with = f)
    BY <2>2 DEF Landed
  <2>3. QED BY <2>1, <2>2
<1>3. QED BY <1>1, <1>2

\* The answer that carried the successor is lost: the file keeps a wasted token.
LEMMA UsableLost ==
    ASSUME Shape, Usable, NEW f \in Calls, RenewLost(f)
    PROVE  Usable'
<1> DEFINE t == flight[f].held.refresh
<1>1. /\ flight[f].at \in {"exchanging", "retrying"} /\ t \in valid /\ issued' = issued + 1
      /\ valid' = (IF Rotating THEN (valid \ {t}) \cup {issued + 1} ELSE valid)
      /\ Landed(f, "failed") /\ UNCHANGED file /\ wasted' = wasted \cup {t}
  BY DEF RenewLost, Presenting, Flying, Redeem
<1>2. /\ \A g \in Calls :
           flight'[g].at = "none" /\ flight'[g].held.refresh \in {0, flight[g].held.refresh}
      /\ \A c \in Calls :
           \/ call'[c] = call[c]
           \/ call'[c].at = "failed" /\ call'[c].held = flight[f].held
  BY <1>1, LandedValues
<1> HIDE DEF t
<1>3. Numbered'
  <2>1. valid' \subseteq 1..issued'
    BY <1>1, ValidGrows DEF Usable
  <2>2. file'.refresh <= issued'
    BY <1>1, Numbers DEF Usable, Numbered
  <2>3. \A c \in Calls : call'[c].held.refresh <= issued'
    BY <1>1, <1>2, Numbers DEF Usable, Numbered
  <2>4. \A g \in Calls : flight'[g].held.refresh <= issued'
    BY <1>1, <1>2, Numbers DEF Usable, Numbered
  <2>5. QED BY <2>1, <2>2, <2>3, <2>4 DEF Numbered
<1>4. \A c \in Calls : call[c].at = "storing" => call[c].held.refresh \in valid'
  BY <1>1 DEF Usable, Unspent, Laden, t
<1>5. Unspent'
  BY <1>1, <1>2, <1>4 DEF Usable, Unspent, Laden
<1>6. \A g \in Calls : flight[g].at # "storing"
  BY <1>1 DEF Shape
<1>7. StoredIsUsable'
  BY <1>1, <1>6 DEF Usable, StoredIsUsable, Flying
<1>8. QED BY <1>2, <1>3, <1>5, <1>7 DEF Usable

\* A refresh whose store fails has wasted the token it spent.
LEMMA UsableStoreRenewedFails ==
    ASSUME Shape, Usable, NEW f \in Calls, StoreRenewedFails(f)
    PROVE  Usable'
<1>1. /\ flight[f].at \in {"storing", "settling"} /\ Landed(f, "failed")
      /\ UNCHANGED <<file, issued, valid>> /\ wasted' = wasted \cup Spending({f})
  BY DEF StoreRenewedFails, issuer
<1>2. /\ \A g \in Calls :
           flight'[g].at = "none" /\ flight'[g].held.refresh \in {0, flight[g].held.refresh}
      /\ \A c \in Calls :
           \/ call'[c] = call[c]
           \/ call'[c].at = "failed" /\ call'[c].held = flight[f].held
  BY <1>1, LandedValues
<1>3. Numbered'
  BY <1>1, <1>2, Numbers DEF Usable, Numbered
<1>4. Unspent'
  BY <1>1, <1>2 DEF Usable, Unspent, Laden
<1>5. \A g \in Calls : flight[g].at = "storing" => g = f
  BY <1>1 DEF Shape
<1>6. flight[f].at = "storing" => flight[f].used \in wasted'
  BY <1>1 DEF Spending, Flying
<1>7. StoredIsUsable'
  BY <1>1, <1>5, <1>6 DEF Usable, StoredIsUsable, Flying
<1>8. QED BY <1>2, <1>3, <1>4, <1>7 DEF Usable

\* So has a refresh that the end of the process keeps from storing.
LEMMA UsableCrash ==
    ASSUME Shape, Usable, Crash
    PROVE  Usable'
<1>1. UNCHANGED <<file, issued, valid>> /\ wasted' = wasted \cup Spending(Calls)
  BY DEF Crash, issuer
<1>2. \A g \in Calls : flight'[g].at = "none" /\ flight'[g].held.refresh = 0
  BY DEF Crash, NoFlight, NoRecord
<1>3. ASSUME NEW c \in Calls
      PROVE  /\ call'[c].held = call[c].held
             /\ call'[c].at \notin {"storing", "reading"}
  <2>1. call[c] \in CallRecord
    BY DEF Shape
  <2>2. QED BY <2>1 DEF Crash, CallRecord
<1>4. Numbered'
  BY <1>1, <1>2, <1>3, Numbers DEF Usable, Numbered
<1>5. Unspent'
  BY <1>1, <1>2, <1>3 DEF Unspent
<1>6. \A g \in Calls : flight[g].at = "storing" => flight[g].used \in wasted'
  BY <1>1 DEF Spending, Flying
<1>7. StoredIsUsable'
  BY <1>1, <1>6 DEF Usable, StoredIsUsable, Flying
<1>8. QED BY <1>2, <1>4, <1>5, <1>7 DEF Usable

LEMMA UsableStep ==
    ASSUME Shape, Usable, [Next]_vars
    PROVE  Usable'
<1>1. ASSUME NEW c \in Calls, Begin(c) \/ Logout(c) \/ Request(c)
      PROVE  Usable'
  BY <1>1, UsableStart DEF Begin, Logout, Request, issuer, rest
<1>2. ASSUME NEW c \in Calls, NEW l \in Calls, Poll(c, l) \/ Complete(c, l)
      PROVE  Usable'
  <2>1. \/ Start(c, "poll", "polling", l) \/ Start(c, "poll", "failed", l)
        \/ Start(c, "complete", "exchanging", l) \/ Start(c, "complete", "failed", l)
    BY <1>2 DEF Poll, Complete, TakeLogin
  <2>2. UNCHANGED <<file, issued, valid, flight, wasted>>
    BY <1>2 DEF Poll, Complete, TakeLogin, issuer, rest
  <2>3. QED BY <2>1, <2>2, UsableStart
<1>3. CASE UNCHANGED <<call, file, issued, valid, flight, wasted>>
  BY <1>3, UsableBeside DEF Usable, Numbered
<1>4. ASSUME NEW c \in Calls, Continue(c)
      PROVE  Usable'
  <2>1. CASE CodeAnswered(c) \/ PollAnswered(c) \/ ExchangeFails(c) \/ Stored(c)
    BY <2>1, UsableGo DEF CodeAnswered, PollAnswered, ExchangeFails, Stored, issuer, rest
  <2>2. CASE Answered(c)
    <3>1. UNCHANGED <<file, issued, valid, flight, wasted>>
      BY <2>2 DEF Answered, issuer, rest
    <3>2. CASE Go(c, "done") \/ Go(c, "failed")
      BY <3>1, <3>2, UsableGo
    <3>3. CASE call' = [call EXCEPT ![c].at = "opening", ![c].force = TRUE]
      <4>1. call'[c].at = "opening" /\ call'[c].held = call[c].held
            /\ \A d \in Calls \ {c} : call'[d] = call[d]
        BY <3>3 DEF Shape, CallRecord
      <4>2. QED BY <3>1, <4>1, UsableBeside DEF Usable, Numbered
    <3>4. QED BY <2>2, <3>2, <3>3 DEF Answered
  <2>3. CASE StoreFails(c) \/ ReadFails(c)
    BY <2>3, UsableGo DEF StoreFails, ReadFails, issuer, rest
  <2>4. QED BY <1>4, <2>1, <2>2, <2>3, UsableTokensGranted, UsableStore, UsableClear,
               UsableOpen, UsableLoaded DEF Continue
<1>5. ASSUME NEW f \in Calls, Fly(f)
      PROVE  Usable'
  <2>1. CASE FlightLands(f) \/ RenewFails(f)
    <3>1. Landed(f, "using") \/ Landed(f, "failed")
      BY <2>1 DEF FlightLands, RenewFails
    <3>2. /\ UNCHANGED <<file, issued, valid, wasted>>
          /\ flight[f].at \in {"exchanging", "retrying", "settling"}
      BY <2>1 DEF FlightLands, RenewFails, Presenting, Flying, issuer, rest
    <3>3. QED BY <3>1, <3>2, UsableLanded
  <2>2. QED BY <1>5, <2>1, UsableRetry, UsableRenew, UsableStoreRenewed, UsableLost,
               UsableStoreRenewedFails DEF Fly
<1>6. ASSUME NEW l \in Calls, CancelLogin(l) \/ Expire(l)
      PROVE  Usable'
  BY <1>3, <1>6 DEF CancelLogin, Expire, memory, issuer, rest
<1>7. ASSUME NEW n \in Grants, Lapse(n)
      PROVE  Usable'
  BY <1>3, <1>7 DEF Lapse, memory, issuer, rest
<1>8. CASE UNCHANGED vars
  BY <1>3, <1>8 DEF vars
<1>9. QED BY <1>1, <1>2, <1>4, <1>5, <1>6, <1>7, <1>8, UsableCrash DEF Next

\* Whatever logins, logouts and refreshes overlap, and whatever fails, the stored
\* refresh token is one the issuer still takes, one whose successor is on its way to
\* the file, or one whose successor a fault lost before it was stored.
THEOREM NeverLeftWithASpentToken == Spec => []StoredIsUsable
<1>1. Init => Shape /\ Usable
  BY ShapeInit, UsableInit
<1>2. Shape /\ Usable /\ [Next]_vars => (Shape /\ Usable)'
  BY ShapeStep, UsableStep
<1>3. Shape /\ Usable => StoredIsUsable
  BY DEF Usable
<1>4. QED BY <1>1, <1>2, <1>3, PTL DEF Spec
=============================================================================
