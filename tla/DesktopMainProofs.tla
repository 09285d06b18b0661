--------------------------- MODULE DesktopMainProofs ---------------------------
(***************************************************************************)
(* Quit of the desktop app, for any number of calls, cancels, stops and      *)
(* processes, on every platform: what it leaves behind, what it starts, and  *)
(* which inputs a task may let go of.                                       *)
(***************************************************************************)
EXTENDS DesktopMain, SpeechClientProofs

---------------------------------------------------------------------------
(* The invariant.                                                          *)

\* Nothing waits behind a stop that would begin a start when the stop ends.
Ended == \A c \in Calls : calls[c].at = "behind" => calls[c].intent # Now

\* The client was never used.
Idle ==
    /\ works = <<>> /\ procs = <<>> /\ process = None /\ ~stop.on /\ ~lease.authorized
    /\ \A c \in Calls : calls[c].at = "new"

MainTyped ==
    /\ launch \in [kind : {"speech", "probe"}, up : BOOLEAN,
                   at : {"preparing", "starting", "probing", "cleaning", "over"}]
    /\ bundle \in [work : {"running", "done", "failed"}, held : BOOLEAN]
    /\ owned \in BOOLEAN /\ attempt \in {"none", "waiting", "ok", "bad"} /\ freed \subseteq Receipts
    /\ quit \in [shutting : BOOLEAN, allowed : BOOLEAN,
                 phase : {"no", "signals", "launch", "tasks", "release"}]

\* The client is owned from the moment it can be used until its assets are released;
\* who stops it has retired it; released, it has nothing left that could begin.
Possessed ==
    /\ launch.at = "preparing" => Idle /\ ~owned /\ attempt = "none"
    /\ launch.at \in {"starting", "probing", "cleaning"} => owned
    /\ owned => ~lease.released
    /\ ~owned => Idle \/ lease.released
    /\ attempt # "none" => lease.retired
    /\ lease.released => launch.at = "over" /\ (~launch.up \/ quit.shutting) /\ ~Preparing

\* Until the page may use the client, Main alone calls it; given up, nothing goes on.
Running ==
    /\ launch.up => launch.at = "over" /\ (owned \/ quit.shutting)
    /\ launch.up \/ (launch.kind = "speech" /\ launch.at = "starting") =>
          attempt = "none" \/ quit.shutting
    /\ ~launch.up => \A c \in Calls \ {Boot, Health} : calls[c].at = "new"
    /\ launch.at = "starting" => calls[Health].at = "new"
    /\ launch.at = "probing" => calls[Boot].at = "over"
    /\ launch.at \in {"cleaning", "over"} /\ (~launch.up \/ quit.shutting) => Ended
    /\ \A c \in Calls : calls[c].at = "behind" => calls[c].intent \in DOMAIN intents

\* Each phase of Quit leaves what it waited for as it is, and so does the end.
Quitting ==
    /\ ~quit.shutting => quit.phase = "no" /\ ~quit.allowed
    /\ quit.shutting => lease.retired \/ Idle
    /\ quit.phase \in {"tasks", "release"} \/ quit.allowed => launch.at = "over"
    /\ quit.phase = "release" \/ quit.allowed => TasksOver
    /\ quit.allowed => ~bundle.held /\ (lease.released \/ Idle)

MainInv == MainTyped /\ Possessed /\ Running /\ Quitting

---------------------------------------------------------------------------
(* What a step of the client leaves to Main.                               *)

\* The steps of the client that Main, and the page, do not begin.
Runs == Settles \/ Proceeds \/ System \/ \E r \in Receipts : Cancels(r)

LEMMA CallsFacts ==
    /\ Boot \in Calls /\ Health \in Calls /\ Boot # Health
    /\ Boot \notin Receipts /\ Health \notin Receipts /\ Receipts \subseteq Calls
BY MainCalls, CallsAreApart DEF Calls

LEMMA NowIsNat == ASSUME Told' PROVE Now' \in Nat /\ DOMAIN intents' = 1..Now'
<1>1. intents' \in Seq(Intents)
  BY DEF Told, Typed
<1> QED BY <1>1, LenProperties DEF Now

\* Nothing is behind a stop that was not, and what is over or was not begun stays so.
LEMMA ForwardFacts ==
    ASSUME Told, Told', Forward, Running
    PROVE  /\ Ended => Ended'
           /\ Now' # Now => Ended'
           /\ \A c \in Calls : calls'[c].at = "behind" => calls'[c].intent \in DOMAIN intents'
           /\ \A c \in Calls : /\ calls[c].at = "new" => calls'[c].at = "new"
                               /\ calls[c].at = "over" => calls'[c].at = "over"
<1>1. Now \in Nat /\ DOMAIN intents = 1..Now /\ Now' \in Nat /\ Now' >= Now
  BY TypedFacts, NowIsNat DEF Told, Forward, Moves
<1>2. ASSUME NEW c \in Calls
      PROVE  /\ calls[c].at = "new" => calls'[c].at = "new"
             /\ calls[c].at = "over" => calls'[c].at = "over"
             /\ calls'[c].at = "behind" => /\ calls[c].at = "behind"
                                           /\ calls'[c].intent = calls[c].intent
                                           /\ calls[c].intent \in DOMAIN intents
  BY DEF Forward, Goes, Running
<1>3. DOMAIN intents \subseteq DOMAIN intents'
  BY DEF Forward, Moves
<1>4. Ended => Ended'
  BY <1>1, <1>2 DEF Ended
<1>5. Now' # Now => Ended'
  BY <1>1, <1>2 DEF Ended
<1> QED BY <1>2, <1>3, <1>4, <1>5

LEMMA TasksStayOver ==
    ASSUME Forward, freed \subseteq freed', TasksOver PROVE TasksOver'
<1> SUFFICES ASSUME NEW r \in Receipts, TaskOver(r) PROVE TaskOver(r)'
  BY DEF TasksOver
<1>1. Goes(r)
  BY CallsFacts DEF Forward
<1> QED BY <1>1 DEF Goes, TaskOver

\* A start is only begun behind a stop by what waits there.
LEMMA WorksStay == ASSUME Runs, Ended PROVE DOMAIN works' = DOMAIN works
<1>1. CASE Settles
  <2>1. GoesOn = {}
    BY DEF Ended, GoesOn, Queued
  <2> QED BY <1>1, <2>1 DEF Settles, StopEnds, StopFails, Confirms
<1>2. CASE Proceeds
  <2>1. ASSUME NEW w, Validated(w) PROVE DOMAIN works' = DOMAIN works
    BY <2>1 DEF Validated, Spawns, Fails
  <2> QED BY <1>2, <2>1 DEF Proceeds, Ready, StartTimeout, Answer, RequestTimeout, Stops
<1>3. CASE System
  BY <1>3 DEF System, KillsTree, Exits, Drains
<1>4. ASSUME NEW r, Cancels(r) PROVE DOMAIN works' = DOMAIN works
  BY <1>4 DEF Cancels, Stops
<1> QED BY <1>1, <1>2, <1>3, <1>4 DEF Runs

LEMMA StaysPrepared ==
    ASSUME Moves, DOMAIN works' = DOMAIN works, None \notin DOMAIN works, ~Preparing
    PROVE  ~Preparing'
BY DEF Moves, Preparing, Over

\* Only a validation that passes touches the lease, which is not retired then.
LEMMA RunsLease ==
    ASSUME Runs, lease \in Leases
    PROVE  /\ lease'.retired = lease.retired /\ lease'.released = lease.released
           /\ lease' # lease => \E w \in DOMAIN works : Validated(w)
<1>1. ASSUME NEW w, Validated(w)
      PROVE  lease'.retired = lease.retired /\ lease'.released = lease.released
  BY <1>1 DEF Validated, Leases
<1>2. (\E w \in DOMAIN works : Validated(w)) \/ UNCHANGED lease
  BY DEF Runs, Settles, StopEnds, StopFails, Confirms, Proceeds, Ready, StartTimeout, Answer,
         RequestTimeout, System, KillsTree, Exits, Drains, Cancels
<1> QED BY <1>1, <1>2

\* A client that was never used does nothing.
LEMMA RunsIdle == ASSUME Owed, Told, Idle, Runs PROVE Idle'
<1>1. DOMAIN works = {} /\ DOMAIN procs = {} /\ ~Starting
  BY DEF Idle, Starting
<1>2. \A r \in Receipts : ~Owned(r)
  BY CallsFacts DEF Idle, Told, Rightly, Owned
<1>3. ~StopEnds /\ ~StopFails /\ ~Ready /\ ~StartTimeout
  BY <1>1 DEF Idle, StopEnds, StopFails, Overdue, Ready, StartTimeout
<1>4. (\A w \in DOMAIN works : ~Validated(w)) /\ \A c \in Calls : ~Answer(c) /\ ~RequestTimeout(c)
  BY <1>1 DEF Idle, Answer, RequestTimeout
<1>5. ~System
  BY <1>1 DEF Idle, System, KillsTree
<1>6. \A r \in Receipts : ~Cancels(r)
  BY <1>2 DEF Cancels
<1>7. PICK i \in DOMAIN intents : Confirms(i)
  BY <1>3, <1>4, <1>5, <1>6 DEF Runs, Settles, Proceeds
<1>8. calls' = calls
  <2>1. \A c \in Calls : ~Owned(c)
    BY <1>2 DEF Owned
  <2>2. calls' = [c \in Calls |-> calls[c]] /\ calls = [c \in Calls |-> calls[c]]
    BY <1>7, <2>1 DEF Confirms, Told, Typed
  <2> QED BY <2>2
<1> QED BY <1>7, <1>8 DEF Confirms, Idle

---------------------------------------------------------------------------
(* The steps of the client.                                                *)

LEMMA RunsKeep == ASSUME Owed, Told, Runs PROVE Owed' /\ Told' /\ Forward
<1>1. CASE Settles
  <2>1. ASSUME NEW i \in DOMAIN intents, Confirms(i) PROVE Owed'
    BY <2>1, Same DEF Confirms
  <2> QED BY <1>1, <2>1, StopEndsHolds, StopFailsHolds, StopEndsTells, StopFailsTells,
             ConfirmsTells DEF Settles
<1>2. CASE Proceeds
  <2>1. ASSUME StartTimeout PROVE Owed' /\ Told' /\ Forward
    BY <2>1, StopsHolds, StopsTells DEF StartTimeout
  <2>2. ASSUME NEW c \in Calls, Answer(c) PROVE Owed' /\ Told' /\ Forward
    BY <2>2, Same, AnswerTells DEF Answer
  <2>3. ASSUME NEW c \in Calls, RequestTimeout(c) PROVE Owed' /\ Told' /\ Forward
    BY <2>3, StopsHolds, StopsTells DEF RequestTimeout
  <2>4. ASSUME NEW w \in DOMAIN works, Validated(w) PROVE Owed' /\ Told' /\ Forward
    BY <2>4, ValidatedHolds, ValidatedTells
  <2> QED BY <1>2, <2>1, <2>2, <2>3, <2>4, ReadyHolds, ReadyTells DEF Proceeds
<1>3. CASE System
  BY <1>3, KillsHolds, ExitsHolds, DrainsHolds, KillsTells, ExitsTells, DrainsTells DEF System
<1>4. ASSUME NEW r \in Receipts, Cancels(r) PROVE Owed' /\ Told' /\ Forward
  BY <1>4, CancelsHolds, CancelsTells
<1> QED BY <1>1, <1>2, <1>3, <1>4 DEF Runs

LEMMA FollowsFacts ==
    ASSUME MainTyped, Follows
    PROVE  /\ attempt' \in {"none", "waiting", "ok", "bad"} /\ freed' \subseteq Receipts
           /\ attempt' = "none" <=> attempt = "none"
           /\ freed \subseteq freed'
BY DEF MainTyped, Follows

LEMMA RunsMain ==
    ASSUME Owed, Told, MainInv, Runs, Follows, UNCHANGED <<launch, bundle, owned, quit>>
    PROVE  MainInv'
<1>1. Owed' /\ Told' /\ Forward
  BY RunsKeep
<1>2. /\ attempt' \in {"none", "waiting", "ok", "bad"} /\ freed' \subseteq Receipts
      /\ attempt' = "none" <=> attempt = "none"
      /\ freed \subseteq freed'
  BY FollowsFacts DEF MainInv
<1>3. lease'.retired = lease.retired /\ lease'.released = lease.released
  BY RunsLease DEF Owed, Formed
<1>4. /\ Ended => Ended'
      /\ \A c \in Calls : calls'[c].at = "behind" => calls'[c].intent \in DOMAIN intents'
      /\ \A c \in Calls : /\ calls[c].at = "new" => calls'[c].at = "new"
                          /\ calls[c].at = "over" => calls'[c].at = "over"
  BY <1>1, ForwardFacts DEF MainInv
<1>5. Idle => Idle'
  BY RunsIdle
<1>6. TasksOver => TasksOver'
  BY <1>1, <1>2, TasksStayOver
<1>7. lease.released => ~Preparing'
  <2>1. lease.released => Ended /\ ~Preparing
    BY DEF MainInv, Possessed, Running
  <2>2. None \notin DOMAIN works
    BY TypedFacts DEF Told
  <2> QED BY <1>1, <2>1, <2>2, WorksStay, StaysPrepared DEF Forward
<1>8. MainTyped'
  BY <1>2 DEF MainInv, MainTyped
<1>9. Possessed'
  BY <1>2, <1>3, <1>5, <1>7 DEF MainInv, Possessed
<1>10. Running'
  BY <1>2, <1>4, CallsFacts DEF MainInv, Running
<1>11. Quitting'
  BY <1>3, <1>5, <1>6 DEF MainInv, Quitting
<1> QED BY <1>8, <1>9, <1>10, <1>11 DEF MainInv

---------------------------------------------------------------------------
(* Main gives the client up.                                               *)

LEMMA StopOwnedKeeps ==
    ASSUME Owed, Told, MainTyped, RetireOwned, StopOwned
    PROVE  /\ Owed' /\ Told' /\ Forward
           /\ attempt' \in {"waiting", "ok", "bad"} /\ freed' = freed
           /\ lease'.retired /\ lease'.released = lease.released
           /\ attempt = "none" => Now' # Now
<1>1. lease' = Withdrawn /\ lease'.retired /\ lease'.released = lease.released
  BY DEF RetireOwned, Withdrawn, Owed, Formed, Leases
<1>2. CASE attempt = "waiting"
  <2>1. UNCHANGED <<intents, works, procs, stop, calls, history, platform, process, attempt, freed>>
    BY <1>2 DEF StopOwned
  <2> QED BY <1>1, <1>2, <2>1, RetireHolds, SameTells
<1>3. CASE attempt # "waiting"
  <2>1. Stops({}) /\ attempt' \in {"bad", "waiting"} /\ freed' = freed
    BY <1>3 DEF StopOwned
  <2>2. Now \in Nat
    BY TypedFacts DEF Told
  <2> QED BY <1>1, <2>1, <2>2, StopsHolds, StopsTells
<1> QED BY <1>2, <1>3

LEMMA LaunchGivesUpMain ==
    ASSUME Owed, Told, MainInv, LaunchGivesUp PROVE Owed' /\ Told' /\ MainInv'
<1>1. /\ launch.at \in {"starting", "probing"} /\ calls[Boot].at = "over"
      /\ launch.at = "probing" => calls[Health].at = "over"
      /\ launch' = [launch EXCEPT !.at = "cleaning"] /\ UNCHANGED <<bundle, owned, quit>>
      /\ RetireOwned /\ StopOwned
  BY DEF MainInv, Running, LaunchGivesUp, GivesUp
<1>2. /\ Owed' /\ Told' /\ Forward
      /\ attempt' \in {"waiting", "ok", "bad"} /\ freed' = freed
      /\ lease'.retired /\ lease'.released = lease.released
  BY <1>1, StopOwnedKeeps DEF MainInv
<1>3. /\ launch'.at = "cleaning" /\ launch'.kind = launch.kind /\ launch'.up = launch.up
      /\ launch' \in [kind : {"speech", "probe"}, up : BOOLEAN,
                      at : {"preparing", "starting", "probing", "cleaning", "over"}]
  BY <1>1 DEF MainInv, MainTyped
<1>4. /\ \A c \in Calls : calls'[c].at = "behind" => calls'[c].intent \in DOMAIN intents'
      /\ \A c \in Calls : /\ calls[c].at = "new" => calls'[c].at = "new"
                          /\ calls[c].at = "over" => calls'[c].at = "over"
  BY <1>2, ForwardFacts DEF MainInv
<1>5. ~launch.up /\ owned /\ ~lease.released
  BY <1>1 DEF MainInv, Running, Possessed
<1>6. \A c \in Calls : calls'[c].at \in {"new", "over"}
  BY <1>1, <1>4, <1>5 DEF MainInv, Running
<1>7. MainTyped'
  BY <1>1, <1>2, <1>3 DEF MainInv, MainTyped
<1>8. Possessed'
  BY <1>1, <1>2, <1>3, <1>5 DEF Possessed
<1>9. Running'
  BY <1>3, <1>4, <1>5, <1>6 DEF MainInv, Running, Ended
<1>10. Quitting'
  BY <1>1, <1>2 DEF MainInv, Quitting
<1> QED BY <1>2, <1>7, <1>8, <1>9, <1>10 DEF MainInv

LEMMA ProbeAbortsMain ==
    ASSUME Owed, Told, MainInv, ProbeAborts PROVE Owed' /\ Told' /\ MainInv'
<1>1. /\ launch.kind = "probe" /\ launch.at \in {"starting", "probing"}
      /\ UNCHANGED <<launch, bundle, owned, quit>> /\ RetireOwned /\ StopOwned
  BY DEF ProbeAborts
<1>2. /\ Owed' /\ Told' /\ Forward
      /\ attempt' \in {"waiting", "ok", "bad"} /\ freed' = freed
      /\ lease'.retired /\ lease'.released = lease.released
  BY <1>1, StopOwnedKeeps DEF MainInv
<1>3. /\ \A c \in Calls : calls'[c].at = "behind" => calls'[c].intent \in DOMAIN intents'
      /\ \A c \in Calls : /\ calls[c].at = "new" => calls'[c].at = "new"
                          /\ calls[c].at = "over" => calls'[c].at = "over"
  BY <1>2, ForwardFacts DEF MainInv
<1>4. ~launch.up /\ owned /\ ~lease.released
  BY <1>1 DEF MainInv, Running, Possessed
<1>5. MainTyped'
  BY <1>1, <1>2 DEF MainInv, MainTyped
<1>6. Possessed'
  BY <1>1, <1>2, <1>4 DEF Possessed
<1>7. Running'
  BY <1>1, <1>3, <1>4, CallsFacts DEF MainInv, Running
<1>8. Quitting'
  BY <1>1, <1>2 DEF MainInv, Quitting
<1> QED BY <1>2, <1>5, <1>6, <1>7, <1>8 DEF MainInv

\* The client as it was, for what the invariant says of it.
LEMMA ClientStays ==
    ASSUME UNCHANGED <<intents, works, procs, process, stop, calls>>
    PROVE  /\ Ended' = Ended /\ Preparing' = Preparing
           /\ lease'.authorized = lease.authorized => Idle' = Idle
           /\ freed' = freed => TasksOver' = TasksOver
BY DEF Ended, Now, Preparing, Over, Idle, TasksOver, TaskOver

LEMMA QuitMain == ASSUME Owed, Told, MainInv, Quit PROVE Owed' /\ Told' /\ MainInv'
<1>1. /\ ~quit.allowed /\ UNCHANGED <<launch, owned>>
      /\ quit' = [quit EXCEPT !.shutting = TRUE, !.phase = IF @ = "no" THEN "signals" ELSE @]
      /\ bundle' = [bundle EXCEPT !.work = IF @ = "running" /\ bundle.held THEN "failed" ELSE @]
  BY DEF Quit
<1>2. /\ quit'.shutting /\ ~quit'.allowed
      /\ quit'.phase \in {"no", "signals", "launch", "tasks", "release"}
      /\ quit.phase = "no" => quit'.phase = "signals"
      /\ quit.phase # "no" => quit'.phase = quit.phase /\ quit.shutting
      /\ quit' \in [shutting : BOOLEAN, allowed : BOOLEAN,
                    phase : {"no", "signals", "launch", "tasks", "release"}]
  BY <1>1 DEF MainInv, MainTyped, Quitting
<1>3. bundle' \in [work : {"running", "done", "failed"}, held : BOOLEAN]
  BY <1>1 DEF MainInv, MainTyped
<1>4. CASE quit.phase = "no" /\ owned
  <2>1. RetireOwned /\ StopOwned
    BY <1>4 DEF Quit
  <2>2. /\ Owed' /\ Told' /\ Forward
        /\ attempt' \in {"waiting", "ok", "bad"} /\ freed' = freed
        /\ lease'.retired /\ lease'.released = lease.released
        /\ attempt = "none" => Now' # Now
    BY <2>1, StopOwnedKeeps DEF MainInv
  <2>3. /\ Ended => Ended'
        /\ Now' # Now => Ended'
        /\ \A c \in Calls : calls'[c].at = "behind" => calls'[c].intent \in DOMAIN intents'
        /\ \A c \in Calls : /\ calls[c].at = "new" => calls'[c].at = "new"
                            /\ calls[c].at = "over" => calls'[c].at = "over"
    BY <2>2, ForwardFacts DEF MainInv
  <2>4. launch.at \in {"cleaning", "over"} => Ended'
    BY <2>2, <2>3 DEF MainInv, Running
  <2>5. MainTyped'
    BY <1>1, <1>2, <1>3, <2>2 DEF MainInv, MainTyped
  <2>6. Possessed'
    BY <1>1, <1>2, <1>4, <2>2 DEF MainInv, Possessed
  <2>7. Running'
    BY <1>1, <1>2, <2>3, <2>4, CallsFacts DEF MainInv, Running
  <2>8. Quitting'
    BY <1>2, <1>4, <2>2 DEF Quitting
  <2> QED BY <2>2, <2>5, <2>6, <2>7, <2>8 DEF MainInv
<1>5. CASE ~(quit.phase = "no" /\ owned)
  <2>1. UNCHANGED <<clientVars, attempt, freed>>
    BY <1>5 DEF Quit
  <2>2. Owed' /\ Told'
    BY <2>1, Same, SameTells DEF clientVars
  <2>3. /\ Ended' = Ended /\ Preparing' = Preparing /\ Idle' = Idle /\ TasksOver' = TasksOver
        /\ UNCHANGED <<calls, intents, lease, attempt, freed>>
    BY <2>1, ClientStays DEF clientVars
  <2>4. lease.retired \/ Idle
    BY <1>2, <1>5 DEF MainInv, Quitting, Possessed, Owed, Freed
  <2>5. MainTyped'
    BY <1>1, <1>2, <1>3, <2>3 DEF MainInv, MainTyped
  <2>6. Possessed'
    BY <1>1, <1>2, <2>3 DEF MainInv, Possessed
  <2>7. Running'
    BY <1>1, <1>2, <1>5, <2>3 DEF MainInv, Running
  <2>8. Quitting'
    BY <1>1, <1>2, <2>3, <2>4 DEF MainInv, Quitting
  <2> QED BY <2>2, <2>5, <2>6, <2>7, <2>8 DEF MainInv
<1> QED BY <1>4, <1>5

---------------------------------------------------------------------------
(* Main, and the page, use the client.                                     *)

\* What a request does to its own call, and to no other.
LEMMA RequestFacts ==
    ASSUME Owed, Told, NEW c \in Calls, Request(c)
    PROVE  /\ Owed' /\ Told' /\ Now' = Now /\ Now \in DOMAIN intents'
           /\ intents'[Now].proc = intents[Now].proc
           /\ \A d \in Calls \ {c} : calls'[d] = calls[d]
           /\ calls'[c].at \in {"behind", "starting", "sent", "over"}
           /\ calls'[c].at = "behind" => calls'[c].intent = Now
           /\ calls'[c].to \in {calls[c].to, process}
           /\ c \in Receipts => calls'[c].status \in {"starting", "running"}
           /\ UNCHANGED <<platform, procs, process, stop, failed, lease>>
<1> DEFINE status == IF c \in Receipts /\ calls[c].status = "unused" THEN "starting"
                     ELSE calls[c].status
           intent == IF c \in Receipts THEN calls[c].intent ELSE Now
           u == [calls[c] EXCEPT !.status = status, !.intent = intent]
           used == [calls EXCEPT
                      ![c].status = IF c \in Receipts /\ @ = "unused" THEN "starting" ELSE @,
                      ![c].intent = IF c \in Receipts THEN @ ELSE Now]
<1>1. Owed' /\ Told' /\ UNCHANGED <<platform, procs, process, stop, failed, lease>>
  BY RequestTells, Same DEF Request
<1>2. /\ Now \in Nat /\ DOMAIN intents = 1..Now /\ Now \in DOMAIN intents
      /\ intents \in [1..Now -> Intents]
      /\ calls[c] \in CallRecords /\ calls \in [Calls -> CallRecords]
      /\ Now' \in Nat /\ DOMAIN intents' = 1..Now'
  BY <1>1, TypedFacts, NowIsNat DEF Told, Typed
<1>3. c \in Receipts => status = "starting"
  BY FreshCall DEF Request
<1>4. /\ u.at = calls[c].at /\ u.status = status /\ u.intent = intent /\ u.to = calls[c].to
      /\ \A v : LET s == [u EXCEPT !.at = v]
                IN s.at = v /\ s.status = status /\ s.intent = intent /\ s.to = calls[c].to
      /\ \A v, b : LET s == [u EXCEPT !.at = v, !.denied = b]
                   IN s.at = v /\ s.status = status /\ s.intent = intent /\ s.to = calls[c].to
  BY <1>2 DEF CallRecords
<1>5. used[c] = u /\ (\A d \in Calls \ {c} : used[d] = calls[d]) /\ DOMAIN used = Calls
  BY <1>2
<1> HIDE DEF u, used, status, intent
<1>6. intents' = intents \/ intents' = [intents EXCEPT ![Now].work = Len(works) + 1]
  BY DEF Request, Begins
<1>7. /\ DOMAIN intents' = DOMAIN intents /\ intents'[Now].proc = intents[Now].proc
  BY <1>2, <1>6 DEF Intents
<1>8. Now' = Now
  BY <1>2, <1>7
<1>9. \/ Permitted(c) /\ calls' = [used EXCEPT ![c].at = "behind"]
      \/ calls' = [d \in Calls |-> IF d \in {c} THEN [used[d] EXCEPT !.at = "starting"] ELSE used[d]]
      \/ calls' = [used EXCEPT ![c] = [Sends(c, process) EXCEPT !.intent = used[c].intent]]
      \/ calls' = [used EXCEPT ![c].at = "over"]
      \/ calls' = [used EXCEPT ![c].at = "over", ![c].denied = TRUE]
  BY DEF Request, Begins, used
<1>10. \A d \in Calls \ {c} : calls'[d] = calls[d]
  BY <1>5, <1>9
<1>11. \/ Permitted(c) /\ calls'[c] = [u EXCEPT !.at = "behind"]
       \/ calls'[c] = [u EXCEPT !.at = "starting"]
       \/ calls'[c] = [Sends(c, process) EXCEPT !.intent = u.intent]
       \/ calls'[c] = [u EXCEPT !.at = "over"]
       \/ calls'[c] = [u EXCEPT !.at = "over", !.denied = TRUE]
  BY <1>5, <1>9
<1>12. LET s == [Sends(c, process) EXCEPT !.intent = u.intent]
       IN s.at \in {"over", "sent"} /\ s.to = process /\ (c \in Receipts => s.status = "running")
  BY <1>2 DEF Sends, CallRecords
<1>13. Permitted(c) => intent = Now
  BY DEF Permitted, intent
<1>14. /\ calls'[c].at \in {"behind", "starting", "sent", "over"}
       /\ calls'[c].at = "behind" => calls'[c].intent = Now
       /\ calls'[c].to \in {calls[c].to, process}
       /\ c \in Receipts => calls'[c].status \in {"starting", "running"}
  <2> DEFINE t == [Sends(c, process) EXCEPT !.intent = u.intent]
  <2>1. /\ t.at \in {"over", "sent"} /\ t.to = process /\ (c \in Receipts => t.status = "running")
    BY <1>12
  <2>2. calls'[c] = t \/ /\ calls'[c].at \in {"behind", "starting", "over"}
                         /\ calls'[c].at = "behind" => Permitted(c)
                         /\ calls'[c].status = status /\ calls'[c].intent = intent
                         /\ calls'[c].to = calls[c].to
    <3>1. CASE calls'[c] = [u EXCEPT !.at = "behind"] /\ Permitted(c)
      BY <1>4, <3>1
    <3>2. CASE calls'[c] = [u EXCEPT !.at = "starting"]
      BY <1>4, <3>2
    <3>3. CASE calls'[c] = [u EXCEPT !.at = "over"]
      BY <1>4, <3>3
    <3>4. CASE calls'[c] = [u EXCEPT !.at = "over", !.denied = TRUE]
      BY <1>4, <3>4
    <3> QED BY <1>11, <3>1, <3>2, <3>3, <3>4
  <2> HIDE DEF t
  <2> QED BY <1>3, <1>13, <2>1, <2>2
<1> QED BY <1>1, <1>2, <1>7, <1>8, <1>10, <1>14

LEMMA LaunchBindsMain ==
    ASSUME Owed, Told, MainInv, LaunchBinds PROVE Owed' /\ Told' /\ MainInv'
<1>1. /\ launch.at = "preparing" /\ ~quit.shutting /\ Request(Boot)
      /\ bundle' = [bundle EXCEPT !.held = FALSE] /\ owned' = TRUE
      /\ launch' = [launch EXCEPT !.at = "starting"] /\ UNCHANGED <<attempt, freed, quit>>
  BY DEF LaunchBinds, Admitted
<1>2. /\ launch'.at = "starting" /\ launch'.kind = launch.kind /\ launch'.up = launch.up
      /\ launch' \in [kind : {"speech", "probe"}, up : BOOLEAN,
                      at : {"preparing", "starting", "probing", "cleaning", "over"}]
      /\ bundle' \in [work : {"running", "done", "failed"}, held : BOOLEAN]
  BY <1>1 DEF MainInv, MainTyped
<1>3. /\ Owed' /\ Told' /\ Now' = Now /\ Now \in DOMAIN intents'
      /\ \A d \in Calls \ {Boot} : calls'[d] = calls[d]
      /\ calls'[Boot].at = "behind" => calls'[Boot].intent = Now
      /\ UNCHANGED lease
  BY <1>1, RequestFacts, CallsFacts
<1>4. Idle /\ ~launch.up /\ ~lease.released /\ attempt = "none"
  BY <1>1 DEF MainInv, Possessed, Running
<1>5. MainTyped'
  BY <1>1, <1>2 DEF MainInv, MainTyped
<1>6. Possessed'
  BY <1>1, <1>2, <1>3, <1>4 DEF Possessed
<1>7. Running'
  BY <1>1, <1>2, <1>3, <1>4, CallsFacts DEF Running, Idle
<1>8. Quitting'
  BY <1>1 DEF MainInv, Quitting
<1> QED BY <1>3, <1>5, <1>6, <1>7, <1>8 DEF MainInv

LEMMA LaunchGoesOnMain ==
    ASSUME Owed, Told, MainInv, LaunchGoesOn PROVE Owed' /\ Told' /\ MainInv'
<1>1. /\ launch.at = "starting" /\ calls[Boot].at = "over" /\ ~quit.shutting
      /\ UNCHANGED <<bundle, owned, attempt, freed, quit>>
  BY DEF LaunchGoesOn, Booted, Admitted
<1>2. owned /\ ~launch.up /\ ~lease.released
  BY <1>1 DEF MainInv, Possessed, Running
<1>3. Quitting'
  BY <1>1 DEF MainInv, Quitting
<1>4. CASE launch.kind = "speech" /\ launch' = [launch EXCEPT !.at = "over", !.up = TRUE]
           /\ UNCHANGED vars
  <2>1. /\ launch'.at = "over" /\ launch'.up
        /\ launch' \in [kind : {"speech", "probe"}, up : BOOLEAN,
                        at : {"preparing", "starting", "probing", "cleaning", "over"}]
    BY <1>4 DEF MainInv, MainTyped
  <2>2. Owed' /\ Told' /\ UNCHANGED <<calls, intents, lease>>
    BY <1>4, Same, SameTells DEF vars
  <2>3. attempt = "none"
    BY <1>1, <1>4 DEF MainInv, Running
  <2>4. MainTyped'
    BY <1>1, <2>1 DEF MainInv, MainTyped
  <2>5. Possessed'
    BY <1>1, <1>2, <2>1, <2>2, <2>3 DEF Possessed
  <2>6. Running'
    BY <1>1, <1>2, <2>1, <2>2, <2>3 DEF MainInv, Running
  <2> QED BY <1>3, <2>2, <2>4, <2>5, <2>6 DEF MainInv
<1>5. CASE launch.kind = "probe" /\ launch' = [launch EXCEPT !.at = "probing"]
           /\ Request(Health)
  <2>1. /\ launch'.at = "probing" /\ launch'.kind = "probe" /\ launch'.up = launch.up
        /\ launch' \in [kind : {"speech", "probe"}, up : BOOLEAN,
                        at : {"preparing", "starting", "probing", "cleaning", "over"}]
    BY <1>5 DEF MainInv, MainTyped
  <2>2. /\ Owed' /\ Told' /\ Now' = Now /\ Now \in DOMAIN intents'
        /\ \A d \in Calls \ {Health} : calls'[d] = calls[d]
        /\ calls'[Health].at = "behind" => calls'[Health].intent = Now
        /\ UNCHANGED lease
    BY <1>5, RequestFacts, CallsFacts
  <2>3. \A c \in Calls : calls'[c].at = "behind" => calls'[c].intent \in DOMAIN intents'
    <3>1. DOMAIN intents' = DOMAIN intents
      BY <2>2, NowIsNat, TypedFacts DEF Told
    <3> QED BY <2>2, <3>1 DEF MainInv, Running
  <2>4. MainTyped'
    BY <1>1, <2>1 DEF MainInv, MainTyped
  <2>5. Possessed'
    BY <1>1, <1>2, <2>1, <2>2 DEF MainInv, Possessed
  <2>6. Running'
    BY <1>1, <1>2, <2>1, <2>2, <2>3, CallsFacts DEF MainInv, Running
  <2> QED BY <1>3, <2>2, <2>4, <2>5, <2>6 DEF MainInv
<1> QED BY <1>4, <1>5 DEF LaunchGoesOn

LEMMA PageAsksMain ==
    ASSUME Owed, Told, MainInv, PageAsks PROVE Owed' /\ Told' /\ MainInv'
<1>1. launch.up /\ ~quit.shutting
      /\ UNCHANGED <<launch, bundle, owned, attempt, freed, quit>>
  BY DEF PageAsks, MayAsk, Admitted, mainVars
<1>2. launch.at = "over" /\ owned /\ ~lease.released /\ attempt = "none"
  BY <1>1 DEF MainInv, Possessed, Running
<1>3. MainTyped'
  BY <1>1 DEF MainInv, MainTyped
<1>4. Quitting'
  BY <1>1 DEF MainInv, Quitting
<1>5. UNCHANGED lease => Possessed'
  BY <1>1, <1>2 DEF Possessed
<1>6. ASSUME NEW c \in Receipts \cup {Health}, Request(c)
      PROVE  Owed' /\ Told' /\ MainInv'
  <2>1. /\ Owed' /\ Told' /\ Now' = Now /\ Now \in DOMAIN intents'
        /\ \A d \in Calls \ {c} : calls'[d] = calls[d]
        /\ calls'[c].at = "behind" => calls'[c].intent = Now
        /\ UNCHANGED lease
    BY <1>6, RequestFacts, CallsFacts
  <2>2. \A d \in Calls : calls'[d].at = "behind" => calls'[d].intent \in DOMAIN intents'
    <3>1. DOMAIN intents' = DOMAIN intents
      BY <2>1, NowIsNat, TypedFacts DEF Told
    <3> QED BY <2>1, <3>1 DEF MainInv, Running
  <2>3. Running'
    BY <1>1, <1>2, <2>2 DEF Running
  <2> QED BY <1>3, <1>4, <1>5, <2>1, <2>3 DEF MainInv
<1>7. ASSUME NEW c \in Receipts, Create(c)
      PROVE  Owed' /\ Told' /\ MainInv'
  <2>1. Owed' /\ Told' /\ UNCHANGED <<intents, lease>>
    BY <1>7, CreateTells, Same DEF Create
  <2>2. \A d \in Calls : calls'[d].at = "behind" => calls'[d] = calls[d]
    <3>1. c \in Calls /\ calls'[c].at = "made" /\ \A d \in Calls \ {c} : calls'[d] = calls[d]
      BY <1>7, CallsFacts DEF Create, NewCall, Told, Typed
    <3> QED BY <3>1
  <2>3. Running'
    BY <1>1, <1>2, <2>1, <2>2 DEF MainInv, Running
  <2> QED BY <1>3, <1>4, <1>5, <2>1, <2>3 DEF MainInv
<1> QED BY <1>6, <1>7 DEF PageAsks

---------------------------------------------------------------------------
(* The assets are given back.                                              *)

LEMMA ReleasesKeeps ==
    ASSUME Owed, Told, ReleasesOwned,
           UNCHANGED <<platform, intents, works, procs, process, stop, failed, calls, history>>
    PROVE  Owed' /\ Told' /\ ~Preparing /\ owned' = FALSE /\ lease'.released
           /\ lease'.retired /\ lease.retired
<1>1. MayRelease /\ lease' = [lease EXCEPT !.released = TRUE] /\ owned' = FALSE
  BY DEF ReleasesOwned
<1>2. ~Preparing /\ lease'.released /\ lease'.retired /\ lease.retired
  BY <1>1 DEF MayRelease, Owed, Formed, Leases
<1> QED BY <1>1, <1>2, ReleaseHolds, SameTells

LEMMA LaunchCleansMain ==
    ASSUME Owed, Told, MainInv, LaunchCleans PROVE Owed' /\ Told' /\ MainInv'
<1>1. /\ launch.at = "cleaning" /\ launch' = [launch EXCEPT !.at = "over"]
      /\ UNCHANGED <<platform, intents, works, procs, process, stop, failed, calls, history,
                     bundle, attempt, freed, quit>>
      /\ (owned /\ ReleasesOwned) \/ UNCHANGED <<lease, owned>>
  BY DEF LaunchCleans
<1>2. /\ launch'.at = "over" /\ launch'.kind = launch.kind /\ launch'.up = launch.up
      /\ launch' \in [kind : {"speech", "probe"}, up : BOOLEAN,
                      at : {"preparing", "starting", "probing", "cleaning", "over"}]
  BY <1>1 DEF MainInv, MainTyped
<1>3. ~launch.up /\ owned /\ ~lease.released /\ Ended
  BY <1>1 DEF MainInv, Possessed, Running
<1>4. /\ Owed' /\ Told'
      /\ \/ owned' = FALSE /\ lease'.released /\ lease'.retired /\ ~Preparing
         \/ UNCHANGED <<lease, owned>>
  BY <1>1, <1>3, ReleasesKeeps, Same, SameTells
<1>5. Ended' = Ended /\ Preparing' = Preparing /\ TasksOver' = TasksOver
  BY <1>1, ClientStays
<1>6. MainTyped'
  <2>1. owned' \in BOOLEAN
    BY <1>4 DEF MainInv, MainTyped
  <2> QED BY <1>1, <1>2, <2>1 DEF MainInv, MainTyped
<1>7. Possessed'
  BY <1>1, <1>2, <1>3, <1>4, <1>5 DEF MainInv, Possessed
<1>8. Running'
  BY <1>1, <1>2, <1>3, <1>4, <1>5 DEF MainInv, Running
<1>9. Quitting'
  <2>1. ~quit.allowed
    BY <1>1 DEF MainInv, Quitting
  <2>2. Idle' => Idle' = Idle \/ lease'.retired
    BY <1>1, <1>4, ClientStays
  <2>3. UNCHANGED lease => Idle' = Idle
    BY <1>1, ClientStays
  <2> QED BY <1>1, <1>2, <1>4, <1>5, <2>1, <2>3 DEF MainInv, Quitting
<1> QED BY <1>4, <1>6, <1>7, <1>8, <1>9 DEF MainInv

LEMMA QuitReleasesMain ==
    ASSUME Owed, Told, MainInv, QuitReleases PROVE Owed' /\ Told' /\ MainInv'
<1>1. /\ quit.phase = "release" /\ bundle' = [bundle EXCEPT !.held = FALSE]
      /\ quit' = [quit EXCEPT !.phase = "no", !.allowed = TRUE]
      /\ UNCHANGED <<platform, intents, works, procs, process, stop, failed, calls, history,
                     launch, attempt, freed>>
      /\ IF owned THEN ReleasesOwned ELSE UNCHANGED <<lease, owned>>
  BY DEF QuitReleases
<1>2. /\ quit'.phase = "no" /\ quit'.allowed /\ quit'.shutting = quit.shutting /\ ~bundle'.held
      /\ quit' \in [shutting : BOOLEAN, allowed : BOOLEAN,
                    phase : {"no", "signals", "launch", "tasks", "release"}]
      /\ bundle' \in [work : {"running", "done", "failed"}, held : BOOLEAN]
  BY <1>1 DEF MainInv, MainTyped
<1>3. quit.shutting /\ launch.at = "over" /\ TasksOver
  BY <1>1 DEF MainInv, Quitting
<1>4. /\ Owed' /\ Told' /\ owned' = FALSE
      /\ \/ lease'.released /\ lease'.retired /\ ~Preparing
         \/ UNCHANGED lease /\ (Idle \/ lease.released) /\ ~owned
  <2>1. CASE owned
    BY <1>1, <2>1, ReleasesKeeps
  <2>2. CASE ~owned
    BY <1>1, <2>2, Same, SameTells DEF MainInv, Possessed
  <2> QED BY <2>1, <2>2
<1>5. /\ Ended' = Ended /\ Preparing' = Preparing /\ TasksOver' = TasksOver
      /\ UNCHANGED lease => Idle' = Idle
  BY <1>1, ClientStays
<1>6. MainTyped'
  BY <1>1, <1>2, <1>4 DEF MainInv, MainTyped
<1>7. Possessed'
  BY <1>1, <1>2, <1>3, <1>4, <1>5 DEF MainInv, Possessed
<1>8. Running'
  BY <1>1, <1>2, <1>3, <1>5 DEF MainInv, Running
<1>9. Quitting'
  BY <1>1, <1>2, <1>3, <1>4, <1>5 DEF MainInv, Quitting
<1> QED BY <1>4, <1>6, <1>7, <1>8, <1>9 DEF MainInv

\* The steps of Main that leave the client alone.
LEMMA MainAlone ==
    ASSUME Owed, Told, MainInv, UNCHANGED <<vars, owned, attempt, freed>>,
           BundleEnds \/ LaunchDrops \/ QuitProceeds \/ QuitFails
    PROVE  Owed' /\ Told' /\ MainInv'
<1>1. Owed' /\ Told' /\ UNCHANGED <<intents, works, procs, process, stop, calls, lease>>
  BY Same, SameTells DEF vars
<1>2. /\ Ended' = Ended /\ Preparing' = Preparing /\ Idle' = Idle /\ TasksOver' = TasksOver
      /\ UNCHANGED <<calls, intents, lease, owned, attempt, freed>>
  BY <1>1, ClientStays
<1>3. CASE BundleEnds
  <2>1. /\ bundle' \in [work : {"running", "done", "failed"}, held : BOOLEAN]
        /\ bundle'.held = bundle.held /\ UNCHANGED <<launch, quit>>
    BY <1>3 DEF BundleEnds, MainInv, MainTyped
  <2> QED BY <1>1, <1>2, <2>1 DEF MainInv, MainTyped, Possessed, Running, Quitting
<1>4. CASE LaunchDrops
  <2>1. /\ launch.at = "preparing" /\ launch'.at = "over"
        /\ launch'.kind = launch.kind /\ launch'.up = launch.up
        /\ launch' \in [kind : {"speech", "probe"}, up : BOOLEAN,
                        at : {"preparing", "starting", "probing", "cleaning", "over"}]
        /\ UNCHANGED quit
    BY <1>4 DEF LaunchDrops, MainInv, MainTyped
  <2>2. /\ bundle' \in [work : {"running", "done", "failed"}, held : BOOLEAN]
        /\ bundle'.held => bundle.held
    BY <1>4 DEF LaunchDrops, MainInv, MainTyped
  <2>3. Idle /\ ~launch.up /\ Ended /\ ~owned /\ ~lease.released
    BY <2>1 DEF MainInv, Possessed, Running, Idle, Ended
  <2> QED BY <1>1, <1>2, <2>1, <2>2, <2>3 DEF MainInv, MainTyped, Possessed, Running, Quitting
<1>5. CASE QuitProceeds \/ QuitFails
  <2>1. /\ quit' \in [shutting : BOOLEAN, allowed : BOOLEAN,
                      phase : {"no", "signals", "launch", "tasks", "release"}]
        /\ quit'.shutting = quit.shutting /\ quit'.allowed = quit.allowed /\ quit.phase # "no"
        /\ quit'.phase = "tasks" => launch.at = "over"
        /\ quit'.phase = "release" => TasksOver /\ quit.phase = "tasks"
        /\ UNCHANGED <<launch, bundle>>
    BY <1>5 DEF QuitProceeds, QuitFails, Phase, MainInv, MainTyped
  <2> QED BY <1>1, <1>2, <2>1 DEF MainInv, MainTyped, Possessed, Running, Quitting
<1> QED BY <1>3, <1>4, <1>5

---------------------------------------------------------------------------
(* The theorems.                                                           *)

LEMMA InitMainHolds == InitMain => Owed /\ Told /\ MainInv
<1> SUFFICES ASSUME InitMain PROVE Owed /\ Told /\ MainInv
  OBVIOUS
<1>1. Owed /\ Told
  BY InitHolds, InitTells DEF InitMain
<1>2. launch.at = "preparing" /\ ~launch.up /\ MainTyped
  BY DEF InitMain, MainTyped
<1>3. Idle /\ ~lease.released
  BY DEF InitMain, Init, Idle, NoStop, NewCall
<1>4. /\ owned = FALSE /\ attempt = "none"
      /\ ~quit.shutting /\ quit.phase = "no" /\ ~quit.allowed
  BY DEF InitMain
<1>5. Possessed /\ Running /\ Quitting
  BY <1>2, <1>3, <1>4 DEF Possessed, Running, Quitting, Idle
<1> QED BY <1>1, <1>2, <1>5 DEF MainInv

\* What a step does: the client runs, or Main and the page act on it.
LEMMA NextMainCases ==
    ASSUME NextMain
    PROVE  \/ Runs /\ Follows /\ UNCHANGED <<launch, bundle, owned, quit>>
           \/ /\ BundleEnds \/ LaunchDrops \/ QuitProceeds \/ QuitFails
              /\ UNCHANGED <<vars, owned, attempt, freed>>
           \/ LaunchBinds \/ LaunchGoesOn \/ LaunchGivesUp \/ LaunchCleans
           \/ QuitReleases \/ PageAsks \/ Quit \/ ProbeAborts
<1>1. CASE ClientProceeds \/ (System /\ Follows /\ UNCHANGED <<launch, bundle, owned, quit>>)
  BY <1>1 DEF ClientProceeds, Runs
<1>2. CASE \E r \in Receipts : TaskCancels(r) \/ PageCancels(r)
  BY <1>2 DEF TaskCancels, PageCancels, Runs
<1>3. CASE BundleEnds \/ LaunchDrops \/ QuitProceeds \/ QuitFails
  BY <1>3 DEF BundleEnds, LaunchDrops, QuitProceeds, QuitFails, Phase
<1> QED BY <1>1, <1>2, <1>3 DEF NextMain, MainProceeds

LEMMA NextMainHolds ==
    ASSUME Owed, Told, MainInv, [NextMain]_allVars PROVE Owed' /\ Told' /\ MainInv'
<1>1. CASE Runs /\ Follows /\ UNCHANGED <<launch, bundle, owned, quit>>
  BY <1>1, RunsKeep, RunsMain
<1>2. CASE UNCHANGED allVars
  <2>1. Owed' /\ Told' /\ UNCHANGED <<intents, works, procs, process, stop, calls, lease>>
    BY <1>2, Same, SameTells DEF allVars, vars
  <2>2. /\ Ended' = Ended /\ Preparing' = Preparing /\ Idle' = Idle /\ TasksOver' = TasksOver
        /\ UNCHANGED <<calls, intents, lease, mainVars>>
    BY <1>2, <2>1, ClientStays DEF allVars, mainVars
  <2> QED BY <2>1, <2>2 DEF mainVars, MainInv, MainTyped, Possessed, Running, Quitting
<1> QED BY <1>1, <1>2, NextMainCases, MainAlone, LaunchBindsMain, LaunchGoesOnMain,
           LaunchGivesUpMain, LaunchCleansMain, QuitReleasesMain, PageAsksMain, QuitMain,
           ProbeAbortsMain

\* What the main process knows of its client, at every moment of launch, use and Quit.
THEOREM MainIsSound == SpecMain => [](Owed /\ Told /\ MainInv)
<1>1. (Owed /\ Told /\ MainInv) /\ [NextMain]_allVars => (Owed /\ Told /\ MainInv)'
  BY NextMainHolds
<1> QED BY InitMainHolds, <1>1, PTL DEF SpecMain

\* Quit is clean: when the app may end, no process of it runs, none is prepared, no
\* descendant is left, the assets are released and every task has let go of its input;
\* through failed launches, aborted probes, stops that failed and quits asked again.
THEOREM QuitLeavesNothing == SpecMain => []QuitIsClean
<1>1. ASSUME Owed, Told, MainInv PROVE QuitIsClean
  <2> SUFFICES ASSUME quit.allowed
               PROVE  /\ \A p \in DOMAIN procs : Gone(p) /\ ~Alive(p)
                      /\ ~Preparing /\ ~bundle.held /\ (lease.authorized => lease.released)
                      /\ TasksOver
    BY DEF QuitIsClean
  <2>1. ~bundle.held /\ TasksOver /\ (lease.released \/ Idle)
    BY <1>1 DEF MainInv, Quitting
  <2>2. CASE lease.released
    BY <1>1, <2>1, <2>2 DEF MainInv, Possessed, Owed, Freed
  <2>3. CASE Idle
    BY <2>1, <2>3 DEF Idle, Preparing
  <2> QED BY <2>1, <2>2, <2>3
<1> QED BY <1>1, MainIsSound, PTL

\* What a retired, or unused, client does adds no process.
LEMMA NothingSpawned ==
    ASSUME Owed, Told, lease.retired \/ Idle,
           Runs \/ StopOwned \/ UNCHANGED procs
    PROVE  DOMAIN procs' = DOMAIN procs
<1>1. CASE UNCHANGED procs
  BY <1>1
<1>2. CASE StopOwned
  BY <1>2 DEF StopOwned, Stops
<1>3. CASE Settles \/ System
  BY <1>3 DEF Settles, StopEnds, StopFails, Confirms, System, KillsTree, Exits, Drains
<1>4. CASE Proceeds
  <2>1. ASSUME NEW w \in DOMAIN works, Validated(w) PROVE DOMAIN procs' = DOMAIN procs
    <3>1. works # <<>>
      BY <2>1
    <3> QED BY <2>1, <3>1 DEF Validated, Authorised, Idle
  <2> QED BY <1>4, <2>1 DEF Proceeds, Ready, StartTimeout, Answer, RequestTimeout, Stops
<1>5. ASSUME NEW r, Cancels(r) PROVE DOMAIN procs' = DOMAIN procs
  BY <1>5 DEF Cancels, Stops
<1> QED BY <1>1, <1>2, <1>3, <1>4, <1>5 DEF Runs

\* From the first request to quit on nothing is spawned: the client was retired in the
\* step that closed admission, or it had never been bound to its assets (before-quit).
THEOREM QuitSpawnsNothing == SpecMain => NothingSpawnsAfterQuit
<1>1. ASSUME Owed, Told, MainInv, [NextMain]_allVars, quit.shutting
      PROVE  Len(procs') = Len(procs)
  <2>1. lease.retired \/ Idle
    BY <1>1 DEF MainInv, Quitting
  <2>2. Runs \/ StopOwned \/ UNCHANGED procs
    <3>1. ~LaunchBinds /\ ~LaunchGoesOn /\ ~PageAsks
      BY <1>1 DEF LaunchBinds, LaunchGoesOn, PageAsks, MayAsk, Admitted
    <3>2. LaunchGivesUp => StopOwned
      BY DEF LaunchGivesUp, GivesUp
    <3>3. ProbeAborts => StopOwned
      BY DEF ProbeAborts
    <3>4. Quit => StopOwned \/ UNCHANGED procs
      BY DEF Quit, clientVars
    <3>5. LaunchCleans \/ QuitReleases \/ UNCHANGED vars \/ UNCHANGED allVars => UNCHANGED procs
      BY DEF LaunchCleans, QuitReleases, vars, allVars
    <3> QED BY <1>1, <3>1, <3>2, <3>3, <3>4, <3>5, NextMainCases
  <2>3. DOMAIN procs' = DOMAIN procs
    BY <1>1, <2>1, <2>2, NothingSpawned
  <2>4. IsSeq(procs) /\ IsSeq(procs')
    BY <1>1, NextMainHolds DEF Owed, Formed
  <2>5. /\ DOMAIN procs = 1..Len(procs) /\ Len(procs) \in Nat
        /\ DOMAIN procs' = 1..Len(procs') /\ Len(procs') \in Nat
    BY <2>4, SeqDomain
  <2> QED BY <2>3, <2>5
<1>2. (Owed /\ Told /\ MainInv) /\ [NextMain]_allVars
        => [quit.shutting => Len(procs') = Len(procs)]_allVars
  BY <1>1
<1> QED BY <1>2, MainIsSound, PTL DEF SpecMain, NothingSpawnsAfterQuit

---------------------------------------------------------------------------
(* Who may still read an input.  A leader of Windows may leave descendants when *)
(* it exits: what was sent to it is then answered, or it is being stopped, which *)
(* waits for its tree, or the client has failed and confirms nothing any more.  *)

Finished(r) == calls[r].at = "over" /\ calls[r].status = "completed"

\* What is sent has a receipt that says so; only what is over is completed.
Logged(r) ==
    /\ calls[r].status = "completed" => calls[r].at = "over"
    /\ calls[r].to # None => calls[r].status # "none"

\* A process that is not of the current intent any more was asked to end, and on
\* Windows it is being stopped unless the client has failed.
Asked ==
    /\ stop.on => ~failed
    /\ process # None => procs[process].intent \in DOMAIN intents
    /\ process # None /\ intents[Now].proc # process =>
          /\ intents[procs[process].intent].error
          /\ platform = "windows" => failed \/ (stop.on /\ stop.proc = process)

Abandoned(r) ==
    LET p == calls[r].to IN
    p # None /\ procs[p].at # "up" /\ procs[p].tree =>
        failed \/ Finished(r) \/ (stop.on /\ stop.proc = p)

Left == Asked /\ \A r \in Receipts : Logged(r) /\ Abandoned(r)

\* Once a stop of Main was confirmed, no process is there or will be, and none that
\* is not over has an input of a task that was freed.
Unread ==
    freed # {} =>
        /\ attempt # "none" /\ process = None
        /\ \A r \in freed : calls[r].to # None => Finished(r) \/ ~Alive(calls[r].to)

\* What a step does to a receipt: it is sent to the process there is or not at all.
Logs(r) ==
    /\ Logged(r)'
    /\ calls'[r].to \in {calls[r].to, process}
    /\ Finished(r) => Finished(r)'

LEMMA GoesLogs == ASSUME NEW r \in Receipts, Goes(r), Logged(r) PROVE Logs(r)
BY DEF Goes, Logged, Logs, Finished

LEMMA SentTo ==
    ASSUME Owed, Told, NEW r \in Receipts, calls[r].to # None
    PROVE  /\ calls[r].to \in DOMAIN procs /\ calls[r].at \notin {"new", "made"}
           /\ procs[calls[r].to].intent = calls[r].intent /\ calls[r].intent \in DOMAIN intents
           /\ calls[r].to = intents[calls[r].intent].proc
           /\ platform # "windows" => ~procs[calls[r].to].tree
<1>1. Rightly(r)
  BY DEF Told
<1>2. /\ calls[r].intent \in DOMAIN intents /\ calls[r].to = intents[calls[r].intent].proc
      /\ calls[r].at \notin {"new", "made"}
  BY <1>1 DEF Rightly
<1>3. calls[r].to \in DOMAIN procs /\ procs[calls[r].to].intent = calls[r].intent
  BY <1>2 DEF Told, Linked
<1> QED BY <1>2, <1>3 DEF Owed, Accounted

\* A process keeps being accounted for as long as it neither exits nor is stopped.
LEMMA AbandonedStays ==
    ASSUME Owed, Told, Told', NEW r \in Receipts, Abandoned(r), Logs(r),
           calls'[r].to = calls[r].to \/ process \in {None, process'},
           failed => failed',
           calls[r].to # None =>
              LET p == calls[r].to IN
              /\ procs[p].at = "up" => procs'[p].at = "up"
              /\ procs'[p].tree => procs[p].tree
              /\ stop.on /\ stop.proc = p /\ procs'[p].tree =>
                    failed' \/ (stop'.on /\ stop'.proc = p)
    PROVE  Abandoned(r)'
<1> SUFFICES ASSUME calls'[r].to # None, procs'[calls'[r].to].at # "up",
                    procs'[calls'[r].to].tree
             PROVE  failed' \/ Finished(r)' \/ (stop'.on /\ stop'.proc = calls'[r].to)
  BY DEF Abandoned
<1>1. calls'[r].to = calls[r].to
  <2>1. process' # None => procs'[process'].at = "up"
    BY DEF Told, OneUp
  <2> QED BY <2>1 DEF Logs
<1> QED BY <1>1 DEF Abandoned, Logs

\* The steps that neither end, nor stop, nor begin a process.
LEMMA LeftAsIs ==
    ASSUME Owed, Told, Told', Moves, Left,
           UNCHANGED <<platform, process, failed>>,
           stop'.on = stop.on, stop'.proc = stop.proc,
           Now' = Now, intents'[Now].proc = intents[Now].proc,
           \A p \in DOMAIN procs : /\ procs[p].at = "up" => procs'[p].at = "up"
                                   /\ procs'[p].tree => procs[p].tree,
           \A r \in Receipts : Logs(r)
    PROVE  Left'
<1>1. Asked'
  <2>1. process # None => process \in DOMAIN procs
    BY ProcessFacts
  <2> QED BY <2>1 DEF Left, Asked, Moves
<1>2. ASSUME NEW r \in Receipts PROVE Logged(r)' /\ Abandoned(r)'
  <2>1. Abandoned(r) /\ Logs(r) /\ (calls[r].to # None => calls[r].to \in DOMAIN procs)
    BY SentTo DEF Left
  <2> QED BY <2>1, AbandonedStays DEF Logs
<1> QED BY <1>1, <1>2 DEF Left

---------------------------------------------------------------------------
(* Each step of the client.                                                *)

LEMMA StopsLeft ==
    ASSUME Owed, Told, Left, NEW over, Stops(over), Told', Forward,
           Now' = Now + 1, intents'[Now].error, intents'[Now'].proc = None
    PROVE  Left'
<1>1. /\ UNCHANGED <<platform, process, failed>>
      /\ stop' = IF ~failed /\ ~stop.on
                 THEN [on |-> TRUE, proc |-> process, work |-> Len(works), intent |-> Now,
                       util |-> process # None /\ platform = "windows"]
                 ELSE stop
  BY DEF Stops
<1>2. ASSUME NEW p \in DOMAIN procs
      PROVE  procs'[p].at = procs[p].at /\ procs'[p].tree = procs[p].tree
             /\ procs'[p].intent = procs[p].intent
  <2>1. Shaped(procs[p])
    BY ProcessFacts
  <2>2. procs'[p] = procs[p] \/ procs'[p] = [procs[p] EXCEPT !.open = FALSE]
    BY DEF Stops
  <2> QED BY <2>1, <2>2 DEF Shaped
<1>3. /\ process # None => process \in DOMAIN procs
      /\ Now \in Nat /\ Now \in DOMAIN intents
  BY ProcessFacts, TypedFacts DEF Told
<1>4. stop.on => process \in {None, stop.proc}
  BY DEF Told, Halting
<1>5. Asked'
  <2>1. stop'.on => ~failed'
    BY <1>1 DEF Left, Asked
  <2> SUFFICES ASSUME process # None
               PROVE  /\ procs'[process].intent \in DOMAIN intents'
                      /\ intents'[procs'[process].intent].error
                      /\ failed' \/ (stop'.on /\ stop'.proc = process)
    BY <1>1, <2>1 DEF Asked
  <2>2. procs'[process].intent = procs[process].intent
        /\ procs[process].intent \in DOMAIN intents
        /\ procs[process].intent \in DOMAIN intents'
    BY <1>2, <1>3 DEF Left, Asked, Forward, Moves
  <2>3. intents[Now].proc = process => procs[process].intent = Now
    BY <1>3 DEF Told, Linked
  <2>4. intents'[procs[process].intent].error
    BY <2>2, <2>3 DEF Left, Asked, Forward, Moves
  <2>5. failed' \/ (stop'.on /\ stop'.proc = process)
    BY <1>1, <1>4
  <2> QED BY <2>2, <2>4, <2>5
<1>6. ASSUME NEW r \in Receipts PROVE Logged(r)' /\ Abandoned(r)'
  <2>1. Logs(r)
    BY GoesLogs, CallsFacts DEF Left, Forward
  <2>2. calls[r].to # None => calls[r].to \in DOMAIN procs
    BY SentTo
  <2>3. Abandoned(r)'
    BY <1>1, <1>2, <2>1, <2>2, AbandonedStays DEF Left
  <2> QED BY <2>1, <2>3 DEF Logs
<1> QED BY <1>5, <1>6 DEF Left

LEMMA SpawnsLeft ==
    ASSUME Owed, Told, Left, NEW w \in DOMAIN works, works[w].at = "validating",
           ~works[w].cancelled, NEW up \in BOOLEAN, Spawns(w, up), UNCHANGED <<platform, stop, failed>>,
           Told', Forward
    PROVE  Left'
<1> DEFINE n == Len(procs) + 1
           e == Launched(works[w].intent, up)
<1>1. process = None /\ ~stop.on /\ works[w].intent = Now
  BY DEF Told, Busy
<1>2. /\ procs' = Append(procs, e)
      /\ up => process' = n /\ intents' = [intents EXCEPT ![works[w].intent].proc = n]
      /\ ~up => process' = process
  BY DEF Spawns
<1>3. e.intent = Now
  BY <1>1 DEF Launched
<1> HIDE DEF e
<1>4. /\ IsSeq(procs) /\ Len(procs) \in Nat /\ DOMAIN procs = 1..Len(procs)
      /\ Now \in DOMAIN intents
      /\ intents[Now] \in Intents
  BY SeqDomain, TypedFacts DEF Owed, Formed, Told
<1>5. (\A p \in DOMAIN procs : procs'[p] = procs[p]) /\ procs'[n] = e
  BY <1>2, <1>4, Appended
<1>6. Asked'
  <2>1. CASE up
    <3>1. process' = n /\ intents' = [intents EXCEPT ![Now].proc = n]
      BY <1>1, <1>2, <2>1
    <3>2. intents'[Now].proc = n /\ DOMAIN intents' = DOMAIN intents
      BY <1>4, <3>1 DEF Intents
    <3>3. Now' = Now
      BY <3>2, NowIsNat, TypedFacts DEF Told
    <3> QED BY <1>1, <1>3, <1>4, <1>5, <3>1, <3>2, <3>3 DEF Asked
  <2>2. CASE ~up
    BY <1>1, <1>2, <2>2 DEF Asked
  <2> QED BY <2>1, <2>2
<1>7. ASSUME NEW r \in Receipts PROVE Logged(r)' /\ Abandoned(r)'
  <2>1. Logs(r)
    BY GoesLogs, CallsFacts DEF Left, Forward
  <2>2. calls[r].to # None => procs'[calls[r].to] = procs[calls[r].to]
    BY <1>5, SentTo
  <2>3. Abandoned(r)'
    BY <1>1, <2>1, <2>2, AbandonedStays DEF Left
  <2> QED BY <2>1, <2>3 DEF Logs
<1> QED BY <1>6, <1>7 DEF Left

LEMMA StopEndsLeft ==
    ASSUME Owed, Told, Left, StopEnds, Told', Forward PROVE Left'
<1>1. /\ stop.on /\ stop' = NoStop /\ UNCHANGED <<platform, procs, process, failed>>
      /\ Over(stop.work) /\ Terminated(stop.proc)
  BY DEF StopEnds
<1>2. process = None /\ (stop.proc # None => ~procs[stop.proc].tree)
  BY <1>1, BarrierDone
<1>3. Asked'
  BY <1>1, <1>2 DEF Asked, NoStop
<1>4. ASSUME NEW r \in Receipts PROVE Logged(r)' /\ Abandoned(r)'
  <2>1. Logs(r)
    BY GoesLogs, CallsFacts DEF Left, Forward
  <2>2. Abandoned(r)'
    BY <1>1, <1>2, <2>1, AbandonedStays DEF Left
  <2> QED BY <2>1, <2>2 DEF Logs
<1> QED BY <1>3, <1>4 DEF Left

LEMMA StopFailsLeft ==
    ASSUME Owed, Told, Left, StopFails, Told', Forward PROVE Left'
<1>1. /\ stop.on /\ stop' = NoStop /\ failed' = (platform = "windows")
      /\ UNCHANGED <<platform, procs, process>>
      /\ intents' = [intents EXCEPT ![stop.intent].conf = "bad"]
  BY DEF StopFails, Overdue
<1>2. stop.intent \in DOMAIN intents /\ stop.intent # Now
  BY <1>1 DEF Told, Halting
<1>3. /\ Now' = Now /\ DOMAIN intents' = DOMAIN intents /\ Now \in DOMAIN intents
      /\ \A j \in DOMAIN intents : /\ intents'[j].proc = intents[j].proc
                                   /\ intents'[j].error = intents[j].error
  BY <1>1, <1>2, ConfChanges, TypedFacts DEF Told, Confs
<1>4. Asked'
  BY <1>1, <1>3 DEF Left, Asked, NoStop
<1>5. ASSUME NEW r \in Receipts PROVE Logged(r)' /\ Abandoned(r)'
  <2>1. Logs(r)
    BY GoesLogs, CallsFacts DEF Left, Forward
  <2>2. calls[r].to # None /\ procs'[calls[r].to].tree => platform = "windows"
    BY <1>1, SentTo
  <2>3. ~failed
    BY <1>1 DEF Left, Asked
  <2>4. Abandoned(r)'
    BY <1>1, <2>1, <2>2, <2>3, AbandonedStays DEF Left
  <2> QED BY <2>1, <2>4 DEF Logs
<1> QED BY <1>4, <1>5 DEF Left

LEMMA ExitsLeft ==
    ASSUME Owed, Told, Left, NEW x \in DOMAIN procs, Exits(x), Told', Forward PROVE Left'
<1> DEFINE i == procs[process].intent
           lost == {r \in Receipts : Owned(r) /\ Used(r) /\ calls[r].intent = i}
           unsure == ~intents[i].error /\ platform = "windows" /\ lost # {}
<1>1. x = process
  BY ProcessFacts DEF Exits, Told, OneUp
<1>2. /\ process \in DOMAIN procs /\ process # None /\ process' = None
      /\ stop' = stop /\ platform' = platform
      /\ (failed => failed') /\ (unsure => failed') /\ (failed' => failed \/ unsure)
  BY <1>1, ProcessFacts DEF Exits
<1> HIDE DEF lost, unsure
<1>3. PICK clean \in BOOLEAN :
        procs' = [procs EXCEPT ![process].at = "exited", ![process].clean = clean]
  BY <1>1 DEF Exits
<1>4. /\ procs'[process].tree = procs[process].tree
      /\ \A q \in DOMAIN procs : q # process => procs'[q] = procs[q]
  BY <1>2, <1>3, ProcessFacts DEF Shaped
<1>5. stop.on => ~failed /\ intents[i].error
  BY <1>2 DEF Told, Halting, Left, Asked
<1>6. Asked'
  BY <1>2, <1>5 DEF Asked, unsure
<1>7. ASSUME NEW r \in Receipts PROVE Logged(r)' /\ Abandoned(r)'
  <2>1. Logs(r)
    BY GoesLogs, CallsFacts DEF Left, Forward
  <2>2. calls'[r].to = calls[r].to
    BY ExitsCalls DEF Keeps
  <2>3. calls[r].to # None => /\ calls[r].to \in DOMAIN procs /\ calls[r].at \notin {"new", "made"}
                              /\ procs[calls[r].to].intent = calls[r].intent
                              /\ (platform # "windows" => ~procs[calls[r].to].tree)
    BY SentTo
  <2>4. Abandoned(r)'
    <3>1. CASE calls[r].to # process
      <4>1. calls[r].to # None => procs'[calls[r].to] = procs[calls[r].to]
        BY <1>4, <2>3, <3>1
      <4> QED BY <1>2, <2>1, <2>2, <3>1, <4>1, AbandonedStays DEF Left
    <3>2. CASE calls[r].to = process /\ intents[Now].proc # process
      <4>1. platform = "windows" => failed' \/ (stop'.on /\ stop'.proc = process)
        BY <1>2, <3>2 DEF Left, Asked
      <4> QED BY <1>2, <1>4, <2>2, <2>3, <3>2, <4>1 DEF Abandoned
    <3>3. CASE calls[r].to = process /\ intents[Now].proc = process
      <4>1. i = Now /\ ~intents[Now].error
        BY <1>2, <3>3, TypedFacts DEF Told, Linked, Current
      <4>2. calls[r].status # "none" /\ (calls[r].status = "completed" => Finished(r))
        BY <1>2, <3>3 DEF Left, Logged, Finished
      <4>3. calls[r].status # "confirmed"
        BY <1>2, <2>3, <3>3, <4>1 DEF Told, Rightly
      <4>4. Finished(r) \/ r \in lost
        BY <1>2, <2>3, <3>3, <4>1, <4>2, <4>3 DEF Owned, Used, lost
      <4>5. platform = "windows" => failed' \/ Finished(r)'
        BY <1>2, <2>1, <4>1, <4>4 DEF Logs, unsure
      <4> QED BY <1>2, <1>4, <2>2, <2>3, <3>3, <4>5 DEF Abandoned
    <3> QED BY <3>1, <3>2, <3>3
  <2> QED BY <2>1, <2>4 DEF Logs
<1> QED BY <1>6, <1>7 DEF Left

\* A step that changes nothing but one record of a process, or nothing of them.
LEMMA ProcessLeft ==
    ASSUME Owed, Told, Left, Told', Forward, UNCHANGED <<platform, intents, process, failed>>,
           stop'.on = stop.on, stop'.proc = stop.proc,
           \A p \in DOMAIN procs : /\ procs[p].at = "up" => procs'[p].at = "up"
                                   /\ procs'[p].tree => procs[p].tree
    PROVE  Left'
<1>1. ASSUME NEW r \in Receipts PROVE Logs(r)
  BY <1>1, GoesLogs, CallsFacts DEF Left, Forward
<1> QED BY <1>1, LeftAsIs DEF Forward, Now

\* An intent is confirmed, or waits for its own work.
LEMMA ConfLeft ==
    ASSUME Owed, Told, Left, Told', Forward, UNCHANGED <<platform, procs, process, failed, stop>>,
           NEW i \in DOMAIN intents, i # Now, NEW v \in Confs,
           intents' = [intents EXCEPT ![i].conf = v]
    PROVE  Left'
<1>1. ASSUME NEW r \in Receipts PROVE Logs(r)
  BY <1>1, GoesLogs, CallsFacts DEF Left, Forward
<1>2. Now' = Now /\ intents'[Now].proc = intents[Now].proc
  BY ConfChanges, TypedFacts DEF Told
<1> QED BY <1>1, <1>2, LeftAsIs DEF Forward

LEMMA CancelsLeft ==
    ASSUME Owed, Told, Left, NEW r \in Receipts, Cancels(r), Told', Forward PROVE Left'
<1>1. CASE Stops({r}) /\ Used(r) /\ Owned(r)
  <2>1. \A c \in Calls \cap {r} : calls[c].at \notin {"new", "made"}
    BY <1>1 DEF Used, Owned, Told, Rightly
  <2> QED BY <1>1, <2>1, StopsTells, StopsLeft
<1>2. CASE UNCHANGED <<intents, procs, stop, platform, process, failed>>
  BY <1>2, ProcessLeft
<1>3. CASE /\ Owned(r) /\ Used(r) /\ intents[calls[r].intent].error
           /\ intents' = [intents EXCEPT ![calls[r].intent].conf = "own"]
           /\ UNCHANGED <<procs, stop, platform, process, failed>>
  <2>1. calls[r].intent \in DOMAIN intents /\ calls[r].intent # Now
    BY <1>3 DEF Owned, Told, Rightly, Current
  <2> QED BY <1>3, <2>1, ConfLeft DEF Confs
<1> QED BY <1>1, <1>2, <1>3 DEF Cancels

LEMMA ValidatedLeft ==
    ASSUME Owed, Told, Left, NEW w \in DOMAIN works, Validated(w), Told', Forward PROVE Left'
<1>1. works[w].at = "validating" /\ UNCHANGED <<platform, stop, failed>>
  BY DEF Validated
<1>2. CASE UNCHANGED <<intents, procs, process>>
  BY <1>1, <1>2, ProcessLeft
<1>3. CASE ~works[w].cancelled /\ \E up \in BOOLEAN : Spawns(w, up)
  BY <1>1, <1>3, SpawnsLeft
<1> QED BY <1>2, <1>3 DEF Validated

LEMMA RunsLeft == ASSUME Owed, Told, Left, Runs PROVE Left'
<1>1. Told' /\ Forward
  BY RunsKeep
<1>2. CASE Settles
  <2>1. ASSUME NEW i \in DOMAIN intents, Confirms(i) PROVE Left'
    <3>1. i # Now
      BY <2>1 DEF Confirms, Told, Current
    <3> QED BY <1>1, <2>1, <3>1, ConfLeft DEF Confirms, Confs
  <2> QED BY <1>1, <1>2, <2>1, StopEndsLeft, StopFailsLeft DEF Settles
<1>3. CASE Proceeds
  <2>1. ASSUME NEW w \in DOMAIN works, Validated(w) PROVE Left'
    BY <1>1, <2>1, ValidatedLeft
  <2>2. CASE Ready
    <3>1. /\ process \in DOMAIN procs /\ procs' = [procs EXCEPT ![process].ready = TRUE]
          /\ UNCHANGED <<platform, intents, process, stop, failed>>
      BY <2>2, ProcessFacts DEF Ready
    <3>2. ASSUME NEW p \in DOMAIN procs
          PROVE  procs'[p].at = procs[p].at /\ procs'[p].tree = procs[p].tree
      BY <3>1, ProcessFacts DEF Shaped
    <3> QED BY <1>1, <3>1, <3>2, ProcessLeft
  <2>3. CASE StartTimeout
    BY <2>3, StopsTells, StopsLeft DEF StartTimeout
  <2>4. ASSUME NEW c \in Calls, RequestTimeout(c) PROVE Left'
    BY <2>4, StopsTells, StopsLeft DEF RequestTimeout
  <2>5. ASSUME NEW c \in Calls, Answer(c) PROVE Left'
    BY <1>1, <2>5, ProcessLeft DEF Answer
  <2> QED BY <1>3, <2>1, <2>2, <2>3, <2>4, <2>5 DEF Proceeds
<1>4. CASE System
  <2>1. CASE KillsTree
    <3>1. /\ procs' = [procs EXCEPT ![stop.proc].tree = FALSE]
          /\ stop' = [stop EXCEPT !.util = FALSE]
          /\ UNCHANGED <<platform, intents, process, failed>>
      BY <2>1 DEF KillsTree
    <3>2. ASSUME NEW p \in DOMAIN procs
          PROVE  procs'[p].at = procs[p].at /\ (procs'[p].tree => procs[p].tree)
      BY <3>1, ProcessFacts DEF Shaped
    <3>3. stop'.on = stop.on /\ stop'.proc = stop.proc
      BY <3>1 DEF Told, Typed, Barriers
    <3> QED BY <1>1, <3>1, <3>2, <3>3, ProcessLeft
  <2>2. ASSUME NEW p \in DOMAIN procs, Exits(p) PROVE Left'
    BY <1>1, <2>2, ExitsLeft
  <2>3. ASSUME NEW p \in DOMAIN procs, Drains(p) PROVE Left'
    <3>1. /\ procs' = [procs EXCEPT ![p].at = "drained"] /\ procs[p].at = "exited"
          /\ UNCHANGED <<platform, intents, process, stop, failed>>
      BY <2>3 DEF Drains
    <3>2. ASSUME NEW q \in DOMAIN procs
          PROVE  /\ procs[q].at = "up" => procs'[q].at = "up"
                 /\ procs'[q].tree => procs[q].tree
      BY <3>1, ProcessFacts DEF Shaped
    <3> QED BY <1>1, <3>1, <3>2, ProcessLeft
  <2> QED BY <1>4, <2>1, <2>2, <2>3 DEF System
<1>5. ASSUME NEW r \in Receipts, Cancels(r) PROVE Left'
  BY <1>1, <1>5, CancelsLeft
<1> QED BY <1>2, <1>3, <1>4, <1>5 DEF Runs

---------------------------------------------------------------------------
(* Each step of Main.                                                      *)

LEMMA ClientLeft ==
    ASSUME Left, UNCHANGED <<platform, intents, procs, process, stop, failed, calls>>
    PROVE  Left'
BY DEF Left, Asked, Logged, Abandoned, Finished, Now

LEMMA StopOwnedLeft ==
    ASSUME Owed, Told, Left, MainTyped, RetireOwned, StopOwned PROVE Left'
<1>1. CASE attempt = "waiting"
  BY <1>1, ClientLeft DEF StopOwned
<1>2. CASE attempt # "waiting"
  BY <1>2, StopsTells, StopsLeft DEF StopOwned
<1> QED BY <1>1, <1>2

LEMMA RequestLeft ==
    ASSUME Owed, Told, Left, NEW c \in Calls, Request(c)
    PROVE  Left' /\ \A r \in Receipts \ {c} : calls'[r] = calls[r]
<1>1. /\ Told' /\ Now' = Now /\ Now \in DOMAIN intents'
      /\ intents'[Now].proc = intents[Now].proc
      /\ \A d \in Calls \ {c} : calls'[d] = calls[d]
      /\ calls'[c].to \in {calls[c].to, process}
      /\ c \in Receipts => calls'[c].status \in {"starting", "running"}
      /\ UNCHANGED <<platform, procs, process, stop, failed>>
  BY RequestFacts
<1>2. Moves
  BY RequestTells
<1>3. c \in Receipts => calls[c].at = "made"
  BY DEF Request
<1>4. ASSUME NEW r \in Receipts PROVE Logs(r)
  BY <1>1, <1>3, CallsFacts DEF Left, Logs, Logged, Finished
<1> QED BY <1>1, <1>2, <1>4, LeftAsIs, CallsFacts

LEMMA CreateLeft ==
    ASSUME Owed, Told, Left, NEW c \in Receipts, Create(c) PROVE Left'
<1>1. c \in Calls /\ calls[c].at = "new" /\ calls[c].to = None
  BY CallsFacts DEF Create, Told, Rightly
<1>2. /\ calls'[c].to = None /\ calls'[c].status = "unused"
      /\ \A d \in Calls \ {c} : calls'[d] = calls[d]
      /\ UNCHANGED <<platform, intents, works, procs, process, stop, failed>>
  BY <1>1 DEF Create, NewCall, Told, Typed
<1>3. ASSUME NEW r \in Receipts PROVE Logs(r)
  BY <1>1, <1>2, CallsFacts DEF Left, Logs, Logged, Finished
<1> QED BY <1>2, <1>3, LeftAsIs, CreateTells DEF Now

\* What was freed stays so while no process begins.
LEMMA UnreadStays ==
    ASSUME Owed, Told, Moves, Left, Unread, freed \subseteq Receipts, freed' = freed,
           attempt # "none" => attempt' # "none",
           freed # {} => process' = None /\ \A r \in freed : Logs(r)
    PROVE  Unread'
<1> SUFFICES ASSUME NEW r \in freed, calls'[r].to # None
             PROVE  Finished(r)' \/ ~Alive(calls[r].to)'
  BY DEF Unread, Finished, Alive
<1>1. Logs(r) /\ process = None /\ r \in Receipts
  BY DEF Unread
<1>2. calls'[r].to = calls[r].to
  BY <1>1 DEF Logs
<1>3. calls[r].to \in DOMAIN procs
  BY <1>1, <1>2, SentTo
<1> QED BY <1>1, <1>2, <1>3 DEF Unread, Logs, Moves

\* A stop that is confirmed frees every task: no process is there, and what one that
\* exited may have left is not of a receipt that is not over.
LEMMA StopFrees ==
    ASSUME Owed, Told, Left, StopEnds, Told', Forward, Owed',
           attempt' # "none", freed' \subseteq Receipts
    PROVE  Unread'
<1>1. Left' /\ ~stop'.on /\ UNCHANGED <<platform, procs, process, failed>> /\ ~failed
  BY StopEndsLeft DEF StopEnds, NoStop, Left, Asked
<1>2. process = None
  BY BarrierDone DEF StopEnds
<1> SUFFICES ASSUME NEW r \in freed', calls'[r].to # None
             PROVE  Finished(r)' \/ ~Alive(calls[r].to)'
  BY <1>1, <1>2 DEF Unread
<1>3. r \in Receipts
  OBVIOUS
<1>4. calls'[r].to \in DOMAIN procs'
  <2>1. Rightly(r)'
    BY <1>3 DEF Told
  <2>2. calls'[r].to = intents'[calls'[r].intent].proc /\ calls'[r].intent \in DOMAIN intents'
    BY <2>1 DEF Rightly
  <2> QED BY <2>2 DEF Told, Linked
<1>5. procs'[calls'[r].to].at # "up"
  BY <1>1, <1>2, <1>4 DEF Told, OneUp
<1>6. ~procs'[calls'[r].to].tree \/ Finished(r)'
  BY <1>1, <1>3, <1>5 DEF Left, Abandoned
<1> QED BY <1>5, <1>6 DEF Alive

\* Tasks are freed by a barrier that is confirmed, and by nothing else.
LEMMA RunsFree ==
    ASSUME Owed, Told, Runs, Follows, freed' # freed PROVE StopEnds /\ attempt' # "none"
<1>1. stop.on /\ ~stop'.on /\ intents'[stop.intent].conf = "ok" /\ attempt' = "ok"
  BY DEF Follows
<1>2. ASSUME NEW over, Stops(over) PROVE FALSE
  BY <1>1, <1>2 DEF Stops
<1>3. ~StopFails
  <2>1. stop.intent \in DOMAIN intents /\ stop.intent # Now
    BY <1>1 DEF Told, Halting
  <2>2. StopFails => intents'[stop.intent].conf = "bad"
    BY <2>1, ConfChanges DEF StopFails, Confs
  <2> QED BY <1>1, <2>2
<1>4. KillsTree => stop'.on = stop.on
  BY DEF KillsTree, Told, Typed, Barriers
<1> QED BY <1>1, <1>2, <1>3, <1>4
        DEF Runs, Settles, Proceeds, System, Cancels, Confirms, Validated, Ready, StartTimeout,
            RequestTimeout, Answer, Exits, Drains

LEMMA RunsAlone ==
    ASSUME Runs, lease.retired, process = None PROVE process' = None
<1>1. ASSUME NEW w, Validated(w) PROVE process' = None
  BY <1>1 DEF Validated, Authorised
<1> QED BY <1>1 DEF Runs, Settles, StopEnds, StopFails, Confirms, Proceeds, Ready, StartTimeout,
                    Answer, RequestTimeout, System, KillsTree, Exits, Drains, Cancels, Stops

LEMMA NextMainLeft ==
    ASSUME Owed, Told, MainInv, Left, Unread, [NextMain]_allVars PROVE Left' /\ Unread'
<1>1. Owed' /\ Told' /\ MainInv'
  BY NextMainHolds
<1>2. freed \subseteq Receipts /\ (freed # {} => lease.retired /\ attempt # "none" /\ process = None)
  BY DEF MainInv, MainTyped, Possessed, Unread
<1>3. CASE Runs /\ Follows
  <2>1. Left' /\ Forward
    BY <1>3, RunsLeft, RunsKeep
  <2>2. CASE freed' = freed
    <3>1. attempt # "none" => attempt' # "none"
      BY <1>3 DEF Follows
    <3>2. freed # {} => process' = None
      BY <1>2, <1>3, RunsAlone
    <3>3. \A r \in Receipts : Logs(r)
      BY <2>1, GoesLogs, CallsFacts DEF Left, Forward
    <3> QED BY <1>2, <2>1, <2>2, <3>1, <3>2, <3>3, UnreadStays DEF Forward
  <2>3. CASE freed' # freed
    <3>1. StopEnds /\ attempt' # "none" /\ freed' \subseteq Receipts
      BY <1>1, <1>3, <2>3, RunsFree DEF MainInv, MainTyped
    <3> QED BY <1>1, <2>1, <3>1, StopFrees
  <2> QED BY <2>1, <2>2, <2>3
<1>4. CASE UNCHANGED <<platform, intents, procs, process, stop, failed, calls, attempt, freed>>
  <2>1. Unread'
    BY <1>4 DEF Unread, Finished, Alive
  <2> QED BY <1>4, <2>1, ClientLeft
<1>5. CASE RetireOwned /\ StopOwned
  <2>1. Forward /\ freed' = freed /\ attempt' # "none"
    BY <1>5, StopOwnedKeeps DEF MainInv
  <2>2. process' = process
    BY <1>5 DEF StopOwned, Stops
  <2>3. \A r \in Receipts : Logs(r)
    BY <2>1, GoesLogs, CallsFacts DEF Left, Forward
  <2>4. Left'
    BY <1>5, StopOwnedLeft DEF MainInv
  <2> QED BY <1>2, <2>1, <2>2, <2>3, <2>4, UnreadStays DEF Forward
<1>6. ASSUME NEW c \in {Boot, Health}, Request(c), UNCHANGED <<attempt, freed>>
      PROVE  Left' /\ Unread'
  <2>1. /\ Left' /\ UNCHANGED <<procs, process>>
        /\ \A r \in Receipts : calls'[r] = calls[r]
    <3>1. c \in Calls /\ c \notin Receipts
      BY CallsFacts
    <3>2. Left' /\ \A r \in Receipts : calls'[r] = calls[r]
      BY <1>6, <3>1, RequestLeft
    <3> QED BY <1>6, <3>2 DEF Request
  <2> QED BY <1>2, <1>6, <2>1 DEF Unread, Finished, Alive
<1>7. CASE PageAsks
  <2>1. freed' = {}
    <3>1. attempt = "none"
      BY <1>7 DEF PageAsks, MayAsk, Admitted, MainInv, Running
    <3> QED BY <1>2, <1>7, <3>1 DEF PageAsks, mainVars
  <2>2. Unread'
    BY <2>1 DEF Unread
  <2> QED BY <1>7, <2>2, RequestLeft, CreateLeft, CallsFacts DEF PageAsks
<1>8. CASE LaunchBinds \/ LaunchGoesOn
  BY <1>4, <1>6, <1>8 DEF LaunchBinds, LaunchGoesOn, vars
<1>9. CASE LaunchGivesUp \/ ProbeAborts \/ Quit
  BY <1>4, <1>5, <1>9 DEF LaunchGivesUp, GivesUp, ProbeAborts, Quit, clientVars
<1>10. CASE LaunchCleans \/ QuitReleases \/ UNCHANGED <<vars, attempt, freed>> \/ UNCHANGED allVars
  BY <1>4, <1>10 DEF LaunchCleans, QuitReleases, allVars, mainVars, vars
<1> QED BY <1>3, <1>7, <1>8, <1>9, <1>10, NextMainCases

\* An input is kept as long as a process could read it: a task lets go of it when its
\* receipt is over and completed, or when it, or a stop of Main, was confirmed; and the
\* confirmation is not given while the process the input was sent to, or on Windows a
\* descendant of it, may be there (cleanupTranscriptionInput, confirmFinalStop).
THEOREM InputsAreKept == SpecMain => []InputOutlivesReader
<1>1. Owed /\ Told /\ Unread => InputOutlivesReader
  <2> SUFFICES ASSUME Owed, Told, Unread, NEW r \in Receipts, calls[r].to # None,
                      calls[r].at = "over", TaskOver(r), calls[r].status # "completed"
               PROVE  ~Alive(calls[r].to)
    BY DEF InputOutlivesReader
  <2>1. CASE calls[r].status = "confirmed"
    <3>1. Quiet(calls[r].intent)
      BY <2>1 DEF Told, Rightly, Done
    <3> QED BY <3>1, SentTo DEF Quiet
  <2>2. CASE r \in freed
    BY <2>2 DEF Unread, Finished
  <2> QED BY <2>1, <2>2 DEF TaskOver
<1>2. InitMain => Left /\ Unread
  <2> SUFFICES ASSUME InitMain PROVE Left /\ Unread
    OBVIOUS
  <2>1. process = None /\ ~stop.on /\ freed = {}
    BY DEF InitMain, Init, NoStop
  <2>2. \A c \in Calls : calls[c].to = None /\ calls[c].status = "none"
    BY DEF InitMain, Init, NewCall
  <2> QED BY <2>1, <2>2, CallsFacts DEF Left, Asked, Logged, Abandoned, Unread
<1>3. (Owed /\ Told /\ MainInv) /\ (Left /\ Unread) /\ [NextMain]_allVars => (Left /\ Unread)'
  BY NextMainLeft
<1>4. SpecMain => [](Left /\ Unread)
  BY <1>2, <1>3, MainIsSound, PTL DEF SpecMain
<1> QED BY <1>1, <1>4, MainIsSound, PTL
=============================================================================
